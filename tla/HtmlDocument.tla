----------------------------- MODULE HtmlDocument -----------------------------
(***************************************************************************)
(* The node table of a document: how the built-in parser fills it in one    *)
(* pass over the text (core/src/dom/backend/parser_naive.cpp), and how      *)
(* html_parser.cpp then numbers the nodes and measures their depth.         *)
(*                                                                          *)
(* A text is the sequence of the pieces the scanner tells apart; a place in *)
(* it is a position in that sequence.  A string cut out of the text is the  *)
(* places it was cut from, for no property reads its letters.               *)
(*                                                                          *)
(* Nodes count from 1 here and from 0 in the code; 0 stands for no parent.  *)
(***************************************************************************)
EXTENDS Integers, SequencesExt

CONSTANTS
    Html,        \* the texts to parse
    Tag,         \* the names of elements, in lower case
    VoidTags,    \* those that never stay open (area, br, frame, img...)
    RawTags,     \* those whose content is no markup (script and style)
    Attributes   \* what an element may carry

Token ==
    [kind : {"open"}, tag : Tag, attributes : Attributes, self_close : BOOLEAN]
    \cup [kind : {"close"}, tag : Tag]
    \cup [kind : {"text", "comment"}]

ASSUME HtmlAssumption == Html \subseteq Seq(Token)

VARIABLES
    html,       \* the text being parsed
    phase,      \* what is being done to the document
    i,          \* the next place the scanner reads
    nodes,      \* doc.nodes, by node_id
    stack,      \* the open elements, outermost first
    doc_order,  \* the numbers given so far
    max_depth,  \* the depths found so far
    walk        \* the stack of the walk over the finished table

docVars == <<html, phase, i, nodes, stack, doc_order, max_depth, walk>>

Places == 1..Len(html)

\* A stretch of the text, its end excluded: the empty one is what inner_html
\* is until it is set.
Nothing == [from |-> 0, to |-> 0]

Stretch(from, to) == [from |-> from, to |-> to]
----------------------------------------------------------------------------
(* parse_html_naive. *)

Innermost == Last(stack)

IsOpen(n) == \E k \in 1..Len(stack) : stack[k].id = n

current_parent == IF stack = <<>> THEN 0 ELSE Innermost.id

NewNode(token) ==
    [tag |-> token.tag, attributes |-> token.attributes, parent |-> current_parent,
     text |-> {}, inner |-> Nothing]

\* Comments are skipped, and so is a "<" that begins nothing.
Skip ==
    /\ html[i].kind = "comment"
    /\ i' = i + 1
    /\ UNCHANGED <<nodes, stack>>

content_start == i + 1

\* A mutation: the id is taken after the node is pushed, from the size less two.
new_id_before == Len(nodes)

new_id == Len(nodes) + 1

\* An element opens: one that is self-closed or void closes at once.
OpenTag ==
    /\ html[i].kind = "open"
    /\ html[i].self_close \/ html[i].tag \notin RawTags
    /\ nodes' = Append(nodes, NewNode(html[i]))
    /\ stack' = IF html[i].self_close \/ html[i].tag \in VoidTags THEN stack
                ELSE Append(stack, [id |-> new_id, start |-> content_start])
    /\ i' = i + 1

\* A script or a style: everything up to its closing tag, or to the end of the
\* text, is its content and its text, and no other element's.
OpenRaw ==
    /\ html[i].kind = "open"
    /\ ~html[i].self_close /\ html[i].tag \in RawTags
    /\ \E end \in i + 1 .. Len(html) + 1 :
          /\ end \in Places => html[end] = [kind |-> "close", tag |-> html[i].tag]
          /\ \A j \in i + 1 .. end - 1 : html[j] # [kind |-> "close", tag |-> html[i].tag]
          /\ nodes' = Append(nodes, [NewNode(html[i]) EXCEPT !.text = i + 1 .. end - 1,
                                                             !.inner = Stretch(i + 1, end)])
          /\ i' = IF end \in Places THEN end + 1 ELSE end
    /\ UNCHANGED stack

\* A closing tag closes the innermost open element, whatever its name.
CloseTag ==
    /\ html[i].kind = "close"
    /\ IF stack = <<>> THEN UNCHANGED <<nodes, stack>>
       ELSE /\ nodes' = [nodes EXCEPT ![Innermost.id].inner = Stretch(Innermost.start, i)]
            /\ stack' = Front(stack)
    /\ i' = i + 1

\* A mutation: text goes to the innermost open element only.
receives_innermost(n) == stack # <<>> /\ n = Innermost.id

\* Text goes to every open element.
receives(n) == IsOpen(n)

TextRun ==
    /\ html[i].kind = "text"
    /\ nodes' = [n \in 1..Len(nodes) |->
                    IF receives(n) THEN [nodes[n] EXCEPT !.text = @ \cup {i}] ELSE nodes[n]]
    /\ i' = i + 1
    /\ UNCHANGED stack

ParseStep ==
    /\ phase = "parse" /\ i \in Places
    /\ Skip \/ OpenTag \/ OpenRaw \/ CloseTag \/ TextRun
    /\ UNCHANGED <<html, phase, doc_order, max_depth, walk>>
----------------------------------------------------------------------------
(* compute_document_metadata. *)

Node == 1..Len(nodes)

\* The lists of children, once the first k nodes are read: each is pushed to the list of its
\* parent, a root to that of 0.
build_children[k \in 0 .. Len(nodes)] ==
    IF k = 0 THEN [n \in 0 .. Len(nodes) |-> <<>>]
    ELSE [build_children[k - 1] EXCEPT ![nodes[k].parent] = Append(@, k)]

\* The children of a node, or the roots, those of 0, in the order of the table.
Children(n) == build_children[Len(nodes)][n]

\* A mutation: the children are pushed first to last.
pushed_forwards(s) == s

\* The children are pushed last to first, so that the first is numbered next.
pushed(s) == Reverse(s)

\* The text is read: what is still open stays as it is, without an inner_html.
ParseEnds ==
    /\ phase = "parse" /\ i \notin Places
    /\ phase' = "order"
    /\ walk' = pushed(Children(0))
    /\ UNCHANGED <<html, i, nodes, stack, doc_order, max_depth>>

Unvisited(s) == [k \in 1..Len(s) |-> [id |-> s[k], visited |-> FALSE]]

\* assign_doc_order: the numbers are given in the order nodes leave the stack.
NumberNode ==
    /\ phase = "order" /\ walk # <<>>
    /\ doc_order' = Append(doc_order, Last(walk))
    /\ walk' = Front(walk) \o pushed(Children(Last(walk)))
    /\ UNCHANGED <<html, phase, i, nodes, stack, max_depth>>

OrderEnds ==
    /\ phase = "order" /\ walk = <<>>
    /\ phase' = "depth"
    /\ max_depth' = [n \in Node |-> 0]
    /\ walk' = Unvisited(Children(0))
    /\ UNCHANGED <<html, i, nodes, stack, doc_order>>

\* assign_max_depth: a node is measured when it is met again, after its children.
Kids(n) == {c \in Node : nodes[c].parent = n}

depth_of(n) == IF Kids(n) = {} THEN 0 ELSE Max({max_depth[k] : k \in Kids(n)}) + 1

MeasureNode ==
    /\ phase = "depth" /\ walk # <<>>
    /\ LET top == Last(walk)
           rest == Front(walk)
       IN  IF top.visited
           THEN /\ max_depth' = [max_depth EXCEPT ![top.id] = depth_of(top.id)]
                /\ walk' = rest
           ELSE /\ walk' = rest \o <<[top EXCEPT !.visited = TRUE]>> \o Unvisited(Children(top.id))
                /\ UNCHANGED max_depth
    /\ UNCHANGED <<html, phase, i, nodes, stack, doc_order>>

DepthEnds ==
    /\ phase = "depth" /\ walk = <<>>
    /\ phase' = "parsed"
    /\ UNCHANGED <<html, i, nodes, stack, doc_order, max_depth, walk>>
----------------------------------------------------------------------------
DocInit ==
    /\ html \in Html
    /\ phase = "parse" /\ i = 1
    /\ nodes = <<>> /\ stack = <<>>
    /\ doc_order = <<>> /\ max_depth = <<>> /\ walk = <<>>

MetadataStep == ParseEnds \/ NumberNode \/ OrderEnds \/ MeasureNode \/ DepthEnds

DocNext == ParseStep \/ MetadataStep

DocSpec == DocInit /\ [][DocNext]_docVars
----------------------------------------------------------------------------
(* What the rest of the engine relies on. *)

\* Types of the document.
DocTypeOK ==
    /\ html \in Html /\ i \in 1..Len(html) + 1
    /\ nodes \in Seq([tag : Tag, attributes : Attributes, parent : Nat,
                      text : SUBSET Nat, inner : [from : Nat, to : Nat]])
    /\ stack \in Seq([id : Nat, start : Nat])

\* The table is a tree in the order of the text: a parent comes before its
\* children, and every node between a node and its parent hangs below that
\* parent, so that a subtree is a run of consecutive nodes, whatever closing
\* tags are missing, superfluous or of another element's name.
Nested ==
    \A n \in Node :
        /\ nodes[n].parent < n
        /\ \A m \in nodes[n].parent + 1 .. n : nodes[m].parent >= nodes[n].parent

\* Three strings that three handlers append to and cut agree: an element's text
\* holds all of its children's, scripts and styles excepted; its inner_html,
\* once it is closed, holds its text and its children's inner_html, and the
\* inner_html of two elements is never cut so that they overlap.
Within(a, b) == b.from <= a.from /\ a.to <= b.to

ContentNested ==
    \A n \in Node :
        /\ nodes[n].inner # Nothing =>
              nodes[n].text \subseteq nodes[n].inner.from .. nodes[n].inner.to - 1
        /\ \A p \in Node :
              nodes[n].parent = p =>
                  /\ nodes[n].tag \notin RawTags => nodes[n].text \subseteq nodes[p].text
                  /\ nodes[n].inner # Nothing /\ nodes[p].inner # Nothing
                        => Within(nodes[n].inner, nodes[p].inner)

\* The stack climbs down the table and along the text: later elements are open
\* inside of earlier ones.
StackClimbs ==
    /\ \A k \in 1..Len(stack) : stack[k].id \in Node /\ stack[k].start \in 1..i
    /\ \A j, k \in 1..Len(stack) :
          j < k => stack[j].id < stack[k].id /\ stack[j].start <= stack[k].start

\* An open element's parent is the one below it on the stack.
StackIsLineage ==
    \A k \in 1..Len(stack) :
        nodes[stack[k].id].parent = IF k = 1 THEN 0 ELSE stack[k - 1].id

\* What came after an open element is inside of it.
OpenHoldsTheRest ==
    \A k \in 1..Len(stack) : \A m \in Node : stack[k].id < m => stack[k].id <= nodes[m].parent

\* An open element has no inner_html yet, and its text came after its tag.
OpenContent ==
    \A k \in 1..Len(stack) :
        /\ nodes[stack[k].id].inner = Nothing
        /\ nodes[stack[k].id].text \subseteq stack[k].start .. i - 1

\* The children of an open element that are closed were closed after its tag.
ClosedInside ==
    \A k \in 1..Len(stack) : \A n \in Node :
        nodes[n].parent = stack[k].id /\ nodes[n].inner # Nothing
          => stack[k].start <= nodes[n].inner.from /\ nodes[n].inner.to <= i

\* The invariant of parse_html_naive: what Nested and ContentNested rest on while
\* some elements are still open, on the same stack that says where text goes, what
\* a closing tag closes and whose child comes next.
DocInv ==
    /\ DocTypeOK
    /\ StackClimbs /\ StackIsLineage /\ OpenHoldsTheRest
    /\ OpenContent /\ ClosedInside
    /\ Nested /\ ContentNested

\* doc_order, found by a walk over the finished tree, is the order of the text:
\* it is the node_id, which every ORDER BY doc_order and every join relies on.
DocOrderIsNodeId ==
    /\ \A k \in 1..Len(doc_order) : doc_order[k] = k
    /\ phase \in {"parse", "order"} \/ Len(doc_order) = Len(nodes)

\* max_depth, measured bottom-up by the second walk, is the length of the longest
\* path down from a node, which INNER_HTML(x, MAX_DEPTH) cuts at.
lineage[n \in 0 .. Len(nodes)] == IF n = 0 THEN {} ELSE {n} \cup lineage[nodes[n].parent]

Levels(n, m) == Cardinality(lineage[m]) - Cardinality(lineage[n])

Height(n) == Max({Levels(n, m) : m \in {k \in Node : n \in lineage[k]}})

MaxDepthIsHeight ==
    phase \notin {"parse", "order", "depth"} => \A n \in Node : max_depth[n] = Height(n)

\* The first walk holds, the next on top, the nodes whose parents are numbered and
\* that are not themselves: the one to be numbered next is the next of the table.
Frontier(k) == {n \in Node : k < n /\ nodes[n].parent <= k}

OrderWalk ==
    phase = "order" =>
        /\ Len(doc_order) <= Len(nodes)
        /\ walk \in Seq(Frontier(Len(doc_order)))
        /\ Frontier(Len(doc_order)) \subseteq ToSet(walk)
        /\ \A j, k \in 1..Len(walk) : j < k => walk[k] < walk[j]

\* The second walk meets the last child first, so that it measures the table from its
\* end: it holds, of the nodes that are left, those whose parents it has visited.
Visited == {walk[j].id : j \in {k \in 1..Len(walk) : walk[k].visited}}

LeftToMeasure(last) ==
    /\ {walk[j].id : j \in 1..Len(walk)} = {n \in 1..last : nodes[n].parent \in {0} \cup Visited}
    /\ \A n \in last + 1 .. Len(nodes) :
          /\ max_depth[n] = Height(n)
          /\ nodes[n].parent \in {0} \cup Visited \cup last + 1 .. Len(nodes)

DepthWalk ==
    phase = "depth" =>
        /\ walk \in Seq([id : Node, visited : BOOLEAN])
        /\ \A j, k \in 1..Len(walk) : j < k => walk[j].id < walk[k].id
        /\ DOMAIN max_depth = Node
        /\ \E last \in 0..Len(nodes) : LeftToMeasure(last)

\* The invariant of compute_document_metadata.
MetadataInv ==
    /\ doc_order \in Seq(Nat) /\ (phase = "parse" => doc_order = <<>>)
    /\ OrderWalk /\ DepthWalk
    /\ DocOrderIsNodeId /\ MaxDepthIsHeight
=============================================================================
