-------------------------- MODULE HtmlDocumentProofs --------------------------
(***************************************************************************)
(* The node table of every text, of any length, is a tree in text order     *)
(* whose texts and contents nest, it stays one while queries are answered   *)
(* from it, and the walks that number and measure it agree with the tree    *)
(* that its parents draw.                                                   *)
(***************************************************************************)
EXTENDS EngineProperties, DataLemmas

TableRecord == [tag : Tag, attributes : Attributes, parent : Nat,
               text : SUBSET Nat, inner : [from : Nat, to : Nat]]

OpenRecord == [id : Nat, start : Nat]
----------------------------------------------------------------------------
(* The pieces of a text, and the ends of the stack. *)

LEMMA TokenParts ==
    ASSUME NEW t \in Token
    PROVE  /\ t.kind \in {"open", "close", "text", "comment"}
           /\ t.kind = "open" => t.tag \in Tag /\ t.attributes \in Attributes
  BY DEF Token

LEMMA Reading ==
    ASSUME DocInv, i \in Places
    PROVE  /\ html \in Seq(Token) /\ html[i] \in Token
           /\ Len(html) \in Nat /\ i \in Nat /\ i >= 1
           /\ Len(nodes) \in Nat /\ Len(stack) \in Nat
           /\ \A n \in Node : nodes[n] \in TableRecord
           /\ \A k \in 1..Len(stack) : stack[k] \in OpenRecord
  <1>1. html \in Seq(Token) /\ i \in 1..Len(html)
    BY HtmlAssumption DEF DocInv, DocTypeOK, Places
  <1>2. nodes \in Seq(TableRecord) /\ stack \in Seq(OpenRecord)
    BY DEF DocInv, DocTypeOK, TableRecord, OpenRecord
  <1>3. /\ html[i] \in Token
        /\ Len(html) \in Nat /\ i \in Nat /\ i >= 1
    BY <1>1
  <1>4. Len(nodes) \in Nat /\ \A n \in Node : nodes[n] \in TableRecord
    BY <1>2 DEF Node
  <1>5. Len(stack) \in Nat /\ \A k \in 1..Len(stack) : stack[k] \in OpenRecord
    BY <1>2
  <1> QED BY <1>1, <1>3, <1>4, <1>5

LEMMA InitDocInv == DocInit => DocInv
  BY HtmlAssumption
     DEF DocInit, DocInv, DocTypeOK, StackClimbs, StackIsLineage, OpenHoldsTheRest, OpenContent,
         ClosedInside, Nested, ContentNested, Node

LEMMA LongerStretch ==
    ASSUME NEW a \in Nat, NEW b \in Nat, NEW c \in Nat, b < c
    PROVE  \A j \in a .. b - 1 : j \in a .. c - 1
  OBVIOUS

\* The new node's parent: the innermost open element, or none.
LEMMA ParentIsOpen ==
    ASSUME DocInv, i \in Places
    PROVE  /\ current_parent \in 0..Len(nodes)
           /\ stack = <<>> => current_parent = 0
           /\ stack # <<>> => /\ Len(stack) \in 1..Len(stack)
                             /\ current_parent = stack[Len(stack)].id
                             /\ current_parent # 0
           /\ \A k \in 1..Len(stack) : stack[k].id <= current_parent
           /\ \A m \in Node : current_parent < m => current_parent <= nodes[m].parent
  <1>1. Len(nodes) \in Nat /\ Len(stack) \in Nat
    BY Reading
  <1>2. CASE stack = <<>>
    BY <1>1, <1>2, Reading DEF current_parent, Node, TableRecord
  <1>3. CASE stack # <<>>
    <2>1. Len(stack) \in 1..Len(stack)
      BY <1>1, <1>3 DEF DocInv, DocTypeOK
    <2>2. current_parent = stack[Len(stack)].id
      BY <1>3 DEF current_parent, Innermost, Last
    <2>3. current_parent \in 1..Len(nodes)
      BY <2>1, <2>2 DEF DocInv, StackClimbs, Node
    <2>4. \A k \in 1..Len(stack) : stack[k].id <= current_parent
      <3>1. SUFFICES ASSUME NEW k \in 1..Len(stack), k # Len(stack)
                     PROVE  stack[k].id <= stack[Len(stack)].id
        BY <2>2, <2>3
      <3>2. k < Len(stack)
        BY <3>1, <1>1
      <3>3. stack[k].id < stack[Len(stack)].id
        BY <2>1, <3>1, <3>2 DEF DocInv, StackClimbs
      <3>4. stack[k].id \in Nat /\ stack[Len(stack)].id \in Nat
        BY <2>1, Reading DEF OpenRecord
      <3> QED BY <3>3, <3>4
    <2>5. \A m \in Node : current_parent < m => current_parent <= nodes[m].parent
      BY <2>1, <2>2 DEF DocInv, OpenHoldsTheRest
    <2> QED BY <1>1, <1>3, <2>1, <2>2, <2>3, <2>4, <2>5
  <1> QED BY <1>2, <1>3
----------------------------------------------------------------------------
(* Every step of the parser keeps the invariant. *)

\* A comment, or a closing tag when nothing is open.
LEMMA MovingOnKeeps ==
    ASSUME DocInv, i \in Places, html' = html, nodes' = nodes, stack' = stack, i' = i + 1
    PROVE  DocInv'
  <1>1. nodes' = nodes /\ stack' = stack /\ i' = i + 1
    OBVIOUS
  <1>2. i \in Nat /\ i' \in 1..Len(html') + 1
    BY <1>1, Reading DEF Places
  <1>3. DocTypeOK'
    BY <1>1, <1>2 DEF DocInv, DocTypeOK
  <1>4. StackClimbs' /\ StackIsLineage' /\ OpenHoldsTheRest'
    BY <1>1, <1>2 DEF DocInv, StackClimbs, StackIsLineage, OpenHoldsTheRest, Node
  <1>5. OpenContent'
    <2> SUFFICES ASSUME NEW k \in 1..Len(stack)
                 PROVE  /\ nodes[stack[k].id].inner = Nothing
                        /\ nodes[stack[k].id].text \subseteq stack[k].start .. (i + 1) - 1
      BY <1>1 DEF OpenContent, Nothing
    <2>1. stack[k].start \in Nat
      BY Reading DEF OpenRecord
    <2> QED BY <1>2, <2>1, SMTT(30) DEF DocInv, OpenContent
  <1>6. ClosedInside'
    <2> SUFFICES ASSUME NEW k \in 1..Len(stack), NEW n \in Node,
                        nodes[n].parent = stack[k].id, nodes[n].inner # Nothing
                 PROVE  stack[k].start <= nodes[n].inner.from /\ nodes[n].inner.to <= i + 1
      BY <1>1 DEF ClosedInside, Nothing, Node
    <2>1. nodes[n].inner.to \in Nat
      BY Reading DEF TableRecord
    <2> QED BY <1>2, <2>1 DEF DocInv, ClosedInside
  <1>7. Nested' /\ ContentNested'
    BY <1>1 DEF DocInv, Nested, ContentNested, Node, Nothing, Within
  <1> QED BY <1>3, <1>4, <1>5, <1>6, <1>7 DEF DocInv

\* Appending a node whose parent is the innermost open element.
LEMMA Appending ==
    ASSUME DocInv, i \in Places, NEW new \in TableRecord,
           new.parent = current_parent, nodes' = Append(nodes, new)
    PROVE  /\ nodes' \in Seq(TableRecord) /\ Len(nodes') = Len(nodes) + 1
           /\ Node' = Node \cup {Len(nodes) + 1} /\ Len(nodes) + 1 \notin Node
           /\ \A n \in Node : nodes'[n] = nodes[n]
           /\ nodes'[Len(nodes) + 1] = new
           /\ Nested'
  <1>1. nodes \in Seq(TableRecord) /\ Len(nodes) \in Nat
    BY DEF DocInv, DocTypeOK, TableRecord
  <1>2. /\ nodes' \in Seq(TableRecord) /\ Len(nodes') = Len(nodes) + 1
        /\ \A n \in 1..Len(nodes) : nodes'[n] = nodes[n]
        /\ nodes'[Len(nodes) + 1] = new
    BY <1>1
  <1>3. Node' = Node \cup {Len(nodes) + 1} /\ Len(nodes) + 1 \notin Node
    BY <1>1, <1>2 DEF Node
  <1>4. ASSUME NEW n \in Node
        PROVE  /\ nodes'[n].parent = nodes[n].parent /\ nodes[n].parent \in Nat
               /\ nodes[n].parent < n
               /\ \A m \in nodes[n].parent + 1 .. n : nodes'[m].parent >= nodes[n].parent
    <2>1. nodes[n] \in TableRecord /\ n \in 1..Len(nodes)
      BY <1>1 DEF Node
    <2>2. /\ nodes[n].parent < n
          /\ \A m \in nodes[n].parent + 1 .. n : nodes[m].parent >= nodes[n].parent
      BY DEF DocInv, Nested
    <2>3. nodes[n].parent \in Nat
      BY <2>1 DEF TableRecord
    <2>4. \A m \in nodes[n].parent + 1 .. n : m \in 1..Len(nodes)
      BY <1>1, <2>1, <2>3
    <2> QED BY <1>2, <2>1, <2>2, <2>3, <2>4
  <1>5. /\ new.parent < Len(nodes) + 1
        /\ \A m \in new.parent + 1 .. Len(nodes) + 1 : nodes'[m].parent >= new.parent
    <2>1. new.parent \in 0..Len(nodes)
      BY ParentIsOpen
    <2>2. ASSUME NEW m \in new.parent + 1 .. Len(nodes) + 1
          PROVE  nodes'[m].parent >= new.parent
      <3>1. CASE m = Len(nodes) + 1
        BY <1>2, <2>1, <3>1
      <3>2. CASE m # Len(nodes) + 1
        <4>1. m \in Node /\ new.parent < m
          BY <1>1, <2>1, <3>2 DEF Node
        <4>2. new.parent <= nodes[m].parent
          BY <4>1, ParentIsOpen
        <4> QED BY <1>2, <1>4, <2>1, <4>1, <4>2
      <3> QED BY <3>1, <3>2
    <2> QED BY <1>1, <2>1, <2>2
  <1>6. Nested'
    <2> SUFFICES ASSUME NEW n \in Node'
                 PROVE  /\ nodes'[n].parent < n
                        /\ \A m \in nodes'[n].parent + 1 .. n : nodes'[m].parent >= nodes'[n].parent
      BY DEF Nested
    <2>1. CASE n \in Node
      BY <1>4, <2>1
    <2>2. CASE n = Len(nodes) + 1
      BY <1>2, <1>5, <2>2
    <2> QED BY <1>3, <2>1, <2>2
  <1> QED BY <1>2, <1>3, <1>6 DEF Node

\* The stack over an appended node, which it does not hold.
LEMMA AppendingKeepsStack ==
    ASSUME DocInv, i \in Places, NEW new \in TableRecord,
           new.parent = current_parent, nodes' = Append(nodes, new),
           i' \in Nat, i < i', new.inner # Nothing => i <= new.inner.from /\ new.inner.to <= i',
           NEW k \in 1..Len(stack)
    PROVE  /\ stack[k].id \in Node' /\ stack[k].start \in 1..i'
           /\ nodes'[stack[k].id].parent = IF k = 1 THEN 0 ELSE stack[k - 1].id
           /\ \A m \in Node' : stack[k].id < m => stack[k].id <= nodes'[m].parent
           /\ nodes'[stack[k].id].inner = Nothing
           /\ nodes'[stack[k].id].text \subseteq stack[k].start .. i' - 1
           /\ \A n \in Node' :
                 nodes'[n].parent = stack[k].id /\ nodes'[n].inner # Nothing
                   => stack[k].start <= nodes'[n].inner.from /\ nodes'[n].inner.to <= i'
  <1>1. /\ Node' = Node \cup {Len(nodes) + 1}
        /\ \A n \in Node : nodes'[n] = nodes[n]
        /\ nodes'[Len(nodes) + 1] = new
    BY Appending
  <1>2. /\ stack[k].id \in Node /\ stack[k].start \in 1..i
        /\ nodes[stack[k].id].parent = IF k = 1 THEN 0 ELSE stack[k - 1].id
        /\ \A m \in Node : stack[k].id < m => stack[k].id <= nodes[m].parent
        /\ nodes[stack[k].id].inner = Nothing
        /\ nodes[stack[k].id].text \subseteq stack[k].start .. i - 1
        /\ \A n \in Node :
              nodes[n].parent = stack[k].id /\ nodes[n].inner # Nothing
                => stack[k].start <= nodes[n].inner.from /\ nodes[n].inner.to <= i
    BY DEF DocInv, StackClimbs, StackIsLineage, OpenHoldsTheRest, OpenContent, ClosedInside
  <1>3. i \in Nat
    BY Reading
  <1>4. stack[k].id <= new.parent
    BY ParentIsOpen
  <1>5. \A n \in Node : nodes[n].inner.to \in Nat
    BY Reading DEF TableRecord
  <1>6. new.inner.from \in Nat /\ new.inner.to \in Nat
    BY DEF TableRecord
  <1>7. \A m \in Node' : stack[k].id < m => stack[k].id <= nodes'[m].parent
    BY <1>1, <1>2, <1>4
  <1>8. nodes'[stack[k].id].text \subseteq stack[k].start .. i' - 1
    <2>1. nodes'[stack[k].id].text \subseteq stack[k].start .. i - 1
      BY <1>1, <1>2
    <2>2. stack[k].start \in Nat
      BY Reading DEF OpenRecord
    <2>3. \A j \in stack[k].start .. i - 1 : j \in stack[k].start .. i' - 1
      BY <1>3, <2>2, LongerStretch
    <2> QED BY <2>1, <2>3
  <1>9. ASSUME NEW n \in Node', nodes'[n].parent = stack[k].id, nodes'[n].inner # Nothing
        PROVE  stack[k].start <= nodes'[n].inner.from /\ nodes'[n].inner.to <= i'
    <2>1. CASE n \in Node
      <3>1. nodes'[n] = nodes[n]
        BY <1>1, <2>1
      <3>2. stack[k].start <= nodes[n].inner.from /\ nodes[n].inner.to <= i
        BY <1>2, <1>9, <2>1, <3>1
      <3>3. nodes[n].inner.to \in Nat
        BY <1>5, <2>1
      <3> QED BY <1>3, <3>1, <3>2, <3>3
    <2>2. CASE n = Len(nodes) + 1
      BY <1>1, <1>2, <1>3, <1>6, <1>9, <2>2
    <2> QED BY <1>1, <2>1, <2>2
  <1>10. stack[k].start \in 1..i'
    BY <1>2, <1>3
  <1> QED BY <1>1, <1>2, <1>7, <1>8, <1>9, <1>10

\* The content of the tree with an appended node, empty or a raw one.
LEMMA AppendingKeepsContent ==
    ASSUME DocInv, i \in Places, NEW new \in TableRecord,
           new.parent = current_parent, nodes' = Append(nodes, new),
           new.text = {} \/ new.tag \in RawTags,
           new.inner # Nothing => new.text \subseteq new.inner.from .. new.inner.to - 1
    PROVE  ContentNested'
  <1>1. /\ Node' = Node \cup {Len(nodes) + 1}
        /\ \A n \in Node : nodes'[n] = nodes[n]
        /\ nodes'[Len(nodes) + 1] = new
        /\ Len(nodes) \in Nat
    BY Appending, Reading
  <1>2. \A n \in Node : nodes[n].parent < n /\ nodes[n].parent \in Nat
    BY Reading DEF DocInv, Nested, TableRecord
  <1>3. new.parent \in 0..Len(nodes)
    BY ParentIsOpen
  <1>4. ASSUME NEW n \in Node'
        PROVE  nodes'[n].inner # Nothing =>
                  nodes'[n].text \subseteq nodes'[n].inner.from .. nodes'[n].inner.to - 1
    BY <1>1 DEF DocInv, ContentNested
  <1>5. ASSUME NEW n \in Node', NEW p \in Node', nodes'[n].parent = p
        PROVE  /\ nodes'[n].tag \notin RawTags => nodes'[n].text \subseteq nodes'[p].text
               /\ nodes'[n].inner # Nothing /\ nodes'[p].inner # Nothing
                     => Within(nodes'[n].inner, nodes'[p].inner)
    <2>1. p \in Node
      BY <1>1, <1>2, <1>3, <1>5 DEF Node
    <2>2. CASE n \in Node
      BY <1>1, <1>5, <2>1, <2>2, ZenonT(40) DEF DocInv, ContentNested
    <2>3. CASE n = Len(nodes) + 1
      <3>1. p = current_parent /\ p # 0
        BY <1>1, <1>5, <2>1, <2>3 DEF Node
      <3>2. nodes[p].inner = Nothing
        BY <3>1, ParentIsOpen DEF DocInv, OpenContent
      <3> QED BY <1>1, <2>1, <2>3, <3>2
    <2> QED BY <1>1, <2>2, <2>3
  <1> QED BY <1>4, <1>5 DEF ContentNested, Nothing, Within

LEMMA OpenTagKeeps ==
    ASSUME DocInv, i \in Places, html' = html, OpenTag
    PROVE  DocInv'
  <1> DEFINE new == NewNode(html[i])
             opened == [id |-> Len(nodes) + 1, start |-> i + 1]
  <1>1. /\ html[i].kind = "open" /\ nodes' = Append(nodes, new) /\ i' = i + 1
        /\ stack' = stack \/ stack' = Append(stack, opened)
    BY DEF OpenTag, new_id, content_start
  <1>2. /\ i \in Nat /\ i >= 1 /\ i' \in 1..Len(html') + 1
        /\ Len(stack) \in Nat /\ Len(nodes) \in Nat
    BY <1>1, Reading DEF Places
  <1>3. new.parent = current_parent /\ new.text = {} /\ new.inner = Nothing
    BY DEF NewNode
  <1>4. new \in TableRecord
    BY <1>1, Reading, TokenParts, ParentIsOpen DEF NewNode, TableRecord, Nothing
  <1> HIDE DEF new
  <1>5. /\ nodes' \in Seq(TableRecord) /\ Len(nodes') = Len(nodes) + 1
        /\ Node' = Node \cup {Len(nodes) + 1}
        /\ \A n \in Node : nodes'[n] = nodes[n]
        /\ nodes'[Len(nodes) + 1] = new
        /\ Nested'
    BY <1>1, <1>3, <1>4, Appending
  <1>6. ContentNested'
    BY <1>1, <1>3, <1>4, AppendingKeepsContent
  <1>7. ASSUME NEW k \in 1..Len(stack)
        PROVE  /\ stack[k].id \in Node' /\ stack[k].start \in 1..i'
               /\ nodes'[stack[k].id].parent = IF k = 1 THEN 0 ELSE stack[k - 1].id
               /\ \A m \in Node' : stack[k].id < m => stack[k].id <= nodes'[m].parent
               /\ nodes'[stack[k].id].inner = Nothing
               /\ nodes'[stack[k].id].text \subseteq stack[k].start .. i' - 1
               /\ \A n \in Node' :
                     nodes'[n].parent = stack[k].id /\ nodes'[n].inner # Nothing
                       => stack[k].start <= nodes'[n].inner.from /\ nodes'[n].inner.to <= i'
    <2>1. i' \in Nat /\ i < i'
      BY <1>1, <1>2
    <2> QED BY <1>1, <1>3, <1>4, <2>1, AppendingKeepsStack
  <1>8. DocTypeOK'
    <2>1. stack \in Seq(OpenRecord) /\ opened \in OpenRecord
      BY <1>2 DEF DocInv, DocTypeOK, OpenRecord
    <2>2. stack' \in Seq(OpenRecord)
      BY <1>1, <2>1
    <2>3. html' \in Html
      BY DEF DocInv, DocTypeOK
    <2> QED BY <1>2, <1>5, <2>2, <2>3 DEF DocTypeOK, TableRecord, OpenRecord
  <1>9. CASE stack' = stack
    <2>1. StackClimbs'
      BY <1>7, <1>9 DEF DocInv, StackClimbs
    <2>2. StackIsLineage' /\ OpenHoldsTheRest' /\ OpenContent' /\ ClosedInside'
      BY <1>7, <1>9 DEF StackIsLineage, OpenHoldsTheRest, OpenContent, ClosedInside, Nothing
    <2> QED BY <1>5, <1>6, <1>8, <2>1, <2>2 DEF DocInv
  <1>10. CASE stack' = Append(stack, opened)
    <2>1. /\ Len(stack') = Len(stack) + 1
          /\ \A k \in 1..Len(stack) : stack'[k] = stack[k]
          /\ stack'[Len(stack) + 1] = opened
      BY <1>10 DEF DocInv, DocTypeOK
    <2>2. 1..Len(stack') = 1..Len(stack) \cup {Len(stack) + 1}
      BY <1>2, <2>1
    <2>3. opened.id = Len(nodes) + 1 /\ opened.start = i + 1
      OBVIOUS
    <2> HIDE DEF opened
    <2>4. StackClimbs'
      <3>1. \A k \in 1..Len(stack') : stack'[k].id \in Node' /\ stack'[k].start \in 1..i'
        BY <1>1, <1>2, <1>5, <1>7, <2>1, <2>2, <2>3
      <3>2. ASSUME NEW j \in 1..Len(stack'), NEW k \in 1..Len(stack'), j < k
            PROVE  stack'[j].id < stack'[k].id /\ stack'[j].start <= stack'[k].start
        <4>1. j \in 1..Len(stack)
          BY <1>2, <2>1, <3>2
        <4>2. CASE k \in 1..Len(stack)
          BY <2>1, <3>2, <4>1, <4>2 DEF DocInv, StackClimbs
        <4>3. CASE k = Len(stack) + 1
          <5>1. stack[j].id \in Node /\ stack[j].start \in 1..i
            BY <4>1 DEF DocInv, StackClimbs
          <5>2. stack[j].id < Len(nodes) + 1 /\ stack[j].start <= i + 1
            BY <1>2, <5>1, SMTT(30) DEF Node
          <5> QED BY <2>1, <2>3, <4>1, <4>3, <5>2
        <4> QED BY <2>2, <4>2, <4>3
      <3> QED BY <3>1, <3>2 DEF StackClimbs
    <2>5. StackIsLineage'
      <3>1. ASSUME NEW k \in 1..Len(stack')
            PROVE  nodes'[stack'[k].id].parent = IF k = 1 THEN 0 ELSE stack'[k - 1].id
        <4>1. CASE k \in 1..Len(stack)
          <5>1. k # 1 => k - 1 \in 1..Len(stack)
            BY <1>2, <4>1
          <5> QED BY <1>7, <2>1, <4>1, <5>1
        <4>2. CASE k = Len(stack) + 1
          <5>1. nodes'[stack'[k].id].parent = current_parent
            BY <1>3, <1>5, <2>1, <2>3, <4>2
          <5>2. CASE stack = <<>>
            BY <4>2, <5>1, <5>2, ParentIsOpen
          <5>3. CASE stack # <<>>
            <6>1. current_parent = stack[Len(stack)].id /\ Len(stack) \in 1..Len(stack)
              BY <5>3, ParentIsOpen
            <6>2. k # 1 /\ k - 1 = Len(stack)
              BY <1>2, <4>2, <6>1
            <6> QED BY <2>1, <5>1, <6>1, <6>2
          <5> QED BY <5>2, <5>3
        <4> QED BY <2>2, <4>1, <4>2
      <3> QED BY <3>1 DEF StackIsLineage
    <2>6. OpenHoldsTheRest'
      <3>1. \A m \in Node' : ~(Len(nodes) + 1 < m)
        BY <1>2, <1>5 DEF Node
      <3> QED BY <1>7, <2>1, <2>2, <2>3, <3>1 DEF OpenHoldsTheRest
    <2>7. OpenContent'
      <3>1. /\ nodes'[Len(nodes) + 1].inner = Nothing
            /\ nodes'[Len(nodes) + 1].text = {}
        BY <1>3, <1>5
      <3> QED BY <1>7, <2>1, <2>2, <2>3, <3>1 DEF OpenContent, Nothing
    <2>8. ClosedInside'
      <3>1. \A n \in Node : nodes[n].parent < Len(nodes) + 1
        <4>1. \A n \in Node : nodes[n].parent < n /\ nodes[n].parent \in Nat
          BY Reading DEF DocInv, Nested, TableRecord
        <4> QED BY <1>2, <4>1 DEF Node
      <3>2. new.parent < Len(nodes) + 1
        BY <1>2, <1>3, ParentIsOpen
      <3>3. \A n \in Node' : nodes'[n].parent # Len(nodes) + 1
        <4>1. \A n \in Node : nodes[n].parent \in Nat
          BY Reading DEF TableRecord
        <4>2. new.parent \in Nat
          BY <1>4 DEF TableRecord
        <4> QED BY <1>2, <1>5, <3>1, <3>2, <4>1, <4>2
      <3> QED BY <1>7, <2>1, <2>2, <2>3, <3>3 DEF ClosedInside, Nothing
    <2> QED BY <1>5, <1>6, <1>8, <2>4, <2>5, <2>6, <2>7, <2>8 DEF DocInv
  <1> QED BY <1>1, <1>9, <1>10

LEMMA OpenRawKeeps ==
    ASSUME DocInv, i \in Places, html' = html, OpenRaw
    PROVE  DocInv'
  <1>1. PICK end \in i + 1 .. Len(html) + 1 :
          /\ nodes' = Append(nodes, [NewNode(html[i]) EXCEPT !.text = i + 1 .. end - 1,
                                                             !.inner = Stretch(i + 1, end)])
          /\ i' = IF end \in Places THEN end + 1 ELSE end
    BY DEF OpenRaw
  <1> DEFINE new == [NewNode(html[i]) EXCEPT !.text = i + 1 .. end - 1,
                                             !.inner = Stretch(i + 1, end)]
  <1>2. html[i].kind = "open" /\ html[i].tag \in RawTags /\ stack' = stack
    BY DEF OpenRaw
  <1>3. i \in Nat /\ i >= 1 /\ end \in Nat /\ Len(html) \in Nat
    BY Reading
  <1>4. i' \in 1..Len(html') + 1 /\ i' \in Nat /\ i < i' /\ end <= i'
    BY <1>1, <1>3 DEF Places
  <1>5. /\ new.parent = current_parent /\ new.tag = html[i].tag
        /\ new.text = i + 1 .. end - 1
        /\ new.inner = [from |-> i + 1, to |-> end]
    BY DEF NewNode, Stretch
  <1>6. new \in TableRecord
    <2>1. html[i].tag \in Tag /\ html[i].attributes \in Attributes
      BY <1>2, Reading, TokenParts
    <2>2. current_parent \in Nat
      BY ParentIsOpen, Reading
    <2>3. i + 1 .. end - 1 \in SUBSET Nat /\ Stretch(i + 1, end) \in [from : Nat, to : Nat]
      BY <1>3 DEF Stretch
    <2> QED BY <2>1, <2>2, <2>3 DEF NewNode, TableRecord
  <1>7. nodes' = Append(nodes, new)
    BY <1>1
  <1> HIDE DEF new
  <1>8. /\ new.inner.from = i + 1 /\ new.inner.to = end
        /\ i <= new.inner.from /\ new.inner.to <= i'
    BY <1>3, <1>4, <1>5
  <1>9. nodes' \in Seq(TableRecord) /\ Nested'
    BY <1>5, <1>6, <1>7, Appending
  <1>10. ContentNested'
    BY <1>2, <1>5, <1>6, <1>7, <1>8, AppendingKeepsContent
  <1>11. ASSUME NEW k \in 1..Len(stack)
         PROVE  /\ stack[k].id \in Node' /\ stack[k].start \in 1..i'
                /\ nodes'[stack[k].id].parent = IF k = 1 THEN 0 ELSE stack[k - 1].id
                /\ \A m \in Node' : stack[k].id < m => stack[k].id <= nodes'[m].parent
                /\ nodes'[stack[k].id].inner = Nothing
                /\ nodes'[stack[k].id].text \subseteq stack[k].start .. i' - 1
                /\ \A n \in Node' :
                      nodes'[n].parent = stack[k].id /\ nodes'[n].inner # Nothing
                        => stack[k].start <= nodes'[n].inner.from /\ nodes'[n].inner.to <= i'
    BY <1>4, <1>5, <1>6, <1>7, <1>8, AppendingKeepsStack
  <1>12. DocTypeOK'
    BY <1>2, <1>4, <1>9 DEF DocInv, DocTypeOK, TableRecord
  <1>13. StackClimbs'
    BY <1>2, <1>11 DEF DocInv, StackClimbs
  <1>14. StackIsLineage' /\ OpenHoldsTheRest' /\ OpenContent' /\ ClosedInside'
    BY <1>2, <1>11 DEF StackIsLineage, OpenHoldsTheRest, OpenContent, ClosedInside, Nothing
  <1> QED BY <1>9, <1>10, <1>12, <1>13, <1>14 DEF DocInv

LEMMA CloseTagKeeps ==
    ASSUME DocInv, i \in Places, html' = html, CloseTag
    PROVE  DocInv'
  <1>1. CASE stack = <<>>
    BY <1>1, MovingOnKeeps DEF CloseTag
  <1>2. CASE stack # <<>>
    <2> DEFINE L == Len(stack)
               top == stack[L]
               t == top.id
               closed == [from |-> top.start, to |-> i]
    <2>1. nodes' = [nodes EXCEPT ![t].inner = closed] /\ stack' = Front(stack) /\ i' = i + 1
      BY <1>2 DEF CloseTag, Innermost, Last, Stretch
    <2>2. /\ L \in Nat /\ L \in 1..L /\ i \in Nat /\ i >= 1 /\ Len(nodes) \in Nat
          /\ \A n \in Node : nodes[n] \in TableRecord
          /\ i' \in 1..Len(html') + 1
      BY <1>2, <2>1, Reading, ParentIsOpen DEF Places
    <2>3. /\ nodes \in Seq(TableRecord) /\ stack \in Seq(OpenRecord)
          /\ html \in Html
      BY DEF DocInv, DocTypeOK, TableRecord, OpenRecord
    <2>4. t \in Node /\ top.start \in 1..i /\ top \in OpenRecord
      BY <2>2, <2>3 DEF DocInv, StackClimbs
    <2>5. closed.from = top.start /\ closed.to = i /\ closed \in [from : Nat, to : Nat]
      BY <2>2, <2>4
    <2>6. /\ nodes' \in Seq(TableRecord) /\ Node' = Node
          /\ \A n \in Node : n # t => nodes'[n] = nodes[n]
          /\ nodes'[t].inner = closed
          /\ \A n \in Node : /\ nodes'[n].parent = nodes[n].parent
                             /\ nodes'[n].tag = nodes[n].tag
                             /\ nodes'[n].text = nodes[n].text
      <3>1. Len(nodes') = Len(nodes) /\ DOMAIN nodes = 1..Len(nodes)
        BY <2>1, <2>3
      <3>2. [nodes[t] EXCEPT !.inner = closed] \in TableRecord
        BY <2>2, <2>4, <2>5 DEF TableRecord
      <3>3. nodes' \in Seq(TableRecord)
        BY <2>1, <2>3, <2>4, <3>2 DEF Node
      <3>4. nodes'[t] = [nodes[t] EXCEPT !.inner = closed]
        BY <2>1, <2>4, <3>1 DEF Node
      <3>5. \A n \in Node : n # t => nodes'[n] = nodes[n]
        BY <2>1, <3>1 DEF Node
      <3>6. /\ nodes'[t].inner = closed /\ nodes'[t].parent = nodes[t].parent
            /\ nodes'[t].tag = nodes[t].tag /\ nodes'[t].text = nodes[t].text
        BY <2>2, <2>4, <3>4 DEF TableRecord
      <3> QED BY <3>1, <3>3, <3>5, <3>6 DEF Node
    <2>7. /\ stack' \in Seq(OpenRecord) /\ Len(stack') = L - 1
          /\ \A k \in 1..L - 1 : stack'[k] = stack[k]
      BY <1>2, <2>1, <2>3, FrontOf
    <2>8. /\ 1..Len(stack') = 1..L - 1
          /\ \A k \in 1..L - 1 : k \in 1..L /\ (k # 1 => k - 1 \in 1..L - 1)
      BY <2>2, <2>7
    <2> HIDE DEF closed, L
    <2>9. \A k \in 1..L - 1 :
              /\ stack[k].id \in Node /\ stack[k].start \in 1..i
              /\ stack[k].id < t /\ stack[k].start <= top.start
              /\ stack[k].id # t
      <3>1. ASSUME NEW k \in 1..L - 1
            PROVE  /\ stack[k].id \in Node /\ stack[k].start \in 1..i
                   /\ stack[k].id < t /\ stack[k].start <= top.start
        <4>1. k \in 1..Len(stack) /\ L \in 1..Len(stack) /\ k < L
          BY <2>2, <2>8 DEF L
        <4> QED BY <4>1 DEF DocInv, StackClimbs
      <3>2. \A n \in Node : n < t => n # t
        BY <2>2, <2>4 DEF Node
      <3> QED BY <3>1, <3>2
    <2>10. DocTypeOK'
      BY <2>2, <2>3, <2>6, <2>7 DEF DocTypeOK, TableRecord, OpenRecord
    <2>11. StackClimbs'
      <3>1. \A k \in 1..L - 1 : stack[k].start \in 1..i'
        BY <2>1, <2>2, <2>9
      <3> QED BY <2>6, <2>7, <2>8, <2>9, <3>1 DEF DocInv, StackClimbs, L
    <2>12. StackIsLineage' /\ OpenHoldsTheRest'
      <3>1. \A k \in 1..L - 1 : nodes'[stack[k].id].parent = IF k = 1 THEN 0 ELSE stack[k - 1].id
        BY <2>6, <2>8, <2>9 DEF DocInv, StackIsLineage, L
      <3>2. StackIsLineage'
        BY <2>7, <2>8, <3>1 DEF StackIsLineage
      <3>3. OpenHoldsTheRest'
        BY <2>6, <2>7, <2>8, <2>9 DEF DocInv, OpenHoldsTheRest, L
      <3> QED BY <3>2, <3>3
    <2>13. OpenContent'
      <3>1. ASSUME NEW k \in 1..L - 1
            PROVE  /\ nodes[stack[k].id].inner = Nothing
                   /\ nodes[stack[k].id].text \subseteq stack[k].start .. (i + 1) - 1
        <4>1. k \in 1..Len(stack) /\ stack[k].start \in Nat
          BY <2>8, <2>9 DEF L
        <4>2. nodes[stack[k].id].inner = Nothing /\ nodes[stack[k].id].text \subseteq stack[k].start .. i - 1
          BY <4>1 DEF DocInv, OpenContent
        <4>3. \A j \in stack[k].start .. i - 1 : j \in stack[k].start .. (i + 1) - 1
          BY <2>2, <4>1
        <4> QED BY <4>2, <4>3
      <3> QED BY <2>1, <2>6, <2>7, <2>8, <2>9, <3>1 DEF OpenContent, Nothing
    <2>14. ClosedInside'
      <3>1. ASSUME NEW k \in 1..L - 1, NEW n \in Node,
                   nodes[n].parent = stack[k].id, nodes'[n].inner # Nothing
            PROVE  stack[k].start <= nodes'[n].inner.from /\ nodes'[n].inner.to <= i'
        <4>1. CASE n = t
          BY <2>1, <2>2, <2>5, <2>6, <2>9, <4>1
        <4>2. CASE n # t
          <5>1. nodes'[n] = nodes[n] /\ nodes[n].inner.to \in Nat
            BY <2>2, <2>6, <4>2 DEF TableRecord
          <5>2. stack[k].start <= nodes[n].inner.from /\ nodes[n].inner.to <= i
            BY <2>8, <3>1, <5>1 DEF DocInv, ClosedInside, L
          <5>3. nodes[n].inner.to <= i + 1
            BY <2>2, <5>1, <5>2
          <5> QED BY <2>1, <5>1, <5>2, <5>3
        <4> QED BY <4>1, <4>2
      <3> QED BY <2>6, <2>7, <2>8, <3>1 DEF ClosedInside, Nothing
    <2>15. Nested'
      <3>1. \A n \in Node : nodes[n].parent \in Nat
        BY <2>2 DEF TableRecord
      <3>2. ASSUME NEW n \in Node
            PROVE  \A m \in nodes[n].parent + 1 .. n : m \in Node
        BY <2>2, <3>1 DEF Node
      <3> QED BY <2>6, <3>2 DEF DocInv, Nested
    <2>16. ContentNested'
      <3>1. ASSUME NEW n \in Node, nodes'[n].inner # Nothing
            PROVE  nodes'[n].text \subseteq nodes'[n].inner.from .. nodes'[n].inner.to - 1
        <4>1. CASE n = t
          BY <2>2, <2>5, <2>6, <4>1 DEF DocInv, OpenContent, L
        <4>2. CASE n # t
          BY <2>6, <3>1, <4>2 DEF DocInv, ContentNested
        <4> QED BY <4>1, <4>2
      <3>2. ASSUME NEW n \in Node, NEW p \in Node, nodes[n].parent = p,
                   nodes'[n].inner # Nothing, nodes'[p].inner # Nothing
            PROVE  Within(nodes'[n].inner, nodes'[p].inner)
        <4>1. CASE n = t
          <5>1. p = IF L = 1 THEN 0 ELSE stack[L - 1].id
            BY <2>2, <3>2, <4>1 DEF DocInv, StackIsLineage, L
          <5>2. p # 0
            BY <2>2 DEF Node
          <5>3. L - 1 \in 1..L - 1 /\ p = stack[L - 1].id
            BY <2>2, <5>1, <5>2
          <5>4. p # t /\ nodes[p].inner = Nothing
            BY <2>8, <2>9, <5>3 DEF DocInv, OpenContent, L
          <5> QED BY <2>6, <3>2, <5>4
        <4>2. CASE n # t /\ p = t
          <5>1. nodes'[n] = nodes[n]
            BY <2>6, <4>2
          <5>2. top.start <= nodes[n].inner.from /\ nodes[n].inner.to <= i
            BY <2>2, <3>2, <4>2, <5>1 DEF DocInv, ClosedInside, L
          <5> QED BY <2>5, <2>6, <4>2, <5>1, <5>2 DEF Within
        <4>3. CASE n # t /\ p # t
          BY <2>6, <3>2, <4>3 DEF DocInv, ContentNested
        <4> QED BY <4>1, <4>2, <4>3
      <3>3. ASSUME NEW n \in Node, NEW p \in Node, nodes[n].parent = p,
                   nodes[n].tag \notin RawTags
            PROVE  nodes[n].text \subseteq nodes[p].text
        BY <3>3 DEF DocInv, ContentNested
      <3> QED BY <2>6, <3>1, <3>2, <3>3 DEF ContentNested, Nothing, Within
    <2> QED BY <2>10, <2>11, <2>12, <2>13, <2>14, <2>15, <2>16 DEF DocInv
  <1> QED BY <1>1, <1>2

LEMMA TextRunKeeps ==
    ASSUME DocInv, i \in Places, html' = html, TextRun
    PROVE  DocInv'
  <1>1. /\ nodes' = [n \in 1..Len(nodes) |->
                        IF IsOpen(n) THEN [nodes[n] EXCEPT !.text = @ \cup {i}] ELSE nodes[n]]
        /\ stack' = stack /\ i' = i + 1
    BY DEF TextRun, receives
  <1>2. /\ i \in Nat /\ i >= 1 /\ Len(nodes) \in Nat /\ i' \in 1..Len(html') + 1
        /\ \A n \in Node : nodes[n] \in TableRecord
        /\ \A k \in 1..Len(stack) : stack[k] \in OpenRecord
    BY <1>1, Reading DEF Places
  <1>3. ASSUME NEW n \in Node
        PROVE  /\ nodes'[n] \in TableRecord
               /\ nodes'[n].parent = nodes[n].parent /\ nodes'[n].tag = nodes[n].tag
               /\ nodes'[n].inner = nodes[n].inner
               /\ IsOpen(n) => nodes'[n].text = nodes[n].text \cup {i}
               /\ ~IsOpen(n) => nodes'[n].text = nodes[n].text
    <2>1. nodes[n] \in TableRecord
      BY <1>2
    <2>2. CASE IsOpen(n)
      <3>1. nodes'[n] = [nodes[n] EXCEPT !.text = nodes[n].text \cup {i}]
        BY <1>1, <2>2 DEF Node
      <3> QED BY <1>2, <2>1, <2>2, <3>1 DEF TableRecord
    <2>3. CASE ~IsOpen(n)
      <3>1. nodes'[n] = nodes[n]
        BY <1>1, <2>3 DEF Node
      <3> QED BY <2>1, <2>3, <3>1
    <2> QED BY <2>2, <2>3
  <1>4. nodes' \in Seq(TableRecord) /\ Len(nodes') = Len(nodes) /\ Node' = Node
    <2>1. DOMAIN nodes' = 1..Len(nodes) /\ \A n \in 1..Len(nodes) : nodes'[n] \in TableRecord
      BY <1>1, <1>3 DEF Node
    <2>2. nodes' = [n \in 1..Len(nodes) |-> nodes'[n]]
      BY <1>1
    <2>3. nodes' \in Seq(TableRecord) /\ Len(nodes') = Len(nodes)
      BY <1>2, <2>1, <2>2
    <2> QED BY <2>3 DEF Node
  <1>5. \A k \in 1..Len(stack) : stack[k].id \in Node /\ IsOpen(stack[k].id)
    BY DEF DocInv, StackClimbs, IsOpen
  <1>6. DocTypeOK'
    BY <1>1, <1>2, <1>4 DEF DocInv, DocTypeOK, TableRecord
  <1>7. StackClimbs'
    <2>1. \A k \in 1..Len(stack) : stack[k].start \in 1..i'
      BY <1>1, <1>2 DEF DocInv, StackClimbs
    <2> QED BY <1>1, <1>4, <2>1 DEF DocInv, StackClimbs
  <1>8. StackIsLineage' /\ OpenHoldsTheRest'
    <2>1. stack' = stack /\ Node' = Node /\ \A n \in Node : nodes'[n].parent = nodes[n].parent
      BY <1>1, <1>3, <1>4
    <2>2. StackIsLineage'
      BY <1>5, <2>1 DEF DocInv, StackIsLineage
    <2>3. OpenHoldsTheRest'
      BY <2>1 DEF DocInv, OpenHoldsTheRest
    <2> QED BY <2>2, <2>3
  <1>9. OpenContent'
    <2>1. ASSUME NEW k \in 1..Len(stack)
          PROVE  nodes'[stack[k].id].text \subseteq stack[k].start .. (i + 1) - 1
      <3>1. nodes[stack[k].id].text \subseteq stack[k].start .. i - 1
        BY DEF DocInv, OpenContent
      <3>2. stack[k].start \in Nat /\ stack[k].start <= i
        BY <1>2 DEF DocInv, StackClimbs
      <3>3. /\ \A j \in stack[k].start .. i - 1 : j \in stack[k].start .. (i + 1) - 1
            /\ i \in stack[k].start .. (i + 1) - 1
        BY <1>2, <3>2
      <3>4. nodes'[stack[k].id].text = nodes[stack[k].id].text \cup {i}
        BY <1>3, <1>5
      <3> QED BY <3>1, <3>3, <3>4
    <2>2. \A k \in 1..Len(stack) : nodes'[stack[k].id].inner = Nothing
      BY <1>3, <1>5 DEF DocInv, OpenContent
    <2> QED BY <1>1, <2>1, <2>2 DEF OpenContent, Nothing
  <1>10. ClosedInside'
    <2>1. ASSUME NEW k \in 1..Len(stack), NEW n \in Node,
                 nodes'[n].parent = stack[k].id, nodes'[n].inner # Nothing
          PROVE  stack[k].start <= nodes'[n].inner.from /\ nodes'[n].inner.to <= i + 1
      <3>1. nodes'[n].inner = nodes[n].inner /\ nodes'[n].parent = nodes[n].parent
        BY <1>3
      <3>2. nodes[n].inner.to \in Nat
        BY <1>2 DEF TableRecord
      <3>3. stack[k].start <= nodes[n].inner.from /\ nodes[n].inner.to <= i
        BY <2>1, <3>1 DEF DocInv, ClosedInside
      <3> QED BY <1>2, <3>1, <3>2, <3>3
    <2>2. ASSUME NEW k \in 1..Len(stack'), NEW n \in Node',
                 nodes'[n].parent = stack'[k].id, nodes'[n].inner # Nothing
          PROVE  stack'[k].start <= nodes'[n].inner.from /\ nodes'[n].inner.to <= i'
      BY <1>1, <1>4, <2>1, <2>2
    <2> QED BY <2>2 DEF ClosedInside, Nothing
  <1>11. Nested'
    <2>1. \A n \in Node : nodes[n].parent \in Nat
      BY <1>2 DEF TableRecord
    <2>2. ASSUME NEW n \in Node
          PROVE  \A m \in nodes[n].parent + 1 .. n : m \in Node
      BY <1>2, <2>1 DEF Node
    <2> QED BY <1>3, <1>4, <2>2 DEF DocInv, Nested
  <1>12. ContentNested'
    <2>1. ASSUME NEW n \in Node, nodes[n].inner # Nothing
          PROVE  nodes'[n].text \subseteq nodes[n].inner.from .. nodes[n].inner.to - 1
      <3>1. ~IsOpen(n)
        BY <2>1 DEF IsOpen, DocInv, OpenContent
      <3> QED BY <1>3, <2>1, <3>1 DEF DocInv, ContentNested
    <2>2. ASSUME NEW n \in Node, NEW p \in Node, nodes[n].parent = p, nodes[n].tag \notin RawTags
          PROVE  nodes'[n].text \subseteq nodes'[p].text
      <3>1. nodes[n].text \subseteq nodes[p].text
        BY <2>2 DEF DocInv, ContentNested
      <3>2. CASE IsOpen(n)
        <4>1. PICK k \in 1..Len(stack) : stack[k].id = n
          BY <3>2 DEF IsOpen
        <4>2. p = IF k = 1 THEN 0 ELSE stack[k - 1].id
          BY <2>2, <4>1 DEF DocInv, StackIsLineage
        <4>3. p # 0
          BY <1>2 DEF Node
        <4>4. k - 1 \in 1..Len(stack)
          BY <4>2, <4>3, Reading
        <4>5. IsOpen(p)
          BY <4>2, <4>3, <4>4 DEF IsOpen
        <4> QED BY <1>3, <3>1, <3>2, <4>5
      <3>3. CASE ~IsOpen(n)
        BY <1>3, <3>1, <3>3
      <3> QED BY <3>2, <3>3
    <2>3. ASSUME NEW n \in Node, NEW p \in Node, nodes[n].parent = p,
                 nodes[n].inner # Nothing, nodes[p].inner # Nothing
          PROVE  Within(nodes[n].inner, nodes[p].inner)
      BY <2>3 DEF DocInv, ContentNested
    <2> QED BY <1>3, <1>4, <2>1, <2>2, <2>3 DEF ContentNested, Nothing, Within
  <1> QED BY <1>6, <1>7, <1>8, <1>9, <1>10, <1>11, <1>12 DEF DocInv

\* The walks, and the queries that follow them, leave the table as it is.
LEMMA TableUntouched ==
    ASSUME DocInv, html' = html, i' = i, nodes' = nodes, stack' = stack
    PROVE  DocInv'
  BY DEF DocInv, DocTypeOK, StackClimbs, StackIsLineage, OpenHoldsTheRest,
         OpenContent, ClosedInside, Nested, ContentNested, Node, Nothing, Within
----------------------------------------------------------------------------
(* Every document. *)

\* No step on any text breaks what the parser keeps, whatever is missing from
\* the text; the walks that follow leave the table as it is.
LEMMA DocNextKeeps == DocInv /\ [DocNext]_docVars => DocInv'
  <1> SUFFICES ASSUME DocInv, [DocNext]_docVars PROVE DocInv'
    OBVIOUS
  <1>1. CASE ParseStep
    <2>1. html' = html /\ i \in Places
      BY <1>1 DEF ParseStep
    <2>2. CASE Skip
      BY <2>1, <2>2, MovingOnKeeps DEF Skip
    <2>3. CASE OpenTag
      BY <2>1, <2>3, OpenTagKeeps
    <2>4. CASE OpenRaw
      BY <2>1, <2>4, OpenRawKeeps
    <2>5. CASE CloseTag
      BY <2>1, <2>5, CloseTagKeeps
    <2>6. CASE TextRun
      BY <2>1, <2>6, TextRunKeeps
    <2> QED BY <1>1, <2>2, <2>3, <2>4, <2>5, <2>6 DEF ParseStep
  <1>2. CASE MetadataStep \/ UNCHANGED docVars
    <2>1. html' = html /\ i' = i /\ nodes' = nodes /\ stack' = stack
      BY <1>2 DEF MetadataStep, ParseEnds, NumberNode, OrderEnds, MeasureNode, DepthEnds, docVars
    <2> QED BY <2>1, TableUntouched
  <1> QED BY <1>1, <1>2 DEF DocNext

\* The invariant of parse_html_naive holds of every document while it is parsed,
\* numbered and measured.
THEOREM DocInvariance == DocSpec => []DocInv
  BY InitDocInv, DocNextKeeps, PTL DEF DocSpec

\* A document's table is a tree in text order, and its texts and contents nest
\* as its elements do.
COROLLARY DocumentsNest == DocSpec => [](Nested /\ ContentNested)
  <1>1. DocInv => Nested /\ ContentNested
    BY DEF DocInv
  <1> QED BY <1>1, DocInvariance, PTL
----------------------------------------------------------------------------
(* While queries are answered, and the two walks over the finished table. *)

\* A query reads the document and writes its answer only.
LEMMA NextKeeps == DocInv /\ [Next]_vars => DocInv'
  <1> SUFFICES ASSUME DocInv, [Next]_vars PROVE DocInv'
    OBVIOUS
  <1>1. CASE DocNext \/ UNCHANGED vars
    BY <1>1, DocNextKeeps DEF vars
  <1>2. ASSUME NEW q \in Queries, Execute(q)
        PROVE  DocInv'
    BY <1>2, TableUntouched DEF Execute
  <1> QED BY <1>1, <1>2 DEF Next

\* The inductive invariant of the parser holds in every state of the engine.
THEOREM EngineInvariance == Spec => []DocInv
  <1>1. Init => DocInv
    BY InitDocInv DEF Init
  <1> QED BY <1>1, NextKeeps, PTL DEF Spec

\* Every parent precedes its children in doc.nodes and a subtree is a run of
\* consecutive nodes: what axis_nodes, sibling_pos_for_node and every ORDER BY
\* doc_order rely on.
THEOREM TableIsATree == Spec => []Nested
  <1>1. DocInv => Nested
    BY DEF DocInv
  <1> QED BY <1>1, EngineInvariance, PTL

\* The text and inner_html of nested elements nest: what the text runs, the
\* closing tags and the scan of a script write, each on its own, agrees.
THEOREM ContentsNest == Spec => []ContentNested
  <1>1. DocInv => ContentNested
    BY DEF DocInv
  <1> QED BY <1>1, EngineInvariance, PTL

\* The types of the document and of the parser's stack.
THEOREM DocumentTypes == Spec => []DocTypeOK
  <1>1. DocInv => DocTypeOK
    BY DEF DocInv
  <1> QED BY <1>1, EngineInvariance, PTL
----------------------------------------------------------------------------
(* The table. *)

\* What the walks need of the table.
Table ==
  /\ Len(nodes) \in Nat
  /\ \A n \in Node : nodes[n].parent \in 0 .. n - 1
  /\ \A n \in Node : \A m \in nodes[n].parent + 1 .. n : nodes[m].parent >= nodes[n].parent

LEMMA ParsedTable == DocInv => Table
<1> SUFFICES ASSUME DocInv PROVE Table
  OBVIOUS
<1>1. Len(nodes) \in Nat /\ \A n \in Node : nodes[n].parent \in Nat
  <2>1. nodes \in Seq(TableRecord)
    BY DEF DocInv, DocTypeOK, TableRecord
  <2>2. Len(nodes) \in Nat /\ \A n \in Node : nodes[n] \in TableRecord
    BY <2>1 DEF Node
  <2> QED BY <2>2 DEF TableRecord
<1>2. Nested
  BY DEF DocInv
<1>3. \A n \in Node : n \in Nat /\ nodes[n].parent < n
  BY <1>1, <1>2 DEF Nested, Node
<1>4. \A n \in Node : nodes[n].parent \in 0 .. n - 1
  BY <1>1, <1>3
<1> QED BY <1>1, <1>2, <1>4 DEF Table, Nested
----------------------------------------------------------------------------
(* The lists of children. *)

\* A sequence of the elements of T, each once, the smaller first.
Lists(s, T) ==
  /\ s \in Seq(T)
  /\ \A x \in T : \E k \in 1 .. Len(s) : s[k] = x
  /\ \A j, k \in 1 .. Len(s) : j < k => s[j] < s[k]

LEMMA EmptyLists == Lists(<<>>, {})
BY DEF Lists

LEMMA AppendLists ==
  ASSUME NEW T \in SUBSET Nat, NEW s, Lists(s, T), NEW x \in Nat, \A y \in T : y < x
  PROVE  Lists(Append(s, x), T \cup {x})
<1> DEFINE t == Append(s, x)
<1>1. s \in Seq(T) /\ Len(s) \in Nat /\ \A k \in 1 .. Len(s) : s[k] \in T
  BY DEF Lists
<1>2. s \in Seq(T \cup {x})
  BY <1>1
<1>3. t \in Seq(T \cup {x}) /\ Len(t) = Len(s) + 1
  BY <1>1, <1>2
<1>4. (\A k \in 1 .. Len(s) : t[k] = s[k]) /\ t[Len(s) + 1] = x
  BY <1>1, <1>2
<1>5. \A k \in 1 .. Len(t) : k \in 1 .. Len(s) \/ k = Len(s) + 1
  BY <1>1, <1>3
<1>6. (\A k \in 1 .. Len(s) : k \in 1 .. Len(t)) /\ Len(s) + 1 \in 1 .. Len(t)
  BY <1>1, <1>3
<1> HIDE DEF t
<1>7. \A y \in T \cup {x} : \E k \in 1 .. Len(t) : t[k] = y
  BY <1>4, <1>6 DEF Lists
<1>8. ASSUME NEW j \in 1 .. Len(t), NEW k \in 1 .. Len(t), j < k PROVE t[j] < t[k]
  <2>1. j \in 1 .. Len(s)
    BY <1>1, <1>3, <1>8
  <2>2. CASE k \in 1 .. Len(s)
    BY <1>4, <1>8, <2>1, <2>2 DEF Lists
  <2>3. CASE k = Len(s) + 1
    BY <1>1, <1>4, <2>1, <2>3
  <2> QED BY <1>5, <2>2, <2>3
<1>9. Lists(t, T \cup {x})
  BY <1>3, <1>7, <1>8 DEF Lists
<1> QED BY <1>9 DEF t

LEMMA BuildChildrenIs ==
  ASSUME Table
  PROVE  /\ build_children \in [0 .. Len(nodes) -> [0 .. Len(nodes) -> Seq(Nat)]]
         /\ build_children[0] = [n \in 0 .. Len(nodes) |-> <<>>]
         /\ \A k \in 1 .. Len(nodes) :
              build_children[k] = [build_children[k - 1] EXCEPT ![nodes[k].parent] = Append(@, k)]
<1> DEFINE L == Len(nodes)
           S == [0 .. L -> Seq(Nat)]
           start == [n \in 0 .. L |-> <<>>]
           below == [k \in 1 .. L |-> k - 1]
           step == [p \in (1 .. L) \X S |-> [p[2] EXCEPT ![nodes[p[1]].parent] = Append(@, p[1])]]
           body(f) == [k \in 0 .. L |-> IF k = 0 THEN start
                                        ELSE [f[k - 1] EXCEPT ![nodes[k].parent] = Append(@, k)]]
<1>1. L \in Nat /\ start \in S
  BY DEF Table
<1>2. PointsDown(below, L)
  BY <1>1 DEF PointsDown
<1>3. ASSUME NEW k \in 1 .. L, NEW c \in S
      PROVE  [c EXCEPT ![nodes[k].parent] = Append(@, k)] \in S
  <2>1. nodes[k].parent \in 0 .. L /\ k \in Nat
    BY <1>1 DEF Table, Node
  <2> QED BY <2>1
<1>4. IsStep(step, L, S)
  BY <1>3 DEF IsStep
<1>5. PICK f \in [0 .. L -> S] : FollowsSteps(f, L, start, below, step)
  <2> HIDE DEF L, S, start, below, step
  <2> QED BY <1>1, <1>2, <1>4, RecursionBelow
<1>6. \A k \in 1 .. L : f[k] = [f[k - 1] EXCEPT ![nodes[k].parent] = Append(@, k)]
  <2> TAKE k \in 1 .. L
  <2>1. below[k] = k - 1 /\ k - 1 \in 0 .. L
    BY <1>1
  <2>2. <<k, f[k - 1]>> \in (1 .. L) \X S
    BY <2>1
  <2>3. f[k] = step[<<k, f[k - 1]>>]
    BY <1>5, <2>1 DEF FollowsSteps
  <2> QED BY <2>2, <2>3
<1>7. f = body(f)
  <2>1. DOMAIN f = 0 .. L /\ f = [k \in 0 .. L |-> f[k]]
    OBVIOUS
  <2>2. \A k \in 0 .. L : k # 0 => k \in 1 .. L
    BY <1>1
  <2>3. \A k \in 0 .. L : f[k] = body(f)[k]
    BY <1>5, <1>6, <2>2 DEF FollowsSteps
  <2> QED BY <2>1, <2>3
<1>8. build_children = CHOOSE g : g = body(g)
  BY DEF build_children
<1>9. build_children = body(build_children)
  <2> HIDE DEF body
  <2> QED BY <1>7, <1>8
<1> DEFINE bc == build_children
<1>10. /\ bc[0] = start
       /\ \A k \in 1 .. L : bc[k] = [bc[k - 1] EXCEPT ![nodes[k].parent] = Append(@, k)]
  <2>1. 0 \in 0 .. L /\ \A k \in 1 .. L : k \in 0 .. L /\ k # 0
    BY <1>1
  <2> HIDE DEF L, start
  <2>2. \A g : body(g)[0] = start
    BY <2>1
  <2>3. \A g : \A k \in 1 .. L : body(g)[k] = [g[k - 1] EXCEPT ![nodes[k].parent] = Append(@, k)]
    BY <2>1
  <2> HIDE DEF body, bc
  <2>4. bc = body(bc)
    BY <1>9 DEF bc
  <2> QED BY <2>2, <2>3, <2>4
<1>11. bc = [k \in 0 .. L |-> bc[k]]
  <2>1. \A g : DOMAIN body(g) = 0 .. L /\ body(g) = [k \in 0 .. L |-> body(g)[k]]
    OBVIOUS
  <2> HIDE DEF body
  <2> QED BY <1>9, <2>1
<1> HIDE DEF bc
<1> DEFINE G == {k \in 0 .. L : bc[k] \in S}
<1>12. 0 \in G
  <2>1. 0 \in 0 .. L
    BY <1>1
  <2> HIDE DEF L, S, start
  <2> QED BY <1>1, <1>10, <2>1
<1>13. ASSUME NEW n \in 0 .. L - 1, n \in G PROVE n + 1 \in G
  <2>1. n + 1 \in 1 .. L /\ n + 1 \in 0 .. L /\ (n + 1) - 1 = n
    BY <1>1
  <2> HIDE DEF L, S, start
  <2>2. bc[n + 1] = [bc[n] EXCEPT ![nodes[n + 1].parent] = Append(@, n + 1)]
    BY <1>10, <2>1
  <2>3. bc[n] \in S
    BY <1>13
  <2>4. bc[n + 1] \in S
    BY <1>3, <2>1, <2>2, <2>3
  <2> QED BY <2>1, <2>4
<1>14. 0 .. L \subseteq G
  <2> HIDE DEF G, L
  <2> QED BY <1>1, <1>12, <1>13, InductionUpTo
<1>15. bc \in [0 .. L -> S]
  BY <1>11, <1>14
<1> QED BY <1>10, <1>15 DEF bc

\* What build_children makes: every node's children, and the roots, in the order of
\* the table.
LEMMA ChildrenAre ==
  ASSUME Table, NEW n \in 0 .. Len(nodes)
  PROVE  Lists(Children(n), Kids(n)) /\ Kids(n) \in SUBSET Nat
<1> DEFINE L == Len(nodes)
           among(k, p) == {c \in 1 .. k : nodes[c].parent = p}
           G == {k \in 0 .. L : \A p \in 0 .. L : Lists(build_children[k][p], among(k, p))}
<1>1. L \in Nat /\ \A c \in 1 .. L : nodes[c].parent \in 0 .. L
  BY DEF Table, Node
<1>2. 0 \in G
  <2>1. 0 \in 0 .. L /\ \A p \in 0 .. L : among(0, p) = {}
    BY <1>1
  <2>2. \A p \in 0 .. L : build_children[0][p] = <<>>
    BY BuildChildrenIs
  <2> QED BY <2>1, <2>2, EmptyLists
<1>3. ASSUME NEW k \in 0 .. L - 1, k \in G PROVE k + 1 \in G
  <2> DEFINE c == k + 1
             q == nodes[c].parent
             old == build_children[k]
  <2>1. c \in 1 .. L /\ c \in 0 .. L /\ c - 1 = k /\ c \in Nat /\ k \in 0 .. L /\ 1 .. c = 1 .. k \cup {c}
    BY <1>1
  <2>2. q \in 0 .. L
    BY <1>1, <2>1
  <2>3. build_children[c] = [old EXCEPT ![q] = Append(@, c)] /\ DOMAIN old = 0 .. L
    BY <2>1, BuildChildrenIs
  <2>4. \A x \in 1 .. k : x \in Nat /\ x < c
    BY <2>1
  <2> HIDE DEF c, q, old
  <2>5. ASSUME NEW p \in 0 .. L, p # q PROVE Lists(build_children[c][p], among(c, p))
    <3>1. build_children[c][p] = old[p]
      BY <2>3, <2>5
    <3>2. among(c, p) = among(k, p)
      BY <2>1, <2>5 DEF q
    <3> QED BY <1>3, <3>1, <3>2 DEF old
  <2>6. Lists(build_children[c][q], among(c, q))
    <3>1. build_children[c][q] = Append(old[q], c)
      BY <2>2, <2>3
    <3>2. among(c, q) = among(k, q) \cup {c}
      BY <2>1 DEF q
    <3>3. Lists(old[q], among(k, q))
      BY <1>3, <2>2 DEF old
    <3>4. among(k, q) \in SUBSET Nat /\ \A y \in among(k, q) : y < c
      BY <2>4
    <3>5. Lists(Append(old[q], c), among(k, q) \cup {c})
      BY <2>1, <3>3, <3>4, AppendLists
    <3> QED BY <3>1, <3>2, <3>5
  <2> QED BY <2>1, <2>5, <2>6 DEF c
<1>4. L \in G
  <2>1. L \in 0 .. L
    BY <1>1
  <2> HIDE DEF L, G
  <2> QED BY <1>1, <1>2, <1>3, <2>1, InductionUpTo
<1>5. among(L, n) = Kids(n) /\ Kids(n) \in SUBSET Nat
  BY <1>1 DEF Kids, Node
<1> QED BY <1>4, <1>5 DEF Children
----------------------------------------------------------------------------
(* The walk that numbers the nodes. *)

\* A sequence of the elements of T, each once, the greater first.
Descends(s, T) ==
  /\ s \in Seq(T)
  /\ \A x \in T : \E k \in 1 .. Len(s) : s[k] = x
  /\ \A j, k \in 1 .. Len(s) : j < k => s[k] < s[j]

LEMMA ReverseDescends ==
  ASSUME NEW T \in SUBSET Nat, NEW s, Lists(s, T)
  PROVE  Descends(Reverse(s), T)
<1> DEFINE L == Len(s)
           r == Reverse(s)
<1>1. s \in Seq(T) /\ L \in Nat /\ \A k \in 1 .. L : s[k] \in T
  BY DEF Lists
<1>2. r = [k \in 1 .. L |-> s[(L - k) + 1]]
  BY DEF Reverse
<1>3. \A k \in 1 .. L : (L - k) + 1 \in 1 .. L /\ (L - ((L - k) + 1)) + 1 = k
  BY <1>1
<1>4. r \in Seq(T) /\ Len(r) = L
  BY <1>1, <1>2, <1>3
<1>5. \A k \in 1 .. L : r[k] = s[(L - k) + 1] /\ r[(L - k) + 1] = s[k]
  BY <1>2, <1>3
<1> HIDE DEF r
<1>6. \A x \in T : \E k \in 1 .. Len(r) : r[k] = x
  <2> TAKE x \in T
  <2>1. PICK k \in 1 .. L : s[k] = x
    BY DEF Lists
  <2> QED BY <1>3, <1>4, <1>5, <2>1
<1>7. \A j, k \in 1 .. Len(r) : j < k => r[k] < r[j]
  <2> SUFFICES ASSUME NEW j \in 1 .. L, NEW k \in 1 .. L, j < k PROVE r[k] < r[j]
    BY <1>4
  <2>1. (L - k) + 1 < (L - j) + 1
    BY <1>1
  <2>2. s[(L - k) + 1] < s[(L - j) + 1]
    BY <1>3, <2>1 DEF Lists
  <2> QED BY <1>5, <2>2
<1>8. Descends(r, T)
  BY <1>4, <1>6, <1>7 DEF Descends
<1> QED BY <1>8 DEF r

LEMMA DescendOn ==
  ASSUME NEW A \in SUBSET Nat, NEW B \in SUBSET Nat, NEW s, NEW t,
         Descends(s, A), Descends(t, B), \A a \in A, b \in B : b < a
  PROVE  Descends(s \o t, A \cup B)
<1> DEFINE L == Len(s)
           M == Len(t)
           u == s \o t
<1>1. /\ s \in Seq(A) /\ t \in Seq(B) /\ L \in Nat /\ M \in Nat
      /\ \A k \in 1 .. L : s[k] \in A
      /\ \A k \in 1 .. M : t[k] \in B
  BY DEF Descends
<1>2. s \in Seq(A \cup B) /\ t \in Seq(A \cup B)
  BY <1>1
<1>3. u \in Seq(A \cup B) /\ Len(u) = L + M
  BY <1>1, <1>2
<1>4. (\A k \in 1 .. L : u[k] = s[k]) /\ (\A k \in 1 .. M : u[L + k] = t[k])
  BY <1>1, <1>2
<1>5. \A k \in 1 .. L + M : k \in 1 .. L \/ (k - L \in 1 .. M /\ k = L + (k - L))
  BY <1>1
<1>6. (\A k \in 1 .. L : k \in 1 .. L + M) /\ (\A k \in 1 .. M : L + k \in 1 .. L + M)
  BY <1>1
<1> HIDE DEF u, L, M
<1>7. \A x \in A \cup B : \E k \in 1 .. Len(u) : u[k] = x
  <2> TAKE x \in A \cup B
  <2>1. CASE x \in A
    <3>1. PICK k \in 1 .. L : s[k] = x
      BY <2>1 DEF Descends, L
    <3> QED BY <1>3, <1>4, <1>6, <3>1
  <2>2. CASE x \in B
    <3>1. PICK k \in 1 .. M : t[k] = x
      BY <2>2 DEF Descends, M
    <3> QED BY <1>3, <1>4, <1>6, <3>1
  <2> QED BY <2>1, <2>2
<1>8. ASSUME NEW j \in 1 .. L + M, NEW k \in 1 .. L + M, j < k PROVE u[k] < u[j]
  <2>1. CASE k \in 1 .. L
    <3>1. j \in 1 .. L
      BY <1>1, <1>8, <2>1
    <3> QED BY <1>4, <1>8, <2>1, <3>1 DEF Descends, L
  <2>2. CASE j \in 1 .. L /\ k - L \in 1 .. M
    <3>1. s[j] \in A /\ t[k - L] \in B /\ u[k] = t[k - L] /\ u[j] = s[j]
      BY <1>1, <1>4, <1>5, <2>2
    <3> QED BY <3>1
  <2>3. CASE j - L \in 1 .. M /\ k - L \in 1 .. M
    <3>1. j - L < k - L
      BY <1>1, <1>8
    <3>2. t[k - L] < t[j - L]
      BY <2>3, <3>1 DEF Descends, M
    <3>3. u[k] = t[k - L] /\ u[j] = t[j - L]
      BY <1>1, <1>4, <1>5, <2>3
    <3> QED BY <3>2, <3>3
  <2> QED BY <1>5, <2>1, <2>2, <2>3
<1>9. Descends(u, A \cup B)
  BY <1>3, <1>7, <1>8 DEF Descends
<1> QED BY <1>9 DEF u

LEMMA TopOfDescent ==
  ASSUME NEW T \in SUBSET Nat, NEW s, Descends(s, T), s # <<>>
  PROVE  /\ Last(s) \in T /\ \A x \in T : Last(s) <= x
         /\ Descends(Front(s), T \ {Last(s)})
<1> DEFINE L == Len(s)
           f == Front(s)
           t == Last(s)
<1>1. s \in Seq(T) /\ L \in Nat /\ \A k \in 1 .. L : s[k] \in T
  BY DEF Descends
<1>2. /\ f \in Seq(T) /\ Len(f) = L - 1 /\ t = s[L] /\ L \in 1 .. L
      /\ \A k \in 1 .. L - 1 : f[k] = s[k]
  BY <1>1, FrontOf
<1>3. \A k \in 1 .. L : k = L \/ k \in 1 .. L - 1
  BY <1>1
<1>4. \A k \in 1 .. L - 1 : k \in 1 .. L /\ k < L
  BY <1>1
<1>5. \A k \in 1 .. L - 1 : t < s[k] /\ s[k] \in Nat /\ t \in Nat
  BY <1>1, <1>2, <1>4 DEF Descends
<1> HIDE DEF f, t, L
<1>6. t \in T
  BY <1>1, <1>2
<1>7. ASSUME NEW x \in T PROVE t <= x /\ (x # t => \E k \in 1 .. L - 1 : f[k] = x)
  <2>1. PICK k \in 1 .. L : s[k] = x
    BY DEF Descends, L
  <2>2. CASE k = L
    BY <1>2, <1>6, <2>1, <2>2
  <2>3. CASE k \in 1 .. L - 1
    BY <1>2, <1>5, <2>1, <2>3
  <2> QED BY <1>3, <2>2, <2>3
<1>8. \A k \in 1 .. L - 1 : f[k] \in T \ {t}
  BY <1>1, <1>2, <1>4, <1>5
<1>9. f \in Seq(T \ {t})
  <2>1. f = [k \in 1 .. L - 1 |-> f[k]] /\ L - 1 \in Nat
    BY <1>2
  <2> QED BY <1>8, <2>1
<1>10. \A j, k \in 1 .. L - 1 : j < k => f[k] < f[j]
  BY <1>2, <1>4 DEF Descends, L
<1>11. Descends(f, T \ {t})
  BY <1>2, <1>7, <1>9, <1>10 DEF Descends
<1> QED BY <1>6, <1>7, <1>11 DEF f, t

\* A node's children are pushed so that the first is on top.
LEMMA PushedDescend ==
  ASSUME Table, NEW n \in 0 .. Len(nodes)
  PROVE  Descends(pushed(Children(n)), Kids(n)) /\ Kids(n) \in SUBSET Nat
BY ChildrenAre, ReverseDescends DEF pushed

\* The next of the table leaves the walk, and its children take its place.
LEMMA FrontierMoves ==
  ASSUME Table, NEW k \in 0 .. Len(nodes) - 1
  PROVE  /\ Frontier(k) \in SUBSET Nat
         /\ k + 1 \in Frontier(k) /\ \A n \in Frontier(k) : k + 1 <= n
         /\ Frontier(k + 1) = (Frontier(k) \ {k + 1}) \cup Kids(k + 1)
         /\ \A n \in Frontier(k) \ {k + 1}, c \in Kids(k + 1) : c < n
<1>1. /\ Len(nodes) \in Nat /\ \A n \in Node : n \in Nat /\ nodes[n].parent \in 0 .. n - 1
      /\ k \in Nat /\ k + 1 \in Node
  BY DEF Table, Node
<1>2. Frontier(k) \in SUBSET Nat /\ k + 1 \in Frontier(k) /\ \A n \in Frontier(k) : k + 1 <= n
  BY <1>1 DEF Frontier
<1>3. Frontier(k + 1) = (Frontier(k) \ {k + 1}) \cup Kids(k + 1)
  <2>1. ASSUME NEW n \in Node PROVE n \in Frontier(k + 1) <=> n \in (Frontier(k) \ {k + 1}) \cup Kids(k + 1)
    BY <1>1 DEF Frontier, Kids
  <2> QED BY <2>1 DEF Frontier, Kids
<1>4. ASSUME NEW n \in Frontier(k) \ {k + 1}, NEW c \in Kids(k + 1) PROVE c < n
  <2>1. n \in Node /\ c \in Node /\ k + 1 < n /\ nodes[n].parent <= k /\ nodes[c].parent = k + 1
    BY <1>1 DEF Frontier, Kids
  <2>2. \A m \in nodes[c].parent + 1 .. c : nodes[m].parent >= nodes[c].parent
    BY <2>1 DEF Table
  <2>3. n \notin nodes[c].parent + 1 .. c
    BY <1>1, <2>1, <2>2
  <2> QED BY <1>1, <2>1, <2>3
<1> QED BY <1>2, <1>3, <1>4

LEMMA DescentIs ==
  ASSUME NEW T, NEW s
  PROVE  Descends(s, T) <=> /\ s \in Seq(T) /\ T \subseteq ToSet(s)
                            /\ \A j, k \in 1 .. Len(s) : j < k => s[k] < s[j]
<1>1. ASSUME s \in Seq(T)
      PROVE  T \subseteq ToSet(s) <=> \A x \in T : \E k \in 1 .. Len(s) : s[k] = x
  <2>1. ToSet(s) = {s[k] : k \in 1 .. Len(s)}
    BY <1>1, SeqOfItsOwn
  <2> QED BY <2>1
<1> QED BY <1>1 DEF Descends

\* assign_doc_order numbers the next node of the table.
LEMMA NumberNodeKeeps ==
  ASSUME DocInv, MetadataInv, NumberNode
  PROVE  MetadataInv'
<1> DEFINE k == Len(doc_order)
           F == Frontier(k)
           t == Last(walk)
           below == pushed(Children(t))
<1>1. Table /\ Len(nodes) \in Nat
  BY ParsedTable DEF Table
<1>2. /\ phase = "order" /\ walk # <<>> /\ doc_order' = Append(doc_order, t)
      /\ walk' = Front(walk) \o below /\ phase' = "order" /\ nodes' = nodes
  BY DEF NumberNode
<1>3. doc_order \in Seq(Nat) /\ k \in Nat /\ k <= Len(nodes) /\ \A j \in 1 .. k : doc_order[j] = j
  BY <1>2 DEF MetadataInv, OrderWalk, DocOrderIsNodeId
<1>4. Descends(walk, F)
  BY <1>2, DescentIs DEF MetadataInv, OrderWalk
<1>5. k \in 0 .. Len(nodes) - 1
  <2>1. walk \in Seq(F) /\ Len(walk) \in 1 .. Len(walk)
    BY <1>2, <1>4 DEF Descends
  <2>2. walk[Len(walk)] \in F
    BY <2>1
  <2>3. PICK n \in Node : k < n
    BY <2>2 DEF Frontier
  <2> QED BY <1>1, <1>3, <2>3 DEF Node
<1>6. F \in SUBSET Nat
  BY <1>1, <1>5, FrontierMoves
<1>7. t \in F /\ (\A n \in F : t <= n) /\ Descends(Front(walk), F \ {t})
  <2> HIDE DEF F
  <2> QED BY <1>2, <1>4, <1>6, TopOfDescent
<1>8. t = k + 1
  <2>1. k + 1 \in F /\ \A n \in F : k + 1 <= n
    BY <1>1, <1>5, FrontierMoves
  <2>2. t <= k + 1 /\ k + 1 <= t /\ t \in Nat
    BY <1>6, <1>7, <2>1
  <2> HIDE DEF t
  <2> QED BY <1>3, <2>2
<1>9. Descends(below, Kids(t)) /\ Kids(t) \in SUBSET Nat
  <2>1. t \in 0 .. Len(nodes)
    BY <1>1, <1>5, <1>8
  <2> QED BY <1>1, <2>1, PushedDescend
<1>10. Frontier(k + 1) = (F \ {t}) \cup Kids(t) /\ \A n \in F \ {t}, c \in Kids(t) : c < n
  BY <1>1, <1>5, <1>8, FrontierMoves
<1>11. Descends(walk', Frontier(k + 1))
  <2> HIDE DEF F, t, below
  <2>1. F \ {t} \in SUBSET Nat
    BY <1>6
  <2>2. Descends(Front(walk) \o below, (F \ {t}) \cup Kids(t))
    BY <1>7, <1>9, <1>10, <2>1, DescendOn
  <2> QED BY <1>2, <1>10, <2>2 DEF below
<1>12. doc_order' \in Seq(Nat) /\ Len(doc_order') = k + 1 /\ \A j \in 1 .. k + 1 : doc_order'[j] = j
  <2> HIDE DEF t
  <2>1. t \in Nat
    BY <1>3, <1>8
  <2> QED BY <1>2, <1>3, <1>8, <2>1
<1>13. OrderWalk'
  <2>1. \A m : {n \in Node' : m < n /\ nodes'[n].parent <= m} = Frontier(m)
    BY <1>2 DEF Frontier, Node
  <2>2. Len(doc_order') <= Len(nodes')
    BY <1>1, <1>2, <1>5, <1>12
  <2>3. /\ walk' \in Seq(Frontier(k + 1)) /\ Frontier(k + 1) \subseteq ToSet(walk')
        /\ \A j, m \in 1 .. Len(walk') : j < m => walk'[m] < walk'[j]
    BY <1>11, DescentIs
  <2>4. Frontier(Len(doc_order))' = Frontier(k + 1)
    BY <1>12, <2>1 DEF Frontier
  <2> HIDE DEF k
  <2> QED BY <2>2, <2>3, <2>4 DEF OrderWalk
<1>14. DocOrderIsNodeId'
  BY <1>2, <1>12 DEF DocOrderIsNodeId
<1>15. DepthWalk' /\ MaxDepthIsHeight'
  BY <1>2 DEF DepthWalk, MaxDepthIsHeight
<1> QED BY <1>2, <1>12, <1>13, <1>14, <1>15 DEF MetadataInv
----------------------------------------------------------------------------
(* The lineage of a node. *)

LEMMA LineageIs ==
  ASSUME Table
  PROVE  /\ lineage[0] = {}
         /\ \A n \in Node : lineage[n] = {n} \cup lineage[nodes[n].parent]
<1> DEFINE L == Len(nodes)
           S == SUBSET Nat
           none == {}
           below == [k \in 1 .. L |-> nodes[k].parent]
           step == [p \in (1 .. L) \X S |-> {p[1]} \cup p[2]]
           body(f) == [n \in 0 .. L |-> IF n = 0 THEN {} ELSE {n} \cup f[nodes[n].parent]]
<1>1. L \in Nat /\ none \in S /\ \A n \in 1 .. L : n \in Nat /\ nodes[n].parent \in 0 .. n - 1
  BY DEF Table, Node
<1>2. PointsDown(below, L)
  BY <1>1 DEF PointsDown
<1>3. IsStep(step, L, S)
  BY <1>1 DEF IsStep
<1>4. PICK f \in [0 .. L -> S] : FollowsSteps(f, L, none, below, step)
  <2> HIDE DEF L, S, none, below, step
  <2> QED BY <1>1, <1>2, <1>3, RecursionBelow
<1>5. \A n \in 1 .. L : f[n] = {n} \cup f[nodes[n].parent]
  <2> TAKE n \in 1 .. L
  <2>1. below[n] = nodes[n].parent /\ nodes[n].parent \in 0 .. L
    BY <1>1
  <2>2. <<n, f[nodes[n].parent]>> \in (1 .. L) \X S
    BY <2>1
  <2>3. f[n] = step[<<n, f[nodes[n].parent]>>]
    BY <1>4, <2>1 DEF FollowsSteps
  <2> QED BY <2>2, <2>3
<1>6. f = body(f)
  <2>1. f = [n \in 0 .. L |-> f[n]]
    OBVIOUS
  <2>2. \A n \in 0 .. L : n # 0 => n \in 1 .. L
    BY <1>1
  <2>3. \A n \in 0 .. L : f[n] = body(f)[n]
    BY <1>4, <1>5, <2>2 DEF FollowsSteps
  <2> QED BY <2>1, <2>3
<1>7. lineage = CHOOSE g : g = body(g)
  BY DEF lineage
<1>8. lineage = body(lineage)
  <2> HIDE DEF body
  <2> QED BY <1>6, <1>7
<1> DEFINE l == lineage
<1>9. l[0] = {} /\ \A n \in 1 .. L : l[n] = {n} \cup l[nodes[n].parent]
  <2>1. 0 \in 0 .. L /\ \A n \in 1 .. L : n \in 0 .. L /\ n # 0
    BY <1>1
  <2> HIDE DEF L
  <2>2. \A g : body(g)[0] = {} /\ \A n \in 1 .. L : body(g)[n] = {n} \cup g[nodes[n].parent]
    BY <2>1
  <2> HIDE DEF body, l
  <2>3. l = body(l)
    BY <1>8 DEF l
  <2> QED BY <2>2, <2>3
<1> QED BY <1>9 DEF Node

\* What is shown of every node from its parent is true of every node.
LEMMA DownTheTree ==
  ASSUME Table, NEW G,
         \A n \in Node : (nodes[n].parent # 0 => nodes[n].parent \in G) => n \in G
  PROVE  Node \subseteq G
<1> DEFINE H == {k \in 0 .. Len(nodes) : \A n \in 1 .. k : n \in G}
<1>1. /\ Len(nodes) \in Nat
      /\ \A n \in Node : n \in Nat /\ nodes[n].parent \in 0 .. n - 1
  BY DEF Table, Node
<1>2. 0 \in H
  BY <1>1
<1>3. ASSUME NEW k \in 0 .. Len(nodes) - 1, k \in H PROVE k + 1 \in H
  <2>1. k + 1 \in Node /\ k + 1 \in 0 .. Len(nodes) /\ \A n \in 1 .. k + 1 : n \in 1 .. k \/ n = k + 1
    BY <1>1 DEF Node
  <2>2. \A n \in 1 .. k : n \in G
    BY <1>3
  <2>3. nodes[k + 1].parent # 0 => nodes[k + 1].parent \in 1 .. k
    BY <1>1, <2>1
  <2>4. k + 1 \in G
    BY <2>1, <2>2, <2>3
  <2> QED BY <2>1, <2>2, <2>4
<1>4. 0 .. Len(nodes) \subseteq H
  <2> HIDE DEF H
  <2> QED BY <1>1, <1>2, <1>3, InductionUpTo
<1>5. Len(nodes) \in H
  BY <1>1, <1>4
<1> QED BY <1>5 DEF Node

\* A node's lineage is made of nodes up to it, and is longer by one than its parent's.
LEMMA LineageGrows ==
  ASSUME Table
  PROVE  /\ \A n \in Node : lineage[n] \subseteq 1 .. n
         /\ \A n \in 0 .. Len(nodes) : IsFiniteSet(lineage[n]) /\ Cardinality(lineage[n]) \in 0 .. Len(nodes)
         /\ \A n \in Node : Cardinality(lineage[n]) = Cardinality(lineage[nodes[n].parent]) + 1
<1> DEFINE G == {n \in Node : lineage[n] \subseteq 1 .. n}
<1>1. /\ Len(nodes) \in Nat
      /\ \A n \in Node : n \in Nat /\ n \in 1 .. Len(nodes) /\ nodes[n].parent \in 0 .. n - 1
  BY DEF Table, Node
<1>2. ASSUME NEW n \in Node, nodes[n].parent # 0 => nodes[n].parent \in G PROVE n \in G
  <2>1. lineage[n] = {n} \cup lineage[nodes[n].parent]
    BY LineageIs
  <2>2. CASE nodes[n].parent = 0
    BY <1>1, <2>1, <2>2, LineageIs
  <2>3. CASE nodes[n].parent # 0
    <3>1. lineage[nodes[n].parent] \subseteq 1 .. nodes[n].parent
      BY <1>2, <2>3
    <3>2. \A x \in 1 .. nodes[n].parent : x \in 1 .. n
      BY <1>1
    <3> QED BY <1>1, <2>1, <3>1, <3>2
  <2> QED BY <2>2, <2>3
<1>3. Node \subseteq G
  <2> HIDE DEF G
  <2> QED BY <1>2, DownTheTree
<1>4. \A n \in 0 .. Len(nodes) : lineage[n] \subseteq 1 .. n
  <2>1. \A n \in 0 .. Len(nodes) : n = 0 \/ n \in Node
    BY <1>1 DEF Node
  <2> QED BY <1>3, <2>1, LineageIs
<1>5. ASSUME NEW n \in 0 .. Len(nodes)
      PROVE  IsFiniteSet(lineage[n]) /\ Cardinality(lineage[n]) \in 0 .. Len(nodes)
  <2>1. IsFiniteSet(1 .. n) /\ Cardinality(1 .. n) = n
    BY <1>1, FS_Interval
  <2>2. IsFiniteSet(lineage[n]) /\ Cardinality(lineage[n]) <= Cardinality(1 .. n)
    BY <1>4, <2>1, FS_Subset
  <2>3. Cardinality(lineage[n]) \in Nat
    BY <2>2, FS_CardinalityType
  <2> QED BY <1>1, <2>1, <2>2, <2>3
<1>6. ASSUME NEW n \in Node
      PROVE  Cardinality(lineage[n]) = Cardinality(lineage[nodes[n].parent]) + 1
  <2>1. nodes[n].parent \in 0 .. Len(nodes) /\ n \notin 1 .. nodes[n].parent
    BY <1>1
  <2>2. n \notin lineage[nodes[n].parent] /\ IsFiniteSet(lineage[nodes[n].parent])
    BY <1>4, <1>5, <2>1
  <2>3. Cardinality(lineage[nodes[n].parent] \cup {n}) = Cardinality(lineage[nodes[n].parent]) + 1
    BY <2>2, FS_AddElement
  <2>4. lineage[n] = lineage[nodes[n].parent] \cup {n}
    BY LineageIs
  <2> QED BY <2>3, <2>4
<1> QED BY <1>3, <1>5, <1>6

\* A node is of another's lineage by way of one of its children.
LEMMA ThroughAChild ==
  ASSUME Table, NEW n \in Node
  PROVE  /\ n \in lineage[n]
         /\ \A m \in Node : m # n => (n \in lineage[m] <=> \E k \in Kids(n) : k \in lineage[m])
         /\ \A k \in Kids(n) : k \in Node /\ n < k /\ k \notin lineage[n]
<1> DEFINE up(m) == nodes[m].parent
<1>1. /\ Len(nodes) \in Nat
      /\ \A m \in Node : m \in Nat /\ m \in 1 .. Len(nodes) /\ up(m) \in 0 .. m - 1
  BY DEF Table, Node
<1>2. lineage[0] = {} /\ \A m \in Node : lineage[m] = {m} \cup lineage[up(m)]
  BY LineageIs
<1>3. \A k \in Kids(n) : k \in Node /\ n < k /\ k \notin lineage[n] /\ up(k) = n
  <2>1. \A k \in Kids(n) : k \in Node /\ n < k /\ up(k) = n
    BY <1>1 DEF Kids
  <2>2. \A k \in Kids(n) : k \notin 1 .. n
    BY <1>1, <2>1
  <2> QED BY <2>1, <2>2, LineageGrows
<1>4. \A m \in Node : n \in lineage[m] /\ m # n => \E k \in Kids(n) : k \in lineage[m]
  <2> DEFINE G == {m \in Node : n \in lineage[m] /\ m # n => \E k \in Kids(n) : k \in lineage[m]}
  <2>1. ASSUME NEW m \in Node, up(m) # 0 => up(m) \in G, n \in lineage[m], m # n
        PROVE  \E k \in Kids(n) : k \in lineage[m]
    <3>1. n \in lineage[up(m)] /\ m \in lineage[m] /\ lineage[up(m)] \subseteq lineage[m]
      BY <1>2, <2>1
    <3>2. CASE up(m) = n
      BY <3>1, <3>2 DEF Kids
    <3>3. CASE up(m) # n
      BY <1>2, <2>1, <3>1, <3>3
    <3> QED BY <3>2, <3>3
  <2>2. \A m \in Node : (up(m) # 0 => up(m) \in G) => m \in G
    BY <2>1
  <2>3. Node \subseteq G
    <3> HIDE DEF G
    <3> QED BY <2>2, DownTheTree
  <2> QED BY <2>3
<1>5. \A k \in Kids(n) : \A m \in Node : k \in lineage[m] => n \in lineage[m]
  <2> TAKE k \in Kids(n)
  <2> DEFINE G == {m \in Node : k \in lineage[m] => n \in lineage[m]}
  <2>1. ASSUME NEW m \in Node, up(m) # 0 => up(m) \in G, k \in lineage[m]
        PROVE  n \in lineage[m]
    <3>1. CASE m = k
      BY <1>2, <1>3, <3>1
    <3>2. CASE m # k
      <4>1. k \in lineage[up(m)] /\ up(m) # 0
        BY <1>2, <2>1, <3>2
      <4> QED BY <1>2, <2>1, <4>1
    <3> QED BY <3>1, <3>2
  <2>2. \A m \in Node : (up(m) # 0 => up(m) \in G) => m \in G
    BY <2>1
  <2>3. Node \subseteq G
    <3> HIDE DEF G
    <3> QED BY <2>2, DownTheTree
  <2> QED BY <2>3
<1> QED BY <1>2, <1>3, <1>4, <1>5
----------------------------------------------------------------------------
(* The height of a node. *)

\* The nodes of whose lineage n is, and how far below n they are.
Under(n) == {m \in Node : n \in lineage[m]}

Distances(n) == {Levels(n, m) : m \in Under(n)}

LEMMA HeightIsMax ==
  ASSUME Table, NEW n \in Node
  PROVE  /\ Height(n) = Max(Distances(n)) /\ Height(n) \in Distances(n) /\ Height(n) \in Nat
         /\ \A m \in Under(n) : Levels(n, m) \in Int /\ Levels(n, m) <= Height(n)
         /\ n \in Under(n) /\ Levels(n, n) = 0
<1> DEFINE L == Len(nodes)
           D == Distances(n)
<1>1. Height(n) = Max(D)
  BY DEF Height, Distances, Under
<1>2. L \in Nat /\ \A m \in Node : m \in 0 .. L
  BY DEF Table, Node
<1>3. \A m \in Node : Cardinality(lineage[m]) \in 0 .. L
  BY <1>2, LineageGrows
<1>4. \A m \in Under(n) : Levels(n, m) \in (-L) .. L
  <2> TAKE m \in Under(n)
  <2>1. Cardinality(lineage[m]) \in 0 .. L /\ Cardinality(lineage[n]) \in 0 .. L
    BY <1>3 DEF Under
  <2> QED BY <1>2, <2>1 DEF Levels
<1>5. n \in Under(n) /\ Levels(n, n) = 0
  <2>1. Cardinality(lineage[n]) \in Int
    BY <1>2, <1>3
  <2> QED BY <2>1, ThroughAChild DEF Under, Levels
<1>6. D \in SUBSET ((-L) .. L) /\ 0 \in D
  BY <1>4, <1>5 DEF Distances
<1>7. Max(D) \in D /\ \A x \in D : x <= Max(D)
  <2>1. -L \in Int /\ L \in Int /\ D # {}
    BY <1>2, <1>6
  <2> HIDE DEF D, L
  <2> QED BY <1>6, <2>1, MaxOfSome
<1>8. Max(D) \in Nat
  BY <1>2, <1>6, <1>7
<1>9. \A m \in Under(n) : Levels(n, m) \in D /\ Levels(n, m) \in Int
  BY <1>2, <1>4 DEF Distances
<1> QED BY <1>1, <1>5, <1>7, <1>8, <1>9

\* A leaf has none; every other node is one higher than its highest child.
LEMMA HeightFromKids ==
  ASSUME Table, NEW n \in Node
  PROVE  Height(n) = IF Kids(n) = {} THEN 0 ELSE Max({Height(k) : k \in Kids(n)}) + 1
<1> DEFINE L == Len(nodes)
           heights == {Height(k) : k \in Kids(n)}
<1>1. L \in Nat /\ \A m \in Node : m \in 0 .. L
  BY DEF Table, Node
<1>2. \A m \in 0 .. L : Cardinality(lineage[m]) \in 0 .. L
  BY LineageGrows
<1>3. \A k \in Kids(n) : k \in Node /\ nodes[k].parent = n
  BY DEF Kids
<1>4. ASSUME NEW k \in Kids(n), NEW m \in Node PROVE Levels(n, m) = Levels(k, m) + 1
  <2>1. Cardinality(lineage[k]) = Cardinality(lineage[n]) + 1
    BY <1>3, LineageGrows
  <2>2. Cardinality(lineage[n]) \in Nat /\ Cardinality(lineage[m]) \in Nat
    <3>1. n \in 0 .. L /\ m \in 0 .. L
      BY <1>1
    <3>2. \A c \in 0 .. L : c \in Nat
      OBVIOUS
    <3> HIDE DEF L
    <3> QED BY <1>2, <3>1, <3>2
  <2>3. \A a, b \in Nat : b - a = (b - (a + 1)) + 1
    OBVIOUS
  <2> QED BY <2>1, <2>2, <2>3 DEF Levels
<1>5. \A m \in Under(n) : m = n \/ \E k \in Kids(n) : m \in Under(k)
  BY ThroughAChild DEF Under
<1>6. \A k \in Kids(n) : \A m \in Under(k) : m \in Under(n)
  <2> TAKE k \in Kids(n)
  <2> TAKE m \in Under(k)
  <2>1. m \in Node /\ k \in lineage[m] /\ m # n
    BY ThroughAChild DEF Under
  <2> QED BY <2>1, ThroughAChild DEF Under
<1>7. PICK m \in Under(n) : Height(n) = Levels(n, m)
  BY HeightIsMax DEF Distances
<1>8. CASE Kids(n) = {}
  BY <1>5, <1>7, <1>8, HeightIsMax
<1>9. CASE Kids(n) # {}
  <2>1. \A k \in Kids(n) : Height(k) \in Nat
    BY <1>3, HeightIsMax
  <2>2. \A k \in Kids(n) : Height(k) + 1 <= Height(n)
    <3> TAKE k \in Kids(n)
    <3>1. PICK x \in Under(k) : Height(k) = Levels(k, x)
      BY <1>3, HeightIsMax DEF Distances
    <3>2. Height(k) + 1 = Levels(n, x) /\ x \in Under(n)
      BY <1>4, <1>6, <3>1 DEF Under
    <3> QED BY <3>2, HeightIsMax
  <2>3. PICK k \in Kids(n) : Height(n) = Height(k) + 1
    <3>1. Height(n) # 0
      <4>1. PICK k \in Kids(n) : TRUE
        BY <1>9
      <4>2. Height(k) \in Nat /\ Height(k) + 1 <= Height(n)
        BY <2>1, <2>2
      <4>3. Height(n) \in Nat
        BY HeightIsMax
      <4> QED BY <4>2, <4>3
    <3>2. m # n
      BY <1>7, <3>1, HeightIsMax
    <3>3. PICK k \in Kids(n) : m \in Under(k)
      BY <1>5, <3>2
    <3>4. Height(n) = Levels(k, m) + 1 /\ Levels(k, m) \in Int /\ Levels(k, m) <= Height(k)
      BY <1>3, <1>4, <1>7, <3>3, HeightIsMax DEF Under
    <3>5. Height(k) \in Nat /\ Height(k) + 1 <= Height(n) /\ Height(n) \in Nat
      BY <2>1, <2>2, HeightIsMax
    <3>6. Height(n) = Height(k) + 1
      BY <3>4, <3>5
    <3> QED BY <3>6
  <2>4. Max(heights) \in heights /\ \A x \in heights : x <= Max(heights)
    <3>1. Height(n) \in Nat
      BY HeightIsMax
    <3>2. heights \in SUBSET (0 .. Height(n)) /\ heights # {}
      BY <1>9, <2>1, <2>2, <3>1
    <3>3. 0 \in Int /\ Height(n) \in Int
      BY <3>1
    <3> HIDE DEF heights
    <3> QED BY <3>2, <3>3, MaxOfSome
  <2>5. Max(heights) = Height(k)
    <3>1. PICK x \in Kids(n) : Max(heights) = Height(x)
      BY <2>4
    <3>2. Height(k) <= Max(heights) /\ Height(x) + 1 <= Height(n) /\ Height(x) \in Nat /\ Height(k) \in Nat
      BY <2>1, <2>2, <2>4
    <3> QED BY <2>3, <3>1, <3>2
  <2> QED BY <1>9, <2>3, <2>5
<1> QED BY <1>8, <1>9

\* A node that is measured once its children are gets its height.
LEMMA MeasuredFromKids ==
  ASSUME Table, NEW n \in Node, \A k \in Kids(n) : max_depth[k] = Height(k)
  PROVE  depth_of(n) = Height(n)
<1>1. {max_depth[k] : k \in Kids(n)} = {Height(k) : k \in Kids(n)}
  OBVIOUS
<1> QED BY <1>1, HeightFromKids DEF depth_of
----------------------------------------------------------------------------
(* The stack of the walk that measures. *)

Entry(T) == [id : T, visited : BOOLEAN]

\* An entry for each element of T, the smaller first; Met are the elements that have
\* been visited.
Ascends(w, T) ==
  /\ w \in Seq(Entry(T))
  /\ \A x \in T : \E k \in 1 .. Len(w) : w[k].id = x
  /\ \A j, k \in 1 .. Len(w) : j < k => w[j].id < w[k].id

Met(w) == {w[j].id : j \in {k \in 1 .. Len(w) : w[k].visited}}

LEMMA EntriesOf ==
  ASSUME NEW T, NEW w \in Seq(Entry(T))
  PROVE  /\ Len(w) \in Nat
         /\ \A k \in 1 .. Len(w) : w[k] \in Entry(T) /\ w[k].id \in T /\ w[k].visited \in BOOLEAN
<1>1. Len(w) \in Nat /\ \A k \in 1 .. Len(w) : w[k] \in Entry(T)
  OBVIOUS
<1>2. \A e \in Entry(T) : e.id \in T /\ e.visited \in BOOLEAN
  BY DEF Entry
<1> QED BY <1>1, <1>2

LEMMA UnvisitedAscend ==
  ASSUME NEW T \in SUBSET Nat, NEW s, Lists(s, T)
  PROVE  Ascends(Unvisited(s), T) /\ Met(Unvisited(s)) = {}
<1> DEFINE u == Unvisited(s)
           L == Len(s)
<1>1. s \in Seq(T) /\ L \in Nat /\ \A k \in 1 .. L : s[k] \in T
  BY DEF Lists
<1>2. u = [k \in 1 .. L |-> [id |-> s[k], visited |-> FALSE]]
  BY DEF Unvisited
<1>3. \A k \in 1 .. L : u[k] \in Entry(T) /\ u[k].id = s[k] /\ u[k].visited = FALSE
  BY <1>1, <1>2 DEF Entry
<1>4. u \in Seq(Entry(T)) /\ Len(u) = L
  BY <1>1, <1>2, <1>3
<1> HIDE DEF u
<1>5. \A x \in T : \E k \in 1 .. Len(u) : u[k].id = x
  BY <1>3, <1>4 DEF Lists
<1>6. \A j, k \in 1 .. Len(u) : j < k => u[j].id < u[k].id
  BY <1>3, <1>4 DEF Lists
<1>7. Ascends(u, T)
  BY <1>4, <1>5, <1>6 DEF Ascends
<1>8. Met(u) = {}
  BY <1>3, <1>4 DEF Met
<1> QED BY <1>7, <1>8 DEF u

LEMMA MarkedEntry ==
  ASSUME NEW T, NEW e \in Entry(T)
  PROVE  [e EXCEPT !.visited = TRUE] = [id |-> e.id, visited |-> TRUE]
<1> DEFINE marked == [e EXCEPT !.visited = TRUE]
<1>1. marked \in [id : T, visited : BOOLEAN] /\ marked.id = e.id /\ marked.visited = TRUE
  BY DEF Entry
<1>2. marked = [id |-> marked.id, visited |-> marked.visited]
  <2> HIDE DEF marked
  <2> QED BY <1>1
<1> QED BY <1>1, <1>2

LEMMA MarkAscends ==
  ASSUME NEW t \in Nat
  PROVE  LET mark == <<[id |-> t, visited |-> TRUE]>>
         IN  Ascends(mark, {t}) /\ Met(mark) = {t}
<1> DEFINE mark == <<[id |-> t, visited |-> TRUE]>>
<1>1. [id |-> t, visited |-> TRUE] \in Entry({t})
  BY DEF Entry
<1>2. /\ mark \in Seq(Entry({t})) /\ Len(mark) = 1
      /\ mark[1].id = t /\ mark[1].visited = TRUE
  BY <1>1
<1> HIDE DEF mark
<1>3. \A k \in 1 .. Len(mark) : k = 1
  BY <1>2
<1>4. 1 \in 1 .. Len(mark)
  BY <1>2
<1>5. \A x \in {t} : \E k \in 1 .. Len(mark) : mark[k].id = x
  BY <1>2, <1>4
<1>6. \A j, k \in 1 .. Len(mark) : ~(j < k)
  BY <1>3
<1>7. Ascends(mark, {t})
  BY <1>2, <1>5, <1>6 DEF Ascends
<1>8. {k \in 1 .. Len(mark) : mark[k].visited} = {1}
  BY <1>2, <1>3, <1>4
<1>9. Met(mark) = {t}
  BY <1>2, <1>8 DEF Met
<1> QED BY <1>7, <1>9 DEF mark

Before(A, B) ==
  A \in SUBSET Nat /\ B \in SUBSET Nat /\ \A a \in A, b \in B : a < b

MetAre(w, V) == Met(w) = V

LEMMA AscendOn ==
  ASSUME NEW A, NEW B, NEW s, NEW t, Ascends(s, A), Ascends(t, B), Before(A, B)
  PROVE  Ascends(s \o t, A \cup B) /\ MetAre(s \o t, Met(s) \cup Met(t))
<1> DEFINE L == Len(s)
           M == Len(t)
           u == s \o t
           Both == Entry(A \cup B)
<1>1. /\ s \in Seq(Entry(A)) /\ t \in Seq(Entry(B)) /\ L \in Nat /\ M \in Nat
      /\ \A k \in 1 .. L : s[k] \in Entry(A) /\ s[k].id \in A
      /\ \A k \in 1 .. M : t[k] \in Entry(B) /\ t[k].id \in B
  BY EntriesOf DEF Ascends
<1>2. s \in Seq(Both) /\ t \in Seq(Both)
  <2>1. \A e \in Entry(A) \cup Entry(B) : e \in Both
    BY DEF Entry
  <2> HIDE DEF Both
  <2>2. (\A k \in 1 .. L : s[k] \in Both) /\ (\A k \in 1 .. M : t[k] \in Both)
    BY <1>1, <2>1
  <2> QED BY <1>1, <2>2
<1> HIDE DEF Both
<1>3. u \in Seq(Both) /\ Len(u) = L + M
  BY <1>1, <1>2
<1>4. (\A k \in 1 .. L : u[k] = s[k]) /\ (\A k \in 1 .. M : u[L + k] = t[k])
  BY <1>1, <1>2
<1>5. \A k \in 1 .. L + M : k \in 1 .. L \/ (k - L \in 1 .. M /\ k = L + (k - L))
  BY <1>1
<1>6. (\A k \in 1 .. L : k \in 1 .. L + M) /\ (\A k \in 1 .. M : L + k \in 1 .. L + M)
  BY <1>1
<1> HIDE DEF u, L, M
<1>7. \A x \in A \cup B : \E k \in 1 .. Len(u) : u[k].id = x
  <2> TAKE x \in A \cup B
  <2>1. CASE x \in A
    <3>1. PICK k \in 1 .. L : s[k].id = x
      BY <2>1 DEF Ascends, L
    <3> QED BY <1>3, <1>4, <1>6, <3>1
  <2>2. CASE x \in B
    <3>1. PICK k \in 1 .. M : t[k].id = x
      BY <2>2 DEF Ascends, M
    <3> QED BY <1>3, <1>4, <1>6, <3>1
  <2> QED BY <2>1, <2>2
<1>8. ASSUME NEW j \in 1 .. L + M, NEW k \in 1 .. L + M, j < k PROVE u[j].id < u[k].id
  <2>1. CASE k \in 1 .. L
    <3>1. j \in 1 .. L
      BY <1>1, <1>8, <2>1
    <3> QED BY <1>4, <1>8, <2>1, <3>1 DEF Ascends, L
  <2>2. CASE j \in 1 .. L /\ k - L \in 1 .. M
    <3>1. s[j].id \in A /\ t[k - L].id \in B /\ u[k] = t[k - L] /\ u[j] = s[j]
      BY <1>1, <1>4, <1>5, <2>2
    <3> QED BY <3>1 DEF Before
  <2>3. CASE j - L \in 1 .. M /\ k - L \in 1 .. M
    <3>1. j - L < k - L
      BY <1>1, <1>8
    <3>2. t[j - L].id < t[k - L].id
      BY <2>3, <3>1 DEF Ascends, M
    <3>3. u[k] = t[k - L] /\ u[j] = t[j - L]
      BY <1>1, <1>4, <1>5, <2>3
    <3> QED BY <3>2, <3>3
  <2> QED BY <1>5, <2>1, <2>2, <2>3
<1>9. Ascends(u, A \cup B)
  BY <1>3, <1>7, <1>8 DEF Ascends, Both
<1>10. ASSUME NEW x PROVE x \in Met(u) <=> x \in Met(s) \cup Met(t)
  <2>1. x \in Met(u) <=> \E k \in 1 .. L + M : u[k].visited /\ x = u[k].id
    BY <1>3 DEF Met
  <2>2. x \in Met(s) <=> \E k \in 1 .. L : s[k].visited /\ x = s[k].id
    BY DEF Met, L
  <2>3. x \in Met(t) <=> \E k \in 1 .. M : t[k].visited /\ x = t[k].id
    BY DEF Met, M
  <2>4. ASSUME x \in Met(u) PROVE x \in Met(s) \cup Met(t)
    <3>1. PICK k \in 1 .. L + M : u[k].visited /\ x = u[k].id
      BY <2>1, <2>4
    <3>2. CASE k \in 1 .. L
      BY <1>4, <2>2, <3>1, <3>2
    <3>3. CASE k - L \in 1 .. M /\ k = L + (k - L)
      <4>1. u[k] = t[k - L]
        BY <1>4, <3>3
      <4> QED BY <2>3, <3>1, <3>3, <4>1
    <3> QED BY <1>5, <3>2, <3>3
  <2>5. ASSUME x \in Met(s) PROVE x \in Met(u)
    BY <1>4, <1>6, <2>1, <2>2, <2>5
  <2>6. ASSUME x \in Met(t) PROVE x \in Met(u)
    BY <1>4, <1>6, <2>1, <2>3, <2>6
  <2> QED BY <2>4, <2>5, <2>6
<1>11. Met(u) = Met(s) \cup Met(t)
  BY <1>10
<1> QED BY <1>9, <1>11 DEF u, MetAre

LEMMA TopOfAscent ==
  ASSUME NEW T \in SUBSET Nat, NEW w, Ascends(w, T), w # <<>>
  PROVE  /\ Last(w) \in Entry(T) /\ \A x \in T : x <= Last(w).id
         /\ Ascends(Front(w), T \ {Last(w).id})
         /\ Met(Front(w)) = Met(w) \ {Last(w).id}
         /\ Last(w).visited <=> Last(w).id \in Met(w)
<1> DEFINE L == Len(w)
           f == Front(w)
           e == Last(w)
           t == Last(w).id
<1>1. w \in Seq(Entry(T)) /\ L \in Nat /\ \A k \in 1 .. L : w[k] \in Entry(T) /\ w[k].id \in T /\ w[k].visited \in BOOLEAN
  BY EntriesOf DEF Ascends
<1>2. /\ f \in Seq(Entry(T)) /\ Len(f) = L - 1 /\ e = w[L] /\ L \in 1 .. L /\ t = w[L].id
      /\ \A k \in 1 .. L - 1 : f[k] = w[k]
  BY <1>1, FrontOf
<1>3. \A k \in 1 .. L : k = L \/ k \in 1 .. L - 1
  BY <1>1
<1>4. \A k \in 1 .. L - 1 : k \in 1 .. L /\ k < L
  BY <1>1
<1>5. \A k \in 1 .. L - 1 : w[k].id < t /\ w[k].id \in Nat /\ t \in Nat
  BY <1>1, <1>2, <1>4 DEF Ascends
<1> HIDE DEF f, t, e, L
<1>6. t \in T /\ e \in Entry(T) /\ e.visited \in BOOLEAN
  BY <1>1, <1>2
<1>7. ASSUME NEW x \in T PROVE x <= t /\ (x # t => \E k \in 1 .. L - 1 : f[k].id = x)
  <2>1. PICK k \in 1 .. L : w[k].id = x
    BY DEF Ascends, L
  <2>2. CASE k = L
    BY <1>2, <1>6, <2>1, <2>2
  <2>3. CASE k \in 1 .. L - 1
    BY <1>2, <1>5, <2>1, <2>3
  <2> QED BY <1>3, <2>2, <2>3
<1>8. \A k \in 1 .. L - 1 : f[k] \in Entry(T \ {t}) /\ f[k].id # t
  <2> TAKE k \in 1 .. L - 1
  <2>1. f[k] = w[k] /\ w[k].id < t /\ w[k].id \in Nat /\ t \in Nat /\ w[k] \in Entry(T)
    BY <1>1, <1>2, <1>4, <1>5
  <2>2. f[k] \in Entry(T) /\ f[k].id # t
    BY <2>1
  <2> QED BY <2>2 DEF Entry
<1>9. f \in Seq(Entry(T \ {t}))
  <2>1. f = [k \in 1 .. L - 1 |-> f[k]] /\ L - 1 \in Nat
    BY <1>1, <1>2
  <2> DEFINE Rest == Entry(T \ {t})
  <2>2. \A k \in 1 .. L - 1 : f[k] \in Rest
    BY <1>8
  <2> HIDE DEF Rest
  <2>3. f \in Seq(Rest)
    BY <2>1, <2>2
  <2> QED BY <2>3 DEF Rest
<1>10. \A j, k \in 1 .. L - 1 : j < k => f[j].id < f[k].id
  BY <1>2, <1>4 DEF Ascends, L
<1>11. Ascends(f, T \ {t})
  BY <1>2, <1>7, <1>9, <1>10 DEF Ascends
<1>12. \A x : x \in Met(w) <=> \E k \in 1 .. L : w[k].visited /\ x = w[k].id
  BY DEF Met, L
<1>13. \A x : x \in Met(f) <=> \E k \in 1 .. L - 1 : f[k].visited /\ x = f[k].id
  BY <1>2 DEF Met
<1>14. ASSUME NEW x PROVE x \in Met(f) <=> x \in Met(w) \ {t}
  <2>1. ASSUME x \in Met(f) PROVE x \in Met(w) \ {t}
    BY <1>2, <1>4, <1>8, <1>12, <1>13, <2>1
  <2>2. ASSUME x \in Met(w) \ {t} PROVE x \in Met(f)
    BY <1>2, <1>3, <1>12, <1>13, <2>2
  <2> QED BY <2>1, <2>2
<1>15. Met(f) = Met(w) \ {t}
  BY <1>14
<1>16. e.visited <=> t \in Met(w)
  <2>1. ASSUME t \in Met(w) PROVE e.visited
    <3>1. PICK k \in 1 .. L : w[k].visited /\ t = w[k].id
      BY <1>12, <2>1
    <3>2. k \notin 1 .. L - 1
      BY <1>2, <1>8, <3>1
    <3> QED BY <1>2, <1>3, <3>1, <3>2
  <2> QED BY <1>2, <1>12, <2>1
<1> QED BY <1>6, <1>7, <1>11, <1>15, <1>16 DEF f, t, e
----------------------------------------------------------------------------
(* The walk that measures. *)

\* The nodes up to the last that is left whose parents have been visited.
Reached(last, V) == {n \in 1 .. last : nodes[n].parent \in {0} \cup V}

\* The nodes behind it are measured, and their parents have been met.
Measured(last, V) ==
  \A n \in last + 1 .. Len(nodes) :
    max_depth[n] = Height(n) /\ nodes[n].parent \in {0} \cup V \cup last + 1 .. Len(nodes)

Rises(w, All, T) ==
  /\ w \in Seq([id : All, visited : BOOLEAN])
  /\ \A j, k \in 1 .. Len(w) : j < k => w[j].id < w[k].id
  /\ {w[j].id : j \in 1 .. Len(w)} = T

LEMMA AscentIs ==
  ASSUME NEW All, NEW T \in SUBSET All, NEW w
  PROVE  Rises(w, All, T) <=> Ascends(w, T)
<1> DEFINE ids == {w[j].id : j \in 1 .. Len(w)}
           rising == \A j, k \in 1 .. Len(w) : j < k => w[j].id < w[k].id
           Wide == Entry(All)
           Narrow == Entry(T)
<1>1. ASSUME w \in Seq(Entry(All)), rising, ids = T PROVE Ascends(w, T)
  <2>1. Len(w) \in Nat /\ \A k \in 1 .. Len(w) : w[k] \in Entry(All) /\ w[k].id \in T
    BY <1>1
  <2>2. \A e \in Entry(All) : e.id \in T => e \in Narrow
    BY DEF Entry
  <2>3. \A k \in 1 .. Len(w) : w[k] \in Narrow
    BY <2>1, <2>2
  <2>4. w = [k \in 1 .. Len(w) |-> w[k]]
    BY <1>1
  <2>5. w \in Seq(Narrow)
    <3> HIDE DEF Narrow, ids
    <3> QED BY <2>1, <2>3, <2>4
  <2>6. \A x \in T : \E k \in 1 .. Len(w) : w[k].id = x
    BY <1>1
  <2> HIDE DEF ids
  <2> QED BY <1>1, <2>5, <2>6 DEF Ascends
<1>2. ASSUME Ascends(w, T) PROVE w \in Seq(Entry(All)) /\ rising /\ ids = T
  <2>1. w \in Seq(Entry(T))
    BY <1>2 DEF Ascends
  <2>2. /\ Len(w) \in Nat /\ w = [k \in 1 .. Len(w) |-> w[k]]
        /\ \A k \in 1 .. Len(w) : w[k] \in Entry(T) /\ w[k].id \in T
    BY <2>1, EntriesOf
  <2>3. \A e \in Entry(T) : e \in Wide
    BY DEF Entry
  <2>4. \A k \in 1 .. Len(w) : w[k] \in Wide
    BY <2>2, <2>3
  <2>5. w \in Seq(Wide)
    <3> HIDE DEF Wide
    <3> QED BY <2>2, <2>4
  <2>6. rising /\ \A x \in T : \E k \in 1 .. Len(w) : w[k].id = x
    BY <1>2 DEF Ascends
  <2>7. ids = T
    BY <2>2, <2>6
  <2> QED BY <2>5, <2>6, <2>7
<1>3. Entry(All) = [id : All, visited : BOOLEAN]
  BY DEF Entry
<1> HIDE DEF ids, rising
<1>4. w \in Seq(Entry(All)) /\ rising /\ ids = T <=> Ascends(w, T)
  BY <1>1, <1>2
<1> QED BY <1>3, <1>4 DEF Rises, rising, ids

\* The invariant of the walk, said with Ascends, Reached and Measured.
LEMMA DepthWalkIs ==
  ASSUME Table, phase = "depth"
  PROVE  DepthWalk <=> /\ DOMAIN max_depth = Node
                       /\ \E last \in 0 .. Len(nodes) :
                            Ascends(walk, Reached(last, Met(walk))) /\ Measured(last, Met(walk))
<1>1. ASSUME NEW last \in 0 .. Len(nodes)
      PROVE  LeftToMeasure(last) <=> /\ {walk[j].id : j \in 1 .. Len(walk)} = Reached(last, Met(walk))
                                     /\ Measured(last, Met(walk))
  BY DEF LeftToMeasure, Measured, Reached, Visited, Met
<1>2. ASSUME NEW last \in 0 .. Len(nodes) PROVE Reached(last, Met(walk)) \in SUBSET Node
  BY DEF Reached, Node, Table
<1>3. ASSUME NEW last \in 0 .. Len(nodes)
      PROVE  Rises(walk, Node, Reached(last, Met(walk))) <=> Ascends(walk, Reached(last, Met(walk)))
  BY <1>2, AscentIs
<1> QED BY <1>1, <1>3 DEF DepthWalk, Rises

\* A node that is met again is the last that is left: those that follow it would have
\* been reached from a node that was visited.
LEMMA MetAgainIsLast ==
  ASSUME Table, NEW last \in 0 .. Len(nodes), NEW V, V \subseteq Reached(last, V),
         NEW t \in V, \A n \in Reached(last, V) : n <= t
  PROVE  t = last
<1> DEFINE up(n) == nodes[n].parent
           p == up(t + 1)
<1>1. /\ Len(nodes) \in Nat
      /\ \A n \in Node : n \in Nat /\ up(n) \in 0 .. n - 1
      /\ \A n \in 1 .. last : n \in Node
      /\ \A n \in Reached(last, V) : n \in 1 .. last /\ up(n) \in {0} \cup V
  BY DEF Table, Node, Reached
<1>2. t \in 1 .. last /\ \A v \in V : v \in Nat
  <2>1. \A v \in V : v \in Reached(last, V)
    OBVIOUS
  <2> QED BY <1>1, <2>1
<1> SUFFICES ASSUME t # last PROVE FALSE
  OBVIOUS
<1>3. t + 1 \in 1 .. last /\ t + 1 \in Node
  BY <1>1, <1>2
<1>4. \A m \in p + 1 .. t + 1 : up(m) >= p
  BY <1>3 DEF Table
<1>5. p \in 0 .. t /\ p \notin {0} \cup V
  <2>1. t + 1 \notin Reached(last, V)
    BY <1>2
  <2> QED BY <1>1, <1>2, <1>3, <2>1, SMTT(30) DEF Reached
<1>6. p \in 1 .. t - 1
  BY <1>2, <1>5
<1> HIDE DEF p
<1> DEFINE above == {v \in V : p < v}
<1>7. above \in SUBSET Nat /\ t \in above
  <2>1. p < t
    BY <1>2, <1>6
  <2> QED BY <1>2, <2>1
<1>8. PICK v \in above : \A x \in above : v <= x
  <2> HIDE DEF above
  <2> QED BY <1>7, LeastNat
<1>9. v \in V /\ p < v /\ v <= t /\ v \in Reached(last, V) /\ v \in Node
  BY <1>1, <1>7, <1>8
<1>10. up(v) \in {0} \cup V /\ up(v) \in 0 .. v - 1 /\ up(v) >= p
  <2>1. v \in p + 1 .. t + 1
    BY <1>1, <1>2, <1>6, <1>9
  <2> QED BY <1>1, <1>4, <1>9, <2>1
<1>11. up(v) \in V /\ up(v) # p
  BY <1>5, <1>6, <1>10
<1>12. up(v) \in above /\ up(v) < v
  <2>1. up(v) \in Int /\ p \in Int /\ v \in Nat
    <3>1. v \in Nat /\ t \in Nat
      BY <1>2, <1>9
    <3> HIDE DEF up
    <3> QED BY <1>6, <1>10, <3>1
  <2>2. p < up(v) /\ up(v) < v
    BY <1>10, <1>11, <2>1
  <2> QED BY <1>11, <2>2
<1>13. v <= up(v)
  BY <1>8, <1>12
<1> QED BY <1>1, <1>9, <1>12, <1>13

\* What is left when the last node has been measured.
LEMMA MeasuredOneMore ==
  ASSUME Table, NEW t \in Node, NEW V, t \in V
  PROVE  Reached(t - 1, V \ {t}) = Reached(t, V) \ {t}
<1>1. t \in Nat /\ \A n \in 1 .. t - 1 : n \in 1 .. t /\ nodes[n].parent # t
  BY DEF Table, Node
<1>2. ASSUME NEW n PROVE n \in Reached(t - 1, V \ {t}) <=> n \in Reached(t, V) \ {t}
  <2>1. n \in 1 .. t - 1 <=> n \in 1 .. t /\ n # t
    BY <1>1
  <2> QED BY <1>1, <2>1 DEF Reached
<1> QED BY <1>2

\* What is left when another node has been visited.
LEMMA VisitedOneMore ==
  ASSUME Table, NEW last \in 0 .. Len(nodes), NEW V, NEW t \in Reached(last, V), t \notin V,
         Measured(last, V)
  PROVE  Reached(last, V \cup {t}) = Reached(last, V) \cup Kids(t)
<1>1. Len(nodes) \in Nat /\ t \in 1 .. last /\ t \in Nat
  BY DEF Table, Reached
<1>2. ASSUME NEW k \in Kids(t) PROVE k \in 1 .. last
  <2>1. k \in Node /\ nodes[k].parent = t
    BY DEF Kids
  <2>2. k \in last + 1 .. Len(nodes) => t \in {0} \cup V \cup last + 1 .. Len(nodes)
    BY <2>1 DEF Measured
  <2>3. k \notin last + 1 .. Len(nodes)
    BY <1>1, <2>2
  <2> QED BY <1>1, <2>1, <2>3 DEF Node
<1>3. \A n \in 1 .. last : n \in Node
  BY <1>1 DEF Node
<1> QED BY <1>2, <1>3 DEF Reached, Kids

\* The tree stays as it is, and so do the heights of its nodes.
LEMMA HeightsStay ==
  ASSUME nodes' = nodes
  PROVE  \A n : Height(n)' = Height(n)
<1>1. lineage' = lineage
  BY DEF lineage
<1> QED BY <1>1 DEF Height, Levels, Node

LEMMA DepthWalkNext ==
  ASSUME Table, nodes' = nodes, DOMAIN max_depth' = Node,
         NEW last \in 0 .. Len(nodes),
         Ascends(walk', Reached(last, Met(walk'))),
         \A n \in last + 1 .. Len(nodes) :
           /\ max_depth'[n] = Height(n)
           /\ nodes[n].parent \in {0} \cup Met(walk') \cup last + 1 .. Len(nodes)
  PROVE  DepthWalk'
<1> DEFINE T == Reached(last, Met(walk'))
<1>1. T \in SUBSET Node
  BY DEF Reached, Node, Table
<1>2. /\ walk' \in Seq([id : Node, visited : BOOLEAN])
      /\ \A j, k \in 1 .. Len(walk') : j < k => walk'[j].id < walk'[k].id
      /\ {walk'[j].id : j \in 1 .. Len(walk')} = T
  <2> HIDE DEF T
  <2>1. Ascends(walk', T)
    BY DEF T
  <2>2. Rises(walk', Node, T)
    BY <1>1, <2>1, AscentIs
  <2> QED BY <2>2 DEF Rises
<1>3. Visited' = Met(walk')
  BY DEF Visited, Met
<1>4. LeftToMeasure(last)'
  <2>1. {walk'[j].id : j \in 1 .. Len(walk')} = {n \in 1 .. last : nodes'[n].parent \in {0} \cup Visited'}
    BY <1>2, <1>3 DEF Reached
  <2>2. \A n \in last + 1 .. Len(nodes') :
          /\ max_depth'[n] = Height(n)'
          /\ nodes'[n].parent \in {0} \cup Visited' \cup last + 1 .. Len(nodes')
    BY <1>3, HeightsStay
  <2> QED BY <2>1, <2>2 DEF LeftToMeasure
<1>5. Node' = Node /\ Len(nodes') = Len(nodes)
  BY DEF Node
<1> QED BY <1>2, <1>4, <1>5 DEF DepthWalk

\* The text is read: the first walk begins with the roots.
LEMMA ParseEndsKeeps ==
  ASSUME DocInv, MetadataInv, ParseEnds
  PROVE  MetadataInv'
<1>1. Table /\ Len(nodes) \in Nat
  BY ParsedTable DEF Table
<1>2. /\ phase = "parse" /\ phase' = "order" /\ walk' = pushed(Children(0))
      /\ doc_order' = <<>> /\ nodes' = nodes
  BY DEF ParseEnds, MetadataInv
<1>3. Frontier(0) = Kids(0)
  <2>1. \A n \in Node : 0 < n /\ (nodes[n].parent <= 0 <=> nodes[n].parent = 0)
    BY <1>1 DEF Table, Node
  <2> QED BY <2>1 DEF Frontier, Kids
<1>4. Descends(walk', Frontier(0))
  <2>1. 0 \in 0 .. Len(nodes)
    BY <1>1
  <2> QED BY <1>1, <1>2, <1>3, <2>1, PushedDescend
<1>5. Len(doc_order') = 0 /\ doc_order' \in Seq(Nat)
  BY <1>2
<1>6. OrderWalk'
  <2>1. /\ walk' \in Seq(Frontier(0)) /\ Frontier(0) \subseteq ToSet(walk')
        /\ \A j, k \in 1 .. Len(walk') : j < k => walk'[k] < walk'[j]
    BY <1>4, DescentIs
  <2>2. Frontier(Len(doc_order))' = Frontier(0)
    BY <1>2, <1>5 DEF Frontier, Node
  <2>3. Len(doc_order') <= Len(nodes')
    BY <1>1, <1>2, <1>5
  <2> QED BY <2>1, <2>2, <2>3 DEF OrderWalk
<1>7. DocOrderIsNodeId'
  BY <1>2, <1>5 DEF DocOrderIsNodeId
<1>8. DepthWalk' /\ MaxDepthIsHeight'
  BY <1>2 DEF DepthWalk, MaxDepthIsHeight
<1> QED BY <1>2, <1>5, <1>6, <1>7, <1>8 DEF MetadataInv

\* Every node is numbered: the second walk begins with the roots, and measures the last
\* node of the table first.
LEMMA OrderEndsKeeps ==
  ASSUME DocInv, MetadataInv, OrderEnds
  PROVE  MetadataInv'
<1> DEFINE L == Len(nodes)
           k == Len(doc_order)
<1>1. Table /\ L \in Nat
  BY ParsedTable DEF Table
<1>2. /\ phase = "order" /\ phase' = "depth" /\ walk = <<>> /\ walk' = Unvisited(Children(0))
      /\ doc_order' = doc_order /\ nodes' = nodes /\ max_depth' = [n \in Node |-> 0]
  BY DEF OrderEnds
<1>3. doc_order \in Seq(Nat) /\ k \in Nat /\ k <= L /\ Descends(walk, Frontier(k))
  <2>1. doc_order \in Seq(Nat) /\ k <= L
    BY <1>2 DEF MetadataInv, OrderWalk
  <2>2. Descends(walk, Frontier(k))
    BY <1>2, DescentIs DEF MetadataInv, OrderWalk
  <2> QED BY <2>1, <2>2
<1>4. k = L
  <2>1. Frontier(k) = {}
    <3>1. \A x \in Frontier(k) : \E j \in 1 .. Len(walk) : walk[j] = x
      BY <1>3 DEF Descends
    <3>2. Len(walk) = 0
      BY <1>2
    <3> QED BY <3>1, <3>2
  <2>2. ASSUME k # L PROVE FALSE
    <3>1. k \in 0 .. L - 1
      BY <1>1, <1>3, <2>2
    <3> QED BY <1>1, <2>1, <3>1, FrontierMoves
  <2> QED BY <2>2
<1>5. 0 \in 0 .. L /\ L \in 0 .. L
  BY <1>1
<1>6. Ascends(walk', Kids(0)) /\ Met(walk') = {}
  BY <1>1, <1>2, <1>5, ChildrenAre, UnvisitedAscend
<1>7. Reached(L, {}) = Kids(0)
  BY DEF Reached, Kids, Node
<1>8. DepthWalk'
  <2>1. \A n : n \notin L + 1 .. L
    BY <1>1
  <2>2. Ascends(walk', Reached(L, Met(walk')))
    BY <1>6, <1>7
  <2>3. DOMAIN max_depth' = Node
    BY <1>2
  <2> QED BY <1>1, <1>2, <1>5, <2>1, <2>2, <2>3, DepthWalkNext
<1>9. OrderWalk' /\ MaxDepthIsHeight'
  BY <1>2 DEF OrderWalk, MaxDepthIsHeight
<1>10. DocOrderIsNodeId'
  BY <1>2, <1>4 DEF DocOrderIsNodeId, MetadataInv
<1> QED BY <1>2, <1>3, <1>8, <1>9, <1>10 DEF MetadataInv

\* assign_max_depth measures the last node that is left, or visits it and lets its
\* children follow.
LEMMA MeasureNodeKeeps ==
  ASSUME DocInv, MetadataInv, MeasureNode
  PROVE  MetadataInv'
<1> DEFINE L == Len(nodes)
           V == Met(walk)
           top == Last(walk)
           t == Last(walk).id
           rest == Front(walk)
<1>1. /\ Table /\ L \in Nat
      /\ \A n \in Node : n \in Nat /\ n \in 1 .. L /\ nodes[n].parent \in 0 .. n - 1
  BY ParsedTable DEF Table, Node
<1>2. /\ phase = "depth" /\ phase' = "depth" /\ walk # <<>>
      /\ nodes' = nodes /\ doc_order' = doc_order
  BY DEF MeasureNode
<1>3. /\ DOMAIN max_depth = Node
      /\ \E last \in 0 .. L : Ascends(walk, Reached(last, V)) /\ Measured(last, V)
  BY <1>1, <1>2, DepthWalkIs DEF MetadataInv
<1>4. PICK last \in 0 .. L : Ascends(walk, Reached(last, V)) /\ Measured(last, V)
  BY <1>3
<1> DEFINE T == Reached(last, V)
<1>5. T \in SUBSET Nat /\ \A n \in T : n \in Node /\ n \in 1 .. last
  BY <1>1 DEF Reached, Node
<1>6. /\ top \in Entry(T) /\ \A x \in T : x <= t
      /\ Ascends(rest, T \ {t}) /\ Met(rest) = V \ {t}
      /\ top.visited <=> t \in V
  <2>1. Ascends(walk, T)
    BY <1>4
  <2> HIDE DEF T
  <2> QED BY <1>2, <1>5, <2>1, TopOfAscent
<1>7. t \in T /\ top = [id |-> t, visited |-> top.visited] /\ top.visited \in BOOLEAN
  BY <1>6 DEF Entry
<1>8. V \subseteq T
  <2>1. walk \in Seq(Entry(T))
    BY <1>4 DEF Ascends
  <2>2. \A k \in 1 .. Len(walk) : walk[k].id \in T
    <3> HIDE DEF T
    <3> QED BY <2>1, EntriesOf
  <2> HIDE DEF T
  <2> QED BY <2>2 DEF Met
<1>9. CASE top.visited
  <2>1. /\ max_depth' = [max_depth EXCEPT ![t] = depth_of(t)]
        /\ walk' = rest
    BY <1>9 DEF MeasureNode
  <2>2. t \in V /\ t = last
    <3>1. t \in V
      BY <1>6, <1>9
    <3> HIDE DEF V, t
    <3> QED BY <1>1, <1>6, <1>8, <3>1, MetAgainIsLast
  <2>3. t \in Node /\ t \in Nat /\ t - 1 \in 0 .. L /\ (t - 1) + 1 = t
    <3>1. t \in Node
      BY <1>5, <1>7
    <3> HIDE DEF t
    <3> QED BY <1>1, <3>1
  <2>4. Ascends(walk', Reached(t - 1, Met(walk')))
    <3>1. Reached(t - 1, V \ {t}) = T \ {t}
      <4> HIDE DEF V, t
      <4> QED BY <1>1, <2>2, <2>3, MeasuredOneMore
    <3> QED BY <1>6, <2>1, <3>1
  <2>5. depth_of(t) = Height(t)
    <3>1. \A k \in Kids(t) : k \in last + 1 .. L
      BY <1>1, <2>2, <2>3 DEF Kids
    <3>2. \A k \in Kids(t) : max_depth[k] = Height(k)
      BY <1>4, <3>1 DEF Measured
    <3> QED BY <1>1, <2>3, <3>2, MeasuredFromKids
  <2>6. ASSUME NEW n \in t .. L
        PROVE  /\ max_depth'[n] = Height(n)
               /\ nodes[n].parent \in {0} \cup Met(walk') \cup t .. L
    <3> HIDE DEF t
    <3>1. n \in Node
      BY <1>1, <2>3 DEF Node
    <3>2. CASE n = t
      <4>1. max_depth'[n] = Height(n)
        BY <1>3, <2>1, <2>3, <2>5, <3>2
      <4>2. nodes[n].parent \in {0} \cup V
        BY <1>7, <3>2 DEF Reached, t
      <4>3. nodes[n].parent # t
        BY <1>1, <3>1, <3>2
      <4> QED BY <1>6, <2>1, <4>1, <4>2, <4>3 DEF t
    <3>3. CASE n # t
      <4>1. n \in last + 1 .. L
        BY <1>1, <2>2, <2>3, <3>3
      <4>2. max_depth[n] = Height(n) /\ nodes[n].parent \in {0} \cup V \cup last + 1 .. L
        BY <1>4, <4>1 DEF Measured
      <4>3. max_depth'[n] = Height(n)
        BY <2>1, <3>3, <4>2
      <4>4. \A x \in last + 1 .. L : x \in t .. L
        BY <2>2, <2>3
      <4>5. t \in t .. L
        BY <1>1, <2>3
      <4> QED BY <1>6, <2>1, <4>2, <4>3, <4>4, <4>5 DEF t
    <3> QED BY <3>2, <3>3
  <2>7. DOMAIN max_depth' = Node
    BY <1>3, <2>1
  <2>8. DepthWalk'
    <3> HIDE DEF t
    <3> QED BY <1>1, <1>2, <2>3, <2>4, <2>6, <2>7, DepthWalkNext
  <2> QED BY <1>2, <2>8 DEF MetadataInv, OrderWalk, DocOrderIsNodeId, MaxDepthIsHeight
<1>10. CASE ~top.visited
  <2> DEFINE mark == <<[id |-> t, visited |-> TRUE]>>
             below == Unvisited(Children(t))
  <2>1. max_depth' = max_depth /\ walk' = rest \o mark \o below
    <3>1. [top EXCEPT !.visited = TRUE] = [id |-> t, visited |-> TRUE]
      <4> HIDE DEF T
      <4> QED BY <1>6, MarkedEntry
    <3> QED BY <1>10, <3>1 DEF MeasureNode
  <2>2. t \notin V /\ t \in Node /\ t \in Nat /\ t \in 0 .. L
    <3>1. t \notin V /\ t \in Node
      BY <1>5, <1>6, <1>7, <1>10
    <3> HIDE DEF t
    <3> QED BY <1>1, <3>1
  <2> HIDE DEF t, V
  <2>3. Ascends(mark, {t}) /\ Met(mark) = {t}
    BY <2>2, MarkAscends
  <2>4. Ascends(below, Kids(t)) /\ Met(below) = {} /\ Kids(t) \in SUBSET Nat
    BY <1>1, <2>2, ChildrenAre, UnvisitedAscend
  <2> HIDE DEF mark, below, rest
  <2>5. Ascends(rest \o mark, T) /\ Met(rest \o mark) = V \cup {t}
    <3>1. (T \ {t}) \cup {t} = T /\ (V \ {t}) \cup {t} = V \cup {t}
      BY <1>7 DEF t
    <3>2. Before(T \ {t}, {t})
      <4>1. \A a \in T \ {t} : a \in Nat /\ a <= t /\ a # t
        BY <1>5, <1>6 DEF t
      <4> HIDE DEF T
      <4> QED BY <2>2, <4>1 DEF Before
    <3>3. Ascends(rest, T \ {t}) /\ Met(rest) = V \ {t}
      BY <1>6 DEF t, rest
    <3> HIDE DEF T
    <3>4. Ascends(rest \o mark, (T \ {t}) \cup {t})
      BY <2>3, <3>2, <3>3, AscendOn
    <3>5. MetAre(rest \o mark, Met(rest) \cup Met(mark))
      BY <2>3, <3>2, <3>3, AscendOn
    <3> QED BY <2>3, <3>1, <3>3, <3>4, <3>5 DEF MetAre
  <2>6. Ascends(walk', T \cup Kids(t)) /\ Met(walk') = V \cup {t}
    <3>1. Before(T, Kids(t))
      <4>1. \A b \in Kids(t) : b \in Nat /\ t < b
        BY <1>1, <2>2, ThroughAChild
      <4>2. \A a \in T : a \in Nat /\ a <= t
        BY <1>5, <1>6 DEF t
      <4> HIDE DEF T
      <4> QED BY <2>2, <2>4, <4>1, <4>2 DEF Before
    <3> HIDE DEF T
    <3>2. /\ Ascends((rest \o mark) \o below, T \cup Kids(t))
          /\ MetAre((rest \o mark) \o below, Met(rest \o mark) \cup Met(below))
      BY <2>4, <2>5, <3>1, AscendOn
    <3> QED BY <2>1, <2>4, <2>5, <3>2 DEF MetAre
  <2>7. Reached(last, V \cup {t}) = T \cup Kids(t)
    <3>1. t \in Reached(last, V) /\ Measured(last, V)
      BY <1>4, <1>7 DEF t, V
    <3> QED BY <1>1, <2>2, <3>1, VisitedOneMore
  <2>8. \A n \in last + 1 .. L :
          /\ max_depth'[n] = Height(n)
          /\ nodes[n].parent \in {0} \cup Met(walk') \cup last + 1 .. L
    BY <1>4, <2>1, <2>6 DEF Measured, V
  <2>9. Ascends(walk', Reached(last, Met(walk')))
    BY <2>6, <2>7
  <2>10. DOMAIN max_depth' = Node
    BY <1>3, <2>1
  <2>11. DepthWalk'
    <3> HIDE DEF T
    <3> QED BY <1>1, <1>2, <2>8, <2>9, <2>10, DepthWalkNext
  <2> QED BY <1>2, <2>11 DEF MetadataInv, OrderWalk, DocOrderIsNodeId, MaxDepthIsHeight
<1> QED BY <1>7, <1>9, <1>10

\* When nothing is left on the stack, nothing is left to measure.
LEMMA DepthEndsKeeps ==
  ASSUME DocInv, MetadataInv, DepthEnds
  PROVE  MetadataInv'
<1> DEFINE L == Len(nodes)
<1>1. /\ Table /\ L \in Nat
      /\ \A n \in Node : n \in Nat /\ n \in 1 .. L /\ nodes[n].parent \in 0 .. n - 1
  BY ParsedTable DEF Table, Node
<1>2. /\ phase = "depth" /\ phase' = "parsed" /\ walk = <<>>
      /\ nodes' = nodes /\ doc_order' = doc_order /\ max_depth' = max_depth
  BY DEF DepthEnds
<1>3. PICK last \in 0 .. L : Ascends(walk, Reached(last, Met(walk))) /\ Measured(last, Met(walk))
  BY <1>1, <1>2, DepthWalkIs DEF MetadataInv
<1>4. Reached(last, Met(walk)) = {}
  <2>1. \A x \in Reached(last, Met(walk)) : \E k \in 1 .. Len(walk) : walk[k].id = x
    BY <1>3 DEF Ascends
  <2>2. Len(walk) = 0
    BY <1>2
  <2> QED BY <2>1, <2>2
<1>5. last = 0
  <2>1. ASSUME last # 0 PROVE 1 \in Reached(last, Met(walk))
    <3>1. 1 \in 1 .. last /\ 1 \in Node
      BY <1>1, <2>1 DEF Node
    <3>2. nodes[1].parent = 0
      BY <1>1, <3>1
    <3> QED BY <3>1, <3>2 DEF Reached
  <2> QED BY <1>4, <2>1
<1>6. \A n \in Node : max_depth[n] = Height(n)
  <2>1. \A n \in Node : n \in last + 1 .. L
    BY <1>1, <1>5
  <2> QED BY <1>3, <2>1 DEF Measured
<1>7. MaxDepthIsHeight'
  <2>1. \A n \in Node : max_depth'[n] = Height(n)'
    BY <1>2, <1>6, HeightsStay
  <2> QED BY <1>2, <2>1 DEF MaxDepthIsHeight, Node
<1>8. OrderWalk' /\ DepthWalk' /\ DocOrderIsNodeId'
  BY <1>2 DEF OrderWalk, DepthWalk, DocOrderIsNodeId, MetadataInv
<1> QED BY <1>2, <1>7, <1>8 DEF MetadataInv

\* A step of the parser numbers nothing; a query leaves the document as it is.
LEMMA ParseStepKeeps ==
  ASSUME MetadataInv, ParseStep
  PROVE  MetadataInv'
<1>1. phase = "parse" /\ phase' = "parse" /\ doc_order' = doc_order /\ doc_order = <<>>
  BY DEF ParseStep, MetadataInv
<1> QED BY <1>1 DEF MetadataInv, OrderWalk, DepthWalk, DocOrderIsNodeId, MaxDepthIsHeight

LEMMA AnsweringKeeps ==
  ASSUME MetadataInv, phase = "parsed", phase' = "answered",
         nodes' = nodes, doc_order' = doc_order, max_depth' = max_depth
  PROVE  MetadataInv'
<1>1. \A n \in Node : max_depth'[n] = Height(n)'
  BY HeightsStay DEF MetadataInv, MaxDepthIsHeight
<1> QED BY <1>1 DEF MetadataInv, OrderWalk, DepthWalk, DocOrderIsNodeId, MaxDepthIsHeight, Node

LEMMA StutteringKeeps ==
  ASSUME MetadataInv, UNCHANGED docVars
  PROVE  MetadataInv'
<1>1. /\ phase' = phase /\ nodes' = nodes /\ doc_order' = doc_order
      /\ max_depth' = max_depth /\ walk' = walk
  BY DEF docVars
<1>2. Node' = Node /\ \A k : Frontier(k)' = Frontier(k)
  BY <1>1 DEF Node, Frontier
<1>3. OrderWalk'
  BY <1>1, <1>2 DEF MetadataInv, OrderWalk
<1>4. \A n : Height(n)' = Height(n)
  BY <1>1, HeightsStay
<1>5. Visited' = Visited
  BY <1>1 DEF Visited
<1>6. \A last : LeftToMeasure(last)' = LeftToMeasure(last)
  BY <1>1, <1>4, <1>5 DEF LeftToMeasure
<1>7. DepthWalk'
  BY <1>1, <1>2, <1>6 DEF MetadataInv, DepthWalk
<1>8. DocOrderIsNodeId' /\ MaxDepthIsHeight'
  BY <1>1, <1>2, <1>4 DEF MetadataInv, DocOrderIsNodeId, MaxDepthIsHeight
<1> QED BY <1>1, <1>3, <1>7, <1>8 DEF MetadataInv
----------------------------------------------------------------------------
(* Every document. *)

LEMMA WalksKeep == DocInv /\ MetadataInv /\ [Next]_vars => MetadataInv'
<1> SUFFICES ASSUME DocInv, MetadataInv, [Next]_vars PROVE MetadataInv'
  OBVIOUS
<1>1. CASE DocNext
  <2>1. CASE ParseStep
    BY <2>1, ParseStepKeeps
  <2>2. CASE ParseEnds
    BY <2>2, ParseEndsKeeps
  <2>3. CASE NumberNode
    BY <2>3, NumberNodeKeeps
  <2>4. CASE OrderEnds
    BY <2>4, OrderEndsKeeps
  <2>5. CASE MeasureNode
    BY <2>5, MeasureNodeKeeps
  <2>6. CASE DepthEnds
    BY <2>6, DepthEndsKeeps
  <2> QED BY <1>1, <2>1, <2>2, <2>3, <2>4, <2>5, <2>6 DEF DocNext, MetadataStep
<1>2. ASSUME NEW q \in Queries, Execute(q)
      PROVE  MetadataInv'
  BY <1>2, AnsweringKeeps DEF Execute
<1>3. CASE UNCHANGED vars
  <2>1. UNCHANGED docVars
    BY <1>3 DEF vars, docVars
  <2> QED BY <2>1, StutteringKeeps
<1> QED BY <1>1, <1>2, <1>3 DEF Next

\* The invariant of compute_document_metadata holds of every document, however many
\* nodes it has and however deep they nest: the first walk holds the nodes whose parents
\* are numbered, and the second measures the table from its end.
THEOREM MetadataInvariance == Spec => []MetadataInv
<1>1. Init => DocInv /\ MetadataInv
  <2> SUFFICES ASSUME Init PROVE DocInv /\ MetadataInv
    OBVIOUS
  <2>1. phase = "parse" /\ doc_order = <<>> /\ nodes = <<>>
    BY DEF Init, DocInit
  <2>2. doc_order \in Seq(Nat) /\ Len(doc_order) = 0
    BY <2>1
  <2>3. MetadataInv
    BY <2>1, <2>2 DEF MetadataInv, OrderWalk, DepthWalk, DocOrderIsNodeId, MaxDepthIsHeight
  <2> QED BY <2>3, InitDocInv DEF Init
<1>2. DocInv /\ MetadataInv /\ [Next]_vars => (DocInv /\ MetadataInv)'
  BY NextKeeps, WalksKeep
<1> QED BY <1>1, <1>2, PTL DEF Spec

\* doc_order is the order of the text and max_depth the height of the tree that the
\* parents draw, in every document that queries read.
COROLLARY MetadataIsOfTree == Spec => []MetadataOfTree
<1>1. MetadataInv => MetadataOfTree
  BY DEF MetadataInv, MetadataOfTree
<1> QED BY <1>1, MetadataInvariance, PTL
=============================================================================
