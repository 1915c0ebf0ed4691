------------------------------- MODULE MCEngine --------------------------------
(***************************************************************************)
(* An instance of the engine for TLC: every text of up to MaxPieces pieces  *)
(* of nine, and longer ones of one element and text.                        *)
(***************************************************************************)
EXTENDS EngineProperties

CONSTANTS MaxPieces, MaxNested

MCTag == {"div", "p", "br", "script"}
MCVoidTags == {"br"}
MCRawTags == {"script"}

Numeral(n) == [number |-> {n}, string |-> <<ToString(n)>>]

Plain == [a \in {} |-> Word("x")]
Five == [a \in {"n", "class"} |->
            IF a = "n" THEN Numeral(5) ELSE [number |-> {}, string |-> <<"x", "y">>]]
MCAttributes == {Plain, Five}

MCRank == [w \in {"br", "div", "p", "script"} |->
              CASE w = "br" -> 1 [] w = "div" -> 2 [] w = "p" -> 3 [] w = "script" -> 4]

Open(t, a) == [kind |-> "open", tag |-> t, attributes |-> a, self_close |-> FALSE]
Close(t) == [kind |-> "close", tag |-> t]
TextPiece == [kind |-> "text"]

Pieces ==
    {Open("div", Plain), Open("p", Five), Open("br", Plain), Open("script", Plain),
     [Open("script", Plain) EXCEPT !.self_close = TRUE],
     Close("div"), Close("script"), TextPiece, [kind |-> "comment"]}

\* Text that follows text is one piece.
MCHtml ==
    {s \in SeqOf(Pieces, MaxPieces)
             \cup SeqOf({Open("div", Plain), Close("div"), TextPiece}, MaxNested) :
        \A k \in 1..Len(s) - 1 : ~(s[k] = TextPiece /\ s[k + 1] = TextPiece)}
----------------------------------------------------------------------------
Literals(op, axis, field, values) ==
    [kind |-> "compare", op |-> op, axis |-> axis, field |-> field,
     values |-> values, operands |-> <<>>]

Computed(op, axis, field, operand) ==
    [kind |-> "compare", op |-> op, axis |-> axis, field |-> field,
     values |-> <<>>, operands |-> <<operand>>]

IsDiv == Literals("=", "self", "tag", <<Word("div")>>)
NotFirst == Literals(">", "self", "sibling_pos", <<Numeral(1)>>)
BelowX == Literals("=", "ancestor", "class", <<Word("x")>>)
HasLeaf == [kind |-> "exists", axis |-> "descendant",
            where |-> {[kind |-> "and", left |-> Literals("in", "self", "max_depth", <<Numeral(0)>>),
                        right |-> IsDiv]}]
Rootless == Literals("is null", "parent", "tag", <<>>)
BesideParent == Computed(">", "self", "node_id", [axis |-> "parent", field |-> "node_id"])
Either == [kind |-> "or", left |-> Rootless, right |-> NotFirst]

MCExprs ==
    {IsDiv, NotFirst, BelowX, HasLeaf, Rootless, BesideParent, Either}
      \cup HasLeaf.where \cup {e.left : e \in HasLeaf.where}

By(field, descending) == [field |-> field, descending |-> descending]

Ask(select, where, order_by, limit, aggregate) ==
    [select |-> select, where |-> where, order_by |-> order_by,
     limit |-> limit, aggregate |-> aggregate]

MCQueries ==
    {Ask({"*"}, {}, <<By("max_depth", TRUE), By("tag", FALSE)>>, {2}, "none"),
     Ask({"*"}, {Either}, <<By("parent_id", TRUE)>>, {}, "none"),
     Ask({"div", "p"}, {HasLeaf}, <<By("doc_order", TRUE)>>, {1}, "none"),
     Ask({"*"}, {BelowX}, <<>>, {0}, "none"),
     Ask({"*"}, {BesideParent}, <<By("tag", TRUE)>>, {2}, "none"),
     Ask({"*"}, {}, <<>>, {}, "count"),
     Ask({"*"}, {}, <<>>, {2}, "count"),
     Ask({"*"}, {}, <<>>, {}, "summarize"),
     Ask({"*"}, {}, <<By("count", FALSE)>>, {}, "summarize"),
     Ask({"*"}, {NotFirst}, <<By("tag", TRUE)>>, {1}, "summarize")}
=============================================================================
