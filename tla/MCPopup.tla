------------------------------- MODULE MCPopup -------------------------------
(***************************************************************************)
(* Instances of Popup for TLC: a page with a frame and a page without one.  *)
(***************************************************************************)
EXTENDS Popup, TLC

CONSTANTS good

\* The texts of the documents: those of the page with a frame, that of the
\* other, which is also the main part of the first, and a text left in the
\* session by an earlier version.
MCHtml == {"top", "frame", "plain", "old"}

MCDocument(id, blank, size, html) ==
    [id |-> id, isTop |-> id = 0, blank |-> blank, size |-> size, html |-> html]

Framed == {MCDocument(0, FALSE, 90, "top"), MCDocument(1, FALSE, 100, "frame")}
Plain == {MCDocument(0, FALSE, 80, "plain")}

MCCaptured ==
    [place \in Page \X Scope |->
        IF place = <<"framed", "full">> THEN Framed ELSE Plain]

OnePage == {"framed"}
PlainPage == {"plain"}

\* What an earlier opening left in the session: nothing, or the text alone that an
\* earlier version stored.  A capture is in it after one and a Reopen.
OnlyText == {[html |-> "old", scope |-> "", documents |-> {}, id |-> NoId]}
LeftOpen == {NoSnapshot} \cup OnlyText

\* A query and a token stored by an earlier opening, or nothing.
Remembered == {[query |-> good, lint |-> {}, token |-> TRUE]}

FirstUse == {NoSettings}
=============================================================================
