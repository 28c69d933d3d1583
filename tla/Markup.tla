------------------------------- MODULE Markup -------------------------------
(* Inline markup (modules/markup.rs) and the module that fills a window's    *)
(* title into it (modules/window_title.rs).  A text is a sequence of pieces: *)
(* tags, the placeholder, and text, which is also what looks like a tag and  *)
(* is none.                                                                  *)
EXTENDS Integers, Sequences, SequencesExt

CONSTANTS
  Tokens,      \* the colours of [c=...] tags
  MaxPieces,   \* bound: the pieces of a format
  Titles,      \* the windows' titles, sequences of pieces
  NONE

Color(t) == [is |-> "color", token |-> t]
Tag(is) == [is |-> is, token |-> NONE]
Piece == {Color(t) : t \in Tokens} \cup {Tag(is) : is \in {"bold", "endbold", "endcolor", "title", "text", "odd"}}
IsText(p) == p.is \in {"title", "text", "odd"}

VARIABLES
  format,           \* what was written
  i,                \* how much of it is parsed
  segs, buf, bold, colors,   \* parse
  title, max        \* the window's title, and how much of it is shown (0: all)

vars == <<format, i, segs, buf, bold, colors, title, max>>

Segment(text, color, isbold) == [text |-> text, color |-> color, bold |-> isbold]

(* flush: what was read so far, in the style of the moment. *)
Flush ==
  IF buf = <<>> THEN segs
  ELSE Append(segs, Segment(buf, IF colors = <<>> THEN NONE ELSE Last(colors), bold > 0))

(* coalesce: neighbours of one style become one segment. *)
Coalesce(ss) ==
  FoldLeft(LAMBDA out, s :
             IF out # <<>> /\ Last(out).color = s.color /\ Last(out).bold = s.bold
               THEN [out EXCEPT ![Len(out)].text = @ \o s.text] ELSE Append(out, s),
           <<>>, ss)

-----------------------------------------------------------------------------
Init ==
  /\ format \in UNION {[1..n -> Piece] : n \in 0..MaxPieces}
  /\ i = 0 /\ segs = <<>> /\ buf = <<>> /\ bold = 0 /\ colors = <<>>
  /\ title = <<>> /\ max \in {0, 2}

Parsed == i = Len(format)
Piece1 == format[i + 1]
Read(is) == ~Parsed /\ Piece1.is = is /\ i' = i + 1 /\ UNCHANGED <<format, title, max>>
Style == segs' = Flush /\ buf' = <<>>

(* The arms of parse's loop. *)
OpenBold == Read("bold") /\ Style /\ bold' = bold + 1 /\ UNCHANGED colors
CloseBold == Read("endbold") /\ Style /\ bold' = (IF bold > 0 THEN bold - 1 ELSE 0) /\ UNCHANGED colors
OpenColor == Read("color") /\ Style /\ colors' = Append(colors, Piece1.token) /\ UNCHANGED bold
(* Faulty variant: the end of one colour is the end of all. *)
Popped_All == <<>>
Popped == IF colors = <<>> THEN <<>> ELSE Front(colors)
CloseColor == Read("endcolor") /\ Style /\ colors' = Popped /\ UNCHANGED bold
Literal ==
  /\ ~Parsed /\ IsText(Piece1) /\ i' = i + 1
  /\ buf' = Append(buf, Piece1) /\ UNCHANGED <<format, segs, bold, colors, title, max>>

Segments == Coalesce(Flush)

(* window_title: a new title, cut to max with an ellipsis; substitute puts   *)
(* it into the segments the format was parsed into, as it is.                *)
Cut(t) == IF max > 0 /\ Len(t) > max THEN Append(SubSeq(t, 1, max - 1), Tag("odd")) ELSE t
Title ==
  /\ Parsed /\ title' \in {Cut(t) : t \in Titles}
  /\ UNCHANGED <<format, i, segs, buf, bold, colors, max>>

Fill(text) == FlattenSeq([k \in 1..Len(text) |-> IF text[k].is = "title" THEN title ELSE <<text[k]>>])
Substitute(ss) == [k \in DOMAIN ss |-> [ss[k] EXCEPT !.text = Fill(@)]]

(* render: what a segment looks like; a lone plain one is plain text. *)
Shown == Substitute(Segments)

Next == OpenBold \/ CloseBold \/ OpenColor \/ CloseColor \/ Literal \/ Title
Spec == Init /\ [][Next]_vars

-----------------------------------------------------------------------------
(* Reference: an opening tag holds at a place when no close in between is    *)
(* its own.                                                                  *)
Count(is, a, b) == Cardinality({k \in a..b : format[k].is = is})
Holds(open, close, j, n) ==
  format[j].is = open /\ \A k \in j+1..n-1 : Count(close, j + 1, k) <= Count(open, j + 1, k)
ColorAt(n) ==
  LET there == {j \in 1..n-1 : Holds("color", "endcolor", j, n)}
  IN IF there = {} THEN NONE ELSE format[CHOOSE j \in there : \A k \in there : k <= j].token
BoldAt(n) == \E j \in 1..n-1 : Holds("bold", "endbold", j, n)

(* The texts of a format, each in its own style and with the title in its    *)
(* place, one after another.                                                 *)
Places == SelectSeq([n \in 1..Len(format) |-> n], LAMBDA n : IsText(format[n]))
Expected ==
  FlattenSeq([k \in DOMAIN Places |->
    LET text == Fill(<<format[Places[k]]>>)
    IN [m \in DOMAIN text |-> Segment(<<text[m]>>, ColorAt(Places[k]), BoldAt(Places[k]))]])
Single(ss) == FlattenSeq([k \in DOMAIN ss |-> [m \in DOMAIN ss[k].text |-> [ss[k] EXCEPT !.text = <<ss[k].text[m]>>]]])

(* Every piece of text, and of the title, is shown once, in order, in the    *)
(* style of the tags that hold where the format has it, and never taken for  *)
(* a tag; no two neighbouring segments have one style.                       *)
MarkupTells ==
  Parsed => /\ Single(Shown) = Expected
            /\ \A k \in 1..Len(Segments)-1 : Segments[k].color # Segments[k+1].color \/ Segments[k].bold # Segments[k+1].bold
=============================================================================
