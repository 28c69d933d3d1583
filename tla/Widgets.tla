------------------------------- MODULE Widgets -------------------------------
(* What a guest draws and what the bar shows: the guest's Render tree is    *)
(* lowered to an arena (the SDK's lower and its glue), lifted and checked   *)
(* by the host (lift), measured to size a popup, and built as widgets.      *)
(*                                                                          *)
(* A tree is <<"text", token>>, <<kind, children>> with kind "row" or       *)
(* "column", <<"box", child>> or <<"area", child>>.  An arena is a sequence *)
(* of such nodes whose children are indices, from 1.                        *)
EXTENDS Integers, SequencesExt

CONSTANTS
  Trees,       \* what guests draw
  Arenas,      \* what guests not built with the SDK may send
  MaxNodes, MaxDepth,   \* MAX_NODES, MAX_DEPTH
  NONE

VARIABLES tree, arena, seen, size
vars == <<tree, arena, seen, size>>

ERR == <<"err">>
DOTS == <<"dots">>

-----------------------------------------------------------------------------
(* The guest's side.  A token of the theme crosses as a WIT enum.           *)
SdkToken == <<"Fg", "FgDim", "Accent", "Ok", "Warn", "Urgent", "Bg">>

RECURSIVE Push(_, _)
Push(t, out) ==
  CASE t[1] = "text" -> Append(out, t)
    [] t[1] \in {"row", "column"} ->
         LET step(acc, c) == LET o == Push(c, acc.out)
                             IN [out |-> o, kids |-> Append(acc.kids, Len(o))]
             all == FoldLeft(step, [out |-> out, kids |-> <<>>], t[2])
         IN Append(all.out, <<t[1], all.kids>>)
    [] OTHER -> LET o == Push(t[2], out) IN Append(o, <<t[1], Len(o)>>)

Lower(t) == [nodes |-> Push(t, <<>>), root |-> Len(Push(t, <<>>))]

-----------------------------------------------------------------------------
(* The host's side. *)
Children(n) ==
  CASE n[1] = "text" -> {}
    [] n[1] \in {"row", "column"} -> Range(n[2])
    [] OTHER -> {n[2]}

CheckFwd(parent, c) == c >= 1 /\ c < parent

Paint(token) == CHOOSE n \in DOMAIN SdkToken : SdkToken[n] = token
(* Faulty variant: two colours are taken for each other. *)
PaintColor_Swaps(n) ==
  CASE n = 1 -> "Fg" [] n = 2 -> "FgDim" [] n = 3 -> "Accent" [] n = 4 -> "Warn"
    [] n = 5 -> "Ok" [] n = 6 -> "Urgent" [] OTHER -> "Bg"
PaintColor(n) ==
  CASE n = 1 -> "Fg" [] n = 2 -> "FgDim" [] n = 3 -> "Accent" [] n = 4 -> "Ok"
    [] n = 5 -> "Warn" [] n = 6 -> "Urgent" [] OTHER -> "Bg"

LiftNode(n) == IF n[1] = "text" THEN <<"text", Paint(n[2])>> ELSE n

Liftable(a) ==
  /\ Len(a.nodes) <= MaxNodes
  /\ \A i \in DOMAIN a.nodes : \A c \in Children(a.nodes[i]) : CheckFwd(i, c)
  /\ a.root <= Len(a.nodes)

Lift(a) == [nodes |-> [i \in DOMAIN a.nodes |-> LiftNode(a.nodes[i])], root |-> a.root]

RECURSIVE Build(_, _, _)
Build(l, i, depth) ==
  LET n == l.nodes[i]
  IN CASE depth > MaxDepth -> DOTS
       [] depth <= MaxDepth /\ n[1] = "text" -> <<"text", PaintColor(n[2])>>
       [] depth <= MaxDepth /\ n[1] \in {"row", "column"} ->
            <<n[1], [k \in DOMAIN n[2] |-> Build(l, n[2][k], depth + 1)]>>
       [] OTHER -> <<n[1], Build(l, n[2], depth + 1)>>

(* Sizes in units of a text: spacing and padding are one. *)
MaxOf(a, b) == IF a > b THEN a ELSE b
RECURSIVE Measure(_, _)
Measure(l, i) ==
  LET n == l.nodes[i]
      gap(k) == IF k > 1 THEN 1 ELSE 0
      along(acc, k) == LET m == Measure(l, n[2][k])
                       IN <<acc[1] + m[1] + gap(k), MaxOf(acc[2], m[2])>>
      down(acc, k) == LET m == Measure(l, n[2][k])
                      IN <<MaxOf(acc[1], m[1]), acc[2] + m[2] + gap(k)>>
      places == [k \in DOMAIN n[2] |-> k]
  IN CASE n[1] = "text" -> <<3, 2>>
       [] n[1] = "row" -> FoldLeft(along, <<0, 0>>, places)
       [] n[1] = "column" -> FoldLeft(down, <<0, 0>>, places)
       [] n[1] = "box" -> LET m == Measure(l, n[2]) IN <<m[1] + 2, m[2] + 2>>
       [] OTHER -> Measure(l, n[2])

(* A popup without extent keeps the default size. *)
PopupSize(l) == LET m == Measure(l, l.root) IN IF m[1] = 0 \/ m[2] = 0 THEN NONE ELSE m

-----------------------------------------------------------------------------
(* A guest draws a tree, or sends an arena of its own making. *)
Init ==
  /\ \/ tree \in Trees /\ arena = Lower(tree)
     \/ tree = NONE /\ arena \in Arenas
  /\ seen = NONE /\ size = NONE

Frame ==
  /\ seen = NONE
  /\ IF Liftable(arena)
     THEN LET l == Lift(arena)
          IN seen' = Build(l, l.root, 0) /\ size' = PopupSize(l)
     ELSE seen' = ERR /\ size' = NONE
  /\ UNCHANGED <<tree, arena>>

Next == Frame
Spec == Init /\ [][Next]_vars

-----------------------------------------------------------------------------
RECURSIVE Nodes(_), CutAt(_, _)
Nodes(t) ==
  CASE t[1] = "text" -> 1
    [] t[1] \in {"row", "column"} -> FoldLeft(LAMBDA a, c : a + Nodes(c), 1, t[2])
    [] OTHER -> 1 + Nodes(t[2])

CutAt(t, depth) ==
  CASE depth > MaxDepth -> DOTS
    [] depth <= MaxDepth /\ t[1] = "text" -> t
    [] depth <= MaxDepth /\ t[1] \in {"row", "column"} ->
         <<t[1], [k \in DOMAIN t[2] |-> CutAt(t[2][k], depth + 1)]>>
    [] OTHER -> <<t[1], CutAt(t[2], depth + 1)>>

(* The least size that holds a tree with nothing overlapping: how far each  *)
(* of its texts reaches, from the walls on the way to it.                   *)
RECURSIVE Wide(_), High(_)
Total(s) == FoldLeft(LAMBDA a, b : a + b, 0, s)
Most(s) == FoldLeft(MaxOf, 0, s)
Wide(t) ==
  CASE t[1] = "text" -> 3
    [] t[1] = "row" -> Total([k \in DOMAIN t[2] |-> Wide(t[2][k])]) + MaxOf(0, Len(t[2]) - 1)
    [] t[1] = "column" -> Most([k \in DOMAIN t[2] |-> Wide(t[2][k])])
    [] OTHER -> Wide(t[2]) + (IF t[1] = "box" THEN 2 ELSE 0)
High(t) ==
  CASE t[1] = "text" -> 2
    [] t[1] = "row" -> Most([k \in DOMAIN t[2] |-> High(t[2][k])])
    [] t[1] = "column" -> Total([k \in DOMAIN t[2] |-> High(t[2][k])]) + MaxOf(0, Len(t[2]) - 1)
    [] OTHER -> High(t[2]) + (IF t[1] = "box" THEN 2 ELSE 0)

(* A guest's tree is shown as it is, in the colours it names, cut at the    *)
(* depth limit and given the room it takes; one over the node limit is      *)
(* refused; and no arena makes the recursion of build or measure endless: a *)
(* child comes before its parent in whatever is accepted.                   *)
ShownAsDrawn ==
  seen # NONE =>
    IF tree # NONE
    THEN IF Nodes(tree) > MaxNodes THEN seen = ERR
         ELSE /\ seen = CutAt(tree, 0)
              /\ size # NONE => size = <<Wide(tree), High(tree)>>
              /\ size = NONE => Wide(tree) = 0 \/ High(tree) = 0
    ELSE seen # ERR =>
           \A i \in DOMAIN arena.nodes : \A c \in Children(arena.nodes[i]) : c \in 1..(i - 1)

=============================================================================
