----------------------------- MODULE Workspaces -----------------------------
(* The workspaces module (modules/workspaces.rs): a chip for every           *)
(* workspace, the focus fading from one to the next, an urgent one pulsing,  *)
(* and scrolling over them.  The chips change only when the bar is drawn,    *)
(* and the bar is drawn only after a message: while a fade or a pulse runs,  *)
(* a timer has to send them.                                                 *)
EXTENDS Integers, FiniteSets

CONSTANTS
  Names,       \* the workspaces
  FADE,        \* how long a fade takes
  STEP,        \* how far to scroll on a touchpad for one workspace
  MaxEvents    \* bound: news from sway, scrolls, and other redraws

FadeAssumption == FADE \in Nat \ {0} /\ STEP \in Nat \ {0}

VARIABLES
  animate,         \* [modules.workspaces].animate
  list,            \* name -> [focused, visible, urgent], of those there are
  anim,            \* name -> [goal, left]: the focus, and how long it still fades
  blink_on,
  scroll_accum,
  armed,           \* the timers subscribed to: "fade", "blink"
  drawn,           \* name -> [paint, dim]
  went,            \* what was scrolled to: -1, 0 or 1
  events

vars == <<animate, list, anim, blink_on, scroll_accum, armed, drawn, went, events>>

Flags == {[focused |-> f, visible |-> v, urgent |-> u] : f \in BOOLEAN, v \in BOOLEAN, u \in BOOLEAN}
Lists == {l \in UNION {[ns -> Flags] : ns \in SUBSET Names} :
            /\ Cardinality({n \in DOMAIN l : l[n].focused}) <= 1
            /\ \A n \in DOMAIN l : l[n].focused => l[n].visible}

-----------------------------------------------------------------------------
(* chip: urgent wins over everything, dimmed on the off-beat; otherwise the  *)
(* paint is between that of its resting state and the focused one.           *)
UrgentPulse(w, on) == w.urgent /\ ~on
Chip(w, between, on) ==
  [paint |-> IF w.urgent THEN "urgent" ELSE IF between THEN "between"
             ELSE IF w.focused THEN "focused" ELSE IF w.visible THEN "visible" ELSE "plain",
   dim |-> UrgentPulse(w, on)]

Fading(a) == a.left > 0
Later(an) == [n \in DOMAIN an |-> IF Fading(an[n]) THEN [an[n] EXCEPT !.left = @ - 1] ELSE an[n]]

(* subscription: the fade's timer while one fades, the pulse's while one is  *)
(* urgent.                                                                   *)
(* Faulty variant: the timer is for the workspace that has the focus. *)
Subscription_Focused(l, an) ==
  {t \in {"fade", "blink"} :
     IF t = "fade" THEN animate /\ \E n \in DOMAIN an : Fading(an[n]) /\ ~an[n].goal
     ELSE \E n \in DOMAIN l : l[n].urgent}
Subscription(l, an) ==
  {t \in {"fade", "blink"} :
     IF t = "fade" THEN animate /\ \E n \in DOMAIN an : Fading(an[n])
     ELSE \E n \in DOMAIN l : l[n].urgent}

(* view: every chip, at the time it is drawn. *)
View(l, an, on) == [n \in DOMAIN l |-> Chip(l[n], animate /\ Fading(an[n]), on)]

(* After every message the subscription is asked for anew, and the bar is    *)
(* drawn, a moment later.                                                    *)
After(l, an, on) ==
  /\ armed' = Subscription(l, an)
  /\ \E seen \in {an, Later(an)} : anim' = seen /\ drawn' = View(l, seen, on)

-----------------------------------------------------------------------------
Init ==
  /\ animate \in BOOLEAN
  /\ list = <<>> /\ anim = <<>> /\ drawn = <<>> /\ armed = {}
  /\ blink_on = TRUE /\ scroll_accum = 0 /\ went = 0 /\ events = 0

Event == events < MaxEvents /\ events' = events + 1

(* Msg::Update: a chip that changes its focus fades from now on, one that is *)
(* new does not, one that is gone is forgotten.                              *)
Goes(an, l) ==
  [n \in DOMAIN l |->
     IF n \notin DOMAIN an THEN [goal |-> l[n].focused, left |-> 0]
     ELSE IF an[n].goal = l[n].focused THEN an[n] ELSE [goal |-> l[n].focused, left |-> FADE]]
Update ==
  /\ Event /\ \E l \in Lists : list' = l /\ After(l, Goes(anim, l), blink_on)
  /\ UNCHANGED <<animate, blink_on, scroll_accum, went>>

(* Msg::Tick. *)
Tick ==
  /\ "fade" \in armed /\ After(list, Later(anim), blink_on)
  /\ UNCHANGED <<animate, list, blink_on, scroll_accum, went, events>>

(* Msg::Blink. *)
Blink ==
  /\ "blink" \in armed /\ blink_on' = ~blink_on /\ After(list, anim, blink_on')
  /\ UNCHANGED <<animate, list, scroll_accum, went, events>>

(* A message of another module draws the bar too. *)
Elsewhere ==
  /\ Event /\ After(list, anim, blink_on)
  /\ UNCHANGED <<animate, list, blink_on, scroll_accum, went>>

(* scroll_dir: a wheel goes one on or back; pixels add up to one. *)
ScrollDir(lines, y) ==
  IF lines THEN IF y < 0 THEN 1 ELSE IF y > 0 THEN -1 ELSE 0
  ELSE IF scroll_accum + y >= STEP THEN -1 ELSE IF scroll_accum + y <= -STEP THEN 1 ELSE 0
Scroll ==
  /\ Event /\ DOMAIN list # {}
  /\ \E lines \in BOOLEAN, y \in {-STEP, -1, 1} :
       /\ went' = ScrollDir(lines, y)
       /\ scroll_accum' = IF lines THEN scroll_accum ELSE IF went' # 0 THEN 0 ELSE scroll_accum + y
  /\ After(list, anim, blink_on)
  /\ UNCHANGED <<animate, list, blink_on>>

Next == Update \/ Tick \/ Blink \/ Elsewhere \/ Scroll
Spec == Init /\ [][Next]_vars /\ WF_vars(Tick) /\ WF_vars(Blink)

-----------------------------------------------------------------------------
(* However news, scrolls and redraws fall into a fade, it comes to its end   *)
(* on the screen and its timer with it; an urgent workspace keeps pulsing    *)
(* while it is one, and none is left dimmed.                                *)
ChipsSettle ==
  /\ <>[](/\ \A n \in DOMAIN list : ~list[n].urgent => drawn[n] = Chip(list[n], FALSE, TRUE)
          /\ "fade" \notin armed)
  /\ \A n \in Names : []<>(n \in DOMAIN list /\ list[n].urgent => ~drawn[n].dim)
=============================================================================
