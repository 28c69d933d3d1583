-------------------------- MODULE Surfaces_proofs --------------------------
(***************************************************************************)
(* One surface of a kind per output, and none on the screen but those, for *)
(* any outputs, monitors and configurations.                               *)
(***************************************************************************)
EXTENDS Surfaces, FiniteSetTheorems, TLAPS

(* What the handlers need of the types. *)
Shape ==
  /\ surf \subseteq Surface /\ closed \subseteq Surface
  /\ job \in Job \cup {NULL}

(* One closing of a kind and output is on its way at a time, and it is of a *)
(* surface that the compositor has no more: without the latter, handling it *)
(* would forget a surface that is on the screen.                            *)
ClosingOne == \A c, d \in closed : c.kind = d.kind /\ c.output = d.output => c = d
ClosedGone == closed \cap mapped = {}

IInv == Shape /\ OnePerOutput /\ NoGhostSurface /\ ClosingOne /\ ClosedGone

-----------------------------------------------------------------------------
(* What the cache has under a name is a global or nothing. *)
LEMMA NamedOutputType == \A n \in Names : NamedOutput(n) \in Globals \cup {NULL}
<1> SUFFICES ASSUME NEW n \in Names PROVE NamedOutput(n) \in Globals \cup {NULL}
  OBVIOUS
<1> DEFINE ready == {g \in Globals : cache[g] = "ready" /\ NameOf[g] = n}
<1>1. Cardinality(ready) = 1 => ready # {}
  BY FS_EmptySet
<1>2. Cardinality(ready) = 1 => (CHOOSE g \in ready : TRUE) \in Globals
  BY <1>1
<1> QED
  BY <1>2 DEF NamedOutput

(* A surface that is made is a new one: two serials are enough, because     *)
(* only a closing that is on its way can have one of them.                  *)
LEMMA Fresh ==
  ASSUME IInv, NEW k \in Kinds, NEW n \in Names, NamedOutput(n) # NULL,
         \A s \in Of(k, surf) : Valid(s) => s.output # n
  PROVE  /\ NewSurface(k, n) \in Surface
         /\ NewSurface(k, n).kind = k /\ NewSurface(k, n).output = n
         /\ NewSurface(k, n) \notin surf \cup mapped \cup closed
<1> DEFINE New(i) == [kind |-> k, output |-> n, binding |-> NamedOutput(n), serial |-> i]
           News == {New(i) : i \in Serials}
<1>1. PICK i \in Serials, j \in Serials : i # j
  BY SerialsAssumption
<1>2. \A s \in News : s \notin surf \cup mapped
  <2> SUFFICES ASSUME NEW l \in Serials, New(l) \in surf PROVE FALSE
    BY DEF IInv, NoGhostSurface
  <2>1. New(l) \in Of(k, surf) /\ New(l).output = n
    BY DEF Of
  <2>2. Valid(New(l))
    BY DEF Valid
  <2> QED
    BY <2>1, <2>2
<1>3. New(i) \notin closed \/ New(j) \notin closed
  <2>1. New(i) # New(j)
    BY <1>1
  <2> QED
    BY <2>1 DEF IInv, ClosingOne
<1>4. \E s \in News : s \notin surf \cup mapped \cup closed
  BY <1>2, <1>3
<1>5. NewSurface(k, n) \in News /\ NewSurface(k, n) \notin surf \cup mapped \cup closed
  BY <1>4 DEF NewSurface
<1>6. NamedOutput(n) \in Globals
  BY NamedOutputType
<1> QED
  BY <1>5, <1>6 DEF Surface

-----------------------------------------------------------------------------
(* A plan whose new surfaces are new, one to an output, and on outputs that *)
(* keep none, leaves the invariant. *)
Sound(k, keep, made) ==
  /\ keep \subseteq Of(k, surf)
  /\ made \subseteq Surface
  /\ \A s \in made : s.kind = k /\ s \notin surf \cup mapped \cup closed
  /\ \A s, t \in made : s.output = t.output => s = t
  /\ \A s \in keep, t \in made : s.output # t.output

LEMMA ReplaceKeeps ==
  ASSUME IInv, NEW k \in Kinds, NEW keep, NEW made, Sound(k, keep, made),
         Replace(k, keep, made), job' \in Job \cup {NULL}
  PROVE  IInv'
<1> DEFINE others == surf \ Of(k, surf)
<1> USE DEF Replace, Sound
<1>1. Shape'
  BY DEF IInv, Shape, Of
<1>2. OnePerOutput'
  <2>1. \A s \in others : s \in surf /\ s.kind # k
    BY DEF Of
  <2>2. \A s \in keep : s \in surf /\ s.kind = k
    BY DEF Of
  <2> QED
    BY <2>1, <2>2 DEF IInv, OnePerOutput
<1>3. NoGhostSurface'
  BY DEF NoGhostSurface
<1>4. ClosingOne'
  BY DEF IInv, ClosingOne, Reportable
<1>5. ClosedGone'
  BY DEF IInv, ClosedGone
<1> QED
  BY <1>1, <1>2, <1>3, <1>4, <1>5 DEF IInv

LEMMA PlanSound ==
  ASSUME IInv, NEW k \in Kinds, job # NULL
  PROVE  Sound(k, Keep(Of(k, surf), job.desired), Made(k, Create(Of(k, surf), job.desired)))
<1> DEFINE tracked == Of(k, surf)
           names == {m \in Create(tracked, job.desired) : NamedOutput(m) # NULL}
<1>1. job.desired \subseteq Names
  BY DEF IInv, Shape, Job
<1>2. \A n \in names :
        /\ NewSurface(k, n) \in Surface
        /\ NewSurface(k, n).kind = k /\ NewSurface(k, n).output = n
        /\ NewSurface(k, n) \notin surf \cup mapped \cup closed
  BY <1>1, Fresh DEF Create
<1>3. \A n \in names, s \in tracked : Valid(s) => s.output # n
  BY DEF Create
<1>4. Made(k, Create(tracked, job.desired)) = {NewSurface(k, n) : n \in names}
  BY DEF Made
<1>5. \A s \in Keep(tracked, job.desired) : s \in tracked /\ Valid(s)
  BY DEF Keep
<1> HIDE DEF names
<1> QED
  BY <1>2, <1>3, <1>4, <1>5 DEF Sound

LEMMA PlanKeeps ==
  ASSUME IInv, NEW k \in Kinds, job # NULL, PlanKind(k), job' \in Job \cup {NULL}
  PROVE  IInv'
BY PlanSound, ReplaceKeeps DEF PlanKind

-----------------------------------------------------------------------------
LEMMA InitInv == Init => IInv
<1> SUFFICES ASSUME Init PROVE IInv
  OBVIOUS
<1>1. Active \subseteq Names
  BY SurfacesAssumption DEF Active, Live
<1> QED
  BY <1>1 DEF Init, IInv, Shape, OnePerOutput, NoGhostSurface, ClosingOne, ClosedGone, Job, Kinds

(* A handler that ends in a query of sway asks for outputs there are. *)
LEMMA ReconcileJob ==
  ASSUME NEW left, Reconcile(left), job \in Job \cup {NULL}
  PROVE  job' \in Job \cup {NULL}
<1>1. Active \subseteq Names
  BY SurfacesAssumption DEF Active, Live
<1> QED
  BY <1>1 DEF Reconcile, QueryAnswered, QueryFails, Job, Kinds

(* Steps that leave the surfaces alone. *)
LEMMA Leaves ==
  ASSUME IInv, UNCHANGED screen, job' \in Job \cup {NULL}
  PROVE  IInv'
BY DEF IInv, Shape, OnePerOutput, NoGhostSurface, ClosingOne, ClosedGone, screen

LEMMA NextInv == IInv /\ [Next]_vars => IInv'
<1> SUFFICES ASSUME IInv, [Next]_vars PROVE IInv'
  OBVIOUS
<1>0. job \in Job \cup {NULL}
  BY DEF IInv, Shape
<1>1. CASE UNCHANGED vars
  BY <1>0, <1>1, Leaves DEF vars
<1>2. ASSUME NEW g \in Globals, PlugIn(g) \/ Dispatch(g) PROVE IInv'
  BY <1>0, <1>2, Leaves DEF PlugIn, Dispatch, GlobalEvent, NameEvent, DoneEvent, RemoveEvent
<1>3. ASSUME NEW g \in Globals, Unplug(g) PROVE IInv'
  <2> PICK told \in SUBSET {s \in mapped : s.binding = g /\ Reportable(s)} :
        closed' = closed \cup told
    BY <1>3 DEF Unplug
  <2>1. mapped' \subseteq mapped /\ told \subseteq surf /\ told \cap mapped' = {}
    BY <1>3 DEF Unplug, IInv, NoGhostSurface
  <2>2. Shape' /\ OnePerOutput' /\ NoGhostSurface' /\ ClosedGone'
    BY <1>3, <2>1 DEF Unplug, IInv, Shape, OnePerOutput, NoGhostSurface, ClosedGone
  <2>3. ClosingOne'
    BY <2>1 DEF IInv, OnePerOutput, ClosingOne, Reportable
  <2> QED
    BY <2>2, <2>3 DEF IInv
<1>4. ASSUME NEW s \in mapped, CompositorCloses(s) PROVE IInv'
  <2>1. Shape' /\ OnePerOutput' /\ NoGhostSurface' /\ ClosedGone'
    BY <1>4 DEF CompositorCloses, IInv, Shape, OnePerOutput, NoGhostSurface, ClosedGone
  <2>2. ClosingOne'
    BY <1>4 DEF CompositorCloses, IInv, ClosingOne, Reportable
  <2> QED
    BY <2>1, <2>2 DEF IInv
<1>5. ASSUME NEW s \in mapped, Cursor(s) PROVE IInv'
  BY <1>0, <1>5, Leaves DEF Cursor
<1>6. ASSUME NEW s \in closed, WindowClosed(s) PROVE IInv'
  <2>1. job' \in Job \cup {NULL}
    BY <1>0, <1>6, ReconcileJob DEF WindowClosed
  <2>2. s \notin mapped
    BY DEF IInv, ClosedGone
  <2> QED
    BY <1>6, <2>1, <2>2
    DEF WindowClosed, IInv, Shape, OnePerOutput, NoGhostSurface, ClosingOne, ClosedGone
<1>7. CASE SubscriptionDrops \/ Resubscribe
  BY <1>0, <1>7, Leaves DEF SubscriptionDrops, Resubscribe
<1>8. CASE OutputsChanged \/ ToggleDock \/ ApplyConfig
  BY <1>0, <1>8, Leaves, ReconcileJob DEF OutputsChanged, NoteTaken, ToggleDock, ApplyConfig
<1>9. CASE ReconcileBars
  <2>1. job' \in Job \cup {NULL}
    BY <1>0, <1>9 DEF ReconcileBars, Job, Kinds
  <2> QED
    BY <1>9, <2>1, PlanKeeps DEF ReconcileBars, Kinds
<1>10. CASE ReconcileDocks
  <2>1. job' \in Job \cup {NULL} /\ "dock" \in Kinds
    BY <1>10 DEF ReconcileDocks, Kinds
  <2>2. CASE dockVisible
    BY <1>10, <2>1, <2>2, PlanKeeps DEF ReconcileDocks
  <2>3. CASE ~dockVisible
    <3>1. Sound("dock", {}, {})
      BY DEF Sound
    <3> QED
      BY <1>10, <2>1, <2>3, <3>1, ReplaceKeeps DEF ReconcileDocks
  <2> QED
    BY <2>2, <2>3
<1> QED
  BY <1>1, <1>2, <1>3, <1>4, <1>5, <1>6, <1>7, <1>8, <1>9, <1>10 DEF Next

-----------------------------------------------------------------------------
(* However the two channels, the compositor and the queries interleave, an  *)
(* output has one bar and one dock, and what is on the screen is tracked    *)
(* (reconcile_surfaces, plan_bound_surfaces).                               *)
THEOREM SurfacesOneEach == Spec => []OneSurfaceEach
<1>1. IInv => OneSurfaceEach
  BY DEF IInv, OneSurfaceEach
<1> QED
  BY InitInv, NextInv, <1>1, PTL DEF Spec

-----------------------------------------------------------------------------
(* What stays and what is made is of the kind that is planned, so a plan of *)
(* the docks leaves the bars.                                               *)
CursorInv == IInv /\ CursorFollows

LEMMA DocksLeaveBars ==
  ASSUME IInv, ReconcileDocks
  PROVE  Of("bar", surf') = Of("bar", surf)
<1> DEFINE keep == Keep(Of("dock", surf), job.desired)
           made == Made("dock", Create(Of("dock", surf), job.desired))
<1>1. "dock" \in Kinds /\ job # NULL
  BY DEF ReconcileDocks, Kinds
<1>2. Sound("dock", keep, made) /\ Sound("dock", {}, {})
  BY <1>1, PlanSound DEF Sound
<1>3. surf' = (surf \ Of("dock", surf)) \cup keep \cup made \/ surf' = surf \ Of("dock", surf)
  BY DEF ReconcileDocks, PlanKind, Replace
<1> HIDE DEF keep, made
<1> QED
  BY <1>2, <1>3 DEF Sound, Of

(* A query that fails is repeated while a bar is up. *)
LEMMA QueriesFollow ==
  ASSUME NEW left, Reconcile(left)
  PROVE  CursorFollows'
<1>1. CASE QueryAnswered(left)
  <2>1. job' = [step |-> "bar", desired |-> Active \cap cfg'.outputs] /\ Active \subseteq Names
    BY <1>1, SurfacesAssumption DEF QueryAnswered, Active, Live
  <2>2. job' \in Job
    BY <2>1 DEF Job, Kinds
  <2> QED
    BY <2>1, <2>2, SurfacesAssumption DEF CursorFollows
<1>2. CASE QueryFails(left)
  <2>1. CASE Of("bar", surf') = {}
    <3>1. Failures = "any"
      BY <1>2, <2>1 DEF QueryFails, QueryMayFail
    <3> QED
      BY <2>1, <3>1 DEF CursorFollows, Of
  <2>2. CASE Of("bar", surf') # {}
    <3>1. (Of("bar", surf') # {}) = TRUE
      BY <2>2
    <3>2. note'
      BY <1>2, <3>1, Zenon DEF QueryFails
    <3> QED
      BY <3>2 DEF CursorFollows
  <2> QED
    BY <2>1, <2>2
<1> QED
  BY <1>1, <1>2 DEF Reconcile

(* Whatever sway answers and whenever it fails, the output that popups open *)
(* on has a bar or is about to be forgotten, or there is no bar at all      *)
(* (ForgetCursor in reconcile_surfaces, main.rs 2719-2721).                 *)
THEOREM SurfacesCursorFollows == Spec => []CursorFollows
<1>1. Init => CursorInv
  BY InitInv DEF CursorInv, CursorFollows, Init
<1>2. CursorInv /\ [Next]_vars => CursorInv'
  <2> SUFFICES ASSUME CursorInv, [Next]_vars PROVE CursorFollows'
    BY NextInv DEF CursorInv
  <2> USE DEF CursorInv
  <2>1. ASSUME UNCHANGED <<surf, cursor, job>>, note => note' PROVE CursorFollows'
    BY <2>1 DEF CursorFollows
  <2>2. CASE UNCHANGED vars
    BY <2>1, <2>2 DEF vars, screen
  <2>3. ASSUME NEW g \in Globals, PlugIn(g) \/ Unplug(g) \/ Dispatch(g) PROVE CursorFollows'
    BY <2>1, <2>3
    DEF PlugIn, Unplug, Dispatch, GlobalEvent, NameEvent, DoneEvent, RemoveEvent, SwayReports, screen
  <2>4. ASSUME NEW s \in mapped, CompositorCloses(s) PROVE CursorFollows'
    BY <2>1, <2>4 DEF CompositorCloses
  <2>5. ASSUME NEW s \in mapped, Cursor(s) PROVE CursorFollows'
    BY <2>5 DEF Cursor, CursorFollows, Of, screen
  <2>6. ASSUME NEW s \in closed, WindowClosed(s) PROVE CursorFollows'
    <3>1. CASE s \in surf
      BY <2>6, <3>1, QueriesFollow DEF WindowClosed
    <3>2. CASE s \notin surf
      BY <2>6, <3>2 DEF WindowClosed, CursorFollows, Of
    <3> QED
      BY <3>1, <3>2
  <2>7. CASE SubscriptionDrops \/ Resubscribe
    BY <2>1, <2>7 DEF SubscriptionDrops, Resubscribe, screen
  <2>8. CASE OutputsChanged \/ ToggleDock \/ ApplyConfig
    BY <2>8, QueriesFollow DEF OutputsChanged, NoteTaken, ToggleDock, ApplyConfig, screen
  <2>9. CASE ReconcileBars
    BY <2>9 DEF ReconcileBars, ForgetCursor, CursorFollows
  <2>10. CASE ReconcileDocks
    <3>1. UNCHANGED <<note, cursor>> /\ job.step = "dock"
      BY <2>10 DEF ReconcileDocks
    <3> QED
      BY <2>10, <3>1, DocksLeaveBars DEF CursorFollows
  <2> QED
    BY <2>2, <2>3, <2>4, <2>5, <2>6, <2>7, <2>8, <2>9, <2>10 DEF Next
<1>3. CursorInv => CursorFollows
  BY DEF CursorInv
<1> QED
  BY <1>1, <1>2, <1>3, PTL DEF Spec
=============================================================================
