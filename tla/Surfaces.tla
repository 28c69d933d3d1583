------------------------------ MODULE Surfaces ------------------------------
(***************************************************************************)
(* The bar and dock surfaces of ezbar, one of each per wanted output       *)
(* (src/main.rs reconcile_surfaces, src/outputs.rs).                       *)
(*                                                                         *)
(* Two channels tell the bar about outputs, and nothing orders them: sway  *)
(* IPC, which reconcile_surfaces queries and outputs_stream listens to,    *)
(* and the Wayland registry, whose events a thread of its own dispatches   *)
(* into OutputCache.  A surface is bound to the wl_output that the cache   *)
(* has ready under the output's name, never to a name.                     *)
(*                                                                         *)
(* update() runs on one thread, but the dispatch thread and sway do not    *)
(* wait for it: a reconcile is three steps (query sway, plan the bars,     *)
(* plan the docks), each of which reads what is true by then.              *)
(***************************************************************************)
EXTENDS Naturals, Sequences, FiniteSets

CONSTANTS
  Names,       \* output names
  Globals,     \* wl_output globals; a replugged monitor has a new one
  NameOf,      \* NameOf[g] is the name global g announces
  Serials,     \* tells apart the surfaces that one output had in turn
  Failures,    \* when a sway query may fail: "never", "warm", "any"
  HasChip,     \* whether a placed module asks for ToggleDock
  Configs,     \* configurations: [bar].outputs and [dock].enabled
  NULL

Kinds == {"bar", "dock"}
Job == [step : Kinds, desired : SUBSET Names]

ASSUME SurfacesAssumption ==
  /\ NameOf \in [Globals -> Names]
  /\ HasChip \in BOOLEAN
  /\ Failures \in {"never", "warm", "any"}
  /\ Configs \subseteq [outputs : SUBSET Names, dock : BOOLEAN]
  /\ NULL \notin Globals \cup Names \cup Job

(* One to be closed and one to be opened are told apart. *)
ASSUME SerialsAssumption == \E i, j \in Serials : i # j

VARIABLES
  hw,          \* per global, the monitor behind it
  events,      \* Wayland events on their way to the dispatch thread
  cache,       \* OutputCache.entries
  sub,         \* the sway event subscription is up
  note,        \* an OutputsChanged is on its way to update()
  cfg,         \* the configuration
  dockVisible, \* Bar.dock_visible
  surf,        \* Bar.bars and Bar.docks
  mapped,      \* the surfaces the compositor has
  closed,      \* WindowClosed messages on their way to update()
  cursor,      \* Bar.cursor_output
  job          \* the reconcile in progress

wayland == <<hw, events, cache>>
screen == <<surf, mapped, closed>>
vars == <<wayland, sub, note, cfg, dockVisible, screen, cursor, job>>

(* BarSurface; its window id is the record itself. *)
Surface == [kind : Kinds, output : Names, binding : Globals, serial : Serials]
Event == [kind : {"global", "name", "done", "remove"}, global : Globals]

TypeOK ==
  /\ hw \in [Globals -> {"new", "live", "gone"}]
  /\ events \in Seq(Event)
  /\ cache \in [Globals -> {"absent", "bound", "named", "ready"}]
  /\ {sub, note, dockVisible} \subseteq BOOLEAN
  /\ cfg \in Configs
  /\ surf \subseteq Surface /\ mapped \subseteq Surface /\ closed \subseteq Surface
  /\ cursor \in Names \cup {NULL}
  /\ job \in Job \cup {NULL}

Live == {g \in Globals : hw[g] = "live"}
Active == {NameOf[g] : g \in Live}
Of(k, S) == {s \in S : s.kind = k}
Idle == job = NULL

(* Outputs::connect has done two roundtrips; Bar::new reconciles at boot, a *)
(* query that fails then leaves nothing to retry.                           *)
Init ==
  /\ hw \in [Globals -> {"new", "live"}]
  /\ cache = [g \in Globals |-> IF hw[g] = "live" THEN "ready" ELSE "absent"]
  /\ events = <<>>
  /\ sub = FALSE
  /\ note = TRUE     \* the initial kick of wayland_outputs_stream
  /\ cfg \in Configs /\ dockVisible = cfg.dock
  /\ surf = {} /\ mapped = {} /\ closed = {}
  /\ cursor = NULL
  /\ \/ job = [step |-> "bar", desired |-> Active \cap cfg.outputs]
     \/ Failures = "any" /\ job = NULL

-----------------------------------------------------------------------------
(* Monitors and the compositor.  Bound: a global is plugged in once. *)

(* outputs_stream forwards what sway reports while it is subscribed.  The   *)
(* flag note stands for every OutputsChanged on its way, whether a stream   *)
(* debounces it, a timer delays it or the message queue holds it.           *)
SwayReports == note' = (note \/ sub)

Send(kind, g) == events' = Append(events, [kind |-> kind, global |-> g])

PlugIn(g) ==
  /\ hw[g] = "new"
  /\ hw' = [hw EXCEPT ![g] = "live"]
  /\ Send("global", g)
  /\ SwayReports
  /\ UNCHANGED <<cache, sub, cfg, dockVisible, screen, cursor, job>>

(* Bound: at most one WindowClosed per kind and output is on its way. *)
Reportable(s) == \A c \in closed : c.kind # s.kind \/ c.output # s.output

(* The compositor drops the surfaces on the monitor; iced may lose the      *)
(* closed events (main.rs 698-699).                                         *)
Unplug(g) ==
  /\ hw[g] = "live"
  /\ hw' = [hw EXCEPT ![g] = "gone"]
  /\ Send("remove", g)
  /\ SwayReports
  /\ mapped' = {s \in mapped : s.binding # g}
  /\ \E told \in SUBSET {s \in mapped : s.binding = g /\ Reportable(s)} :
       closed' = closed \cup told
  /\ UNCHANGED <<cache, sub, cfg, dockVisible, surf, cursor, job>>

(* The compositor closes a surface of a live monitor (it slept). *)
CompositorCloses(s) ==
  /\ s \in mapped /\ Reportable(s)
  /\ mapped' = mapped \ {s}
  /\ closed' = closed \cup {s}
  /\ UNCHANGED <<wayland, sub, note, cfg, dockVisible, surf, cursor, job>>

-----------------------------------------------------------------------------
(* The dispatch thread of outputs.rs *)

Receive(kind, g) ==
  /\ events # <<>>
  /\ Head(events) = [kind |-> kind, global |-> g]

SetEntry(g, v) == cache' = [cache EXCEPT ![g] = v]

(* insert; the compositor answers the bind with Name and Done. *)
GlobalEvent(g) ==
  /\ Receive("global", g)
  /\ SetEntry(g, "bound")
  /\ events' = Tail(events) \o
       (IF hw[g] = "live" THEN << [kind |-> "name", global |-> g],
                                  [kind |-> "done", global |-> g] >>
                          ELSE <<>>)
  /\ UNCHANGED <<hw, sub, note, cfg, dockVisible, screen, cursor, job>>

(* OutputCache::name and done leave an entry that was removed alone. *)
NameEvent(g) ==
  /\ Receive("name", g)
  /\ events' = Tail(events)
  /\ SetEntry(g, IF cache[g] = "absent" THEN "absent" ELSE "named")
  /\ UNCHANGED <<hw, sub, note, cfg, dockVisible, screen, cursor, job>>

DoneEvent(g) ==
  /\ Receive("done", g)
  /\ events' = Tail(events)
  /\ SetEntry(g, IF cache[g] = "named" THEN "ready" ELSE cache[g])
  /\ note' = (note \/ cache[g] = "named")
  /\ UNCHANGED <<hw, sub, cfg, dockVisible, screen, cursor, job>>

RemoveEvent(g) ==
  /\ Receive("remove", g)
  /\ events' = Tail(events)
  /\ SetEntry(g, "absent")
  /\ note' = (note \/ cache[g] # "absent")
  /\ UNCHANGED <<hw, sub, cfg, dockVisible, screen, cursor, job>>

Dispatch(g) == GlobalEvent(g) \/ NameEvent(g) \/ DoneEvent(g) \/ RemoveEvent(g)

(* Outputs::get: the one entry that is ready under the name, or none. *)
NamedOutput(n) ==
  LET ready == {g \in Globals : cache[g] = "ready" /\ NameOf[g] = n}
  IN  IF Cardinality(ready) = 1 THEN CHOOSE g \in ready : TRUE ELSE NULL

-----------------------------------------------------------------------------
(* The connection of outputs_stream.  While it is down events are lost;     *)
(* every connect kicks once.                                                *)

SubscriptionDrops ==
  /\ sub
  /\ sub' = FALSE
  /\ UNCHANGED <<wayland, note, cfg, dockVisible, screen, cursor, job>>

Resubscribe ==
  /\ ~sub
  /\ sub' = TRUE
  /\ note' = TRUE
  /\ UNCHANGED <<wayland, cfg, dockVisible, screen, cursor, job>>

-----------------------------------------------------------------------------
(* reconcile_surfaces *)

(* A surface whose binding is still what the cache has under its name. *)
Valid(s) == NamedOutput(s.output) = s.binding

(* plan_bound_surfaces, by plan_surfaces on the valid surfaces: what stays  *)
(* (one per wanted output) and the outputs to create on.  Faulty variant:   *)
(* outputs with a surface get another.                                      *)
Keep(tracked, desired) ==
  {s \in tracked : Valid(s) /\ s.output \in desired /\
                   s = CHOOSE t \in tracked : Valid(t) /\ t.output = s.output}

Create_Untracked(tracked, desired) == desired

Create(tracked, desired) ==
  {n \in desired : \A s \in tracked : Valid(s) => s.output # n}

(* A surface with a window::Id::unique(). *)
NewSurface(k, n) ==
  CHOOSE s \in {[kind |-> k, output |-> n, binding |-> NamedOutput(n), serial |-> i] :
                  i \in Serials} : s \notin surf \cup mapped \cup closed

(* Create waits for an output whose wl_output is not ready yet.             *)
Made(k, names) == {NewSurface(k, n) : n \in {m \in names : NamedOutput(m) # NULL}}

(* Replace the surfaces of kind k by what the plan keeps and makes.  The    *)
(* compositor closes at once what is made on a monitor that is gone.        *)
Replace(k, keep, made) ==
  /\ surf' = (surf \ Of(k, surf)) \cup keep \cup made
  /\ mapped' = (mapped \cap surf') \cup {s \in made : s.binding \in Live}
  /\ \E told \in SUBSET {s \in made : s.binding \notin Live /\ Reportable(s)} :
       closed' = closed \cup told

PlanKind(k) ==
  LET tracked == Of(k, surf)
  IN  Replace(k, Keep(tracked, job.desired), Made(k, Create(tracked, job.desired)))

(* Forget the cursor's output when no bar is left on it.  Faulty variant:   *)
(* it is kept.                                                              *)
ForgetCursor_Keeps == cursor' = cursor

ForgetCursor ==
  cursor' = IF \E s \in Of("bar", surf') : s.output = cursor THEN cursor ELSE NULL

ReconcileBars ==
  /\ job # NULL /\ job.step = "bar"
  /\ PlanKind("bar")
  /\ ForgetCursor
  /\ job' = [job EXCEPT !.step = "dock"]
  /\ UNCHANGED <<wayland, sub, note, cfg, dockVisible>>

ReconcileDocks ==
  /\ job # NULL /\ job.step = "dock"
  /\ IF dockVisible THEN PlanKind("dock") ELSE Replace("dock", {}, {})
  /\ job' = NULL
  /\ UNCHANGED <<wayland, sub, note, cfg, dockVisible, cursor>>

(* The query of sway; left says whether an OutputsChanged is still on its   *)
(* way besides the message being handled.  The query fails as the constant  *)
(* Failures allows; with no bar up a failure is dropped, else a timer sends *)
(* the message again.                                                       *)
QueryAnswered(left) ==
  /\ job' = [step |-> "bar", desired |-> Active \cap cfg'.outputs]
  /\ note' = left

QueryMayFail ==
  \/ Failures = "any"
  \/ Failures = "warm" /\ Of("bar", surf') # {}

(* Faulty variant: no timer. *)
QueryFails_NoRetry(left) ==
  /\ QueryMayFail
  /\ note' = left
  /\ UNCHANGED job

QueryFails(left) ==
  /\ QueryMayFail
  /\ note' = (left \/ Of("bar", surf') # {})
  /\ UNCHANGED job

Reconcile(left) == Idle /\ (QueryAnswered(left) \/ QueryFails(left))

-----------------------------------------------------------------------------
(* The handlers of update() *)

NoteTaken ==
  /\ note
  /\ UNCHANGED <<wayland, sub, cfg, dockVisible, screen, cursor>>

OutputsChanged == NoteTaken /\ Reconcile(FALSE)

WindowClosed(s) ==
  /\ s \in closed
  /\ closed' = closed \ {s}
  /\ surf' = surf \ {s}
  /\ UNCHANGED <<wayland, sub, cfg, dockVisible, mapped, cursor>>
  /\ IF s \in surf THEN Reconcile(note) ELSE Idle /\ UNCHANGED <<note, job>>

ToggleDock ==
  /\ HasChip
  /\ dockVisible' = ~dockVisible
  /\ UNCHANGED <<wayland, sub, cfg, screen, cursor>>
  /\ Reconcile(note)

(* apply_config: dock_visible is not read from the new configuration. *)
ApplyConfig ==
  /\ cfg' \in Configs \ {cfg}
  /\ UNCHANGED <<wayland, sub, dockVisible, screen, cursor>>
  /\ Reconcile(note)

(* The pointer is over a bar. *)
Cursor(s) ==
  /\ Idle
  /\ s \in Of("bar", surf \cap mapped)
  /\ cursor' = s.output
  /\ UNCHANGED <<wayland, sub, note, cfg, dockVisible, screen, job>>

Next ==
  \/ \E g \in Globals : PlugIn(g) \/ Unplug(g) \/ Dispatch(g)
  \/ \E s \in mapped : CompositorCloses(s) \/ Cursor(s)
  \/ \E s \in closed : WindowClosed(s)
  \/ SubscriptionDrops \/ Resubscribe
  \/ OutputsChanged \/ ToggleDock \/ ApplyConfig
  \/ ReconcileBars \/ ReconcileDocks

Spec == Init /\ [][Next]_vars

(* The dispatch thread and outputs_stream run; update() takes every message *)
(* in the end; sway answers a query that is repeated for ever.              *)
FairSpec ==
  /\ Spec
  /\ WF_vars(\E g \in Globals : Dispatch(g))
  /\ WF_vars(Resubscribe)
  /\ WF_vars(ReconcileBars \/ ReconcileDocks)
  /\ SF_vars(OutputsChanged)
  /\ SF_vars(NoteTaken /\ Idle /\ QueryAnswered(FALSE))
  /\ \A k \in Kinds, n \in Names :
       SF_vars(\E s \in closed : s.kind = k /\ s.output = n /\ WindowClosed(s))

-----------------------------------------------------------------------------
(* Properties *)

(* The bar tracks at most one surface of a kind per output: no "two bars"   *)
(* (main.rs 799-803).                                                       *)
OnePerOutput ==
  \A s, t \in surf : s.kind = t.kind /\ s.output = t.output => s = t

(* Whatever the compositor shows is tracked: a surface that is forgotten    *)
(* but not closed would stay on screen for ever.                            *)
NoGhostSurface == mapped \subseteq surf

(* Both together: one surface of a kind per output, and none on the screen  *)
(* but those.                                                               *)
OneSurfaceEach == OnePerOutput /\ NoGhostSurface

(* Output g wants a surface of kind k.  Two globals of one name are         *)
(* ambiguous and want none (outputs.rs 271).                                *)
Wanted(k, g) ==
  /\ hw[g] = "live"
  /\ \A h \in Live : NameOf[h] = NameOf[g] => h = g
  /\ NameOf[g] \in cfg.outputs
  /\ k = "dock" => dockVisible

Covered(k, g) == \E s \in Of(k, surf \cap mapped) : s.binding = g

(* A monitor that stays gets its bar, and its dock while docks are shown,   *)
(* however the two channels interleave and though a dropped subscription,   *)
(* failed queries and lost close events intervene.                          *)
Missing(k) == \E g \in Globals : Wanted(k, g) /\ ~Covered(k, g)
Converges == \A k \in Kinds : []<>~Missing(k)

(* A surface bound to a monitor that is gone does not stay tracked, where   *)
(* it would keep the monitor's successor of the same name without a bar.    *)
Dead == {s \in surf : hw[s.binding] = "gone"}
DeadSurfacesGo == []<>(Dead = {})

(* The output that popups open on is one with a bar, or a reconcile that    *)
(* forgets it is on its way.  Only a query that fails while no bar is up    *)
(* leaves neither, for nothing repeats it (main.rs 2719-2721); then no bar  *)
(* is there at all, and the next reconcile that makes one forgets it.       *)
CursorFollows ==
  cursor # NULL =>
    \/ \E s \in Of("bar", surf) : s.output = cursor
    \/ note \/ (job # NULL /\ job.step = "bar")
    \/ Failures = "any" /\ Of("bar", surf) = {}
=============================================================================
