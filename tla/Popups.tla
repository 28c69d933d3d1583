------------------------------- MODULE Popups -------------------------------
(***************************************************************************)
(* The transient surfaces of the bar (src/main.rs, struct Bar): the preset *)
(* switcher popup, one module popup and the native picker that a plugin's  *)
(* pick() opens, together with the queue of picks that wait for the picker *)
(* and the plugin fibers parked on them.                                   *)
(*                                                                         *)
(* iced runs every handler of the bar to completion on one thread, so a    *)
(* handler is one action.  What interleaves with it: plugin fibers sending *)
(* picks, the pick_stream subscription, the layout query that places a     *)
(* module popup, and the compositor closing a surface.                     *)
(*                                                                         *)
(* A handler is a chain of calls that each take &mut self.  The fields     *)
(* they share are one record, ui, and each helper is a function from ui to *)
(* ui, so that a chain of calls is a composition.                          *)
(*                                                                         *)
(* The surface of the switcher or of the picker is taken as mapped by the  *)
(* handler that asks for it.  The code asks with a NewLayerShell message   *)
(* (1542, 1844, 1879) that the runtime takes after the handler has ended;  *)
(* a close that overtakes this message is not modelled.                    *)
(***************************************************************************)
EXTENDS Naturals, Sequences, FiniteSets

CONSTANTS
  Plugins,     \* instance ids of the modules that config may place
  Numbers,     \* numbers of the pick() calls of a plugin
  Ids,         \* window ids; an id is reused only when nothing refers to it
  PokeCap,     \* room in the bar's message channel for PickReady
  PlaceCap,    \* bound: layout queries of module popups in flight
  NULL         \* no popup, no module popup, no picker

(* A pick() call is made at most once, by a fiber of its owner.             *)
Reqs == Plugins \X Numbers
Owner == [r \in Reqs |-> r[1]]

ASSUME PopupsAssumption ==
  /\ PokeCap \in Nat \ {0}
  /\ PlaceCap \in Nat \ {0}
  /\ NULL \notin Ids
  /\ NULL \notin [id : Ids, instance : Plugins]
  /\ NULL \notin [id : Ids, req : Reqs]

VARIABLES
  ui,        \* the popup fields of Bar, PENDING_PICKS, mapped surfaces, replies
  chan,      \* PICK_RX: picks sent by fibers, not yet taken by pick_stream
  pokes,     \* PickReady messages on their way to update()
  places,    \* PlaceModulePopup messages on their way to update()
  placed,    \* instances in Bar.modules
  disabled   \* instances whose update() panicked

vars == <<ui, chan, pokes, places, placed, disabled>>

(* What became of a pick: "new" not made yet, "waiting" its fiber is parked *)
(* on the oneshot, "chosen" and "none" are the two answers, "gone" the      *)
(* fiber was aborted while parked and the receiver dropped.                 *)
ReplyStates == {"new", "waiting", "chosen", "none", "gone"}

ModulePopup == [id : Ids, instance : Plugins]
Picker == [id : Ids, req : Reqs]

UI == [ popup       : Ids \cup {NULL},
        modulePopup : ModulePopup \cup {NULL},
        picker      : Picker \cup {NULL},
        pending     : Seq(Reqs),
        surfaces    : SUBSET Ids,
        reply       : [Reqs -> ReplyStates] ]

TypeOK ==
  /\ ui \in UI
  /\ chan \in Seq(Reqs)
  /\ pokes \in 0 .. PokeCap
  /\ places \in SUBSET ModulePopup
  /\ placed \in SUBSET Plugins
  /\ disabled \in SUBSET Plugins

Init ==
  /\ ui = [ popup |-> NULL, modulePopup |-> NULL, picker |-> NULL,
            pending |-> <<>>, surfaces |-> {},
            reply |-> [r \in Reqs |-> "new"] ]
  /\ chan = <<>>
  /\ pokes = 0
  /\ places = {}
  /\ placed \in SUBSET Plugins
  /\ disabled = {}

-----------------------------------------------------------------------------
(* The ids the bar's fields refer to, and an id from window::Id::unique(). *)

PopupIds(u) == IF u.popup = NULL THEN {} ELSE {u.popup}
ModulePopupIds(u) == IF u.modulePopup = NULL THEN {} ELSE {u.modulePopup.id}
PickerIds(u) == IF u.picker = NULL THEN {} ELSE {u.picker.id}
TrackedIds(u) == PopupIds(u) \cup ModulePopupIds(u) \cup PickerIds(u)

Fresh == Ids \ (TrackedIds(ui) \cup ui.surfaces \cup {m.id : m \in places})

(* oneshot::Sender::send on the open picker's reply; the error of a dropped *)
(* receiver is ignored.                                                     *)
Answer(u, answer) ==
  IF u.picker # NULL /\ u.reply[u.picker.req] = "waiting"
    THEN [u EXCEPT !.reply[u.picker.req] = answer]
    ELSE u

(* Take the open picker, answer it and close its surface. *)
TakePicker(u, answer) ==
  [Answer(u, answer) EXCEPT !.picker = NULL, !.surfaces = @ \ PickerIds(u)]

ClosePopupTask(u) ==
  [u EXCEPT !.popup = NULL, !.surfaces = @ \ PopupIds(u)]

CloseModulePopup(u) ==
  [u EXCEPT !.modulePopup = NULL, !.surfaces = @ \ ModulePopupIds(u)]

OwnsModulePopup(u, i) == u.modulePopup # NULL /\ u.modulePopup.instance = i

CloseModulePopupOf(u, i) ==
  IF OwnsModulePopup(u, i)
    THEN CloseModulePopup(u)
    ELSE u

(* close_any_popup dismisses the picker flat: it never opens the next one. *)
CloseAnyPopup(u) == TakePicker(CloseModulePopup(ClosePopupTask(u)), "none")

(* Faulty variants of open_next_picker: the other popups are left open; the *)
(* head is popped before the test for an open picker.                       *)
OpenNextPicker_KeepsOthers(u, id) ==
  IF u.picker = NULL /\ u.pending # <<>>
    THEN [u EXCEPT !.picker = [id |-> id, req |-> Head(u.pending)],
                   !.pending = Tail(u.pending), !.surfaces = @ \cup {id}]
    ELSE u

OpenNextPicker_PopsFirst(u, id) ==
  IF u.pending = <<>> THEN u
  ELSE IF u.picker # NULL THEN [u EXCEPT !.pending = Tail(@)]
  ELSE [CloseAnyPopup(u) EXCEPT
          !.picker = [id |-> id, req |-> Head(u.pending)],
          !.pending = Tail(u.pending), !.surfaces = @ \cup {id}]

OpenNextPicker(u, id) ==
  IF u.picker = NULL /\ u.pending # <<>>
    THEN [CloseAnyPopup(u) EXCEPT
            !.picker = [id |-> id, req |-> Head(u.pending)],
            !.pending = Tail(u.pending),
            !.surfaces = @ \cup {id}]
    ELSE u

PickerResolve(u, answer, id) ==
  IF u.picker = NULL THEN u ELSE OpenNextPicker(TakePicker(u, answer), id)

-----------------------------------------------------------------------------
(* Plugin fibers and the pick channel *)

(* A fiber of a placed plugin calls pick() and parks on the reply.  It is   *)
(* one fiber: it makes no second call while the first is parked.            *)
GuestPick(r) ==
  /\ Owner[r] \in placed
  /\ ui.reply[r] = "new"
  /\ \A q \in Reqs : Owner[q] = Owner[r] => ui.reply[q] # "waiting"
  /\ chan' = Append(chan, r)
  /\ ui' = [ui EXCEPT !.reply[r] = "waiting"]
  /\ UNCHANGED <<pokes, places, placed, disabled>>

(* Faulty variants: the request is queued without waking the bar, or wakes  *)
(* it with no room in the bar's channel.                                    *)
PickStream_NoPoke ==
  /\ chan # <<>>
  /\ ui' = [ui EXCEPT !.pending = Append(@, Head(chan))]
  /\ chan' = Tail(chan)
  /\ UNCHANGED <<pokes, places, placed, disabled>>

PickStream ==
  /\ chan # <<>>
  /\ pokes < PokeCap
  /\ ui' = [ui EXCEPT !.pending = Append(@, Head(chan))]
  /\ chan' = Tail(chan)
  /\ pokes' = pokes + 1
  /\ UNCHANGED <<places, placed, disabled>>

PickReady ==
  /\ pokes > 0
  /\ pokes' = pokes - 1
  /\ \E id \in Fresh : ui' = OpenNextPicker(ui, id)
  /\ UNCHANGED <<chan, places, placed, disabled>>

-----------------------------------------------------------------------------
(* Messages of the user *)

(* PickerCommit, PickerCommitIdx and PickerDismiss (Esc, Enter, a click, or *)
(* the pointer leaving the picker) *)
PickerAnswer(answer) ==
  /\ ui.picker # NULL
  /\ \E id \in Fresh : ui' = PickerResolve(ui, answer, id)
  /\ UNCHANGED <<chan, pokes, places, placed, disabled>>

(* PopupKind has one member, so a second OpenPopup always toggles off. *)
OpenPopup ==
  LET u == CloseModulePopup(ui)
  IN \/ /\ ui.popup # NULL
        /\ ui' = ClosePopupTask(u)
        /\ UNCHANGED <<chan, pokes, places, placed, disabled>>
     \/ /\ ui.popup = NULL
        /\ \E id \in Fresh :
              ui' = [u EXCEPT !.popup = id, !.surfaces = @ \cup {id}]
        /\ UNCHANGED <<chan, pokes, places, placed, disabled>>

DismissPopups ==
  /\ \E id \in Fresh : ui' = OpenNextPicker(CloseAnyPopup(ui), id)
  /\ UNCHANGED <<chan, pokes, places, placed, disabled>>

-----------------------------------------------------------------------------
(* ModuleMsg: one host request of a module, or a panic of its update() *)

Enabled(i) == i \in placed /\ i \notin disabled

HostOpenPopup(i) ==
  /\ Enabled(i)
  /\ \/ /\ OwnsModulePopup(ui, i)
        /\ ui' = CloseModulePopup(ui)
        /\ UNCHANGED places
     \/ /\ ~ OwnsModulePopup(ui, i)
        /\ Cardinality(places) < PlaceCap
        /\ \E id \in Fresh :
              LET m == [id |-> id, instance |-> i]
              IN /\ ui' = [CloseAnyPopup(ui) EXCEPT !.modulePopup = m]
                 /\ places' = places \cup {m}
  /\ UNCHANGED <<chan, pokes, placed, disabled>>

HostClosePopup(i) ==
  /\ Enabled(i)
  /\ ui' = CloseModulePopupOf(ui, i)
  /\ UNCHANGED <<chan, pokes, places, placed, disabled>>

(* The popup half of ToggleDock; the dock itself is in module Surfaces. *)
ToggleDock(i) ==
  /\ Enabled(i)
  /\ ui' = CloseAnyPopup(ui)
  /\ UNCHANGED <<chan, pokes, places, placed, disabled>>

ModulePanic(i) ==
  /\ Enabled(i)
  /\ disabled' = disabled \cup {i}
  /\ ui' = CloseModulePopupOf(ui, i)
  /\ UNCHANGED <<chan, pokes, places, placed>>

(* The layout query answers: the surface is created only for the popup that *)
(* is still the open one.  The faulty variant does not ask.                 *)
PlaceModulePopup_Always(m) ==
  /\ m \in places
  /\ places' = places \ {m}
  /\ ui' = [ui EXCEPT !.surfaces = @ \cup {m.id}]
  /\ UNCHANGED <<chan, pokes, placed, disabled>>

PlaceModulePopup(m) ==
  /\ m \in places
  /\ places' = places \ {m}
  /\ ui' = IF ui.modulePopup = m THEN [ui EXCEPT !.surfaces = @ \cup {m.id}] ELSE ui
  /\ UNCHANGED <<chan, pokes, placed, disabled>>

-----------------------------------------------------------------------------
(* Messages of the compositor, and configuration *)

(* The compositor closes a mapped popup surface. *)
WindowClosed(w) ==
  LET u1 == [ui EXCEPT !.surfaces = @ \ {w}]
      u2 == IF u1.popup = w THEN [u1 EXCEPT !.popup = NULL] ELSE u1
      u3 == IF w \in ModulePopupIds(u2) THEN [u2 EXCEPT !.modulePopup = NULL] ELSE u2
  IN /\ w \in ui.surfaces
     /\ \/ /\ w \notin PickerIds(u3)
           /\ ui' = u3
        \/ /\ w \in PickerIds(u3)
           /\ \E id \in Fresh : ui' = OpenNextPicker(TakePicker(u3, "none"), id)
     /\ UNCHANGED <<chan, pokes, places, placed, disabled>>

(* WindowClosed of a bar surface, and the closed_any branch of              *)
(* reconcile_surfaces: an output went away under the open popups.           *)
BarClosed ==
  /\ ui' = CloseAnyPopup(ui)
  /\ UNCHANGED <<chan, pokes, places, placed, disabled>>

(* Tear the given instances down: their fibers are aborted and the          *)
(* receivers they were parked on dropped.                                   *)
Abort(u, gone) ==
  [u EXCEPT !.reply = [r \in Reqs |->
     IF Owner[r] \in gone /\ u.reply[r] = "waiting" THEN "gone" ELSE u.reply[r]]]

(* The end of reconcile_modules: close what belongs to an instance id that  *)
(* is no longer placed.                                                     *)
CloseOrphans(u, kept, id) ==
  LET u1 == IF u.modulePopup # NULL /\ u.modulePopup.instance \notin kept
              THEN CloseModulePopup(u) ELSE u
  IN IF u1.picker # NULL /\ Owner[u1.picker.req] \notin kept
       THEN OpenNextPicker(TakePicker(u1, "none"), id)
       ELSE u1

(* apply_config, from a reload or from SelectPreset (which first closes the *)
(* switcher): the modules in want are placed, those of rebuilt are torn     *)
(* down and built again under the same id; then the surfaces are            *)
(* reconciled, which closes every popup when a bar closed.                  *)
ApplyConfig(want, rebuilt, select, closedAny) ==
  /\ placed' = want
  /\ disabled' = (disabled \cap want) \ rebuilt
  /\ \E id \in Fresh :
       LET u1 == IF select THEN ClosePopupTask(ui) ELSE ui
           u2 == Abort(u1, rebuilt \cup (placed \ want))
           u3 == CloseOrphans(u2, want, id)
       IN ui' = IF closedAny THEN CloseAnyPopup(u3) ELSE u3
  /\ UNCHANGED <<chan, pokes, places>>

Next ==
  \/ \E r \in Reqs : GuestPick(r)
  \/ PickStream
  \/ PickReady
  \/ \E answer \in {"chosen", "none"} : PickerAnswer(answer)
  \/ OpenPopup
  \/ DismissPopups
  \/ \E i \in Plugins : HostOpenPopup(i)
  \/ \E i \in Plugins : HostClosePopup(i)
  \/ \E i \in Plugins : ToggleDock(i)
  \/ \E i \in Plugins : ModulePanic(i)
  \/ \E m \in places : PlaceModulePopup(m)
  \/ \E w \in Ids : WindowClosed(w)
  \/ BarClosed
  \/ \E want \in SUBSET Plugins : \E rebuilt \in SUBSET (want \cap placed) :
       \E select, closedAny \in BOOLEAN : ApplyConfig(want, rebuilt, select, closedAny)

Spec == Init /\ [][Next]_vars

(* The executor polls the subscription and the message loop runs: a queued  *)
(* pick is forwarded, a PickReady and the answer of a layout query handled. *)
(* A person answers a picker or leaves it.                                  *)
FairSpec ==
  /\ Spec
  /\ WF_vars(PickStream)
  /\ WF_vars(PickReady)
  /\ WF_vars(\E m \in places : PlaceModulePopup(m))
  /\ WF_vars(\E answer \in {"chosen", "none"} : PickerAnswer(answer))

-----------------------------------------------------------------------------
(* Properties *)

(* Surfaces and fields agree.  A mapped popup surface is one the bar still  *)
(* refers to: close_any_popup, the toggles and the late PlaceModulePopup of *)
(* a popup already closed (main.rs 1511-1553) leave no surface that nobody  *)
(* will ever close.  A popup the bar believes open is on the screen, or the *)
(* layout query that creates it is still on its way.                        *)
NoGhostSurface == ui.surfaces \subseteq TrackedIds(ui)

NoDeadPopup ==
  /\ PopupIds(ui) \cup PickerIds(ui) \subseteq ui.surfaces
  /\ ui.modulePopup # NULL =>
       ui.modulePopup.id \in ui.surfaces \/ ui.modulePopup \in places

SurfacesAgree == NoGhostSurface /\ NoDeadPopup

(* A module popup is never open beside the switcher or the picker (the      *)
(* one-popup discipline of handle_host_request and open_next_picker), and   *)
(* its owner is a placed module that has not panicked.                      *)
ModulePopupSound ==
  ui.modulePopup # NULL =>
    /\ ui.popup = NULL /\ ui.picker = NULL
    /\ Enabled(ui.modulePopup.instance)

InSeq(r, s) == \E k \in DOMAIN s : s[k] = r

(* A parked fiber's request is never lost between the channel, the queue    *)
(* and the picker, whatever closes the picker meanwhile: its guest can      *)
(* still be answered.                                                       *)
PickNotLost ==
  \A r \in Reqs : ui.reply[r] = "waiting" =>
    \/ InSeq(r, chan)
    \/ InSeq(r, ui.pending)
    \/ ui.picker # NULL /\ ui.picker.req = r

(* A queued pick has a picker in front of it or a PickReady on its way      *)
(* (main.rs 1449-1451: a path that closes the picker must drain the queue,  *)
(* or a second plugin's pick would hang parked).                            *)
NoStrandedPick == ui.pending # <<>> => ui.picker # NULL \/ pokes > 0

(* Nobody looks at the queue again: r waits in it, no picker is open and no *)
(* PickReady is on its way.                                                 *)
Stranded(r) == InSeq(r, ui.pending) /\ ui.picker = NULL /\ pokes = 0

(* The handlers that close any popup and do not drain the queue.            *)
ClosesFlat ==
  \/ \E i \in Plugins : HostOpenPopup(i) \/ ToggleDock(i)
  \/ BarClosed
  \/ \E want, rebuilt \in SUBSET Plugins : \E select \in BOOLEAN :
       ApplyConfig(want, rebuilt, select, TRUE)

(* Every pick that is sent comes to be the one the picker shows, unless its *)
(* fiber ends or it is stranded; and what strands it is one of the flat     *)
(* closers (finding popups_stranded), never pick_stream, PickReady, an      *)
(* answer, or another handler that closes the picker.                       *)
PicksServed ==
  /\ \A r \in Reqs :
       InSeq(r, chan) ~> \/ ui.picker # NULL /\ ui.picker.req = r
                         \/ ui.reply[r] # "waiting"
                         \/ Stranded(r)
  /\ [][(\E r \in Reqs : ~ Stranded(r) /\ Stranded(r)') => ClosesFlat]_vars
=============================================================================
