---------------------------- MODULE Popups_proofs ----------------------------
(***************************************************************************)
(* Proofs about module Popups, for any plugins, picks, window ids and      *)
(* bounds.  PopupInv is the inductive invariant: the properties of the popups *)
(* and PickNotLost, with the one fact they lack, that the switcher and the *)
(* picker never share a window id.  Every handler is a composition of      *)
(* helpers on the record ui, so the work is in one lemma per helper.       *)
(***************************************************************************)
EXTENDS Popups, TLAPS, SequenceTheorems

(* The invariant as a predicate of a ui record u, the channel ch, the       *)
(* layout queries in flight pl and the working modules ok.                  *)
UIInv(u, ch, pl, ok) ==
  /\ u.surfaces \subseteq TrackedIds(u)
  /\ PopupIds(u) \cup PickerIds(u) \subseteq u.surfaces
  /\ u.popup # NULL /\ u.picker # NULL => u.popup # u.picker.id
  /\ u.modulePopup # NULL =>
       /\ u.popup = NULL /\ u.picker = NULL
       /\ u.modulePopup.id \in u.surfaces \/ u.modulePopup \in pl
       /\ u.modulePopup.instance \in ok
  /\ \A r \in Reqs : u.reply[r] = "waiting" =>
       \/ InSeq(r, ch)
       \/ InSeq(r, u.pending)
       \/ u.picker # NULL /\ u.picker.req = r

PopupInv == TypeOK /\ UIInv(ui, chan, places, placed \ disabled)

(* What a handler keeps of the invariant. *)
Keeps(u, v) ==
  /\ v \in UI
  /\ \A ch \in Seq(Reqs), pl \in SUBSET ModulePopup, ok \in SUBSET Plugins :
       UIInv(u, ch, pl, ok) => UIInv(v, ch, pl, ok)

-----------------------------------------------------------------------------
(* A sequence holds its head and the elements of its tail. *)
LEMMA InSeqTail ==
  ASSUME NEW s \in Seq(Reqs), s # <<>>, NEW r, InSeq(r, s)
  PROVE  r = Head(s) \/ InSeq(r, Tail(s))
<1>1. PICK k \in 1 .. Len(s) : s[k] = r
  BY DEF InSeq
<1>2. CASE k = 1
  BY <1>1, <1>2
<1>3. CASE k > 1
  <2>1. k - 1 \in DOMAIN Tail(s) /\ Tail(s)[k - 1] = s[k]
    BY <1>3, <1>1
  <2>2. QED
    BY <2>1, <1>1 DEF InSeq
<1>4. QED
  BY <1>1, <1>2, <1>3

(* Appending to a sequence keeps its elements and adds the new one. *)
LEMMA InSeqAppend ==
  ASSUME NEW s \in Seq(Reqs), NEW e \in Reqs, NEW r
  PROVE  /\ InSeq(r, s) => InSeq(r, Append(s, e))
         /\ InSeq(e, Append(s, e))
<1>1. Len(Append(s, e)) = Len(s) + 1 /\ Append(s, e)[Len(s) + 1] = e
  OBVIOUS
<1>2. \A k \in 1 .. Len(s) : Append(s, e)[k] = s[k]
  OBVIOUS
<1>3. Len(s) + 1 \in DOMAIN Append(s, e)
  BY <1>1
<1>4. QED
  BY <1>1, <1>2, <1>3 DEF InSeq

-----------------------------------------------------------------------------
(* The helpers *)

LEMMA TakePickerKeeps ==
  ASSUME NEW u \in UI, NEW answer \in {"chosen", "none"}
  PROVE  Keeps(u, TakePicker(u, answer)) /\ TakePicker(u, answer).picker = NULL
<1>1. TakePicker(u, answer) \in UI /\ TakePicker(u, answer).picker = NULL
  BY DEF UI, TakePicker, Answer, Picker, ReplyStates
<1>2. ASSUME NEW ch \in Seq(Reqs), NEW pl \in SUBSET ModulePopup,
             NEW ok \in SUBSET Plugins, UIInv(u, ch, pl, ok)
      PROVE  UIInv(TakePicker(u, answer), ch, pl, ok)
  BY <1>2 DEF UI, UIInv, TakePicker, Answer, Picker, TrackedIds, PopupIds,
     ModulePopupIds, PickerIds
<1>3. QED
  BY <1>1, <1>2 DEF Keeps

LEMMA ClosePopupTaskKeeps ==
  ASSUME NEW u \in UI
  PROVE  Keeps(u, ClosePopupTask(u)) /\ ClosePopupTask(u).popup = NULL
<1>1. ClosePopupTask(u) \in UI /\ ClosePopupTask(u).popup = NULL
  BY DEF UI, ClosePopupTask
<1>2. ASSUME NEW ch \in Seq(Reqs), NEW pl \in SUBSET ModulePopup,
             NEW ok \in SUBSET Plugins, UIInv(u, ch, pl, ok)
      PROVE  UIInv(ClosePopupTask(u), ch, pl, ok)
  BY <1>2 DEF UI, UIInv, ClosePopupTask, Picker, TrackedIds, PopupIds,
     ModulePopupIds, PickerIds
<1>3. QED
  BY <1>1, <1>2 DEF Keeps

LEMMA CloseModulePopupKeeps ==
  ASSUME NEW u \in UI
  PROVE  Keeps(u, CloseModulePopup(u)) /\ CloseModulePopup(u).modulePopup = NULL
<1>1. CloseModulePopup(u) \in UI /\ CloseModulePopup(u).modulePopup = NULL
  BY DEF UI, CloseModulePopup
<1>2. ASSUME NEW ch \in Seq(Reqs), NEW pl \in SUBSET ModulePopup,
             NEW ok \in SUBSET Plugins, UIInv(u, ch, pl, ok)
      PROVE  UIInv(CloseModulePopup(u), ch, pl, ok)
  BY <1>2 DEF UI, UIInv, CloseModulePopup, Picker, TrackedIds, PopupIds,
     ModulePopupIds, PickerIds
<1>3. QED
  BY <1>1, <1>2 DEF Keeps

LEMMA KeepsTrans ==
  ASSUME NEW u, NEW v, NEW w, Keeps(u, v), Keeps(v, w)
  PROVE  Keeps(u, w)
BY DEF Keeps

LEMMA CloseAnyPopupKeeps ==
  ASSUME NEW u \in UI
  PROVE  /\ Keeps(u, CloseAnyPopup(u))
         /\ CloseAnyPopup(u).popup = NULL
         /\ CloseAnyPopup(u).modulePopup = NULL
         /\ CloseAnyPopup(u).picker = NULL
         /\ CloseAnyPopup(u).pending = u.pending
<1> DEFINE a == ClosePopupTask(u)
           b == CloseModulePopup(a)
           c == TakePicker(b, "none")
<1>1. Keeps(u, a) /\ a \in UI /\ a.popup = NULL /\ a.pending = u.pending
  BY ClosePopupTaskKeeps DEF Keeps, ClosePopupTask, UI
<1>2. Keeps(a, b) /\ b \in UI /\ b.popup = NULL /\ b.modulePopup = NULL
      /\ b.pending = u.pending
  <2>1. Keeps(a, b) /\ b \in UI /\ b.modulePopup = NULL
    BY <1>1, CloseModulePopupKeeps DEF Keeps
  <2>2. b.popup = a.popup /\ b.pending = a.pending
    BY <1>1 DEF CloseModulePopup, UI
  <2>3. QED
    BY <2>1, <2>2, <1>1
<1>3. Keeps(b, c) /\ c.picker = NULL
  BY <1>2, TakePickerKeeps
<1>4. c.popup = b.popup /\ c.modulePopup = b.modulePopup /\ c.pending = b.pending
  BY <1>2 DEF TakePicker, Answer, UI
<1>5. Keeps(u, c)
  BY <1>1, <1>2, <1>3, KeepsTrans
<1>6. QED
  BY <1>2, <1>3, <1>4, <1>5 DEF CloseAnyPopup

(* The new picker takes the head of the queue; the pick it shows leaves the  *)
(* queue in the same step.                                                   *)
LEMMA OpenNextPickerKeeps ==
  ASSUME NEW u \in UI, NEW id \in Ids
  PROVE  Keeps(u, OpenNextPicker(u, id))
<1>1. CASE ~ (u.picker = NULL /\ u.pending # <<>>)
  BY <1>1 DEF OpenNextPicker, Keeps
<1>2. CASE u.picker = NULL /\ u.pending # <<>>
  <2> DEFINE c == CloseAnyPopup(u)
             p == [id |-> id, req |-> Head(u.pending)]
             v == OpenNextPicker(u, id)
  <2>1. /\ c \in UI /\ Keeps(u, c) /\ c.pending = u.pending
        /\ c.popup = NULL /\ c.modulePopup = NULL /\ c.picker = NULL
    BY CloseAnyPopupKeeps DEF Keeps
  <2>2. u.pending \in Seq(Reqs) /\ Head(u.pending) \in Reqs
        /\ Tail(u.pending) \in Seq(Reqs)
    BY <1>2 DEF UI
  <2>3. v = [c EXCEPT !.picker = p, !.pending = Tail(u.pending),
                      !.surfaces = @ \cup {id}]
    BY <1>2 DEF OpenNextPicker
  <2>4. p \in Picker /\ p # NULL /\ p.id = id /\ p.req = Head(u.pending)
    BY <2>2, PopupsAssumption DEF Picker
  <2> HIDE DEF c, p, v
  <2>5. /\ v.popup = NULL /\ v.modulePopup = NULL /\ v.picker = p
        /\ v.pending = Tail(u.pending) /\ v.surfaces = c.surfaces \cup {id}
        /\ v.reply = c.reply /\ v \in UI
    <3> DEFINE t == Tail(u.pending)
    <3>1. t \in Seq(Reqs)
      BY <2>2
    <3>2. v = [c EXCEPT !.picker = p, !.pending = t, !.surfaces = @ \cup {id}]
      BY <2>3
    <3> HIDE DEF t
    <3>3. /\ v.popup = NULL /\ v.modulePopup = NULL /\ v.picker = p
          /\ v.pending = t /\ v.surfaces = c.surfaces \cup {id}
          /\ v.reply = c.reply /\ v \in UI
      BY <2>1, <3>1, <3>2, <2>4 DEF UI
    <3>4. QED
      BY <3>3 DEF t
  <2>6. ASSUME NEW ch \in Seq(Reqs), NEW pl \in SUBSET ModulePopup,
               NEW ok \in SUBSET Plugins, UIInv(u, ch, pl, ok)
        PROVE  UIInv(v, ch, pl, ok)
    <3>1. UIInv(c, ch, pl, ok)
      BY <2>1, <2>6 DEF Keeps
    <3>2. c.surfaces = {}
      BY <3>1, <2>1 DEF UIInv, TrackedIds, PopupIds, ModulePopupIds, PickerIds
    <3>3. TrackedIds(v) = {id} /\ PopupIds(v) = {} /\ PickerIds(v) = {id}
      BY <2>4, <2>5 DEF TrackedIds, PopupIds, ModulePopupIds, PickerIds
    <3>4. ASSUME NEW r \in Reqs, v.reply[r] = "waiting"
          PROVE  InSeq(r, ch) \/ InSeq(r, v.pending) \/ (v.picker # NULL /\ v.picker.req = r)
      <4>1. InSeq(r, ch) \/ InSeq(r, c.pending)
        BY <3>1, <3>4, <2>5, <2>1 DEF UIInv
      <4>2. InSeq(r, c.pending) => r = Head(u.pending) \/ InSeq(r, Tail(u.pending))
        BY <2>1, <2>2, <1>2, InSeqTail
      <4>3. QED
        BY <4>1, <4>2, <2>4, <2>5
    <3>5. QED
      BY <3>2, <3>3, <3>4, <2>5 DEF UIInv
  <2>7. QED
    BY <2>5, <2>6 DEF Keeps, v
<1>3. QED
  BY <1>1, <1>2

LEMMA PickerResolveKeeps ==
  ASSUME NEW u \in UI, NEW answer \in {"chosen", "none"}, NEW id \in Ids
  PROVE  Keeps(u, PickerResolve(u, answer, id))
<1> DEFINE t == TakePicker(u, answer)
<1>1. Keeps(u, t) /\ t \in UI
  BY TakePickerKeeps DEF Keeps
<1>2. Keeps(t, OpenNextPicker(t, id))
  BY <1>1, OpenNextPickerKeeps
<1>3. Keeps(u, OpenNextPicker(t, id))
  BY <1>1, <1>2, KeepsTrans
<1>4. Keeps(u, u)
  BY DEF Keeps
<1>5. QED
  BY <1>3, <1>4 DEF PickerResolve

LEMMA CloseModulePopupOfKeeps ==
  ASSUME NEW u \in UI, NEW i
  PROVE  /\ Keeps(u, CloseModulePopupOf(u, i))
         /\ ~ OwnsModulePopup(CloseModulePopupOf(u, i), i)
BY CloseModulePopupKeeps DEF CloseModulePopupOf, OwnsModulePopup, Keeps

LEMMA AbortKeeps ==
  ASSUME NEW u \in UI, NEW gone
  PROVE  Keeps(u, Abort(u, gone))
<1>1. Abort(u, gone) \in UI
  BY DEF UI, Abort, ReplyStates
<1>2. ASSUME NEW ch \in Seq(Reqs), NEW pl \in SUBSET ModulePopup,
             NEW ok \in SUBSET Plugins, UIInv(u, ch, pl, ok)
      PROVE  UIInv(Abort(u, gone), ch, pl, ok)
  BY <1>2 DEF UI, UIInv, Abort, TrackedIds, PopupIds, ModulePopupIds, PickerIds
<1>3. QED
  BY <1>1, <1>2 DEF Keeps

(* After CloseOrphans the module popup's owner is among the kept modules. *)
LEMMA CloseOrphansKeeps ==
  ASSUME NEW u \in UI, NEW kept \in SUBSET Plugins, NEW id \in Ids,
         NEW ch \in Seq(Reqs), NEW pl \in SUBSET ModulePopup,
         NEW ok \in SUBSET Plugins, UIInv(u, ch, pl, ok)
  PROVE  /\ CloseOrphans(u, kept, id) \in UI
         /\ UIInv(CloseOrphans(u, kept, id), ch, pl, ok \cap kept)
<1> DEFINE a == IF u.modulePopup # NULL /\ u.modulePopup.instance \notin kept
                  THEN CloseModulePopup(u) ELSE u
           t == TakePicker(a, "none")
<1>1. a \in UI /\ UIInv(a, ch, pl, ok)
  BY CloseModulePopupKeeps DEF Keeps
<1>2. a.modulePopup # NULL => a.modulePopup.instance \in kept
  BY CloseModulePopupKeeps
<1> HIDE DEF a
<1>3. UIInv(a, ch, pl, ok \cap kept)
  BY <1>1, <1>2 DEF UIInv
<1>4. t \in UI /\ UIInv(t, ch, pl, ok \cap kept)
  BY <1>1, <1>3, TakePickerKeeps DEF Keeps
<1> HIDE DEF t
<1>5. /\ OpenNextPicker(t, id) \in UI
      /\ UIInv(OpenNextPicker(t, id), ch, pl, ok \cap kept)
  BY <1>4, OpenNextPickerKeeps DEF Keeps
<1>6. CloseOrphans(u, kept, id) \in {a, OpenNextPicker(t, id)}
  BY DEF CloseOrphans, a, t
<1>7. QED
  BY <1>1, <1>3, <1>5, <1>6

-----------------------------------------------------------------------------
(* The steps *)

LEMMA PopupInit == Init => PopupInv
<1> SUFFICES ASSUME Init PROVE PopupInv
  OBVIOUS
<1>1. TypeOK
  BY PopupsAssumption DEF Init, TypeOK, UI, ReplyStates
<1>2. UIInv(ui, chan, places, placed \ disabled)
  BY DEF Init, UIInv, TrackedIds, PopupIds, ModulePopupIds, PickerIds
<1>3. QED
  BY <1>1, <1>2 DEF PopupInv

(* A handler that changes ui through helpers only, and the channel of         *)
(* PickReady, keeps the invariant.                                            *)
LEMMA HandlerStep ==
  ASSUME PopupInv, Keeps(ui, ui'), pokes' \in 0 .. PokeCap,
         UNCHANGED <<chan, places, placed>>,
         disabled' = disabled
  PROVE  PopupInv'
<1>1. TypeOK'
  BY DEF PopupInv, TypeOK, Keeps
<1>2. UIInv(ui, chan, places, placed \ disabled)'
  BY DEF PopupInv, TypeOK, Keeps
<1>3. QED
  BY <1>1, <1>2 DEF PopupInv

LEMMA GuestPickStep ==
  ASSUME PopupInv, NEW r \in Reqs, GuestPick(r)
  PROVE  PopupInv'
<1>1. TypeOK'
  <2>1. chan' \in Seq(Reqs)
    BY DEF PopupInv, TypeOK, GuestPick
  <2>2. ui' \in UI
    BY DEF PopupInv, TypeOK, GuestPick, UI, ReplyStates
  <2>3. QED
    BY <2>1, <2>2 DEF PopupInv, TypeOK, GuestPick
<1>2. /\ ui' = [ui EXCEPT !.reply[r] = "waiting"]
      /\ chan \in Seq(Reqs) /\ chan' = Append(chan, r)
      /\ places' = places /\ placed' = placed /\ disabled' = disabled
      /\ ui \in UI
  BY DEF PopupInv, TypeOK, GuestPick
<1>3. \A q \in Reqs : InSeq(q, chan) => InSeq(q, chan')
  BY <1>2, InSeqAppend
<1>4. InSeq(r, chan')
  BY <1>2, InSeqAppend
<1>5. /\ ui'.popup = ui.popup /\ ui'.modulePopup = ui.modulePopup
      /\ ui'.picker = ui.picker /\ ui'.pending = ui.pending
      /\ ui'.surfaces = ui.surfaces
      /\ \A q \in Reqs : q # r => ui'.reply[q] = ui.reply[q]
  BY <1>2 DEF UI
<1>6. UIInv(ui, chan, places, placed \ disabled)'
  BY <1>2, <1>3, <1>4, <1>5 DEF PopupInv, UIInv, TrackedIds, PopupIds,
     ModulePopupIds, PickerIds
<1>7. QED
  BY <1>1, <1>6 DEF PopupInv

LEMMA PickStreamStep ==
  ASSUME PopupInv, PickStream
  PROVE  PopupInv'
<1>1. /\ chan \in Seq(Reqs) /\ chan # <<>> /\ Head(chan) \in Reqs
      /\ chan' = Tail(chan) /\ Tail(chan) \in Seq(Reqs)
      /\ ui \in UI /\ ui.pending \in Seq(Reqs)
  BY DEF PopupInv, TypeOK, PickStream, UI
<1> DEFINE h == Head(chan)
           n == Append(ui.pending, h)
<1>2. n \in Seq(Reqs)
  BY <1>1
<1>3. ui' = [ui EXCEPT !.pending = n]
  BY DEF PickStream
<1> HIDE DEF n
<1>4. /\ ui'.popup = ui.popup /\ ui'.modulePopup = ui.modulePopup
      /\ ui'.picker = ui.picker /\ ui'.pending = n
      /\ ui'.surfaces = ui.surfaces /\ ui'.reply = ui.reply /\ ui' \in UI
  BY <1>1, <1>2, <1>3 DEF UI
<1>5. TypeOK'
  BY <1>1, <1>4, PopupsAssumption DEF PopupInv, TypeOK, PickStream
<1>6. \A q \in Reqs : InSeq(q, chan) => q = h \/ InSeq(q, chan')
  BY <1>1, InSeqTail
<1>7. InSeq(h, n) /\ \A q \in Reqs : InSeq(q, ui.pending) => InSeq(q, n)
  BY <1>1, InSeqAppend DEF n
<1>8. UIInv(ui, chan, places, placed \ disabled)'
  <2>1. places' = places /\ placed' = placed /\ disabled' = disabled
    BY DEF PickStream
  <2>2. \A q \in Reqs : ui.reply[q] = "waiting" =>
          \/ InSeq(q, chan')
          \/ InSeq(q, n)
          \/ ui.picker # NULL /\ ui.picker.req = q
    BY <1>6, <1>7 DEF PopupInv, UIInv
  <2> HIDE DEF h
  <2>3. QED
    BY <1>4, <2>1, <2>2 DEF PopupInv, UIInv, TrackedIds, PopupIds,
       ModulePopupIds, PickerIds
<1>9. QED
  BY <1>5, <1>8 DEF PopupInv

LEMMA UserStep ==
  ASSUME PopupInv
  PROVE  /\ PickReady => PopupInv'
         /\ \A answer \in {"chosen", "none"} : PickerAnswer(answer) => PopupInv'
         /\ DismissPopups => PopupInv'
         /\ BarClosed => PopupInv'
         /\ \A i \in Plugins : HostClosePopup(i) => PopupInv'
         /\ \A i \in Plugins : ToggleDock(i) => PopupInv'
<1> USE DEF Fresh
<1>1. ui \in UI /\ pokes \in 0 .. PokeCap
  BY DEF PopupInv, TypeOK
<1>2. ASSUME PickReady PROVE PopupInv'
  <2>1. Keeps(ui, ui')
    BY <1>1, <1>2, OpenNextPickerKeeps DEF PickReady
  <2>2. pokes' \in 0 .. PokeCap
    BY <1>1, <1>2, PopupsAssumption DEF PickReady
  <2>3. QED
    BY <1>2, <2>1, <2>2, HandlerStep DEF PickReady
<1>3. ASSUME NEW answer \in {"chosen", "none"}, PickerAnswer(answer) PROVE PopupInv'
  <2>1. Keeps(ui, ui')
    BY <1>1, <1>3, PickerResolveKeeps DEF PickerAnswer
  <2>2. QED
    BY <1>1, <1>3, <2>1, HandlerStep DEF PickerAnswer
<1>4. Keeps(ui, CloseAnyPopup(ui)) /\ CloseAnyPopup(ui) \in UI
  BY <1>1, CloseAnyPopupKeeps DEF Keeps
<1>5. ASSUME DismissPopups PROVE PopupInv'
  <2>1. Keeps(ui, ui')
    BY <1>4, <1>5, OpenNextPickerKeeps, KeepsTrans DEF DismissPopups
  <2>2. QED
    BY <1>1, <1>5, <2>1, HandlerStep DEF DismissPopups
<1>6. BarClosed => PopupInv'
  BY <1>1, <1>4, HandlerStep DEF BarClosed
<1>7. ASSUME NEW i \in Plugins, HostClosePopup(i) PROVE PopupInv'
  BY <1>1, <1>7, CloseModulePopupOfKeeps, HandlerStep DEF HostClosePopup
<1>8. ASSUME NEW i \in Plugins, ToggleDock(i) PROVE PopupInv'
  BY <1>1, <1>4, <1>8, HandlerStep DEF ToggleDock
<1>9. QED
  BY <1>2, <1>3, <1>5, <1>6, <1>7, <1>8

LEMMA OpenPopupStep ==
  ASSUME PopupInv, OpenPopup
  PROVE  PopupInv'
<1> DEFINE u == CloseModulePopup(ui)
<1>1. ui \in UI /\ pokes \in 0 .. PokeCap
  BY DEF PopupInv, TypeOK
<1>2. Keeps(ui, u) /\ u \in UI /\ u.modulePopup = NULL /\ u.popup = ui.popup
  BY <1>1, CloseModulePopupKeeps DEF Keeps, CloseModulePopup, UI
<1>3. UNCHANGED <<chan, places, placed, disabled>> /\ pokes' = pokes
  BY DEF OpenPopup
<1>4. CASE ui.popup # NULL
  <2>1. ui' = ClosePopupTask(u)
    BY <1>4 DEF OpenPopup
  <2>2. Keeps(ui, ui')
    BY <1>2, <2>1, ClosePopupTaskKeeps, KeepsTrans
  <2>3. QED
    BY <1>1, <1>3, <2>2, HandlerStep
<1>5. CASE ui.popup = NULL
  <2>1. PICK id \in Fresh : ui' = [u EXCEPT !.popup = id, !.surfaces = @ \cup {id}]
    BY <1>5 DEF OpenPopup
  <2>2. id \in Ids /\ id \notin TrackedIds(ui) /\ id # NULL
    BY <2>1, PopupsAssumption DEF Fresh
  <2>3. id \notin PickerIds(u)
    BY <1>1, <2>2 DEF TrackedIds, PickerIds, CloseModulePopup, UI
  <2> HIDE DEF u
  <2>4. /\ ui'.popup = id /\ ui'.modulePopup = u.modulePopup
        /\ ui'.picker = u.picker /\ ui'.pending = u.pending
        /\ ui'.surfaces = u.surfaces \cup {id} /\ ui'.reply = u.reply /\ ui' \in UI
    BY <1>2, <2>1, <2>2 DEF UI
  <2>5. UIInv(u, chan, places, placed \ disabled)
    BY <1>2 DEF PopupInv, Keeps, TypeOK
  <2>6. UIInv(ui, chan, places, placed \ disabled)'
    BY <1>2, <1>3, <1>5, <2>2, <2>3, <2>4, <2>5 DEF UIInv, TrackedIds, PopupIds,
       ModulePopupIds, PickerIds
  <2>7. QED
    BY <1>3, <2>4, <2>6 DEF PopupInv, TypeOK
<1>6. QED
  BY <1>4, <1>5

LEMMA HostOpenPopupStep ==
  ASSUME PopupInv, NEW i \in Plugins, HostOpenPopup(i)
  PROVE  PopupInv'
<1>1. ui \in UI /\ pokes \in 0 .. PokeCap /\ places \in SUBSET ModulePopup
  BY DEF PopupInv, TypeOK
<1>2. i \in placed \ disabled /\ UNCHANGED <<chan, placed, disabled>> /\ pokes' = pokes
  BY DEF HostOpenPopup, Enabled
<1>3. CASE OwnsModulePopup(ui, i)
  <2>1. ui' = CloseModulePopup(ui) /\ places' = places
    BY <1>3 DEF HostOpenPopup
  <2>2. QED
    BY <1>1, <1>2, <2>1, CloseModulePopupKeeps, HandlerStep
<1>4. CASE ~ OwnsModulePopup(ui, i)
  <2> DEFINE c == CloseAnyPopup(ui)
  <2>1. PICK id \in Fresh :
          /\ ui' = [c EXCEPT !.modulePopup = [id |-> id, instance |-> i]]
          /\ places' = places \cup {[id |-> id, instance |-> i]}
    BY <1>4 DEF HostOpenPopup
  <2> DEFINE m == [id |-> id, instance |-> i]
  <2>2. m \in ModulePopup /\ m # NULL /\ m.id = id /\ m.instance = i
    BY PopupsAssumption DEF ModulePopup, Fresh
  <2>3. /\ c \in UI /\ UIInv(c, chan, places, placed \ disabled)
        /\ c.popup = NULL /\ c.modulePopup = NULL /\ c.picker = NULL
    BY <1>1, CloseAnyPopupKeeps DEF Keeps, PopupInv, TypeOK
  <2>4. ui' = [c EXCEPT !.modulePopup = m] /\ places' = places \cup {m}
    BY <2>1
  <2> HIDE DEF c, m
  <2>5. /\ ui'.popup = NULL /\ ui'.modulePopup = m /\ ui'.picker = NULL
        /\ ui'.pending = c.pending /\ ui'.surfaces = c.surfaces
        /\ ui'.reply = c.reply /\ ui' \in UI
    BY <2>2, <2>3, <2>4 DEF UI
  <2>6. TypeOK'
    BY <1>1, <1>2, <2>2, <2>4, <2>5 DEF PopupInv, TypeOK
  <2>7. UIInv(ui, chan, places, placed \ disabled)'
    BY <1>2, <2>2, <2>3, <2>4, <2>5 DEF UIInv, TrackedIds, PopupIds,
       ModulePopupIds, PickerIds
  <2>8. QED
    BY <2>6, <2>7 DEF PopupInv
<1>5. QED
  BY <1>3, <1>4

LEMMA ModulePanicStep ==
  ASSUME PopupInv, NEW i \in Plugins, ModulePanic(i)
  PROVE  PopupInv'
<1> DEFINE v == CloseModulePopupOf(ui, i)
<1>1. /\ v \in UI /\ UIInv(v, chan, places, placed \ disabled)
      /\ ~ OwnsModulePopup(v, i)
  BY CloseModulePopupOfKeeps DEF PopupInv, TypeOK, Keeps
<1>2. /\ ui' = v /\ UNCHANGED <<chan, pokes, places, placed>>
      /\ disabled' = disabled \cup {i}
  BY DEF ModulePanic
<1> HIDE DEF v
<1>3. UIInv(v, chan, places, placed \ (disabled \cup {i}))
  BY <1>1 DEF UIInv, OwnsModulePopup
<1>4. QED
  BY <1>1, <1>2, <1>3 DEF PopupInv, TypeOK

LEMMA PlaceModulePopupStep ==
  ASSUME PopupInv, NEW m \in places, PlaceModulePopup(m)
  PROVE  PopupInv'
<1>1. m \in ModulePopup /\ m.id \in Ids /\ m # NULL /\ ui \in UI
  BY PopupsAssumption DEF PopupInv, TypeOK, ModulePopup
<1>2. UNCHANGED <<chan, pokes, placed, disabled>> /\ places' = places \ {m}
  BY DEF PlaceModulePopup
<1>3. CASE ui.modulePopup = m
  <2>1. ui' = [ui EXCEPT !.surfaces = @ \cup {m.id}]
    BY <1>3 DEF PlaceModulePopup
  <2>2. /\ ui'.popup = ui.popup /\ ui'.modulePopup = m /\ ui'.picker = ui.picker
        /\ ui'.pending = ui.pending /\ ui'.surfaces = ui.surfaces \cup {m.id}
        /\ ui'.reply = ui.reply /\ ui' \in UI
    BY <1>1, <1>3, <2>1 DEF UI
  <2>3. UIInv(ui, chan, places, placed \ disabled)'
    BY <1>1, <1>2, <1>3, <2>2 DEF PopupInv, UIInv, TrackedIds, PopupIds,
       ModulePopupIds, PickerIds
  <2>4. QED
    BY <1>2, <2>2, <2>3 DEF PopupInv, TypeOK
<1>4. CASE ui.modulePopup # m
  <2>1. ui' = ui
    BY <1>4 DEF PlaceModulePopup
  <2>2. UIInv(ui, chan, places, placed \ disabled)'
    BY <1>2, <1>4, <2>1 DEF PopupInv, UIInv
  <2>3. QED
    BY <1>2, <2>1, <2>2 DEF PopupInv, TypeOK
<1>5. QED
  BY <1>3, <1>4

(* The surface the compositor took down is unmapped, and the one field that   *)
(* may refer to it is cleared, so every other field still has its surface.    *)
LEMMA WindowClosedStep ==
  ASSUME PopupInv, NEW w \in Ids, WindowClosed(w)
  PROVE  PopupInv'
<1> DEFINE u1 == [ui EXCEPT !.surfaces = @ \ {w}]
           u2 == IF u1.popup = w THEN [u1 EXCEPT !.popup = NULL] ELSE u1
           u3 == IF w \in ModulePopupIds(u2) THEN [u2 EXCEPT !.modulePopup = NULL] ELSE u2
           t == TakePicker(u3, "none")
<1>1. ui \in UI /\ pokes \in 0 .. PokeCap /\ w # NULL
  BY PopupsAssumption DEF PopupInv, TypeOK
<1>2. /\ u3 \in UI
      /\ u3.picker = ui.picker /\ u3.pending = ui.pending /\ u3.reply = ui.reply
      /\ u3.surfaces = ui.surfaces \ {w}
      /\ u3.popup = IF ui.popup = w THEN NULL ELSE ui.popup
      /\ u3.modulePopup =
           IF w \in ModulePopupIds(ui) THEN NULL ELSE ui.modulePopup
  BY <1>1 DEF UI, ModulePopupIds
<1>3. /\ w \in ui.surfaces
      /\ UNCHANGED <<chan, pokes, places, placed, disabled>>
  BY DEF WindowClosed
<1>4. \/ w \notin PickerIds(u3) /\ ui' = u3
      \/ w \in PickerIds(u3) /\ \E id \in Fresh : ui' = OpenNextPicker(t, id)
  BY DEF WindowClosed
<1> HIDE DEF u3
<1>5. CASE w \notin PickerIds(u3)
  <2>1. UIInv(u3, chan, places, placed \ disabled)
    BY <1>1, <1>2, <1>5 DEF PopupInv, UIInv, TrackedIds, PopupIds,
       ModulePopupIds, PickerIds
  <2>2. QED
    BY <1>2, <1>3, <1>4, <1>5, <2>1 DEF PopupInv, TypeOK
<1>6. CASE w \in PickerIds(u3)
  <2>1. t \in UI
    BY <1>2, TakePickerKeeps DEF Keeps
  <2>2. /\ t.picker = NULL /\ t.pending = ui.pending
        /\ t.surfaces = ui.surfaces \ {w}
        /\ t.popup = ui.popup /\ t.modulePopup = ui.modulePopup
        /\ \A r \in Reqs : t.reply[r] = "waiting" =>
             ui.reply[r] = "waiting" /\ ui.picker.req # r
    <3>1. ui.picker # NULL /\ w = ui.picker.id
      BY <1>2, <1>6 DEF PickerIds
    <3>2. ui.modulePopup = NULL /\ ui.popup # w
      BY <1>1, <3>1 DEF PopupInv, UIInv
    <3>3. u3.popup = ui.popup /\ u3.modulePopup = ui.modulePopup
      BY <1>2, <3>2
    <3>4. QED
      BY <1>1, <1>2, <3>1, <3>3 DEF TakePicker, Answer, UI, Picker, PickerIds
  <2>3. UIInv(t, chan, places, placed \ disabled)
    BY <1>2, <1>6, <2>2 DEF PopupInv, UIInv, TrackedIds, PopupIds,
       ModulePopupIds, PickerIds
  <2>4. PICK id \in Ids : ui' = OpenNextPicker(t, id)
    BY <1>4, <1>6 DEF Fresh
  <2> HIDE DEF t
  <2>5. ui' \in UI /\ UIInv(ui', chan, places, placed \ disabled)
    BY <2>1, <2>3, <2>4, OpenNextPickerKeeps DEF Keeps, PopupInv, TypeOK
  <2>6. QED
    BY <1>3, <2>5 DEF PopupInv, TypeOK
<1>7. QED
  BY <1>5, <1>6

LEMMA ApplyConfigStep ==
  ASSUME PopupInv, NEW want \in SUBSET Plugins,
         NEW rebuilt \in SUBSET (want \cap placed),
         NEW select \in BOOLEAN, NEW closedAny \in BOOLEAN,
         ApplyConfig(want, rebuilt, select, closedAny)
  PROVE  PopupInv'
<1> DEFINE ok == placed \ disabled
           u1 == IF select THEN ClosePopupTask(ui) ELSE ui
           u2 == Abort(u1, rebuilt \cup (placed \ want))
<1>1. /\ placed' = want /\ disabled' = (disabled \cap want) \ rebuilt
      /\ UNCHANGED <<chan, pokes, places>>
  BY DEF ApplyConfig
<1>2. PICK id \in Fresh :
        ui' = IF closedAny THEN CloseAnyPopup(CloseOrphans(u2, want, id))
                           ELSE CloseOrphans(u2, want, id)
  BY DEF ApplyConfig
<1> DEFINE u3 == CloseOrphans(u2, want, id)
<1>3. id \in Ids /\ ui \in UI /\ chan \in Seq(Reqs) /\ places \in SUBSET ModulePopup
      /\ ok \in SUBSET Plugins /\ UIInv(ui, chan, places, ok)
  BY DEF Fresh, PopupInv, TypeOK
<1> HIDE DEF ok
<1>4. u1 \in UI /\ UIInv(u1, chan, places, ok)
  BY <1>3, ClosePopupTaskKeeps DEF Keeps
<1> HIDE DEF u1
<1>5. u2 \in UI /\ UIInv(u2, chan, places, ok)
  BY <1>3, <1>4, AbortKeeps DEF Keeps
<1> HIDE DEF u2
<1>6. u3 \in UI /\ UIInv(u3, chan, places, ok \cap want)
  BY <1>3, <1>5, CloseOrphansKeeps
<1> HIDE DEF u3
<1>7. ui' \in UI /\ UIInv(ui', chan, places, ok \cap want)
  <2>1. ui' \in {u3, CloseAnyPopup(u3)}
    BY <1>2 DEF u3
  <2>2. ok \cap want \in SUBSET Plugins
    BY <1>3
  <2>3. QED
    BY <1>3, <1>6, <2>1, <2>2, CloseAnyPopupKeeps DEF Keeps
<1>8. ok \cap want \subseteq (placed \ disabled)'
  BY <1>1 DEF ok
<1>9. UIInv(ui', chan', places', (placed \ disabled)')
  BY <1>1, <1>7, <1>8 DEF UIInv
<1>10. QED
  BY <1>1, <1>7, <1>9 DEF PopupInv, TypeOK

-----------------------------------------------------------------------------

(* PopupInv is inductive. *)
LEMMA PopupNext == PopupInv /\ [Next]_vars => PopupInv'
<1> SUFFICES ASSUME PopupInv, [Next]_vars PROVE PopupInv'
  OBVIOUS
<1>1. CASE UNCHANGED vars
  BY <1>1 DEF PopupInv, TypeOK, vars
<1>2. ASSUME NEW i \in Plugins,
             HostOpenPopup(i) \/ HostClosePopup(i) \/ ToggleDock(i) \/ ModulePanic(i)
      PROVE  PopupInv'
  BY <1>2, HostOpenPopupStep, UserStep, ModulePanicStep
<1>3. ASSUME NEW m \in places, PlaceModulePopup(m) PROVE PopupInv'
  BY <1>3, PlaceModulePopupStep
<1>4. ASSUME NEW w \in Ids, WindowClosed(w) PROVE PopupInv'
  BY <1>4, WindowClosedStep
<1>5. ASSUME NEW want \in SUBSET Plugins, NEW rebuilt \in SUBSET (want \cap placed),
             NEW select \in BOOLEAN, NEW closedAny \in BOOLEAN,
             ApplyConfig(want, rebuilt, select, closedAny)
      PROVE  PopupInv'
  BY <1>5, ApplyConfigStep
<1>6. ASSUME NEW r \in Reqs, GuestPick(r) PROVE PopupInv'
  BY <1>6, GuestPickStep
<1>7. QED
  BY <1>1, <1>2, <1>3, <1>4, <1>5, <1>6, PickStreamStep, UserStep, OpenPopupStep
     DEF Next

LEMMA PopupSafe == Spec => []PopupInv
<1>1. QED
  BY PopupInit, PopupNext, PTL DEF Spec

(* The popup fields, the queue and the replies keep their types. *)
THEOREM PopupsTyping == Spec => []TypeOK
<1>1. PopupInv => TypeOK
  BY DEF PopupInv
<1>2. QED
  BY <1>1, PopupSafe, PTL

(* Every popup surface has its field and every field its surface. *)
THEOREM PopupsSurfaces == Spec => []SurfacesAgree
<1>1. PopupInv => NoGhostSurface
  BY DEF PopupInv, UIInv, NoGhostSurface
<1>2. PopupInv => NoDeadPopup
  BY DEF PopupInv, UIInv, NoDeadPopup
<1>3. PopupInv => SurfacesAgree
  BY <1>1, <1>2 DEF SurfacesAgree
<1>4. QED
  BY <1>3, PopupSafe, PTL

(* A module popup is open alone, and its owner works. *)
THEOREM PopupsModulePopup == Spec => []ModulePopupSound
<1>1. ASSUME PopupInv, ui.modulePopup # NULL
      PROVE  ui.popup = NULL /\ ui.picker = NULL
  BY <1>1 DEF PopupInv, UIInv
<1>2. ASSUME PopupInv, ui.modulePopup # NULL
      PROVE  Enabled(ui.modulePopup.instance)
  <2>1. ui.modulePopup.instance \in placed \ disabled
    BY <1>2 DEF PopupInv, UIInv
  <2>2. QED
    BY <2>1 DEF Enabled
<1>3. PopupInv => ModulePopupSound
  BY <1>1, <1>2 DEF ModulePopupSound
<1>4. QED
  BY <1>3, PopupSafe, PTL

(* The request of a parked fiber is in the channel, in the queue or shown. *)
THEOREM PopupsPickNotLost == Spec => []PickNotLost
<1>1. PopupInv => PickNotLost
  BY DEF PopupInv, UIInv, PickNotLost
<1>2. QED
  BY <1>1, PopupSafe, PTL
=============================================================================
