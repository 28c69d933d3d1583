------------------------------- MODULE Reactor -------------------------------
(***************************************************************************)
(* One WASM plugin between the GUI thread and its drive task               *)
(* (crates/ezbar-wasm/src/lib.rs, RFC 0009, 0011 and 0018).                *)
(*                                                                         *)
(* The GUI forwards pointer events over a bounded channel with try_send    *)
(* and keeps a scroll that finds it full.  The drive task waits for input, *)
(* a feed sample or its timer, in that order, coalesces scrolls, calls the *)
(* guest under a wall-clock limit that a parked pick suspends, and folds   *)
(* the guest's set-timeout into its cadence.                               *)
(*                                                                         *)
(* A scroll's delta is the set of wheel events it sums, a tap is any other *)
(* pointer event, and time passes in units of the feeds' BASE.             *)
(***************************************************************************)
EXTENDS Naturals, Sequences, FiniteSets

CONSTANTS
  Areas,       \* ids of the plugin's mouse-areas
  Cap,         \* capacity of the input channel (32 in the code)
  MaxEvents,   \* bound: pointer events the user makes
  Poll,        \* the heartbeat
  Delays,      \* delays the guest asks set-timeout for
  Wall,        \* the wall-clock limit of a guest call
  MaxPicks,    \* bound: picks of one step
  NONE

ASSUME ReactorAssumption ==
  /\ Cap \in Nat \ {0}
  /\ MaxEvents \in Nat
  /\ Poll \in Nat \ {0}
  /\ Delays \subseteq Nat \ {0}
  /\ Wall \in Nat \ {0}
  /\ MaxPicks \in Nat
  /\ NONE \notin [kind : {"scroll", "tap"}, area : Areas, of : SUBSET (1 .. MaxEvents)]

VARIABLES
  made,        \* history: the pointer events the user made
  pending,     \* WasmModule.pending_scroll
  sending,     \* the tap the GUI is about to send
  chan,        \* the input channel
  carry,       \* the tap that ended a run of scrolls
  phase,       \* where the drive task is
  event,       \* the event it handles
  got,         \* history: the pointer events the guest was given
  timer,       \* the wake cadence
  left,        \* time until the timer fires
  fold,        \* the set-timeout request folded last
  feed,        \* the feed channel holds a sample
  subscribed,  \* the guest has a feed
  due,         \* the sampler has a sample since time last passed
  wall,        \* time since the wall-clock limit was last started
  ran,         \* history: time the guest ran in this call, parks left out
  picks,       \* picks made in this step
  parked,      \* in_blocking_service
  ended        \* history: why the drive task ended

ui    == <<made, pending, sending>>
clock == <<timer, left, fold>>
feeds == <<feed, subscribed, due>>
call  == <<wall, ran, picks, parked>>
reactorVars  == <<ui, chan, carry, phase, event, got, clock, feeds, call, ended>>

Message == [kind : {"scroll", "tap"}, area : Areas, of : SUBSET (1 .. MaxEvents)]
TimerEvent == [kind |-> "timer", of |-> {}]
FeedEvent == [kind |-> "feed", of |-> {}]
(* A step calls update, and when that says dirty also view and popup. *)
Calls == {"update", "view", "popup"}

Event == Message \cup {TimerEvent, FeedEvent}
Longest == CHOOSE d \in Delays \cup {Poll} : \A e \in Delays \cup {Poll} : e <= d

ReactorTypeOK ==
  /\ made \in Seq([kind : {"scroll", "tap"}, area : Areas]) /\ Len(made) <= MaxEvents
  /\ pending \in Message \cup {NONE} /\ (pending # NONE => pending.kind = "scroll")
  /\ sending \in Message \cup {NONE}
  /\ chan \in Seq(Message) /\ Len(chan) <= Cap
  /\ carry \in Message \cup {NONE} /\ (carry # NONE => carry.kind = "tap")
  /\ phase \in {"load", "select", "coalesce", "gate", "off"} \cup Calls
  /\ event \in Event \cup {NONE}
  /\ got \subseteq 1 .. Len(made)
  /\ timer \in {"heartbeat", "at", "idle"} /\ left \in 0 .. Longest
  /\ fold \in {"none", "after", "cancel"}
  /\ feed \in BOOLEAN /\ subscribed \in BOOLEAN /\ due \in BOOLEAN
  /\ wall \in 0 .. Wall /\ ran \in 0 .. Wall /\ picks \in 0 .. MaxPicks
  /\ parked \in BOOLEAN
  /\ ended \in {"no", "trap", "wall", "dropped"}

ReactorInit ==
  /\ made = <<>> /\ pending = NONE /\ sending = NONE /\ chan = <<>> /\ carry = NONE
  /\ phase = "load" /\ event = NONE /\ got = {}
  /\ timer = "heartbeat" /\ left = Poll /\ fold = "none"
  /\ feed = FALSE /\ subscribed = FALSE /\ due = FALSE
  /\ wall = 0 /\ ran = 0 /\ picks = 0 /\ parked = FALSE
  /\ ended = "no"

-----------------------------------------------------------------------------
(* The GUI: WasmModule::update *)

Scroll(a, ns) == [kind |-> "scroll", area |-> a, of |-> ns]
Tap(a, n) == [kind |-> "tap", area |-> a, of |-> {n}]

(* try_send leaves a full or closed channel as it is.                       *)
Accepts(c) == phase # "off" /\ Len(c) < Cap
TrySend(c, m) == IF Accepts(c) THEN Append(c, m) ELSE c

Made(k, a) ==
  /\ Len(made) < MaxEvents
  /\ sending = NONE /\ ended # "dropped"
  /\ made' = Append(made, [kind |-> k, area |-> a])

(* A scroll takes what is pending with it, and both stay if the channel is  *)
(* full.  Faulty variant: only the new scroll is kept.                      *)
UserScrolls_Forgets(a) ==
  LET merged == Scroll(a, {Len(made) + 1})
  IN  /\ Made("scroll", a)
      /\ chan' = TrySend(chan, merged)
      /\ pending' = IF Accepts(chan) THEN NONE ELSE merged
      /\ UNCHANGED <<sending, carry, phase, event, got, clock, feeds, call, ended>>

UserScrolls(a) ==
  LET merged == Scroll(a, {Len(made) + 1} \cup IF pending = NONE THEN {} ELSE pending.of)
  IN  /\ Made("scroll", a)
      /\ chan' = TrySend(chan, merged)
      /\ pending' = IF Accepts(chan) THEN NONE ELSE merged
      /\ UNCHANGED <<sending, carry, phase, event, got, clock, feeds, call, ended>>

(* A tap flushes the pending scroll first and is sent then; both results of *)
(* try_send are ignored, and the drive task may receive between the two.    *)
UserTaps(a) ==
  /\ Made("tap", a)
  /\ sending' = Tap(a, Len(made) + 1)
  /\ chan' = IF pending = NONE THEN chan ELSE TrySend(chan, pending)
  /\ pending' = NONE
  /\ UNCHANGED <<carry, phase, event, got, clock, feeds, call, ended>>

SendTap ==
  /\ sending # NONE
  /\ chan' = TrySend(chan, sending)
  /\ sending' = NONE
  /\ UNCHANGED <<made, pending, carry, phase, event, got, clock, feeds, call, ended>>

-----------------------------------------------------------------------------
(* The drive task *)

Halt(why) ==
  /\ phase' = "off" /\ ended' = why
  /\ chan' = <<>> /\ carry' = NONE /\ event' = NONE
  /\ parked' = FALSE

(* WasmModule::shutdown aborts the task wherever it is, from the GUI thread. *)
Shutdown ==
  /\ phase # "off" /\ sending = NONE
  /\ Halt("dropped")
  /\ UNCHANGED <<ui, got, clock, feeds, wall, ran, picks>>

(* Entering select starts the heartbeat's sleep anew; a deadline is         *)
(* absolute.  Faulty variant: the deadline is a sleep too.                  *)
Sleep_Restarts(t, l) == IF t = "heartbeat" THEN Poll ELSE IF t = "at" THEN Longest ELSE l
Sleep(t, l) == IF t = "heartbeat" THEN Poll ELSE l

(* fold_timer: the guest's request, if it made one in this call. *)
Fold(r) ==
  /\ fold' = r
  /\ timer' = CASE r = "after" -> "at" [] r = "cancel" -> "idle" [] OTHER -> timer

Asked(r, d) == CASE r = "after" -> d [] r = "cancel" -> 0 [] OTHER -> left

Handle(e) ==
  /\ phase' = "update" /\ event' = e
  /\ wall' = 0 /\ ran' = 0 /\ picks' = 0 /\ parked' = FALSE

(* The component is compiled and instantiated and init runs, or the task    *)
(* ends; then one Event::Timer comes at once and leaves the timer alone.    *)
Load ==
  /\ phase = "load"
  /\ \/ /\ \E r \in {"none", "after", "cancel"}, d \in Delays :
             Fold(r) /\ left' = Asked(r, d)
        /\ Handle(TimerEvent)
        /\ UNCHANGED <<chan, carry, ended>>
     \/ Halt("trap") /\ UNCHANGED <<clock, wall, ran, picks>>
  /\ UNCHANGED <<ui, got, feeds>>

(* A pointer event: the one carried over, or the next of the channel.       *)
(* Faulty variant: the channel only.                                        *)
WakePointer_LeavesCarry ==
  /\ phase = "select" /\ chan # <<>>
  /\ event' = Head(chan)
  /\ phase' = IF Head(chan).kind = "scroll" THEN "coalesce" ELSE "update"
  /\ got' = IF Head(chan).kind = "scroll" THEN got ELSE got \cup Head(chan).of
  /\ chan' = Tail(chan)
  /\ wall' = 0 /\ ran' = 0 /\ picks' = 0 /\ parked' = FALSE
  /\ UNCHANGED <<ui, carry, clock, feeds, ended>>

WakePointer ==
  /\ phase = "select"
  /\ carry # NONE \/ chan # <<>>
  /\ LET m == IF carry # NONE THEN carry ELSE Head(chan)
     IN  /\ event' = m
         /\ phase' = IF m.kind = "scroll" THEN "coalesce" ELSE "update"
         /\ got' = IF m.kind = "scroll" THEN got ELSE got \cup m.of
  /\ carry' = NONE
  /\ chan' = IF carry # NONE THEN chan ELSE Tail(chan)
  /\ wall' = 0 /\ ran' = 0 /\ picks' = 0 /\ parked' = FALSE
  /\ UNCHANGED <<ui, clock, feeds, ended>>

(* One try_recv of the scroll run: it sums, carries a tap over, or ends.    *)
(* Faulty variant: the run goes on past a tap.                              *)
Merge(m, n) == Scroll(m.area, m.of \cup n.of)

Coalesce_PastTaps ==
  /\ phase = "coalesce"
  /\ IF chan # <<>> /\ (Head(chan).kind = "scroll" \/ carry = NONE)
       THEN /\ chan' = Tail(chan)
            /\ event' = IF Head(chan).kind = "scroll" THEN Merge(event, Head(chan)) ELSE event
            /\ carry' = IF Head(chan).kind = "scroll" THEN carry ELSE Head(chan)
            /\ UNCHANGED <<phase, got>>
       ELSE /\ phase' = "update" /\ got' = got \cup event.of
            /\ UNCHANGED <<chan, carry, event>>
  /\ UNCHANGED <<ui, clock, feeds, call, ended>>

Coalesce ==
  /\ phase = "coalesce"
  /\ CASE chan # <<>> /\ Head(chan).kind = "scroll" ->
            /\ chan' = Tail(chan) /\ event' = Merge(event, Head(chan))
            /\ UNCHANGED <<phase, carry, got>>
       [] chan # <<>> /\ Head(chan).kind = "tap" ->
            /\ chan' = Tail(chan) /\ carry' = Head(chan)
            /\ phase' = "update" /\ got' = got \cup event.of
            /\ UNCHANGED event
       [] OTHER ->
            /\ phase' = "update" /\ got' = got \cup event.of
            /\ UNCHANGED <<chan, carry, event>>
  /\ UNCHANGED <<ui, clock, feeds, call, ended>>

Quiet == phase = "select" /\ carry = NONE /\ chan = <<>>

WakeSample ==
  /\ Quiet /\ feed
  /\ Handle(FeedEvent)
  /\ feed' = FALSE
  /\ UNCHANGED <<ui, chan, carry, got, clock, subscribed, due, ended>>

(* A deadline is used up when it fires, the heartbeat is not. *)
WakeTimer ==
  /\ Quiet /\ ~feed /\ timer # "idle" /\ left = 0
  /\ Handle(TimerEvent)
  /\ timer' = IF timer = "at" THEN "idle" ELSE timer
  /\ UNCHANGED <<ui, chan, carry, got, left, fold, feeds, ended>>

(* Host::pick parks the guest until a person answers. *)
Park ==
  /\ phase \in Calls /\ ~parked /\ picks < MaxPicks
  /\ parked' = TRUE /\ picks' = picks + 1
  /\ UNCHANGED <<ui, chan, carry, phase, event, got, clock, feeds, wall, ran, ended>>

Answered ==
  /\ phase \in Calls /\ parked
  /\ parked' = FALSE
  /\ UNCHANGED <<ui, chan, carry, phase, event, got, clock, feeds, wall, ran, picks, ended>>

(* A dirty guest is asked for its view and its popup, each with a limit of  *)
(* its own.                                                                 *)
GuestDraws ==
  /\ phase \in {"update", "view"} /\ ~parked
  /\ phase' = IF phase = "update" THEN "view" ELSE "popup"
  /\ wall' = 0 /\ ran' = 0
  /\ UNCHANGED <<ui, chan, carry, event, got, clock, feeds, picks, parked, ended>>

(* The step is over; the requests the guest made in it are folded.  After a *)
(* pointer event the task pauses for MIN_INTERVAL.                          *)
GuestReturns ==
  /\ phase \in {"update", "popup"} /\ ~parked
  /\ \E r \in {"none", "after", "cancel"}, d \in Delays :
       /\ Fold(r)
       /\ IF event \in {TimerEvent, FeedEvent}
            THEN phase' = "select" /\ left' = Sleep(timer', Asked(r, d))
            ELSE phase' = "gate" /\ left' = Asked(r, d)
  /\ subscribed' \in {subscribed, TRUE}
  /\ event' = NONE
  /\ UNCHANGED <<ui, chan, carry, got, feed, due, call, ended>>

GuestTraps ==
  /\ phase \in Calls /\ ~parked
  /\ Halt("trap")
  /\ UNCHANGED <<ui, got, clock, feeds, wall, ran, picks>>

(* The limit elapses: an update parked by then gets another one, any other  *)
(* call ends the task.  Faulty variant: nobody looks at the limit.                       *)
WallElapses_Ignored ==
  /\ phase \in Calls /\ wall = Wall
  /\ wall' = 0
  /\ UNCHANGED <<ui, chan, carry, phase, event, got, clock, feeds, ran, picks, parked, ended>>

WallElapses ==
  /\ phase \in Calls /\ wall = Wall
  /\ IF parked /\ phase = "update"
       THEN wall' = 0 /\ UNCHANGED <<chan, carry, phase, event, parked, ended>>
       ELSE Halt("wall") /\ UNCHANGED wall
  /\ UNCHANGED <<ui, got, clock, feeds, ran, picks>>

Gate ==
  /\ phase = "gate"
  /\ phase' = "select" /\ left' = Sleep(timer, left)
  /\ UNCHANGED <<ui, chan, carry, event, got, timer, fold, feeds, call, ended>>

(* The sampler: at most one sample per BASE, lost if one is there already. *)
SampleFeed ==
  /\ phase # "off" /\ subscribed /\ due
  /\ feed' = TRUE /\ due' = FALSE
  /\ UNCHANGED <<ui, chan, carry, phase, event, got, clock, subscribed, call, ended>>

(* Time passes while the task sleeps with nothing to wake it, or while the  *)
(* guest runs and its limit lasts.                                          *)
Asleep == Quiet /\ ~feed /\ ~(timer # "idle" /\ left = 0)
Less(n) == IF n = 0 THEN 0 ELSE n - 1

Tick ==
  /\ Asleep \/ (phase \in Calls /\ wall < Wall)
  /\ left' = Less(left)
  /\ due' = TRUE
  /\ wall' = IF phase \in Calls THEN wall + 1 ELSE wall
  /\ ran' = IF phase \in Calls /\ ~parked /\ ran < Wall THEN ran + 1 ELSE ran
  /\ UNCHANGED <<ui, chan, carry, phase, event, got, timer, fold, feed, subscribed, picks,
                 parked, ended>>

User == \E a \in Areas : UserScrolls(a) \/ UserTaps(a)
Loop == WakePointer \/ Coalesce \/ WakeSample \/ WakeTimer \/ Gate
Guest == Park \/ Answered \/ GuestDraws \/ GuestReturns \/ GuestTraps

ReactorNext ==
  User \/ SendTap \/ Load \/ Loop \/ Guest \/ WallElapses \/ SampleFeed \/ Tick \/ Shutdown

ReactorSpec == ReactorInit /\ [][ReactorNext]_reactorVars

(* The runtime polls the task, time passes, and a person answers a pick.    *)
(* Nothing makes a guest return.                                            *)
FairSpec ==
  /\ ReactorSpec
  /\ WF_reactorVars(SendTap) /\ WF_reactorVars(Load) /\ WF_reactorVars(Loop)
  /\ WF_reactorVars(Answered) /\ WF_reactorVars(WallElapses) /\ WF_reactorVars(Tick)

-----------------------------------------------------------------------------
(* Properties *)

Events == 1 .. Len(made)
Carried(m) == IF m \in Message THEN m.of ELSE {}
Queued == UNION ({chan[i].of : i \in 1 .. Len(chan)} \cup {Carried(m) : m \in {pending, sending, carry}})
InHand == IF phase = "coalesce" THEN event.of ELSE {}

(* What neither waits, nor is in hand, nor reached the guest. *)
Lost == IF phase = "off" THEN {} ELSE Events \ (Queued \cup InHand \cup got)

(* Pointer events reach the guest in the order they were made: a tap never  *)
(* passes a scroll, nor a scroll a tap (RFC 0009 3.4, "Never reorder a      *)
(* click across a scroll batch").                                           *)
InOrder == [][\A n \in got' \ got, o \in got : o < n]_reactorVars

(* Events are lost only by a tap that meets a full channel, with the scroll *)
(* it flushes; scrolls do not lose one another (lib.rs 2142-2152).          *)
ScrollsMerge ==
  [][\A n \in Lost' \ Lost :
       /\ Len(chan) = Cap
       /\ IF made'[n].kind = "scroll" THEN sending = NONE /\ sending' # NONE
                                      ELSE sending # NONE /\ sending' = NONE]_reactorVars

(* Pointer events reach the guest in order, scrolls without losing one      *)
(* another.                                                                 *)
InputInOrder == InOrder /\ ScrollsMerge

(* What is on the channel leaves it for the guest unless the task ends,     *)
(* whatever scrolls, samples and timers come between.                       *)
InFlight == UNION ({chan[i].of : i \in 1 .. Len(chan)} \cup {Carried(carry)}) \cup InHand
TapArrives == \A n \in 1 .. MaxEvents : []<>(n \notin InFlight \/ phase = "off")

(* A deadline that the guest leaves alone fires, whatever pointer events    *)
(* and samples wake the task meanwhile (RFC 0011 3, folding rule), if the   *)
(* calls they cause are shorter than the sampling period in the end.        *)
DeadlineFires ==
  <>[](wall = 0) =>
    ((timer = "at" /\ fold = "none" /\ phase = "select")
       ~> timer # "at" \/ fold # "none" \/ phase = "off")

(* A guest that neither returns nor is parked is ended. *)
RunawayEnds == []<>(phase \notin Calls)
=============================================================================
