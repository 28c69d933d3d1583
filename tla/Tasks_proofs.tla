---------------------------- MODULE Tasks_proofs ----------------------------
(***************************************************************************)
(* FeedHub: one sampler task to a hub and one subscription to an instance  *)
(* id.  Reactor: pointer events reach the guest in order, and none is lost *)
(* but where the code says so.  NetRate: no rate that was not there.       *)
(* HostServices: a guest reads the bodies it asked for, byte for byte.     *)
(***************************************************************************)
EXTENDS FeedHub, Reactor, NetRate, HostServices, SequenceTheorems, FiniteSetTheorems,
        WellFoundedInduction, TLAPS

(* What the steps need of the types. *)
IsSub(s) ==
  /\ s = [kind |-> s.kind, chan |-> s.chan, period |-> s.period, wait |-> s.wait]
  /\ s.kind \in Kinds /\ s.chan \in Drives

IsTask(t) ==
  /\ t = [id |-> t.id, kind |-> t.kind, stage |-> t.stage]
  /\ t.kind \in Kinds

Shape == (\A s \in subs : IsSub(s)) /\ (\A t \in tasks : IsTask(t))

(* OneTaskPerHub, said of two tasks and of the hub they serve. *)
Served ==
  /\ hubs \subseteq Kinds
  /\ \A k \in hubs : \E t \in tasks : t.kind = k
  /\ \A t \in tasks : t.kind \in hubs
  /\ \A t, u \in tasks : t.kind = u.kind => t = u

IInv == Shape /\ Served /\ OneSubPerToken

LEMMA ServedIsOne == IInv => OneSampler
<1> SUFFICES ASSUME IInv, NEW k \in Kinds
             PROVE  LET serving == {t \in tasks : t.kind = k}
                    IN  IF k \in hubs THEN \E t \in serving : serving = {t} ELSE serving = {}
  BY DEF OneSampler, OneTaskPerHub, IInv
<1> DEFINE serving == {t \in tasks : t.kind = k}
<1>1. CASE k \in hubs
  <2>1. PICK t \in tasks : t.kind = k
    BY <1>1 DEF IInv, Served
  <2>2. t \in serving /\ serving = {t}
    BY <2>1 DEF IInv, Served
  <2> QED
    BY <1>1, <2>2
<1>2. CASE k \notin hubs
  BY <1>2 DEF IInv, Served
<1> QED
  BY <1>1, <1>2

-----------------------------------------------------------------------------
(* The lock of feeds makes a subscription and the sampler it needs one step. *)
LEMMA SubscribeKeeps ==
  ASSUME IInv, NEW d \in Drives, NEW k \in Kinds, NEW p, SubscribeFeed(d, k, p)
  PROVE  IInv'
<1> DEFINE own == {s \in SubsOf(k) : Token[s.chan] = Token[d]}
<1>1. subs' = IF own = {} THEN subs \cup {NewSub(d, k, p)}
              ELSE (subs \ own) \cup {[s EXCEPT !.period = p] : s \in own}
  BY DEF SubscribeFeed, Upsert
<1>2. \A s \in own : /\ s \in subs /\ IsSub(s) /\ s.kind = k /\ Token[s.chan] = Token[d]
                     /\ IsSub([s EXCEPT !.period = p])
                     /\ [s EXCEPT !.period = p].kind = k /\ [s EXCEPT !.period = p].chan = s.chan
  BY DEF SubsOf, IInv, Shape, IsSub
<1>3. \A s \in subs : s.kind = k /\ Token[s.chan] = Token[d] => s \in own
  BY DEF SubsOf
<1>4. NewSub(d, k, p).kind = k /\ NewSub(d, k, p).chan = d /\ IsSub(NewSub(d, k, p))
  BY DEF NewSub, IsSub
<1>5. hubs' = hubs \cup {k}
  BY DEF SubscribeFeed
<1>6. (\A s \in subs' : IsSub(s)) /\ OneSubPerToken'
  <2>1. CASE own = {}
    BY <1>1, <1>3, <1>4, <1>5, <2>1 DEF IInv, Shape, OneSubPerToken
  <2>2. CASE own # {}
    <3> PICK o \in own : TRUE
      BY <2>2
    <3> DEFINE new == [o EXCEPT !.period = p]
    <3>1. o \in subs /\ o.kind = k /\ Token[o.chan] = Token[d]
      BY <1>2
    <3>2. own = {o}
      BY <1>2, <3>1 DEF IInv, OneSubPerToken
    <3>3. subs' = (subs \ {o}) \cup {new}
      BY <1>1, <2>2, <3>2
    <3>4. IsSub(new) /\ new.kind = k /\ new.chan = o.chan
      BY <1>2
    <3> HIDE DEF new, own
    <3>5. \A s \in subs' : IsSub(s) /\ s.kind \in hubs'
      BY <1>5, <3>3, <3>4 DEF IInv, Shape, OneSubPerToken
    <3>6. \A s \in subs \ {o} : ~(s.kind = k /\ Token[s.chan] = Token[new.chan])
      BY <3>1, <3>4 DEF IInv, OneSubPerToken
    <3> QED
      BY <3>3, <3>4, <3>5, <3>6 DEF IInv, OneSubPerToken
  <2> QED
    BY <2>1, <2>2
<1>7. (\A t \in tasks' : IsTask(t)) /\ Served'
  <2>1. CASE k \in hubs
    BY <1>5, <2>1 DEF SubscribeFeed, IInv, Shape, Served
  <2>2. CASE k \notin hubs
    <3>1. PICK t \in Tasks : tasks' = tasks \cup {[id |-> t, kind |-> k, stage |-> "sleep"]}
      BY <2>2 DEF SubscribeFeed, SpawnSampler
    <3>2. IsTask([id |-> t, kind |-> k, stage |-> "sleep"])
      BY DEF IsTask
    <3> QED
      BY <1>5, <2>2, <3>1, <3>2 DEF IInv, Shape, Served
  <2> QED
    BY <2>1, <2>2
<1> QED
  BY <1>6, <1>7 DEF IInv, Shape

(* A sampler that goes on to another stage is still the one of its hub. *)
LEMMA StageKeeps ==
  ASSUME IInv, NEW t \in tasks, NEW s, Stage(t, s), UNCHANGED hubs
  PROVE  (\A u \in tasks' : IsTask(u)) /\ Served'
<1> DEFINE v == [t EXCEPT !.stage = s]
<1>1. IsTask(v) /\ v.kind = t.kind
  BY DEF IInv, Shape, IsTask
<1>2. tasks' = (tasks \ {t}) \cup {v}
  BY DEF Stage
<1> HIDE DEF v
<1> QED
  BY <1>1, <1>2 DEF IInv, Shape, Served

(* A pass replaces subscriptions of its kind by ones that wait otherwise,   *)
(* or by none: they stay one to an instance id.                             *)
Waits(S, W) == {[s EXCEPT !.wait = W[s]] : s \in S}

LEMMA WaitsKeep ==
  ASSUME IInv, NEW k \in Kinds, NEW S \in SUBSET SubsOf(k), NEW W,
         subs' = (subs \ SubsOf(k)) \cup Waits(S, W)
  PROVE  /\ \A s \in subs' : IsSub(s) /\ s.kind \in hubs
         /\ \A s, u \in subs' : s.kind = u.kind /\ Token[s.chan] = Token[u.chan] => s = u
<1> DEFINE N(s) == [s EXCEPT !.wait = W[s]]
<1>1. \A s \in SubsOf(k) : /\ s \in subs /\ s.kind = k
                           /\ IsSub(N(s)) /\ N(s).kind = k /\ N(s).chan = s.chan
  BY DEF SubsOf, IInv, Shape, IsSub
<1>2. \A s \in subs \ SubsOf(k) : s.kind # k
  BY DEF SubsOf
<1>3. subs' = (subs \ SubsOf(k)) \cup {N(s) : s \in S}
  BY DEF Waits
<1> HIDE DEF N
<1>4. \A s \in subs' : IsSub(s) /\ s.kind \in hubs
  BY <1>1, <1>3 DEF IInv, Shape, OneSubPerToken
<1>5. ASSUME NEW s \in subs', NEW u \in subs', s.kind = u.kind, Token[s.chan] = Token[u.chan]
      PROVE  s = u
  <2>1. CASE s.kind = k
    <3>1. PICK r \in S : s = N(r)
      BY <1>2, <1>3, <2>1
    <3>2. PICK q \in S : u = N(q)
      BY <1>2, <1>3, <1>5, <2>1
    <3>3. r = q
      BY <1>1, <1>5, <3>1, <3>2 DEF IInv, OneSubPerToken
    <3> QED
      BY <3>1, <3>2, <3>3
  <2>2. CASE s.kind # k
    BY <1>1, <1>3, <1>5, <2>2 DEF IInv, OneSubPerToken
  <2> QED
    BY <2>1, <2>2
<1> QED
  BY <1>4, <1>5

(* The test for subscribers and the removal of the hub are one step with    *)
(* the fan-out, so that no subscription is left in a hub without a task.    *)
LEMMA PassKeeps ==
  ASSUME IInv, NEW t \in tasks, Pass(t)
  PROVE  IInv'
<1>1. t.kind \in hubs /\ t.kind \in Kinds
  BY DEF IInv, Shape, Served, IsTask
<1>2. FanOut(t) /\ EndOrSleep(t)
  BY <1>1 DEF Pass
<1>3. /\ \A s \in subs' : IsSub(s) /\ s.kind \in hubs
      /\ \A s, u \in subs' : s.kind = u.kind /\ Token[s.chan] = Token[u.chan] => s = u
  <2> DEFINE S == SubsOf(t.kind)
             kept == {r \in S : Due(r) => ~Closed(r)}
             W == [s \in S |-> IF Taken(s) THEN s.period ELSE IF Due(s) THEN 0 ELSE s.wait - 1]
             A == [s \in S |-> IF s.wait = 0 THEN 0 ELSE s.wait - 1]
  <2>1. CASE t.stage = "value"
    <3>1. Retained(t.kind) = Waits(kept, W)
      BY DEF Retained, Waits
    <3>2. subs' = (subs \ S) \cup Waits(kept, W)
      BY <1>2, <2>1, <3>1 DEF FanOut
    <3>3. kept \in SUBSET S
      OBVIOUS
    <3> HIDE DEF W, kept
    <3> QED
      BY <1>1, <3>2, <3>3, WaitsKeep
  <2>2. CASE t.stage # "value"
    <3>1. Aged(t.kind) = Waits(S, A)
      BY DEF Aged, Waits
    <3>2. subs' = (subs \ S) \cup Waits(S, A)
      BY <1>2, <2>2, <3>1 DEF FanOut
    <3> HIDE DEF A
    <3> QED
      BY <1>1, <3>2, WaitsKeep
  <2> QED
    BY <2>1, <2>2
<1>4. CASE \E s \in subs' : s.kind = t.kind
  <2>1. Stage(t, "sleep") /\ UNCHANGED hubs
    BY <1>2, <1>4 DEF EndOrSleep
  <2> QED
    BY <1>3, <2>1, StageKeeps DEF IInv, Shape, OneSubPerToken
<1>5. CASE ~\E s \in subs' : s.kind = t.kind
  <2>1. tasks' = tasks \ {t} /\ hubs' = hubs \ {t.kind}
    BY <1>2, <1>5 DEF EndOrSleep
  <2>2. Served' /\ \A u \in tasks' : IsTask(u)
    BY <2>1 DEF IInv, Shape, Served
  <2>3. OneSubPerToken'
    BY <1>3, <1>5, <2>1 DEF OneSubPerToken
  <2> QED
    BY <1>3, <2>2, <2>3 DEF IInv, Shape
<1> QED
  BY <1>4, <1>5

-----------------------------------------------------------------------------
LEMMA InitInv == Init => IInv
BY DEF Init, IInv, Shape, Served, OneSubPerToken

LEMMA NextInv == IInv /\ [Next]_vars => IInv'
<1> SUFFICES ASSUME IInv, [Next]_vars PROVE IInv'
  OBVIOUS
<1>1. ASSUME UNCHANGED <<hubs, subs, tasks>> PROVE IInv'
  BY <1>1 DEF IInv, Shape, Served, OneSubPerToken
<1>2. CASE UNCHANGED vars
  BY <1>1, <1>2 DEF vars
<1>3. ASSUME NEW d \in Drives, AddPlugin(d) \/ Abort(d) \/ End(d) \/ WakeFeed(d) PROVE IInv'
  BY <1>1, <1>3 DEF AddPlugin, Abort, End, WakeFeed
<1>4. ASSUME NEW d \in Drives, NEW k \in Kinds, NEW p \in Periods, RegisterFeeds(d, k, p) PROVE IInv'
  BY <1>4, SubscribeKeeps DEF RegisterFeeds
<1>5. ASSUME NEW t \in tasks, Sample(t) PROVE IInv'
  <2>1. (\A u \in tasks' : IsTask(u)) /\ Served'
    BY <1>5, StageKeeps DEF Sample
  <2> QED
    BY <1>5, <2>1 DEF Sample, IInv, Shape, OneSubPerToken
<1>6. ASSUME NEW t \in tasks, Pass(t) PROVE IInv'
  BY <1>6, PassKeeps
<1> QED
  BY <1>2, <1>3, <1>4, <1>5, <1>6 DEF Next

(* However plugins come, go, are rebuilt under their id and ask again, a    *)
(* metric that is wanted has one sampler task, no task is left without a    *)
(* hub, and an instance id has one subscription to a metric                 *)
(* (subscribe_feed, feed_sampler).                                          *)
THEOREM FeedHubOneSampler == Spec => []OneSampler
BY InitInv, NextInv, ServedIsOne, PTL DEF Spec

-----------------------------------------------------------------------------
(* Reactor: pointer events stand in one line from the person to the guest.  *)

(* Every number of A is less than every number of B. *)
Ahead(A, B) == \A a \in A, b \in B : a < b

(* What is next in line, and what is last in it: the scroll that is summed  *)
(* or the tap that ended it; what the GUI holds back.                       *)
Front == InHand \cup Carried(carry)
Back == Carried(pending) \cup Carried(sending)

LineShape ==
  /\ made \in Seq([kind : {"scroll", "tap"}, area : Areas]) /\ Len(made) <= MaxEvents
  /\ {pending, sending, carry} \subseteq Message \cup {NONE}
  /\ chan \in Seq(Message) /\ Len(chan) <= Cap
  /\ phase = "coalesce" => event \in Message /\ carry = NONE
  /\ sending # NONE => pending = NONE

Numbered ==
  /\ got \cup Front \cup Back \subseteq Events
  /\ \A i \in 1 .. Len(chan) : chan[i].of \subseteq Events

(* The line is in the order in which the events were made. *)
Ordered ==
  /\ Ahead(got, Front) /\ Ahead(got, Back) /\ Ahead(Front, Back)
  /\ \A i \in 1 .. Len(chan) :
       Ahead(got, chan[i].of) /\ Ahead(Front, chan[i].of) /\ Ahead(chan[i].of, Back)
  /\ \A i, j \in 1 .. Len(chan) : i < j => Ahead(chan[i].of, chan[j].of)

(* The GUI sums scrolls and sends taps. *)
Sorted ==
  /\ \A n \in Carried(pending) : made[n].kind = "scroll"
  /\ \A n \in Carried(sending) : made[n].kind = "tap"

LineInv == LineShape /\ Numbered /\ Ordered /\ Sorted

LEMMA LineStarts == ReactorInit => LineInv
<1> SUFFICES ASSUME ReactorInit PROVE LineInv
  OBVIOUS
<1>1. NONE \notin Message
  BY ReactorAssumption DEF ReactorAssumption, Message
<1>2. Front = {} /\ Back = {}
  BY <1>1 DEF ReactorInit, Front, Back, InHand, Carried
<1>3. LineShape
  BY ReactorAssumption DEF ReactorInit, LineShape, ReactorAssumption
<1>4. Numbered /\ Ordered
  BY <1>2 DEF ReactorInit, Numbered, Ordered, Ahead, Events
<1>5. Sorted
  BY <1>1 DEF ReactorInit, Sorted, Carried
<1> QED
  BY <1>3, <1>4, <1>5 DEF LineInv

(* Who stands in line. *)
LEMMA QueuedHas ==
  ASSUME NEW n
  PROVE  n \in Queued <=> \/ \E i \in 1 .. Len(chan) : n \in chan[i].of
                          \/ n \in Carried(carry) \/ n \in Back
BY DEF Queued, Back

LEMMA Messages ==
  /\ NONE \notin Message
  /\ \A m \in Message : m.kind \in {"scroll", "tap"} /\ Carried(m) = m.of
  /\ Carried(NONE) = {}
BY ReactorAssumption DEF ReactorAssumption, Message, Carried

-----------------------------------------------------------------------------
(* The GUI's side *)


(* A message from the back of the line goes on the channel, or is dropped.  *)
LEMMA Sends ==
  ASSUME LineInv, LineShape', Sorted',
         UNCHANGED <<carry, phase, event, got>>,
         Back' \subseteq Back \cup (Events' \ Events), Events \subseteq Events',
         \A n \in Events' \ Events, o \in Events : o < n,
         \/ chan' = chan
         \/ \E m \in Message : /\ chan' = Append(chan, m) /\ Ahead(m.of, Back')
                               /\ m.of \subseteq Back \cup (Events' \ Events)
  PROVE  LineInv'
<1> USE DEF LineInv
<1>1. /\ Ahead(got, Back') /\ Ahead(Front, Back') /\ Front' = Front
      /\ \A i \in 1 .. Len(chan) : Ahead(chan[i].of, Back')
  <2>1. /\ Ahead(got, Events' \ Events) /\ Ahead(Front, Events' \ Events)
        /\ \A i \in 1 .. Len(chan) : Ahead(chan[i].of, Events' \ Events)
    BY DEF Numbered, Ahead
  <2>2. Front' = Front
    BY DEF Front, InHand, Carried
  <2> QED
    BY <2>1, <2>2 DEF Ordered, Ahead
<1>2. Back' \subseteq Events'
  BY DEF Numbered
<1>3. CASE chan' = chan
  <2>1. Numbered'
    BY <1>1, <1>2, <1>3 DEF Numbered
  <2>2. Ordered'
    BY <1>1, <1>3 DEF Ordered
  <2> QED
    BY <2>1, <2>2
<1>4. ASSUME NEW m \in Message, chan' = Append(chan, m), Ahead(m.of, Back'),
             m.of \subseteq Back \cup (Events' \ Events)
      PROVE  LineInv'
  <2>1. /\ m.of \subseteq Events' /\ Ahead(got, m.of) /\ Ahead(Front, m.of)
        /\ \A i \in 1 .. Len(chan) : Ahead(chan[i].of, m.of)
    BY <1>4 DEF Numbered, Ordered, Ahead
  <2>2. /\ Len(chan') = Len(chan) + 1 /\ Len(chan) \in Nat
        /\ \A i \in 1 .. Len(chan) : chan'[i] = chan[i]
        /\ chan'[Len(chan) + 1] = m
    BY <1>4 DEF LineShape
  <2>3. \A i \in 1 .. Len(chan') : i \in 1 .. Len(chan) \/ i = Len(chan) + 1
    BY <2>2
  <2>4. Numbered'
    BY <1>1, <1>2, <2>1, <2>2, <2>3 DEF Numbered
  <2>5. Ordered'
    <3>1. \A i \in 1 .. Len(chan') :
            Ahead(got, chan'[i].of) /\ Ahead(Front, chan'[i].of) /\ Ahead(chan'[i].of, Back')
      BY <1>1, <1>4, <2>1, <2>2, <2>3 DEF Ordered
    <3>2. \A i, j \in 1 .. Len(chan') : i < j => Ahead(chan'[i].of, chan'[j].of)
      BY <2>1, <2>2, <2>3 DEF Ordered
    <3> QED
      BY <1>1, <3>1, <3>2 DEF Ordered
  <2> QED
    BY <2>4, <2>5
<1> QED
  BY <1>3, <1>4

(* A further event has the next number. *)
LEMMA MadeOne ==
  ASSUME LineInv, NEW k \in {"scroll", "tap"}, NEW a \in Areas, Made(k, a)
  PROVE  /\ made' \in Seq([kind : {"scroll", "tap"}, area : Areas]) /\ Len(made') <= MaxEvents
         /\ Len(made) + 1 \in 1 .. MaxEvents /\ Len(made) \in Nat
         /\ Events' = Events \cup {Len(made) + 1} /\ Len(made) + 1 \notin Events
         /\ \A n \in Events : made'[n] = made[n] /\ n < Len(made) + 1
         /\ made'[Len(made) + 1].kind = k
         /\ Events' \subseteq 1 .. MaxEvents
<1>1. made \in Seq([kind : {"scroll", "tap"}, area : Areas])
  BY DEF LineInv, LineShape
<1>2. made' = Append(made, [kind |-> k, area |-> a]) /\ Len(made) < MaxEvents
  BY DEF Made
<1>3. /\ Len(made') = Len(made) + 1 /\ Len(made) \in Nat
      /\ made'[Len(made) + 1] = [kind |-> k, area |-> a]
      /\ \A n \in 1 .. Len(made) : made'[n] = made[n]
      /\ made' \in Seq([kind : {"scroll", "tap"}, area : Areas])
  BY <1>1, <1>2
<1> QED
  BY <1>2, <1>3, ReactorAssumption DEF ReactorAssumption, Events

LEMMA Fits ==
  ASSUME LineInv, NEW m \in Message,
         chan' = chan \/ (chan' = Append(chan, m) /\ Len(chan) < Cap)
  PROVE  chan' \in Seq(Message) /\ Len(chan') <= Cap
<1>1. chan \in Seq(Message) /\ Len(chan) <= Cap
  BY DEF LineInv, LineShape
<1>2. CASE chan' = chan
  BY <1>1, <1>2
<1>3. CASE chan' = Append(chan, m) /\ Len(chan) < Cap
  BY <1>1, <1>3, ReactorAssumption DEF ReactorAssumption
<1> QED
  BY <1>2, <1>3

LEMMA ScrollKeeps == ASSUME LineInv, NEW a \in Areas, UserScrolls(a) PROVE LineInv'
<1> DEFINE N == Len(made) + 1
           merged == Scroll(a, {N} \cup Carried(pending))
<1>1. /\ Made("scroll", a) /\ sending = NONE /\ sending' = NONE
      /\ UNCHANGED <<carry, phase, event, got>>
  BY DEF UserScrolls, Made
<1>2. /\ chan' = TrySend(chan, merged)
      /\ pending' = IF Accepts(chan) THEN NONE ELSE merged
  BY Messages DEF UserScrolls, Carried, LineInv, LineShape
<1>3. /\ Carried(pending) \subseteq Events /\ Back = Carried(pending)
  BY <1>1, Messages DEF LineInv, Numbered, Back
<1>4. merged \in Message /\ merged.of = {N} \cup Carried(pending) /\ merged # NONE
  BY <1>1, <1>3, MadeOne, Messages DEF Scroll, Message
<1>5. Back' = IF Accepts(chan) THEN {} ELSE merged.of
  BY <1>1, <1>2, <1>4, Messages DEF Back
<1>6. \/ chan' = chan
      \/ chan' = Append(chan, merged) /\ Ahead(merged.of, Back') /\ Len(chan) < Cap
  BY <1>2, <1>5 DEF TrySend, Accepts, Ahead
<1>7. LineShape'
  <2>1. chan' \in Seq(Message) /\ Len(chan') <= Cap
    BY <1>4, <1>6, Fits
  <2> QED
    BY <1>1, <1>2, <1>4, <2>1, MadeOne DEF LineInv, LineShape
<1>8. Sorted'
  <2>1. made'[N].kind = "scroll" /\ \A n \in Events : made'[n] = made[n]
    BY <1>1, MadeOne
  <2>2. \A n \in Carried(pending) : made[n].kind = "scroll"
    BY DEF LineInv, Sorted
  <2>3. \A n \in merged.of : made'[n].kind = "scroll"
    BY <1>3, <1>4, <2>1, <2>2
  <2> QED
    BY <1>1, <1>2, <1>4, <2>3, Messages DEF Sorted
<1> QED
  BY <1>1, <1>3, <1>4, <1>5, <1>6, <1>7, <1>8, MadeOne, Sends

LEMMA TapKeeps == ASSUME LineInv, NEW a \in Areas, UserTaps(a) PROVE LineInv'
<1> DEFINE N == Len(made) + 1
<1>1. /\ Made("tap", a) /\ sending = NONE /\ sending' = Tap(a, N) /\ pending' = NONE
      /\ chan' = IF pending = NONE THEN chan ELSE TrySend(chan, pending)
      /\ UNCHANGED <<carry, phase, event, got>>
  BY DEF UserTaps, Made
<1>2. /\ Carried(pending) \subseteq Events /\ Back = Carried(pending)
  BY <1>1, Messages DEF LineInv, Numbered, Back
<1>3. sending' \in Message /\ sending'.of = {N} /\ sending' # NONE
  BY <1>1, MadeOne, Messages DEF Tap, Message
<1>4. Back' = {N}
  BY <1>1, <1>3, Messages DEF Back
<1>5. \/ chan' = chan
      \/ /\ pending \in Message /\ chan' = Append(chan, pending) /\ Len(chan) < Cap
         /\ Ahead(pending.of, Back') /\ pending.of \subseteq Back
  BY <1>1, <1>2, <1>4, MadeOne, Messages DEF TrySend, Accepts, Ahead, LineInv, LineShape
<1>6. LineShape'
  <2>1. chan' \in Seq(Message) /\ Len(chan') <= Cap
    BY <1>5, Fits DEF LineInv, LineShape
  <2> QED
    BY <1>1, <1>3, <2>1, MadeOne DEF LineInv, LineShape
<1>7. Sorted'
  BY <1>1, <1>3, MadeOne, Messages DEF Sorted
<1>8. /\ Events' = Events \cup {N} /\ N \notin Events /\ \A o \in Events : o < N
  BY <1>1, MadeOne
<1>9. \/ chan' = chan
      \/ \E m \in Message : /\ chan' = Append(chan, m) /\ Ahead(m.of, Back')
                            /\ m.of \subseteq Back \cup (Events' \ Events)
  BY <1>5
<1> QED
  BY <1>1, <1>4, <1>6, <1>7, <1>8, <1>9, Sends

LEMMA SendKeeps == ASSUME LineInv, SendTap PROVE LineInv'
<1>1. /\ sending # NONE /\ sending' = NONE /\ chan' = TrySend(chan, sending)
      /\ UNCHANGED <<made, pending, carry, phase, event, got>>
  BY DEF SendTap
<1>2. /\ sending \in Message /\ pending = NONE /\ Back = sending.of /\ Back' = {}
  BY <1>1, Messages DEF LineInv, LineShape, Back
<1>3. \/ chan' = chan
      \/ chan' = Append(chan, sending) /\ Ahead(sending.of, Back') /\ Len(chan) < Cap
  BY <1>1, <1>2 DEF TrySend, Accepts, Ahead
<1>4. LineShape'
  <2>1. chan' \in Seq(Message) /\ Len(chan') <= Cap
    BY <1>2, <1>3, Fits
  <2> QED
    BY <1>1, <2>1 DEF LineInv, LineShape
<1>5. Sorted' /\ Events' = Events
  BY <1>1, <1>2, Messages DEF LineInv, Sorted, Events
<1> QED
  BY <1>1, <1>2, <1>3, <1>4, <1>5, Sends

-----------------------------------------------------------------------------
(* The drive task's side *)

(* The task leaves the line as it is. *)
LEMMA SameLine ==
  ASSUME LineInv, UNCHANGED <<made, pending, sending, chan, carry, got>>,
         (phase # "coalesce" /\ phase' # "coalesce") \/ (phase' = phase /\ event' = event)
  PROVE  LineInv'
<1>1. Front' = Front /\ Back' = Back /\ Events' = Events
  BY DEF Front, Back, Events, InHand, Carried
<1>2. LineShape'
  BY DEF LineInv, LineShape
<1>3. Numbered' /\ Ordered'
  BY <1>1 DEF LineInv, Numbered, Ordered
<1>4. Sorted'
  BY DEF LineInv, Sorted, Carried
<1> QED
  BY <1>2, <1>3, <1>4 DEF LineInv

(* It ends, and what was on the channel is gone. *)
LEMMA HaltKeeps ==
  ASSUME LineInv, NEW why, Halt(why), UNCHANGED <<ui, got>>
  PROVE  LineInv'
<1>1. /\ chan' = <<>> /\ carry' = NONE /\ phase' = "off"
      /\ UNCHANGED <<made, pending, sending, got>>
  BY DEF Halt, ui
<1>2. Front' = {} /\ Back' = Back /\ Events' = Events
  BY <1>1, Messages DEF Front, Back, Events, InHand, Carried
<1>3. LineShape'
  BY <1>1, ReactorAssumption DEF LineInv, LineShape, ReactorAssumption
<1>4. Numbered' /\ Ordered'
  BY <1>1, <1>2 DEF LineInv, Numbered, Ordered, Ahead
<1>5. Sorted'
  BY <1>1 DEF LineInv, Sorted, Carried
<1> QED
  BY <1>3, <1>4, <1>5 DEF LineInv

(* The first of the channel. *)
LEMMA TailOf ==
  ASSUME chan \in Seq(Message), chan # <<>>, chan' = Tail(chan)
  PROVE  /\ Head(chan) \in Message /\ Head(chan) = chan[1] /\ 1 \in 1 .. Len(chan)
         /\ chan' \in Seq(Message) /\ Len(chan') = Len(chan) - 1 /\ Len(chan) \in Nat
         /\ \A i \in 1 .. Len(chan') : /\ i + 1 \in 1 .. Len(chan) /\ 1 < i + 1
                                       /\ chan'[i] = chan[i + 1]
OBVIOUS

(* The first of the channel is in hand, or the guest has it. *)
LEMMA Taken1 ==
  ASSUME LineInv, chan # <<>>, chan' = Tail(chan), LineShape',
         UNCHANGED <<made, pending, sending>>,
         got' \cup Front' = got \cup Front \cup Head(chan).of,
         Ahead(got', Front')
  PROVE  LineInv'
<1> USE DEF LineInv
<1>1. /\ Head(chan) = chan[1] /\ 1 \in 1 .. Len(chan)
      /\ \A i \in 1 .. Len(chan') : /\ i + 1 \in 1 .. Len(chan) /\ 1 < i + 1
                                    /\ chan'[i] = chan[i + 1]
  BY TailOf DEF LineShape
<1>2. Back' = Back /\ Events' = Events
  BY DEF Back, Carried, Events
<1>3. Ahead(Head(chan).of, Back) /\ Head(chan).of \subseteq Events
  BY <1>1 DEF Ordered, Numbered
<1>4. Numbered'
  BY <1>1, <1>2, <1>3 DEF Numbered
<1>5. \A i \in 1 .. Len(chan') :
        Ahead(got', chan'[i].of) /\ Ahead(Front', chan'[i].of) /\ Ahead(chan'[i].of, Back')
  <2> SUFFICES ASSUME NEW i \in 1 .. Len(chan')
               PROVE  /\ Ahead(got', chan'[i].of) /\ Ahead(Front', chan'[i].of)
                      /\ Ahead(chan'[i].of, Back')
    OBVIOUS
  <2>1. /\ Ahead(got, chan[i + 1].of) /\ Ahead(Front, chan[i + 1].of)
        /\ Ahead(chan[i + 1].of, Back) /\ Ahead(chan[1].of, chan[i + 1].of)
    BY <1>1 DEF Ordered
  <2> QED
    BY <1>1, <1>2, <2>1 DEF Ahead
<1>6. \A i, j \in 1 .. Len(chan') : i < j => Ahead(chan'[i].of, chan'[j].of)
  <2> SUFFICES ASSUME NEW i \in 1 .. Len(chan'), NEW j \in 1 .. Len(chan'), i < j
               PROVE  Ahead(chan'[i].of, chan'[j].of)
    OBVIOUS
  <2> QED
    BY <1>1 DEF Ordered
<1>7. Ahead(got', Back') /\ Ahead(Front', Back')
  BY <1>2, <1>3 DEF Ordered, Ahead
<1>8. Sorted'
  BY DEF Sorted, Carried
<1> QED
  BY <1>4, <1>5, <1>6, <1>7, <1>8 DEF Ordered

(* What is in front of the line reaches the guest. *)
LEMMA Reached ==
  ASSUME LineInv, LineShape', UNCHANGED <<made, pending, sending, chan>>,
         got' \cup Front' = got \cup Front, Ahead(got', Front')
  PROVE  LineInv'
<1>1. Back' = Back /\ Events' = Events
  BY DEF Back, Carried, Events
<1>2. Numbered' /\ Ordered'
  BY <1>1 DEF LineInv, Numbered, Ordered, Ahead
<1>3. Sorted'
  BY DEF LineInv, Sorted, Carried
<1> QED
  BY <1>2, <1>3 DEF LineInv

LEMMA WakeKeeps == ASSUME LineInv, WakePointer PROVE LineInv'
<1> DEFINE m == IF carry # NONE THEN carry ELSE Head(chan)
<1>1. /\ phase = "select" /\ (carry # NONE \/ chan # <<>>)
      /\ event' = m /\ phase' = IF m.kind = "scroll" THEN "coalesce" ELSE "update"
      /\ got' = IF m.kind = "scroll" THEN got ELSE got \cup m.of
      /\ carry' = NONE /\ chan' = IF carry # NONE THEN chan ELSE Tail(chan)
      /\ UNCHANGED <<made, pending, sending>>
  BY DEF WakePointer, ui
<1>2. m \in Message
  BY <1>1 DEF LineInv, LineShape
<1>3. InHand = {} /\ Carried(carry') = {}
  BY <1>1, Messages DEF InHand
<1>4. got' \cup Front' = got \cup m.of /\ (Front' = {} \/ (got' = got /\ Front' = m.of))
  <2>1. CASE m.kind = "scroll"
    <3>1. got' = got /\ InHand' = m.of
      BY <1>1, <2>1 DEF InHand
    <3>2. Front' = m.of
      BY <1>3, <3>1 DEF Front
    <3> QED
      BY <3>1, <3>2
  <2>2. CASE m.kind # "scroll"
    <3>1. got' = got \cup m.of /\ InHand' = {}
      BY <1>1, <2>2 DEF InHand
    <3>2. Front' = {}
      BY <1>3, <3>1 DEF Front
    <3>3. got' \cup Front' = got \cup m.of
      BY <3>1, <3>2, Zenon
    <3> QED
      BY <3>2, <3>3
  <2> QED
    BY <2>1, <2>2
<1>5. Ahead(got, m.of) => Ahead(got', Front')
  BY <1>4 DEF Ahead
<1>6. LineShape'
  BY <1>1, <1>2, ReactorAssumption DEF LineInv, LineShape, ReactorAssumption
<1>7. CASE carry # NONE
  <2>1. Front = m.of
    BY <1>2, <1>3, <1>7, Messages DEF Front
  <2> QED
    BY <1>1, <1>4, <1>5, <1>6, <1>7, <2>1, Reached DEF LineInv, Ordered
<1>8. CASE carry = NONE
  <2>1. Front = {} /\ m = Head(chan) /\ chan # <<>> /\ chan' = Tail(chan)
    BY <1>1, <1>3, <1>8, Messages DEF Front
  <2>2. Ahead(got, m.of)
    BY <2>1, TailOf DEF LineInv, LineShape, Ordered
  <2> QED
    BY <1>1, <1>4, <1>5, <1>6, <2>1, <2>2, Taken1
<1> QED
  BY <1>7, <1>8

LEMMA CoalesceKeeps == ASSUME LineInv, Coalesce PROVE LineInv'
<1>1. /\ phase = "coalesce" /\ event \in Message /\ carry = NONE
      /\ UNCHANGED <<made, pending, sending>>
  BY DEF Coalesce, LineInv, LineShape, ui
<1>2. Front = event.of
  BY <1>1, Messages DEF Front, InHand
<1>3. CASE chan # <<>> /\ Head(chan).kind = "scroll"
  <2>1. /\ chan' = Tail(chan) /\ event' = Merge(event, Head(chan))
        /\ UNCHANGED <<phase, carry, got>>
    BY <1>3 DEF Coalesce
  <2>2. Head(chan) \in Message /\ Head(chan) = chan[1] /\ 1 \in 1 .. Len(chan)
    BY <1>3, <2>1, TailOf DEF LineInv, LineShape
  <2>3. event' \in Message /\ event'.of = event.of \cup Head(chan).of
    BY <1>1, <2>1, <2>2 DEF Merge, Scroll, Message
  <2>4. Front' = event'.of
    BY <1>1, <2>1, Messages DEF Front, InHand
  <2>5. LineShape'
    BY <1>1, <1>3, <2>1, <2>3, TailOf, ReactorAssumption DEF LineInv, LineShape, ReactorAssumption
  <2>6. Ahead(got, Front) /\ Ahead(got, Head(chan).of)
    BY <2>2 DEF LineInv, Ordered
  <2>7. Ahead(got', Front')
    BY <1>2, <2>1, <2>3, <2>4, <2>6 DEF Ahead
  <2>8. got' \cup Front' = got \cup Front \cup Head(chan).of
    BY <1>2, <2>1, <2>3, <2>4
  <2> QED
    BY <1>1, <1>3, <2>1, <2>5, <2>7, <2>8, Taken1
<1>4. CASE chan # <<>> /\ Head(chan).kind = "tap"
  <2>1. /\ chan' = Tail(chan) /\ carry' = Head(chan) /\ phase' = "update"
        /\ got' = got \cup event.of
    BY <1>4 DEF Coalesce
  <2>2. Head(chan) \in Message /\ Head(chan) = chan[1] /\ 1 \in 1 .. Len(chan)
    BY <1>4, <2>1, TailOf DEF LineInv, LineShape
  <2>3. Front' = Head(chan).of
    BY <2>1, <2>2, Messages DEF Front, InHand
  <2>4. LineShape'
    BY <1>1, <1>4, <2>1, <2>2, TailOf, ReactorAssumption DEF LineInv, LineShape, ReactorAssumption
  <2>5. Ahead(got, Head(chan).of) /\ Ahead(Front, Head(chan).of)
    BY <2>2 DEF LineInv, Ordered
  <2>6. Ahead(got', Front')
    BY <1>2, <2>1, <2>3, <2>5 DEF Ahead
  <2>7. got' \cup Front' = got \cup Front \cup Head(chan).of
    BY <1>2, <2>1, <2>3
  <2> QED
    BY <1>1, <1>4, <2>1, <2>4, <2>6, <2>7, Taken1
<1>5. CASE ~(chan # <<>> /\ Head(chan).kind = "scroll") /\ ~(chan # <<>> /\ Head(chan).kind = "tap")
  <2>1. phase' = "update" /\ got' = got \cup event.of /\ UNCHANGED <<chan, carry>>
    BY <1>5 DEF Coalesce
  <2>2. Front' = {}
    BY <1>1, <2>1, Messages DEF Front, InHand
  <2>3. LineShape'
    BY <1>1, <2>1 DEF LineInv, LineShape
  <2>4. Ahead(got', Front') /\ got' \cup Front' = got \cup Front
    BY <1>2, <2>1, <2>2 DEF Ahead
  <2> QED
    BY <1>1, <2>1, <2>3, <2>4, Reached
<1> QED
  BY <1>3, <1>4, <1>5

-----------------------------------------------------------------------------
(* The actions that take nothing from the line and put nothing on it. *)
Rests ==
  \/ WakeSample \/ WakeTimer \/ Gate \/ Park \/ Answered \/ GuestDraws \/ GuestReturns
  \/ SampleFeed \/ Tick \/ (Load /\ phase' # "off") \/ (WallElapses /\ phase' # "off")

(* Those that end the task. *)
Halts == GuestTraps \/ Shutdown \/ (Load /\ phase' = "off") \/ (WallElapses /\ phase' = "off")

LEMMA Acts ==
  ReactorNext <=>
    \/ \E a \in Areas : UserScrolls(a) \/ UserTaps(a)
    \/ SendTap \/ WakePointer \/ Coalesce \/ Rests \/ Halts
BY DEF ReactorNext, User, Loop, Guest, Rests, Halts

LEMMA RestsAre ==
  ASSUME Rests
  PROVE  /\ UNCHANGED <<made, pending, sending, chan, carry, got>>
         /\ phase # "off" /\ phase' # "off"
         /\ (phase # "coalesce" /\ phase' # "coalesce") \/ (phase' = phase /\ event' = event)
<1>1. CASE WakeSample \/ WakeTimer
  BY <1>1 DEF WakeSample, WakeTimer, Quiet, Handle, ui
<1>2. CASE Gate
  BY <1>2 DEF Gate, ui
<1>3. CASE Park \/ Answered \/ GuestDraws
  BY <1>3 DEF Park, Answered, GuestDraws, Calls, ui
<1>4. CASE GuestReturns
  BY <1>4 DEF GuestReturns, ui
<1>5. CASE SampleFeed
  BY <1>5 DEF SampleFeed, ui
<1>6. CASE Tick
  BY <1>6 DEF Tick, Asleep, Quiet, Calls, ui
<1>7. CASE Load /\ phase' # "off"
  BY <1>7 DEF Load, Halt, Handle, ui
<1>8. CASE WallElapses /\ phase' # "off"
  BY <1>8 DEF WallElapses, Halt, Calls, ui
<1> QED
  BY <1>1, <1>2, <1>3, <1>4, <1>5, <1>6, <1>7, <1>8 DEF Rests

LEMMA HaltsAre ==
  ASSUME Halts
  PROVE  phase' = "off" /\ (\E why : Halt(why)) /\ UNCHANGED <<ui, got>>
<1>1. CASE GuestTraps
  BY <1>1 DEF GuestTraps, Halt
<1>2. CASE Shutdown
  BY <1>2 DEF Shutdown, Halt
<1>3. CASE Load /\ phase' = "off"
  BY <1>3 DEF Load, Halt, Handle
<1>4. CASE WallElapses /\ phase' = "off"
  BY <1>4 DEF WallElapses, Halt, Calls
<1> QED
  BY <1>1, <1>2, <1>3, <1>4 DEF Halts

LEMMA LineKeeps == LineInv /\ [ReactorNext]_reactorVars => LineInv'
<1> SUFFICES ASSUME LineInv, [ReactorNext]_reactorVars PROVE LineInv'
  OBVIOUS
<1>1. ASSUME NEW a \in Areas, UserScrolls(a) \/ UserTaps(a) PROVE LineInv'
  BY <1>1, ScrollKeeps, TapKeeps
<1>2. CASE SendTap
  BY <1>2, SendKeeps
<1>3. CASE WakePointer \/ Coalesce
  BY <1>3, WakeKeeps, CoalesceKeeps
<1>4. CASE Rests
  BY <1>4, RestsAre, SameLine
<1>5. CASE Halts
  BY <1>5, HaltsAre, HaltKeeps
<1>6. CASE UNCHANGED reactorVars
  BY <1>6, SameLine DEF reactorVars, ui
<1> QED
  BY <1>1, <1>2, <1>3, <1>4, <1>5, <1>6, Acts

LEMMA LineHolds == ReactorSpec => []LineInv
BY LineStarts, LineKeeps, PTL DEF ReactorSpec

-----------------------------------------------------------------------------
(* What the guest is given next has a higher number than all it was given.  *)
LEMMA GivenInOrder ==
  ASSUME LineInv, [ReactorNext]_reactorVars
  PROVE  \A n \in got' \ got, o \in got : o < n
<1>1. CASE WakePointer
  <2> DEFINE m == IF carry # NONE THEN carry ELSE Head(chan)
  <2>1. got' \subseteq got \cup m.of /\ (carry # NONE \/ chan # <<>>)
    BY <1>1 DEF WakePointer
  <2>2. Ahead(got, m.of)
    <3>1. CASE carry # NONE
      BY <3>1, Messages DEF LineInv, LineShape, Ordered, Front, Ahead
    <3>2. CASE carry = NONE
      <4>1. chan \in Seq(Message) /\ chan # <<>>
        BY <2>1, <3>2 DEF LineInv, LineShape
      <4>2. Head(chan) = chan[1] /\ 1 \in 1 .. Len(chan)
        BY <4>1
      <4> QED
        BY <3>2, <4>2 DEF LineInv, Ordered
    <3> QED
      BY <3>1, <3>2
  <2> QED
    BY <2>1, <2>2 DEF Ahead
<1>2. CASE Coalesce
  <2>1. got' \subseteq got \cup event.of /\ phase = "coalesce"
    BY <1>2 DEF Coalesce
  <2> QED
    BY <2>1 DEF LineInv, Ordered, Front, InHand, Ahead
<1>3. CASE Rests \/ Halts \/ SendTap \/ UNCHANGED reactorVars
  BY <1>3, RestsAre, HaltsAre DEF SendTap, reactorVars
<1>4. ASSUME NEW a \in Areas, UserScrolls(a) \/ UserTaps(a) PROVE got' = got
  BY <1>4 DEF UserScrolls, UserTaps
<1> QED
  BY <1>1, <1>2, <1>3, <1>4, Acts

(* A tap never passes a scroll, nor a scroll a tap. *)
LEMMA ReactorInOrder == ReactorSpec => InOrder
<1>1. LineInv /\ [ReactorNext]_reactorVars => [\A n \in got' \ got, o \in got : o < n]_reactorVars
  BY GivenInOrder
<1> QED
  BY <1>1, LineHolds, PTL DEF InOrder, ReactorSpec

-----------------------------------------------------------------------------
(* What is in the line, or with the guest, stays so but for what a tap      *)
(* loses.                                                                   *)
Line == Queued \cup InHand \cup got

LEMMA LineHas ==
  ASSUME NEW n
  PROVE  n \in Line <=> (\E i \in 1 .. Len(chan) : n \in chan[i].of) \/ n \in Front \cup Back \cup got
BY QueuedHas DEF Line, Front

LEMMA LineHasThen ==
  ASSUME NEW n
  PROVE  n \in Line' <=>
           (\E i \in 1 .. Len(chan') : n \in chan'[i].of) \/ n \in Front' \cup Back' \cup got'
BY DEF Line, Front, Queued, Back

(* The loss that ScrollsMerge allows. *)
Loses(n) ==
  /\ Len(chan) = Cap
  /\ IF made'[n].kind = "scroll" THEN sending = NONE /\ sending' # NONE
                                 ELSE sending # NONE /\ sending' = NONE

(* The first of the channel goes to the front. *)
LEMMA TakenStays ==
  ASSUME chan \in Seq(Message), chan # <<>>, chan' = Tail(chan), NEW n \in Line,
         UNCHANGED <<pending, sending>>,
         got \cup Front \cup Head(chan).of \subseteq got' \cup Front'
  PROVE  n \in Line'
<1>1. /\ Head(chan) = chan[1] /\ Len(chan) \in Nat
      /\ \A i \in 1 .. Len(chan) : i = 1 \/ (i - 1 \in 1 .. Len(chan') /\ chan'[i - 1] = chan[i])
  OBVIOUS
<1>2. Back' = Back
  BY DEF Back, Carried
<1>3. CASE n \in Front \cup Back \cup got
  BY <1>2, <1>3, LineHasThen
<1>4. ASSUME NEW i \in 1 .. Len(chan), n \in chan[i].of PROVE n \in Line'
  BY <1>1, <1>4, LineHasThen
<1> QED
  BY <1>3, <1>4, LineHas

LEMMA WakeLosesNone ==
  ASSUME LineInv, WakePointer, NEW n \in Line
  PROVE  n \in Line'
<1> DEFINE m == IF carry # NONE THEN carry ELSE Head(chan)
<1>1. /\ phase = "select" /\ (carry # NONE \/ chan # <<>>)
      /\ event' = m /\ phase' = IF m.kind = "scroll" THEN "coalesce" ELSE "update"
      /\ got' = IF m.kind = "scroll" THEN got ELSE got \cup m.of
      /\ chan' = IF carry # NONE THEN chan ELSE Tail(chan)
      /\ UNCHANGED <<pending, sending>>
  BY DEF WakePointer, ui
<1>2. got \cup m.of \subseteq got' \cup Front'
  BY <1>1 DEF Front, InHand
<1>3. InHand = {}
  BY <1>1 DEF InHand
<1>4. CASE carry # NONE
  <2>1. Front = m.of /\ chan' = chan /\ Back' = Back
    BY <1>1, <1>3, <1>4, Messages DEF LineInv, LineShape, Front, Back, Carried
  <2> QED
    BY <1>2, <2>1, LineHas, LineHasThen
<1>5. CASE carry = NONE
  <2>1. Front = {} /\ m = Head(chan) /\ chan # <<>> /\ chan' = Tail(chan)
    BY <1>1, <1>3, <1>5, Messages DEF Front
  <2> QED
    BY <1>1, <1>2, <2>1, TakenStays DEF LineInv, LineShape
<1> QED
  BY <1>4, <1>5

LEMMA CoalesceLosesNone ==
  ASSUME LineInv, Coalesce, NEW n \in Line
  PROVE  n \in Line'
<1>1. /\ phase = "coalesce" /\ event \in Message /\ carry = NONE
      /\ UNCHANGED <<pending, sending>>
  BY DEF Coalesce, LineInv, LineShape, ui
<1>2. Front = event.of
  BY <1>1, Messages DEF Front, InHand
<1>3. CASE chan # <<>> /\ Head(chan).kind = "scroll"
  <2>1. /\ chan' = Tail(chan) /\ event' = Merge(event, Head(chan))
        /\ UNCHANGED <<phase, carry, got>>
    BY <1>3 DEF Coalesce
  <2>2. event'.of = event.of \cup Head(chan).of
    BY <2>1 DEF Merge, Scroll
  <2>3. event'.of \subseteq Front'
    BY <1>1, <2>1 DEF Front, InHand
  <2> QED
    BY <1>1, <1>2, <1>3, <2>1, <2>2, <2>3, TakenStays DEF LineInv, LineShape
<1>4. CASE chan # <<>> /\ Head(chan).kind = "tap"
  <2>1. /\ chan' = Tail(chan) /\ carry' = Head(chan) /\ got' = got \cup event.of
    BY <1>4 DEF Coalesce
  <2>2. Head(chan).of \subseteq Front'
    <3>1. Head(chan) \in Message
      BY <1>4, <2>1, TailOf DEF LineInv, LineShape
    <3> QED
      BY <2>1, <3>1, Messages DEF Front
  <2> QED
    BY <1>1, <1>2, <1>4, <2>1, <2>2, TakenStays DEF LineInv, LineShape
<1>5. CASE ~(chan # <<>> /\ Head(chan).kind = "scroll") /\ ~(chan # <<>> /\ Head(chan).kind = "tap")
  <2>1. got' = got \cup event.of /\ UNCHANGED <<chan, carry>>
    BY <1>5 DEF Coalesce
  <2>2. Back' = Back
    BY <1>1 DEF Back, Carried
  <2> QED
    BY <1>2, <2>1, <2>2, LineHas, LineHasThen
<1> QED
  BY <1>3, <1>4, <1>5

(* A scroll takes what is pending along. *)
LEMMA ScrollLosesNone ==
  ASSUME LineInv, NEW a \in Areas, UserScrolls(a), NEW n \in Events', n \in Line \/ n \notin Events
  PROVE  n \in Line'
<1> DEFINE N == Len(made) + 1
           merged == Scroll(a, {N} \cup Carried(pending))
<1>1. /\ Made("scroll", a) /\ sending = NONE /\ sending' = NONE
      /\ UNCHANGED <<carry, phase, event, got>>
  BY DEF UserScrolls, Made
<1>2. /\ chan' = TrySend(chan, merged)
      /\ pending' = IF Accepts(chan) THEN NONE ELSE merged
  BY Messages DEF UserScrolls, Carried, LineInv, LineShape
<1>3. Back = Carried(pending) /\ Front' = Front /\ Carried(pending) \subseteq Events
  BY <1>1, Messages DEF Back, Front, InHand, Carried, LineInv, Numbered
<1>4. merged \in Message /\ merged.of = {N} \cup Carried(pending)
  BY <1>1, <1>3, MadeOne, Messages DEF Scroll, Message
<1>5. n = N \/ n \in Line
  BY <1>1, MadeOne
<1>6. chan \in Seq(Message)
  BY DEF LineInv, LineShape
<1>7. CASE Accepts(chan)
  <2>1. chan' = Append(chan, merged)
    BY <1>2, <1>7 DEF TrySend
  <2>2. /\ Len(chan) \in Nat /\ Len(chan') = Len(chan) + 1 /\ chan'[Len(chan) + 1] = merged
        /\ \A i \in 1 .. Len(chan) : i \in 1 .. Len(chan') /\ chan'[i] = chan[i]
    BY <1>4, <1>6, <2>1
  <2>3. Len(chan) + 1 \in 1 .. Len(chan')
    BY <2>2
  <2>4. \A k \in merged.of : k \in Line'
    BY <2>2, <2>3, LineHasThen
  <2> QED
    BY <1>1, <1>3, <1>4, <1>5, <2>2, <2>4, LineHas, LineHasThen
<1>8. CASE ~Accepts(chan)
  <2>1. chan' = chan /\ pending' = merged
    BY <1>2, <1>8 DEF TrySend
  <2>2. merged.of \subseteq Back'
    BY <1>4, <2>1, Messages DEF Back
  <2> QED
    BY <1>1, <1>3, <1>4, <1>5, <2>1, <2>2, LineHas, LineHasThen
<1> QED
  BY <1>7, <1>8

(* A tap that finds the channel full loses the scroll it flushes. *)
LEMMA TapLoses ==
  ASSUME LineInv, NEW a \in Areas, UserTaps(a), phase # "off",
         NEW n \in Events', n \in Line \/ n \notin Events, n \notin Line'
  PROVE  Loses(n)
<1> DEFINE N == Len(made) + 1
<1>1. /\ Made("tap", a) /\ sending = NONE /\ sending' = Tap(a, N) /\ pending' = NONE
      /\ chan' = IF pending = NONE THEN chan ELSE TrySend(chan, pending)
      /\ UNCHANGED <<carry, phase, event, got>>
  BY DEF UserTaps, Made
<1>2. sending' \in Message /\ sending'.of = {N} /\ sending' # NONE
  BY <1>1, MadeOne, Messages DEF Tap, Message
<1>3. Back = Carried(pending) /\ Front' = Front /\ Back' = {N}
  BY <1>1, <1>2, Messages DEF Back, Front, InHand, Carried
<1>4. n \in Line /\ n \in Events
  BY <1>1, <1>3, MadeOne, LineHasThen
<1>5. chan \in Seq(Message) /\ Len(chan) <= Cap
  BY DEF LineInv, LineShape
<1>6. /\ \A i \in 1 .. Len(chan) : i \in 1 .. Len(chan') /\ chan'[i] = chan[i]
      /\ pending \in Message /\ Accepts(chan) =>
           Len(chan) + 1 \in 1 .. Len(chan') /\ chan'[Len(chan) + 1] = pending
  <2>1. CASE chan' = chan /\ ~(pending \in Message /\ Accepts(chan))
    BY <2>1
  <2>2. CASE chan' = Append(chan, pending) /\ pending \in Message
    BY <1>5, <2>2
  <2> QED
    BY <1>1, <2>1, <2>2, Messages DEF TrySend, LineInv, LineShape
<1>7. n \in Carried(pending)
  BY <1>1, <1>3, <1>4, <1>6, LineHas, LineHasThen
<1>8. pending \in Message /\ n \in pending.of
  BY <1>7, Messages DEF LineInv, LineShape
<1>9. ~Accepts(chan)
  BY <1>6, <1>8, LineHasThen
<1>10. Len(chan) = Cap
  BY <1>5, <1>9, ReactorAssumption DEF Accepts, ReactorAssumption
<1>11. made'[n].kind = "scroll"
  BY <1>1, <1>4, <1>7, MadeOne DEF LineInv, Sorted
<1> QED
  BY <1>1, <1>2, <1>10, <1>11 DEF Loses

(* And the tap itself is lost when it finds the channel full. *)
LEMMA SendLoses ==
  ASSUME LineInv, SendTap, phase # "off", NEW n \in Line, n \notin Line'
  PROVE  Loses(n)
<1>1. /\ sending # NONE /\ sending' = NONE /\ chan' = TrySend(chan, sending)
      /\ UNCHANGED <<made, pending, carry, phase, event, got>>
  BY DEF SendTap
<1>2. /\ sending \in Message /\ pending = NONE /\ Back = sending.of /\ Front' = Front
  BY <1>1, Messages DEF LineInv, LineShape, Back, Front, InHand, Carried
<1>3. chan \in Seq(Message) /\ Len(chan) <= Cap
  BY DEF LineInv, LineShape
<1>4. /\ \A i \in 1 .. Len(chan) : i \in 1 .. Len(chan') /\ chan'[i] = chan[i]
      /\ Accepts(chan) => Len(chan) + 1 \in 1 .. Len(chan') /\ chan'[Len(chan) + 1] = sending
  <2>1. CASE chan' = chan /\ ~Accepts(chan)
    BY <2>1
  <2>2. CASE chan' = Append(chan, sending)
    BY <1>2, <1>3, <2>2
  <2> QED
    BY <1>1, <2>1, <2>2 DEF TrySend
<1>5. n \in sending.of /\ ~Accepts(chan)
  BY <1>1, <1>2, <1>4, LineHas, LineHasThen
<1>6. Len(chan) = Cap
  BY <1>3, <1>5, ReactorAssumption DEF Accepts, ReactorAssumption
<1>7. made'[n].kind = "tap"
  BY <1>1, <1>2, <1>5, Messages DEF LineInv, Sorted
<1> QED
  BY <1>1, <1>6, <1>7 DEF Loses

LEMMA LossesAllowed ==
  ASSUME LineInv, [ReactorNext]_reactorVars
  PROVE  \A n \in Lost' \ Lost : Loses(n)
<1> SUFFICES ASSUME NEW n \in Lost' \ Lost PROVE Loses(n)
  OBVIOUS
<1>1. phase' # "off" /\ n \in Events' /\ n \notin Line'
  BY DEF Lost, Line
<1>2. phase # "off" => n \in Line \/ n \notin Events
  BY DEF Lost, Line
<1>3. CASE Halts
  BY <1>1, <1>3, HaltsAre
<1>4. CASE Rests \/ UNCHANGED reactorVars
  <2>1. UNCHANGED <<made, pending, sending, chan, carry, got>>
    BY <1>4, RestsAre DEF reactorVars, ui
  <2>2. (phase' = "off" <=> phase = "off") /\ InHand' = InHand
    BY <1>4, RestsAre DEF InHand, reactorVars
  <2>3. Lost' = Lost
    BY <2>1, <2>2 DEF Lost, Events, Queued, Carried
  <2> QED
    BY <2>3
<1>5. CASE WakePointer \/ Coalesce
  <2>1. phase # "off" /\ Events' = Events
    BY <1>5 DEF WakePointer, Coalesce, ui, Events
  <2> QED
    BY <1>1, <1>2, <1>5, <2>1, WakeLosesNone, CoalesceLosesNone
<1>6. CASE SendTap
  <2>1. phase' = phase /\ Events' = Events
    BY <1>6 DEF SendTap, Events
  <2> QED
    BY <1>1, <1>2, <1>6, <2>1, SendLoses
<1>7. ASSUME NEW a \in Areas, UserScrolls(a) \/ UserTaps(a) PROVE Loses(n)
  <2>1. phase' = phase
    BY <1>7 DEF UserScrolls, UserTaps
  <2> QED
    BY <1>1, <1>2, <1>7, <2>1, ScrollLosesNone, TapLoses
<1> QED
  BY <1>3, <1>4, <1>5, <1>6, <1>7, Acts

(* For any areas, channel, limits and delays: the guest is given pointer    *)
(* events in the order they were made, a tap never passes a scroll, and     *)
(* nothing is lost but the tap that meets a full channel, with the scroll   *)
(* it flushes.                                                              *)
THEOREM ReactorInputInOrder == ReactorSpec => InputInOrder
<1>1. LineInv /\ [ReactorNext]_reactorVars =>
        [\A n \in Lost' \ Lost : Loses(n)]_reactorVars
  BY LossesAllowed
<1>2. ReactorSpec => ScrollsMerge
  BY <1>1, LineHolds, PTL DEF ScrollsMerge, Loses, ReactorSpec
<1> QED
  BY <1>2, ReactorInOrder DEF InputInOrder

-----------------------------------------------------------------------------
(* The streams of a plugin *)

(* Counting up to N: what holds of 0 and of every successor holds up to N.  *)
LEMMA UpTo ==
  ASSUME NEW N \in Nat, NEW G, 0 \in G, \A n \in 0 .. N - 1 : n \in G => n + 1 \in G
  PROVE  0 .. N \subseteq G
<1> DEFINE Segments == {0 .. i : i \in (0 .. N) \ G}
<1> SUFFICES ASSUME (0 .. N) \ G # {} PROVE FALSE
  OBVIOUS
<1>1. Segments # {} /\ Segments \subseteq FiniteSubsetsOf(Nat)
  <2>1. \A i \in Nat : IsFiniteSet(0 .. i) /\ 0 .. i \in SUBSET Nat
    BY FS_Interval
  <2>2. QED
    BY <2>1 DEF FiniteSubsetsOf
<1>2. PICK m \in Segments : \A l \in Segments : <<l, m>> \notin StrictSubsetOrdering(Nat)
  BY <1>1, FS_StrictSubsetOrderingWellFounded, WFMin
<1>3. PICK i \in (0 .. N) \ G : m = 0 .. i
  OBVIOUS
<1>4. i - 1 \in (0 .. N) \ G
  BY <1>3
<1>5. 0 .. i - 1 \in Segments /\ 0 .. i - 1 \subseteq 0 .. i /\ 0 .. i - 1 # 0 .. i
  BY <1>3, <1>4
<1>6. <<0 .. i - 1, m>> \in StrictSubsetOrdering(Nat)
  BY <1>3, <1>5 DEF StrictSubsetOrdering
<1>7. QED
  BY <1>2, <1>5, <1>6

-----------------------------------------------------------------------------
(* The chunks of a body, one after another *)

Wires == Seq(Seq(Bytes))

Flattens(w, f) == f = [n \in 0 .. Len(w) |-> IF n = 0 THEN << >> ELSE f[n - 1] \o w[n]]

(* The first n chunks. *)
FirstChunks(w, n, g) ==
  /\ g \in [0 .. n -> Seq(Bytes)]
  /\ g[0] = << >>
  /\ \A m \in 1 .. n : g[m] = g[m - 1] \o w[m]

LEMMA WireTypes ==
  ASSUME NEW w \in Wires
  PROVE  Len(w) \in Nat /\ \A n \in 1 .. Len(w) : w[n] \in Seq(Bytes)
  BY DEF Wires

LEMMA NextChunk ==
  ASSUME NEW w \in Wires, NEW n \in 0 .. Len(w) - 1, NEW g, FirstChunks(w, n, g)
  PROVE  \E h : FirstChunks(w, n + 1, h)
<1>1. n \in Nat /\ n + 1 \in 1 .. Len(w) /\ w[n + 1] \in Seq(Bytes)
  BY WireTypes
<1>2. g[n] \o w[n + 1] \in Seq(Bytes)
  BY <1>1, ConcatProperties DEF FirstChunks
<1> DEFINE h == [m \in 0 .. n + 1 |-> IF m = n + 1 THEN g[n] \o w[n + 1] ELSE g[m]]
<1>3. h \in [0 .. n + 1 -> Seq(Bytes)]
  BY <1>1, <1>2 DEF FirstChunks
<1>4. h[0] = << >>
  BY <1>1 DEF FirstChunks
<1>5. \A m \in 1 .. n + 1 : h[m] = h[m - 1] \o w[m]
  <2>1. TAKE m \in 1 .. n + 1
  <2>2. m \in 0 .. n + 1 /\ m - 1 \in 0 .. n /\ m - 1 \in 0 .. n + 1 /\ m - 1 # n + 1
    BY <1>1
  <2>3. h[m - 1] = g[m - 1]
    BY <2>2
  <2>4. CASE m = n + 1
    <3>1. m - 1 = n
      BY <1>1, <2>4
    <3>2. h[m] = g[n] \o w[m]
      BY <2>2, <2>4
    <3>3. QED
      BY <2>3, <3>1, <3>2
  <2>5. CASE m # n + 1
    <3>1. m \in 1 .. n
      BY <1>1, <2>5
    <3>2. QED
      BY <2>2, <2>3, <2>5, <3>1 DEF FirstChunks
  <2>6. QED
    BY <2>4, <2>5
<1> HIDE DEF h
<1>6. QED
  BY <1>3, <1>4, <1>5 DEF FirstChunks

(* There is a function that Flat means. *)
LEMMA FlattensExists ==
  ASSUME NEW w \in Wires
  PROVE  \E f : Flattens(w, f)
<1> DEFINE G == {n \in 0 .. Len(w) : \E g : FirstChunks(w, n, g)}
<1>1. Len(w) \in Nat /\ 0 \in 0 .. Len(w) /\ Len(w) \in 0 .. Len(w)
  BY WireTypes
<1>2. 0 \in G
  <2>1. FirstChunks(w, 0, [n \in 0 .. 0 |-> << >>])
    BY DEF FirstChunks
  <2>2. QED
    BY <1>1, <2>1
<1>3. ASSUME NEW n \in 0 .. Len(w) - 1, n \in G PROVE n + 1 \in G
  BY <1>1, <1>3, NextChunk
<1>4. PICK g : FirstChunks(w, Len(w), g)
  <2> HIDE DEF G
  <2>1. Len(w) \in G
    BY <1>1, <1>2, <1>3, UpTo
  <2>2. QED
    BY <2>1 DEF G
<1>5. \A n \in 0 .. Len(w) : g[n] = IF n = 0 THEN << >> ELSE g[n - 1] \o w[n]
  <2>1. \A n \in 0 .. Len(w) : n # 0 => n \in 1 .. Len(w)
    BY <1>1
  <2>2. g[0] = << >> /\ \A n \in 1 .. Len(w) : g[n] = g[n - 1] \o w[n]
    BY <1>4 DEF FirstChunks
  <2>3. QED
    BY <2>1, <2>2
<1>6. g \in [0 .. Len(w) -> Seq(Bytes)]
  BY <1>4 DEF FirstChunks
<1>7. Flattens(w, g)
  BY <1>5, <1>6 DEF Flattens
<1>8. QED
  BY <1>7

(* What such a function is at each place. *)
LEMMA FlattensAt ==
  ASSUME NEW w \in Wires, NEW f, Flattens(w, f)
  PROVE  /\ f[0] = << >>
         /\ \A n \in 1 .. Len(w) : f[n] = f[n - 1] \o w[n]
         /\ \A n \in 0 .. Len(w) : f[n] \in Seq(Bytes)
<1>1. Len(w) \in Nat /\ 0 \in 0 .. Len(w) /\ \A n \in 1 .. Len(w) : w[n] \in Seq(Bytes)
  BY WireTypes
<1>2. f[0] = << >> /\ \A n \in 1 .. Len(w) : f[n] = f[n - 1] \o w[n]
  BY <1>1 DEF Flattens
<1> DEFINE G == {n \in 0 .. Len(w) : f[n] \in Seq(Bytes)}
<1>3. 0 \in G
  <2>1. << >> \in Seq(Bytes)
    OBVIOUS
  <2>2. QED
    BY <1>1, <1>2, <2>1
<1>4. ASSUME NEW n \in 0 .. Len(w) - 1, n \in G PROVE n + 1 \in G
  <2>1. n + 1 \in 1 .. Len(w) /\ n + 1 \in 0 .. Len(w) /\ (n + 1) - 1 = n
    BY <1>1
  <2>2. f[n] \o w[n + 1] \in Seq(Bytes)
    BY <1>1, <1>4, <2>1, ConcatProperties
  <2>3. f[n + 1] = f[n] \o w[n + 1]
    BY <1>2, <2>1
  <2>4. QED
    BY <2>1, <2>2, <2>3
<1> HIDE DEF G
<1>5. 0 .. Len(w) \subseteq G
  BY <1>1, <1>3, <1>4, UpTo
<1>6. QED
  BY <1>2, <1>5 DEF G

LEMMA FlatIs ==
  ASSUME NEW w \in Wires
  PROVE  \E f : Flattens(w, f) /\ Flat(w) = f[Len(w)]
<1> DEFINE f == CHOOSE g : Flattens(w, g)
<1>1. Flattens(w, f)
  BY FlattensExists
<1>2. Flat(w) = f[Len(w)]
  BY DEF Flat, Flattens
<1>3. QED
  BY <1>1, <1>2

LEMMA FlatType ==
  ASSUME NEW w \in Wires
  PROVE  Flat(w) \in Seq(Bytes)
<1>1. Len(w) \in 0 .. Len(w)
  BY DEF Wires
<1>2. QED
  BY <1>1, FlatIs, FlattensAt

LEMMA FlatEmpty == Flat(<< >>) = << >>
<1>1. << >> \in Wires /\ Len(<< >>) = 0
  BY DEF Wires
<1>2. QED
  BY <1>1, FlatIs, FlattensAt

(* The first chunk comes before the rest. *)
LEMMA FlatCons ==
  ASSUME NEW w \in Wires, w # << >>
  PROVE  Flat(w) = Head(w) \o Flat(Tail(w))
<1> DEFINE t == Tail(w)
<1>1. /\ t \in Wires /\ Len(w) \in Nat \ {0} /\ Len(t) = Len(w) - 1 /\ Head(w) = w[1]
      /\ \A n \in 1 .. Len(w) : w[n] \in Seq(Bytes)
      /\ \A n \in 1 .. Len(t) : t[n] = w[n + 1]
  BY HeadTailProperties DEF Wires
<1>2. PICK f : Flattens(w, f) /\ Flat(w) = f[Len(w)]
  BY FlatIs
<1>3. PICK h : Flattens(t, h) /\ Flat(t) = h[Len(t)]
  BY <1>1, FlatIs
<1>4. /\ f[0] = << >> /\ \A n \in 1 .. Len(w) : f[n] = f[n - 1] \o w[n]
      /\ h[0] = << >> /\ \A n \in 1 .. Len(t) : h[n] = h[n - 1] \o t[n]
      /\ \A n \in 0 .. Len(t) : h[n] \in Seq(Bytes)
  <2> HIDE DEF t
  <2>1. QED
    BY <1>1, <1>2, <1>3, FlattensAt
<1> DEFINE G == {n \in 0 .. Len(t) : f[n + 1] = w[1] \o h[n]}
<1>5. 0 \in G
  <2>1. f[1] = << >> \o w[1]
    <3>1. 1 \in 1 .. Len(w) /\ 1 - 1 = 0
      BY <1>1
    <3>2. f[1] = f[1 - 1] \o w[1]
      BY <1>4, <3>1
    <3>3. QED
      BY <1>4, <3>1, <3>2
  <2>2. w[1] \in Seq(Bytes) /\ 0 \in 0 .. Len(t) /\ 0 + 1 = 1
    BY <1>1
  <2>3. << >> \o w[1] = w[1] \o << >>
    BY <2>2, ConcatEmptySeq
  <2>4. QED
    BY <1>4, <2>1, <2>2, <2>3
<1>6. ASSUME NEW n \in 0 .. Len(t) - 1, n \in G PROVE n + 1 \in G
  <2>1. /\ n + 2 \in 1 .. Len(w) /\ n + 1 \in 1 .. Len(t) /\ n \in 0 .. Len(t)
        /\ (n + 2) - 1 = n + 1 /\ (n + 1) - 1 = n /\ (n + 1) + 1 = n + 2 /\ 1 \in 1 .. Len(w)
    BY <1>1
  <2>2. f[n + 2] = (w[1] \o h[n]) \o w[n + 2]
    BY <1>4, <1>6, <2>1
  <2>3. h[n + 1] = h[n] \o w[n + 2]
    BY <1>1, <1>4, <2>1
  <2>4. (w[1] \o h[n]) \o w[n + 2] = w[1] \o (h[n] \o w[n + 2])
    <3>1. w[1] \in Seq(Bytes) /\ h[n] \in Seq(Bytes) /\ w[n + 2] \in Seq(Bytes)
      BY <1>1, <1>4, <2>1
    <3>2. \A x, y, z \in Seq(Bytes) : (x \o y) \o z = x \o (y \o z)
      BY ConcatAssociative
    <3>3. QED
      BY <3>1, <3>2
  <2>5. n + 1 \in 0 .. Len(t)
    BY <2>1
  <2>6. QED
    BY <2>1, <2>2, <2>3, <2>4, <2>5
<1> HIDE DEF G
<1>7. 0 .. Len(t) \subseteq G
  <2>1. Len(t) \in Nat
    BY <1>1
  <2>2. QED
    BY <1>5, <1>6, <2>1, UpTo
<1>8. Len(t) \in G
  <2>1. Len(t) \in 0 .. Len(t)
    BY <1>1
  <2>2. QED
    BY <1>7, <2>1
<1>9. Len(t) + 1 = Len(w) /\ f[Len(t) + 1] = w[1] \o h[Len(t)]
  BY <1>1, <1>8 DEF G
<1>10. QED
  BY <1>1, <1>2, <1>3, <1>9

-----------------------------------------------------------------------------
(* The invariant: what stream s has yet to give follows on what was read.   *)

Given == [body : Wires, read : Seq(Bytes), done : {ABSENT, "end", "error", "closed"}]
OpenStream == [wire : Wires, leftover : Seq(Bytes), pos : Nat]

Follows(g, s) ==
  g.read \o SubSeq(s.leftover, s.pos + 1, Len(s.leftover)) \o Flat(s.wire) = Flat(g.body)

ServeTypes ==
  /\ given \in Seq(Given) /\ next_id = Len(given)
  /\ DOMAIN streams \subseteq 0 .. next_id - 1
  /\ \A s \in DOMAIN streams : streams[s] \in OpenStream /\ streams[s].pos <= Len(streams[s].leftover)

(* Who waits for the wire has used up what was left over, and a stream that *)
(* came to its end is no longer there.                                      *)
WaitsFor ==
  at = "http_read" =>
    /\ request[1] \in DOMAIN streams /\ request[2] \in Nat
    /\ streams[request[1]].pos = Len(streams[request[1]].leftover)

StreamInv(s) == given[s + 1].done # "end" /\ Follows(given[s + 1], streams[s])
EndInv(i) == given[i].done = "end" => given[i].read = Flat(given[i].body)

ServeInv ==
  /\ ServeTypes /\ WaitsFor
  /\ \A s \in DOMAIN streams : StreamInv(s)
  /\ \A i \in 1 .. Len(given) : EndInv(i)

LEMMA ServeInvWhole == ServeInv => StreamsWhole
<1> SUFFICES ASSUME ServeInv PROVE StreamsWhole
  OBVIOUS
<1>1. DOMAIN given = 1 .. Len(given)
  BY DEF ServeInv, ServeTypes
<1>2. \A i \in DOMAIN given : i - 1 \in DOMAIN streams => (i - 1) + 1 = i
  BY <1>1
<1>3. QED
  BY <1>1, <1>2 DEF StreamsWhole, ServeInv, StreamInv, EndInv, Follows

(* Where a read ends, and what it takes. *)
LEMMA Reads1 ==
  ASSUME NEW c \in Seq(Bytes), NEW p \in 0 .. Len(c), NEW max \in Nat
  PROVE  /\ EndOf(c, p, max) \in p .. Len(c)
         /\ SubSeq(c, p + 1, EndOf(c, p, max)) \in Seq(Bytes)
         /\ SubSeq(c, p + 1, EndOf(c, p, max)) \o SubSeq(c, EndOf(c, p, max) + 1, Len(c))
              = SubSeq(c, p + 1, Len(c))
<1> DEFINE e == EndOf(c, p, max)
<1>1. Len(c) \in Nat /\ p \in Nat /\ p <= Len(c)
  OBVIOUS
<1>2. e \in p .. Len(c)
  BY <1>1 DEF EndOf
<1> HIDE DEF e
<1>3. p + 1 \in 1 .. Len(c) + 1 /\ e \in (p + 1) - 1 .. Len(c) /\ Len(c) \in e .. Len(c)
  BY <1>1, <1>2
<1>4. SubSeq(c, p + 1, e) \o SubSeq(c, e + 1, Len(c)) = SubSeq(c, p + 1, Len(c))
  BY <1>3, ConcatAdjacentSubSeq
<1>5. SubSeq(c, p + 1, e) \in Seq(Bytes)
  <2>1. \A i \in p + 1 .. e : c[i] \in Bytes
    BY <1>1, <1>2
  <2>2. p + 1 \in Int /\ e \in Int
    BY <1>1, <1>2
  <2>3. QED
    BY <2>1, <2>2, SubSeqProperties
<1>6. QED
  BY <1>2, <1>4, <1>5 DEF e

(* A step that leaves the streams alone. *)
LEMMA Leaves ==
  ASSUME ServeInv, UNCHANGED <<given, next_id, streams>>,
         at' # "http_read" \/ UNCHANGED <<at, request>>
  PROVE  ServeInv'
  BY DEF ServeInv, ServeTypes, WaitsFor, StreamInv, EndInv, Follows

(* A stream that gives what follows. *)
LEMMA Gives ==
  ASSUME ServeInv, NEW s \in DOMAIN streams, NEW st \in OpenStream, NEW r \in Seq(Bytes),
         st.pos <= Len(st.leftover),
         Follows([given[s + 1] EXCEPT !.read = r], st),
         streams' = [streams EXCEPT ![s] = st],
         given' = [given EXCEPT ![s + 1].read = r],
         next_id' = next_id, at' # "http_read"
  PROVE  ServeInv'
<1>1. /\ given \in Seq(Given) /\ Len(given) \in Nat /\ next_id = Len(given)
      /\ \A t \in DOMAIN streams : t \in Nat /\ t + 1 \in 1 .. Len(given)
      /\ \A i \in 1 .. Len(given) : given[i] \in Given
  BY DEF ServeInv, ServeTypes
<1>2. [given[s + 1] EXCEPT !.read = r] \in Given
  BY <1>1 DEF Given
<1>3. /\ given' \in Seq(Given) /\ Len(given') = Len(given)
      /\ given'[s + 1] = [given[s + 1] EXCEPT !.read = r]
      /\ \A i \in 1 .. Len(given) : i # s + 1 => given'[i] = given[i]
  BY <1>1, <1>2
<1>4. /\ DOMAIN streams' = DOMAIN streams /\ streams'[s] = st
      /\ \A t \in DOMAIN streams : t # s => streams'[t] = streams[t]
  OBVIOUS
<1>5. ServeTypes'
  BY <1>1, <1>3, <1>4 DEF ServeInv, ServeTypes
<1>6. \A t \in DOMAIN streams : StreamInv(t)'
  <2>1. TAKE t \in DOMAIN streams
  <2>2. StreamInv(t)
    BY DEF ServeInv
  <2>3. CASE t = s
    BY <1>1, <1>3, <1>4, <2>2, <2>3 DEF StreamInv, Given
  <2>4. CASE t # s
    <3>1. t + 1 # s + 1
      BY <1>1, <2>4
    <3>2. QED
      BY <1>1, <1>3, <1>4, <2>2, <2>4, <3>1 DEF StreamInv, Follows
  <2>5. QED
    BY <2>3, <2>4
<1>7. \A i \in 1 .. Len(given) : EndInv(i)'
  <2>1. TAKE i \in 1 .. Len(given)
  <2>2. EndInv(i) /\ StreamInv(s)
    BY DEF ServeInv
  <2>3. CASE i = s + 1
    BY <1>1, <1>3, <2>2, <2>3 DEF StreamInv, EndInv, Given
  <2>4. CASE i # s + 1
    BY <1>3, <2>2, <2>4 DEF EndInv
  <2>5. QED
    BY <2>3, <2>4
<1>8. QED
  BY <1>3, <1>4, <1>5, <1>6, <1>7 DEF ServeInv, WaitsFor

(* A stream that is dropped. *)
LEMMA Drops ==
  ASSUME ServeInv, NEW s \in DOMAIN streams, NEW d \in {"end", "error", "closed"},
         d = "end" => given[s + 1].read = Flat(given[s + 1].body),
         streams' = Drop(s), given' = [given EXCEPT ![s + 1].done = d],
         next_id' = next_id, at' # "http_read"
  PROVE  ServeInv'
<1>1. /\ given \in Seq(Given) /\ Len(given) \in Nat /\ next_id = Len(given)
      /\ \A t \in DOMAIN streams : t \in Nat /\ t + 1 \in 1 .. Len(given)
      /\ \A i \in 1 .. Len(given) : given[i] \in Given
  BY DEF ServeInv, ServeTypes
<1>2. [given[s + 1] EXCEPT !.done = d] \in Given
  BY <1>1 DEF Given
<1>3. /\ given' \in Seq(Given) /\ Len(given') = Len(given)
      /\ given'[s + 1] = [given[s + 1] EXCEPT !.done = d]
      /\ \A i \in 1 .. Len(given) : i # s + 1 => given'[i] = given[i]
  BY <1>1, <1>2
<1>4. /\ DOMAIN streams' = DOMAIN streams \ {s}
      /\ \A t \in DOMAIN streams \ {s} : streams'[t] = streams[t]
  BY DEF Drop
<1>5. ServeTypes'
  BY <1>1, <1>3, <1>4 DEF ServeInv, ServeTypes
<1>6. \A t \in DOMAIN streams \ {s} : StreamInv(t)'
  <2>1. TAKE t \in DOMAIN streams \ {s}
  <2>2. StreamInv(t) /\ t + 1 # s + 1
    BY <1>1 DEF ServeInv
  <2>3. QED
    BY <1>1, <1>3, <1>4, <2>2 DEF StreamInv, Follows
<1>7. \A i \in 1 .. Len(given) : EndInv(i)'
  <2>1. TAKE i \in 1 .. Len(given)
  <2>2. EndInv(i)
    BY DEF ServeInv
  <2>3. CASE i = s + 1
    BY <1>1, <1>3, <2>3 DEF EndInv, Given
  <2>4. CASE i # s + 1
    BY <1>3, <2>2, <2>4 DEF EndInv
  <2>5. QED
    BY <2>3, <2>4
<1>8. QED
  BY <1>3, <1>4, <1>5, <1>6, <1>7 DEF ServeInv, WaitsFor

(* A stream that is new has everything before it. *)
LEMMA Opens ==
  ASSUME ServeInv, NEW body \in Bodies, Opened(body)
  PROVE  ServeInv'
<1> DEFINE new == [wire |-> body, leftover |-> << >>, pos |-> 0]
           entry == [body |-> body, read |-> << >>, done |-> ABSENT]
<1>1. /\ given \in Seq(Given) /\ Len(given) \in Nat /\ next_id = Len(given)
      /\ \A t \in DOMAIN streams : t \in 0 .. Len(given) - 1 /\ t + 1 \in 1 .. Len(given)
      /\ \A i \in 1 .. Len(given) : given[i] \in Given
  BY DEF ServeInv, ServeTypes
<1>2. body \in Wires /\ Flat(body) \in Seq(Bytes)
  BY HostAssumption, FlatType DEF Wires
<1>3. entry \in Given /\ new \in OpenStream /\ new.pos <= Len(new.leftover)
  BY <1>2 DEF Given, OpenStream
<1>4. /\ given' \in Seq(Given) /\ Len(given') = Len(given) + 1 /\ given'[Len(given) + 1] = entry
      /\ \A i \in 1 .. Len(given) : given'[i] = given[i]
      /\ next_id' = Len(given')
  BY <1>1, <1>3 DEF Opened
<1>5. /\ DOMAIN streams' = DOMAIN streams \cup {Len(given)} /\ streams'[Len(given)] = new
      /\ \A t \in DOMAIN streams : streams'[t] = streams[t]
  BY <1>1 DEF Opened
<1>6. Follows(entry, new)
  <2>1. SubSeq(new.leftover, new.pos + 1, Len(new.leftover)) = << >>
    OBVIOUS
  <2>2. << >> \o << >> = << >> /\ << >> \o Flat(body) = Flat(body)
    BY <1>2, ConcatEmptySeq
  <2>3. QED
    BY <2>1, <2>2 DEF Follows
<1> HIDE DEF new, entry
<1>7. ServeTypes'
  <2>1. \A t \in DOMAIN streams' : t \in 0 .. Len(given') - 1
    BY <1>1, <1>4, <1>5
  <2>2. \A t \in DOMAIN streams' : streams'[t] \in OpenStream /\ streams'[t].pos <= Len(streams'[t].leftover)
    BY <1>3, <1>5 DEF ServeInv, ServeTypes
  <2>3. QED
    BY <1>4, <2>1, <2>2 DEF ServeTypes
<1>8. \A t \in DOMAIN streams' : StreamInv(t)'
  <2>1. TAKE t \in DOMAIN streams'
  <2>2. CASE t \in DOMAIN streams
    <3>1. StreamInv(t)
      BY <2>2 DEF ServeInv
    <3>2. t + 1 \in 1 .. Len(given)
      BY <1>1, <2>2
    <3>3. given'[t + 1] = given[t + 1] /\ streams'[t] = streams[t]
      BY <1>4, <1>5, <2>2, <3>2
    <3>4. QED
      BY <3>1, <3>3 DEF StreamInv, Follows
  <2>3. CASE t = Len(given)
    <3>1. entry.done # "end"
      BY HostAssumption DEF entry
    <3>2. QED
      BY <1>4, <1>5, <1>6, <2>3, <3>1 DEF StreamInv, Follows
  <2>4. QED
    BY <1>5, <2>2, <2>3
<1>9. \A i \in 1 .. Len(given') : EndInv(i)'
  <2>1. TAKE i \in 1 .. Len(given')
  <2>2. CASE i \in 1 .. Len(given)
    <3>1. EndInv(i)
      BY <2>2 DEF ServeInv
    <3>2. QED
      BY <1>4, <2>2, <3>1 DEF EndInv
  <2>3. CASE i = Len(given) + 1
    <3>1. entry.done # "end"
      BY HostAssumption DEF entry
    <3>2. QED
      BY <1>4, <2>3, <3>1 DEF EndInv
  <2>4. QED
    BY <1>1, <1>4, <2>2, <2>3
<1>10. at' # "http_read"
  BY DEF Opened, Answer
<1>11. QED
  BY <1>7, <1>8, <1>9, <1>10 DEF ServeInv, WaitsFor

(* What a stream is, and what it has yet to give. *)
LEMMA StreamIs ==
  ASSUME ServeInv, NEW s \in DOMAIN streams
  PROVE  /\ s + 1 \in 1 .. Len(given) /\ given[s + 1] \in Given /\ streams[s] \in OpenStream
         /\ streams[s].pos \in 0 .. Len(streams[s].leftover)
         /\ Follows(given[s + 1], streams[s])
<1>1. given \in Seq(Given) /\ Len(given) \in Nat /\ next_id = Len(given) /\ s \in 0 .. next_id - 1
  BY DEF ServeInv, ServeTypes
<1>2. streams[s] \in OpenStream /\ streams[s].pos <= Len(streams[s].leftover)
  BY DEF ServeInv, ServeTypes
<1>3. s + 1 \in 1 .. Len(given) /\ given[s + 1] \in Given
  BY <1>1
<1>4. streams[s].pos \in 0 .. Len(streams[s].leftover)
  BY <1>2 DEF OpenStream
<1>5. Follows(given[s + 1], streams[s])
  BY DEF ServeInv, StreamInv
<1>6. QED
  BY <1>2, <1>3, <1>4, <1>5

(* Four pieces may be joined in any order. *)
LEMMA Joined ==
  \A a, b, c, d \in Seq(Bytes) :
    /\ ((a \o b) \o c) \o d = (a \o (b \o c)) \o d
    /\ (a \o b) \o c = a \o (b \o c)
<1> SUFFICES ASSUME NEW a \in Seq(Bytes), NEW b \in Seq(Bytes), NEW c \in Seq(Bytes), NEW d \in Seq(Bytes)
             PROVE  /\ ((a \o b) \o c) \o d = (a \o (b \o c)) \o d
                    /\ (a \o b) \o c = a \o (b \o c)
  OBVIOUS
<1>1. (a \o b) \o c = a \o (b \o c)
  BY ConcatAssociative
<1>2. QED
  BY <1>1

LEMMA LeftoverRead ==
  ASSUME ServeInv, NEW s, NEW max \in Sizes, ReadLeftover(s, max)
  PROVE  ServeInv'
<1> DEFINE st == streams[s]
           e == EndOf(st.leftover, st.pos, max)
           b == SubSeq(st.leftover, st.pos + 1, e)
           c == SubSeq(st.leftover, e + 1, Len(st.leftover))
           r == given[s + 1].read \o b
           new == [wire |-> st.wire, leftover |-> st.leftover, pos |-> e]
<1>1. s \in DOMAIN streams /\ max \in Nat
  BY HostAssumption DEF ReadLeftover
<1>2. /\ given[s + 1] \in Given /\ st \in OpenStream /\ st.pos \in 0 .. Len(st.leftover)
      /\ Follows(given[s + 1], st)
  BY <1>1, StreamIs
<1>3. /\ st.leftover \in Seq(Bytes) /\ st.wire \in Wires /\ given[s + 1].read \in Seq(Bytes)
      /\ Len(st.leftover) \in Nat
  BY <1>2 DEF Given, OpenStream
<1>4. /\ e \in st.pos .. Len(st.leftover) /\ b \in Seq(Bytes)
      /\ b \o c = SubSeq(st.leftover, st.pos + 1, Len(st.leftover))
  <2> HIDE DEF st
  <2>1. QED
    BY <1>1, <1>2, <1>3, Reads1
<1>5. e \in 0 .. Len(st.leftover) /\ c \in Seq(Bytes)
  <2>1. e \in 0 .. Len(st.leftover)
    BY <1>2, <1>3, <1>4
  <2>2. \A i \in e + 1 .. Len(st.leftover) : st.leftover[i] \in Bytes
    BY <1>3, <2>1
  <2>3. QED
    BY <1>3, <2>1, <2>2, SubSeqProperties
<1>6. /\ streams' = [streams EXCEPT ![s] = new]
      /\ given' = [given EXCEPT ![s + 1].read = r]
      /\ next_id' = next_id /\ at' # "http_read"
  <2>1. at = "guest" /\ UNCHANGED <<at, next_id>>
    BY DEF ReadLeftover, Asks
  <2>2. given' = [given EXCEPT ![s + 1].read = r]
    BY DEF ReadLeftover, Hand
  <2>3. streams' = [streams EXCEPT ![s] = new]
    BY DEF ReadLeftover, Hand
  <2>4. QED
    BY <2>1, <2>2, <2>3
<1>7. new \in OpenStream /\ new.pos <= Len(new.leftover)
  BY <1>3, <1>5 DEF OpenStream
<1>8. r \in Seq(Bytes)
  BY <1>3, <1>4, ConcatProperties
<1>9. Follows([given[s + 1] EXCEPT !.read = r], new)
  <2>1. (r \o c) \o Flat(st.wire) = Flat(given[s + 1].body)
    <3>1. Flat(st.wire) \in Seq(Bytes)
      BY <1>3, FlatType
    <3>2. (r \o c) \o Flat(st.wire) = (given[s + 1].read \o (b \o c)) \o Flat(st.wire)
      <4> HIDE DEF st, b, c
      <4>1. /\ given[s + 1].read \in Seq(Bytes) /\ b \in Seq(Bytes)
            /\ c \in Seq(Bytes) /\ Flat(st.wire) \in Seq(Bytes)
        BY <1>3, <1>4, <1>5, <3>1
      <4>2. QED
        BY <4>1, Joined
    <3>3. QED
      BY <1>2, <1>4, <3>2 DEF Follows
  <2>2. [given[s + 1] EXCEPT !.read = r].read = r /\ [given[s + 1] EXCEPT !.read = r].body = given[s + 1].body
    BY <1>2 DEF Given
  <2>3. new.pos = e /\ new.leftover = st.leftover /\ new.wire = st.wire
    OBVIOUS
  <2> HIDE DEF new, r, e
  <2>4. QED
    BY <2>1, <2>2, <2>3 DEF Follows
<1> HIDE DEF new, r
<1>10. QED
  BY <1>1, <1>6, <1>7, <1>8, <1>9, Gives

(* Who begins to wait has used up what was left over. *)
LEMMA WireWaits ==
  ASSUME ServeInv, NEW s, NEW max \in Sizes, ReadWire(s, max)
  PROVE  ServeInv'
<1>1. s \in DOMAIN streams /\ max \in Nat /\ streams[s].pos >= Len(streams[s].leftover)
  BY HostAssumption DEF ReadWire
<1>2. streams[s].pos = Len(streams[s].leftover)
  <2>1. streams[s].pos \in 0 .. Len(streams[s].leftover) /\ streams[s] \in OpenStream
    BY <1>1, StreamIs
  <2>2. Len(streams[s].leftover) \in Nat
    BY <2>1 DEF OpenStream
  <2>3. QED
    BY <1>1, <2>1, <2>2
<1>3. UNCHANGED <<given, next_id, streams>> /\ request' = <<s, max>>
  BY DEF ReadWire, WaitIn, store
<1>4. WaitsFor'
  BY <1>1, <1>2, <1>3 DEF WaitsFor
<1>5. QED
  BY <1>3, <1>4 DEF ServeInv, ServeTypes, StreamInv, EndInv, Follows

(* The answer of the wire. *)
LEMMA ChunkComes ==
  ASSUME ServeInv, Chunk
  PROVE  ServeInv'
<1> DEFINE s == request[1]
           max == request[2]
           st == streams[s]
<1>1. s \in DOMAIN streams /\ max \in Nat /\ st.pos = Len(st.leftover)
  BY DEF Chunk, ServeInv, WaitsFor
<1>2. /\ given[s + 1] \in Given /\ st \in OpenStream /\ Follows(given[s + 1], st)
  BY <1>1, StreamIs
<1>3. /\ st.leftover \in Seq(Bytes) /\ st.wire \in Wires /\ given[s + 1].read \in Seq(Bytes)
  BY <1>2 DEF Given, OpenStream
<1>4. given[s + 1].read \o Flat(st.wire) = Flat(given[s + 1].body)
  <2>1. SubSeq(st.leftover, st.pos + 1, Len(st.leftover)) = << >>
    BY <1>1, <1>3
  <2>2. given[s + 1].read \o << >> = given[s + 1].read
    BY <1>3, ConcatEmptySeq
  <2>3. QED
    BY <1>2, <2>1, <2>2 DEF Follows
<1>5. next_id' = next_id /\ at' # "http_read"
  BY DEF Chunk, Answer
<1>6. CASE /\ st.wire # << >>
           /\ streams' = [streams EXCEPT ![s] = [wire |-> Tail(st.wire), leftover |-> Head(st.wire),
                                                 pos |-> EndOf(Head(st.wire), 0, max)]]
           /\ given' = [given EXCEPT ![s + 1].read = @ \o SubSeq(Head(st.wire), 1, EndOf(Head(st.wire), 0, max))]
  <2> DEFINE h == Head(st.wire)
             t == Tail(st.wire)
             e == EndOf(h, 0, max)
             b == SubSeq(h, 0 + 1, e)
             c == SubSeq(h, e + 1, Len(h))
             r == given[s + 1].read \o b
             new == [wire |-> t, leftover |-> h, pos |-> e]
  <2>1. h \in Seq(Bytes) /\ t \in Wires /\ Flat(st.wire) = h \o Flat(t) /\ Flat(t) \in Seq(Bytes)
    <3>1. h \in Seq(Bytes) /\ t \in Wires
      BY <1>3, <1>6, HeadTailProperties DEF Wires
    <3> HIDE DEF st
    <3>2. QED
      BY <1>3, <1>6, <3>1, FlatCons, FlatType
  <2>2. Len(h) \in Nat /\ 0 \in 0 .. Len(h) /\ 0 + 1 = 1
    BY <2>1
  <2>3. e \in 0 .. Len(h) /\ b \in Seq(Bytes) /\ b \o c = SubSeq(h, 0 + 1, Len(h))
    <3> HIDE DEF h, s, max
    <3>1. QED
      BY <1>1, <2>1, <2>2, Reads1
  <2>4. b \o c = h
    <3> HIDE DEF h, b, c
    <3>1. SubSeq(h, 0 + 1, Len(h)) = h
      BY <2>1, <2>2
    <3>2. QED
      BY <2>3, <3>1
  <2>5. c \in Seq(Bytes)
    <3> HIDE DEF h, e
    <3>1. \A i \in e + 1 .. Len(h) : h[i] \in Bytes
      BY <2>1, <2>2, <2>3
    <3>2. QED
      BY <2>2, <2>3, <3>1, SubSeqProperties
  <2>6. streams' = [streams EXCEPT ![s] = new]
    BY <1>6
  <2>7. given' = [given EXCEPT ![s + 1].read = r]
    BY <1>6, <2>2
  <2>8. new \in OpenStream /\ new.pos <= Len(new.leftover)
    <3> HIDE DEF h, t, e
    <3>1. QED
      BY <2>1, <2>2, <2>3 DEF OpenStream
  <2>9. r \in Seq(Bytes)
    BY <1>3, <2>3, ConcatProperties
  <2>10. Follows([given[s + 1] EXCEPT !.read = r], new)
    <3>1. (r \o c) \o Flat(t) = (given[s + 1].read \o h) \o Flat(t)
      <4> HIDE DEF h, t, b, c, s
      <4>1. (r \o c) \o Flat(t) = (given[s + 1].read \o (b \o c)) \o Flat(t)
        <5>1. /\ given[s + 1].read \in Seq(Bytes) /\ b \in Seq(Bytes)
              /\ c \in Seq(Bytes) /\ Flat(t) \in Seq(Bytes)
          BY <1>3, <2>1, <2>3, <2>5
        <5>2. QED
          BY <5>1, Joined
      <4>2. QED
        BY <2>4, <4>1
    <3>2. (given[s + 1].read \o h) \o Flat(t) = given[s + 1].read \o (h \o Flat(t))
      <4> HIDE DEF h, t, s
      <4>1. QED
        BY <1>3, <2>1, Joined
    <3>3. (r \o c) \o Flat(t) = Flat(given[s + 1].body)
      BY <1>4, <2>1, <3>1, <3>2
    <3>4. [given[s + 1] EXCEPT !.read = r].read = r /\ [given[s + 1] EXCEPT !.read = r].body = given[s + 1].body
      BY <1>2 DEF Given
    <3>5. new.pos = e /\ new.leftover = h /\ new.wire = t
      OBVIOUS
    <3> HIDE DEF new, r, e, h, t
    <3>6. QED
      BY <3>3, <3>4, <3>5 DEF Follows
  <2> HIDE DEF new, r, s
  <2>11. QED
    BY <1>1, <1>5, <2>6, <2>7, <2>8, <2>9, <2>10, Gives
<1>7. CASE /\ st.wire = << >>
           /\ streams' = Drop(s) /\ given' = [given EXCEPT ![s + 1].done = "end"]
  <2>1. given[s + 1].read = Flat(given[s + 1].body)
    <3>1. given[s + 1].read \o << >> = given[s + 1].read
      BY <1>3, ConcatEmptySeq
    <3>2. QED
      BY <1>4, <1>7, <3>1, FlatEmpty
  <2> HIDE DEF s
  <2>2. QED
    BY <1>1, <1>5, <1>7, <2>1, Drops
<1>8. QED
  BY <1>6, <1>7 DEF Chunk

(* A stream that fails, or that the guest closes. *)
LEMMA StreamGoes ==
  ASSUME ServeInv, ReadFails \/ \E s \in 0 .. MaxCalls : HttpClose(s)
  PROVE  ServeInv'
<1>1. CASE ReadFails
  <2> DEFINE s == request[1]
  <2>1. s \in DOMAIN streams
    BY <1>1 DEF ReadFails, ServeInv, WaitsFor
  <2>2. /\ streams' = Drop(s) /\ given' = [given EXCEPT ![s + 1].done = "error"]
        /\ next_id' = next_id /\ at' # "http_read"
    BY <1>1 DEF ReadFails, Answer
  <2> HIDE DEF s
  <2>3. QED
    BY <2>1, <2>2, Drops
<1>2. ASSUME NEW s \in 0 .. MaxCalls, HttpClose(s) PROVE ServeInv'
  <2>1. /\ s \in DOMAIN streams /\ streams' = Drop(s)
        /\ given' = [given EXCEPT ![s + 1].done = "closed"]
        /\ next_id' = next_id /\ at' # "http_read"
    BY <1>2 DEF HttpClose, Asks
  <2>2. QED
    BY <2>1, Drops
<1>3. QED
  BY <1>1, <1>2

(* A plugin that ends takes its streams with it. *)
LEMMA AllGo ==
  ASSUME ServeInv, NEW why, Ends(why)
  PROVE  ServeInv'
<1>1. streams' = << >> /\ UNCHANGED <<given, next_id>> /\ at' # "http_read"
  BY DEF Ends
<1>2. DOMAIN streams' = {}
  BY <1>1
<1>3. QED
  BY <1>1, <1>2 DEF ServeInv, ServeTypes, WaitsFor, EndInv

LEMMA ServeInvStarts == ServeInit => ServeInv
<1> SUFFICES ASSUME ServeInit PROVE ServeInv
  OBVIOUS
<1>1. streams = << >> /\ given = << >> /\ next_id = 0 /\ at = "idle"
  BY DEF ServeInit
<1>2. DOMAIN streams = {} /\ given \in Seq(Given) /\ Len(given) = 0 /\ 1 .. Len(given) = {}
  BY <1>1
<1>3. QED
  BY <1>1, <1>2 DEF ServeInv, ServeTypes, WaitsFor

LEMMA ServeInvHolds == ServeInv /\ [ServeNext]_serveVars => ServeInv'
<1> SUFFICES ASSUME ServeInv, [ServeNext]_serveVars PROVE ServeInv'
  OBVIOUS
<1> USE DEF serveVars, store
<1>1. CASE CallUpdate \/ UpdateReturns
  BY <1>1, Leaves DEF CallUpdate, UpdateReturns
<1>2. CASE (\E ms \in {0, 1} : SetTimeout(ms)) \/ FeedSubscribe
  BY <1>2, Leaves DEF SetTimeout, FeedSubscribe, Asks
<1>3. CASE \/ \E h \in Urls : HttpGet(h) \/ HttpOpen(h)
           \/ GuestPick
  BY <1>3, Leaves DEF HttpGet, HttpOpen, GuestPick, WaitIn
<1>4. CASE \E s \in 0 .. MaxCalls, max \in Sizes : ReadLeftover(s, max) \/ ReadWire(s, max)
  BY <1>4, LeftoverRead, WireWaits
<1>5. CASE \E kind \in {"filter", "launcher"}, n \in Inputs : Exec(kind, n)
  BY <1>5, Leaves DEF Exec
<1>6. CASE Done \/ OpenFails
  BY <1>6, Leaves DEF Done, OpenFails, Answer
<1>7. CASE \E b \in Bodies : Opened(b)
  BY <1>7, Opens
<1>8. CASE Thread \/ Program \/ Released
  BY <1>8, Leaves DEF Thread, Program, Released
<1>9. CASE ExecAnswered
  BY <1>9, Leaves DEF ExecAnswered, Answer
<1>10. CASE LimitElapses \/ ModuleDropped
  BY <1>10, AllGo DEF LimitElapses, ModuleDropped
<1>11. CASE UNCHANGED serveVars
  BY <1>11, Leaves
<1>12. CASE Chunk
  BY <1>12, ChunkComes
<1>13. CASE ReadFails \/ \E s \in 0 .. MaxCalls : HttpClose(s)
  BY <1>13, StreamGoes
<1>14. QED
  BY <1>1, <1>2, <1>3, <1>4, <1>5, <1>6, <1>7, <1>8, <1>9, <1>10, <1>11, <1>12, <1>13 DEF ServeNext, Settles

(* However a guest opens, reads, closes and mixes its streams, and whatever *)
(* the wire brings or fails to bring, what the guest was given of a body,   *)
(* what the host buffers and what the wire still has are that body, and a   *)
(* stream that came to its end was read to the last byte (http_open,        *)
(* http_read and http_close of crates/ezbar-wasm/src/lib.rs).               *)
THEOREM HostStreamsWhole == ServeSpec => []StreamsWhole
<1>1. QED
  BY ServeInvStarts, ServeInvHolds, ServeInvWhole, PTL DEF ServeSpec

-----------------------------------------------------------------------------
(***************************************************************************)
(* NetRate.  A total is a sum over a set, which MapThenSumSet defines by   *)
(* recursion on the subsets.  That such a recursion has a solution, and    *)
(* what it does when a term changes, is shown by looking at a smallest     *)
(* subset for which it would not be so.                                    *)
(***************************************************************************)
\* The element that is added next.
Pick(s) == CHOOSE x \in s : TRUE

(* g is a running sum of f over the subsets of S, in the order that        *)
(* MapThenSumSet takes them.                                               *)
Sums(g, f, S) ==
  g = [s \in SUBSET S |-> IF s = {} THEN 0 ELSE f[Pick(s)] + g[s \ {Pick(s)}]]

(* Of some subsets of a finite set one has no other below it.              *)
LEMMA Smallest ==
  ASSUME NEW S, IsFiniteSet(S), NEW B \in SUBSET SUBSET S, B # {}
  PROVE  \E T \in B : \A U \in B : U \subseteq T => U = T
<1>1. B \subseteq FiniteSubsetsOf(S)
  BY FS_Subset DEF FiniteSubsetsOf
<1>2. PICK T \in B : \A U \in B : <<U, T>> \notin StrictSubsetOrdering(S)
  BY <1>1, FS_StrictSubsetOrderingWellFounded, WFMin
<1>3. ASSUME NEW U \in B, U \subseteq T, U # T PROVE FALSE
  BY <1>2, <1>3 DEF StrictSubsetOrdering
<1> QED
  BY <1>3

LEMMA PickIn ==
  ASSUME NEW S, NEW s \in SUBSET S, s # {}
  PROVE  Pick(s) \in s /\ s \ {Pick(s)} \in SUBSET S /\ s \ {Pick(s)} # s
BY DEF Pick

LEMMA SumsAgree ==
  ASSUME NEW S, IsFiniteSet(S), NEW f, NEW T \in SUBSET S, NEW U \in SUBSET S,
         NEW g, NEW h, Sums(g, f, T), Sums(h, f, U), NEW s \in SUBSET T, s \in SUBSET U
  PROVE  g[s] = h[s]
<1> SUFFICES ASSUME g[s] # h[s] PROVE FALSE
  OBVIOUS
<1> DEFINE B == {r \in SUBSET S : r \in SUBSET T /\ r \in SUBSET U /\ g[r] # h[r]}
<1>1. B \in SUBSET SUBSET S /\ B # {}
  OBVIOUS
<1>2. PICK r \in B : \A q \in B : q \subseteq r => q = r
  <2> HIDE DEF B
  <2> QED
    BY <1>1, Smallest
<1> DEFINE q == r \ {Pick(r)}
<1>3. g[r] = (IF r = {} THEN 0 ELSE f[Pick(r)] + g[q]) /\ h[r] = IF r = {} THEN 0 ELSE f[Pick(r)] + h[q]
  BY <1>2 DEF Sums
<1>4. r # {}
  BY <1>2, <1>3
<1>5. g[q] = h[q]
  BY <1>2, <1>4, PickIn
<1> QED
  BY <1>2, <1>3, <1>5

LEMMA SumsExist ==
  ASSUME NEW S, IsFiniteSet(S), NEW f
  PROVE  \E g : Sums(g, f, S)
<1> SUFFICES ASSUME ~\E g : Sums(g, f, S) PROVE FALSE
  OBVIOUS
<1> DEFINE B == {T \in SUBSET S : ~\E g : Sums(g, f, T)}
<1>1. B \in SUBSET SUBSET S /\ B # {}
  OBVIOUS
<1>2. PICK T \in B : \A U \in B : U \subseteq T => U = T
  <2> HIDE DEF B
  <2> QED
    BY <1>1, Smallest
<1> DEFINE G(U) == CHOOSE g : Sums(g, f, U)
           Below(U) == IF U = {} THEN 0 ELSE f[Pick(U)] + G(U \ {Pick(U)})[U \ {Pick(U)}]
           g == [U \in SUBSET T |-> Below(U)]
<1>3. ASSUME NEW U \in SUBSET T, U # T PROVE Sums(G(U), f, U)
  BY <1>2, <1>3
<1>4. ASSUME NEW U \in SUBSET T, U # T PROVE G(U)[U] = Below(U)
  <2> DEFINE V == U \ {Pick(U)}
  <2>1. Sums(G(U), f, U)
    BY <1>3, <1>4
  <2>2. G(U)[U] = IF U = {} THEN 0 ELSE f[Pick(U)] + G(U)[V]
    <3> HIDE DEF G
    <3> QED
      BY <2>1 DEF Sums
  <2>3. ASSUME U # {} PROVE G(U)[V] = G(V)[V]
    <3>1. V \in SUBSET T /\ V \subseteq U /\ V # T
      BY <1>4, <2>3, PickIn
    <3>2. Sums(G(V), f, V)
      BY <1>3, <3>1
    <3> HIDE DEF G, V
    <3> QED
      BY <2>1, <3>1, <3>2, SumsAgree
  <2> QED
    BY <2>2, <2>3
<1>5. ASSUME NEW U \in SUBSET T PROVE g[U] = IF U = {} THEN 0 ELSE f[Pick(U)] + g[U \ {Pick(U)}]
  <2> DEFINE V == U \ {Pick(U)}
  <2>1. g[U] = IF U = {} THEN 0 ELSE f[Pick(U)] + G(V)[V]
    OBVIOUS
  <2>2. ASSUME U # {} PROVE g[V] = G(V)[V]
    <3>1. V \in SUBSET T /\ V # T
      BY <2>2, PickIn
    <3>2. G(V)[V] = Below(V)
      BY <1>4, <3>1
    <3> HIDE DEF V, G, Below
    <3> QED
      BY <3>1, <3>2
  <2> HIDE DEF g, G
  <2> QED
    BY <2>1, <2>2
<1>6. Sums(g, f, T)
  <2>1. g = [U \in SUBSET T |-> g[U]]
    OBVIOUS
  <2> HIDE DEF g
  <2> QED
    BY <1>5, <2>1 DEF Sums
<1> QED
  BY <1>2, <1>6

(* The sum that MapThenSumSet unfolds to. *)
SumOf(f) == MapThenSumSet(LAMBDA i : f[i], Interfaces)

LEMMA SumOfSums ==
  ASSUME IsFiniteSet(Interfaces), NEW f
  PROVE  \E g : Sums(g, f, Interfaces) /\ SumOf(f) = g[Interfaces]
<1> DEFINE h == CHOOSE h : h = [s \in SUBSET Interfaces |-> IF s = {} THEN 0 ELSE f[Pick(s)] + h[s \ {Pick(s)}]]
<1>1. PICK g : Sums(g, f, Interfaces)
  BY SumsExist
<1>2. h = [s \in SUBSET Interfaces |-> IF s = {} THEN 0 ELSE f[Pick(s)] + h[s \ {Pick(s)}]]
  BY <1>1 DEF Sums
<1>3. SumOf(f) = h[Interfaces]
  BY DEF SumOf, MapThenSumSet, MapThenFoldSet, Pick
<1> QED
  BY <1>2, <1>3 DEF Sums

LEMMA SumsNat ==
  ASSUME NEW S, IsFiniteSet(S), NEW f \in [S -> Nat], NEW g, Sums(g, f, S), NEW s \in SUBSET S
  PROVE  g[s] \in Nat
<1> SUFFICES ASSUME g[s] \notin Nat PROVE FALSE
  OBVIOUS
<1> DEFINE B == {r \in SUBSET S : g[r] \notin Nat}
<1>1. B \in SUBSET SUBSET S /\ B # {}
  OBVIOUS
<1>2. PICK r \in B : \A q \in B : q \subseteq r => q = r
  <2> HIDE DEF B
  <2> QED
    BY <1>1, Smallest
<1> DEFINE q == r \ {Pick(r)}
<1>3. g[r] = IF r = {} THEN 0 ELSE f[Pick(r)] + g[q]
  BY <1>2 DEF Sums
<1>4. r # {} /\ Pick(r) \in S
  BY <1>2, <1>3, PickIn
<1>5. g[q] \in Nat
  BY <1>2, <1>4, PickIn
<1> QED
  BY <1>2, <1>3, <1>4, <1>5

(* A sum changes by what one of its terms changes by.                      *)
LEMMA SumsExcept ==
  ASSUME NEW S, IsFiniteSet(S), NEW f \in [S -> Nat], NEW e \in [S -> Nat],
         NEW i \in S, \A j \in S : j # i => e[j] = f[j],
         NEW g, Sums(g, f, S), NEW h, Sums(h, e, S), NEW s \in SUBSET S
  PROVE  h[s] = IF i \in s THEN g[s] - f[i] + e[i] ELSE g[s]
<1> DEFINE Moved(r) == IF i \in r THEN g[r] - f[i] + e[i] ELSE g[r]
<1> SUFFICES ASSUME h[s] # Moved(s) PROVE FALSE
  OBVIOUS
<1> DEFINE B == {r \in SUBSET S : h[r] # Moved(r)}
<1>1. B \in SUBSET SUBSET S /\ B # {}
  OBVIOUS
<1>2. PICK r \in B : \A q \in B : q \subseteq r => q = r
  <2> HIDE DEF B
  <2> QED
    BY <1>1, Smallest
<1> DEFINE q == r \ {Pick(r)}
<1>3. /\ g[r] = IF r = {} THEN 0 ELSE f[Pick(r)] + g[q]
      /\ h[r] = IF r = {} THEN 0 ELSE e[Pick(r)] + h[q]
  BY <1>2 DEF Sums
<1>4. r # {}
  BY <1>2, <1>3
<1>5. Pick(r) \in r /\ q \in SUBSET S /\ q # r
  BY <1>2, <1>4, PickIn
<1>6. h[q] = Moved(q)
  BY <1>2, <1>5
<1>7. g[q] \in Nat
  BY <1>5, SumsNat
<1>8. CASE Pick(r) = i
  <2>1. i \notin q
    BY <1>8
  <2>2. g[r] = f[i] + g[q] /\ h[r] = e[i] + g[q] /\ i \in r
    BY <1>3, <1>4, <1>5, <1>6, <1>8, <2>1
  <2> QED
    BY <1>2, <1>7, <2>2
<1>9. CASE Pick(r) # i
  <2>1. Pick(r) \in S /\ e[Pick(r)] = f[Pick(r)] /\ (i \in q <=> i \in r) /\ f[Pick(r)] \in Nat
    BY <1>5, <1>9
  <2>2. g[r] = f[Pick(r)] + g[q] /\ h[r] = f[Pick(r)] + Moved(q)
    BY <1>3, <1>4, <1>6, <2>1
  <2> HIDE DEF q
  <2> QED
    BY <1>2, <1>7, <2>1, <2>2
<1> QED
  BY <1>8, <1>9

-----------------------------------------------------------------------------
(* The counters are at most what was moved above the total of the sample   *)
(* before, and just that as long as none of them started again.            *)
Primed ==
  prev # NIL =>
    /\ prev = [at |-> prev.at, total |-> prev.total]
    /\ prev.at \in Nat /\ prev.total \in Nat
    /\ Total <= prev.total + moved
    /\ ~reset => Total = prev.total + moved

RateInv ==
  /\ bytes \in [Interfaces -> Nat] /\ Total \in Nat /\ now \in Nat
  /\ moved \in 0 .. MaxBytes /\ reset \in BOOLEAN
  /\ Primed /\ NoSpike

USE NetAssumption

\* The total follows a counter.
LEMMA SumOfNat ==
  ASSUME NEW f \in [Interfaces -> Nat]
  PROVE  SumOf(f) \in Nat
<1>1. PICK g : Sums(g, f, Interfaces) /\ SumOf(f) = g[Interfaces]
  BY SumOfSums
<1> QED
  BY <1>1, SumsNat

LEMMA SumOfExcept ==
  ASSUME NEW f \in [Interfaces -> Nat], NEW i \in Interfaces, NEW v \in Nat
  PROVE  SumOf([f EXCEPT ![i] = v]) = SumOf(f) - f[i] + v
<1> DEFINE e == [f EXCEPT ![i] = v]
<1>1. PICK g : Sums(g, f, Interfaces) /\ SumOf(f) = g[Interfaces]
  BY SumOfSums
<1>2. PICK h : Sums(h, e, Interfaces) /\ SumOf(e) = h[Interfaces]
  BY SumOfSums
<1>3. h[Interfaces] = IF i \in Interfaces THEN g[Interfaces] - f[i] + e[i] ELSE g[Interfaces]
  <2>1. e \in [Interfaces -> Nat] /\ \A j \in Interfaces : j # i => e[j] = f[j]
    OBVIOUS
  <2> HIDE DEF e
  <2> QED
    BY <1>1, <1>2, <2>1, SumsExcept
<1> QED
  BY <1>1, <1>2, <1>3

LEMMA TotalFollows ==
  ASSUME bytes \in [Interfaces -> Nat], NEW i \in Interfaces, NEW v \in Nat,
         bytes' = [bytes EXCEPT ![i] = v]
  PROVE  Total' \in Nat /\ Total' = Total - bytes[i] + v
<1>1. Total = SumOf(bytes) /\ Total' = SumOf(bytes')
  BY DEF Total, SumOf, MapThenSumSet, MapThenFoldSet
<1>2. SumOf([bytes EXCEPT ![i] = v]) = SumOf(bytes) - bytes[i] + v
  BY SumOfExcept
<1>3. [bytes EXCEPT ![i] = v] \in [Interfaces -> Nat]
  OBVIOUS
<1> QED
  BY <1>1, <1>2, <1>3, SumOfNat

LEMMA RateInvInit == NetInit => RateInv
<1> SUFFICES ASSUME NetInit PROVE RateInv
  OBVIOUS
<1>1. bytes \in [Interfaces -> Nat]
  BY DEF NetInit
<1>2. Total \in Nat
  BY <1>1, SumOfNat DEF Total, SumOf
<1>3. reset \in BOOLEAN /\ now \in Nat
  BY DEF NetInit
<1>4. moved \in 0 .. MaxBytes
  BY DEF NetInit
<1>5. Primed /\ NoSpike
  BY DEF NetInit, Primed, NoSpike
<1> QED
  BY <1>1, <1>2, <1>3, <1>4, <1>5 DEF RateInv

LEMMA RateInvNext == RateInv /\ [NetNext]_netVars => RateInv'
<1> SUFFICES ASSUME RateInv, [NetNext]_netVars PROVE RateInv'
  OBVIOUS
<1> USE DEF RateInv
<1>1. ASSUME NEW i \in Interfaces, Traffic(i) PROVE RateInv'
  <2>1. bytes' = [bytes EXCEPT ![i] = bytes[i] + 1] /\ bytes[i] \in Nat /\ bytes[i] + 1 \in Nat
    BY <1>1 DEF Traffic
  <2>2. Total' \in Nat /\ Total' = Total - bytes[i] + (bytes[i] + 1)
    BY <2>1, TotalFollows
  <2> QED
    BY <1>1, <2>1, <2>2 DEF Traffic, Primed, NoSpike
<1>2. ASSUME NEW i \in Interfaces, Restart(i) PROVE RateInv'
  <2>1. bytes \in [Interfaces -> Nat] /\ 0 \in Nat /\ bytes' = [bytes EXCEPT ![i] = 0] /\ bytes[i] \in Nat
    BY <1>2 DEF Restart
  <2>2. Total' \in Nat /\ Total' = Total - bytes[i] + 0
    BY <2>1, TotalFollows
  <2> QED
    BY <1>2, <2>1, <2>2 DEF Restart, Primed, NoSpike
<1>3. ASSUME UNCHANGED bytes PROVE Total' = Total
  BY <1>3 DEF Total, MapThenSumSet, MapThenFoldSet
<1>4. CASE ClockTicks
  BY <1>3, <1>4 DEF ClockTicks, Primed, NoSpike
<1>5. CASE SampleRate
  <2>1. UNCHANGED <<bytes, now>> /\ Total' = Total /\ moved' = 0 /\ reset' = FALSE
        /\ prev' = [at |-> now, total |-> Total]
    BY <1>3, <1>5 DEF SampleRate
  <2>2. Primed'
    BY <2>1 DEF Primed
  <2>3. NoSpike'
    <3> DEFINE dt == now - prev.at
               rate == [bytes |-> (Total - prev.total) % Word, dt |-> dt, moved |-> moved, whole |-> ~reset]
    <3>1. CASE prev = NIL \/ Stale(dt, Total)
      BY <1>5, <3>1 DEF SampleRate, NoSpike
    <3>2. CASE prev # NIL /\ ~Stale(dt, Total)
      <4>1. told' = rate
        BY <1>5, <3>2 DEF SampleRate
      <4>2. prev.at \in Nat /\ prev.total \in Nat /\ dt \in 1 .. GAP /\ Total - prev.total \in 0 .. moved
        BY <3>2 DEF Stale, Primed
      <4>3. (Total - prev.total) % Word = Total - prev.total
        BY <4>2
      <4>4. ~reset => Total - prev.total = moved
        BY <3>2, <4>2 DEF Primed
      <4>5. /\ told'.dt = dt /\ told'.bytes = Total - prev.total /\ told'.moved = moved
            /\ told'.whole = ~reset
        BY <4>1, <4>3
      <4>6. told'.dt \in 1 .. GAP /\ told'.bytes <= told'.moved
        BY <4>2, <4>5
      <4>7. told'.whole => told'.bytes = told'.moved
        BY <4>4, <4>5
      <4> QED
        BY <4>6, <4>7 DEF NoSpike
    <3> QED
      BY <3>1, <3>2
  <2>4. reset' \in BOOLEAN /\ bytes' \in [Interfaces -> Nat] /\ now' \in Nat
    BY <2>1
  <2>5. moved' \in 0 .. MaxBytes
    BY <2>1
  <2> QED
    BY <2>1, <2>2, <2>3, <2>4, <2>5
<1>6. CASE SampleFails
  BY <1>3, <1>6 DEF SampleFails, Primed, NoSpike
<1>7. CASE UNCHANGED netVars
  BY <1>3, <1>7 DEF netVars, Primed, NoSpike
<1> QED
  BY <1>1, <1>2, <1>4, <1>5, <1>6, <1>7 DEF NetNext

(* Whatever interfaces and the sampler do, a rate is over a short while,   *)
(* never above what was moved in it, and just that when no counter started *)
(* again.                                                                  *)
THEOREM NetNoSpike == NetSpec => []NoSpike
<1>1. NetInit => RateInv
  BY RateInvInit
<1>2. RateInv /\ [NetNext]_netVars => RateInv'
  BY RateInvNext
<1>3. RateInv => NoSpike
  BY DEF RateInv
<1> QED
  BY <1>1, <1>2, <1>3, PTL DEF NetSpec
=============================================================================
