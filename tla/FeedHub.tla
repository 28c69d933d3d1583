------------------------------- MODULE FeedHub -------------------------------
(***************************************************************************)
(* The shared feed hubs of the WASM reactor                                *)
(* (crates/ezbar-wasm/src/lib.rs, RFC 0012).  A plugin subscribes to a     *)
(* metric; one sampler task per metric reads it once per second and fans   *)
(* the value out to the subscribers over a channel of depth one that each  *)
(* drive task owns.                                                        *)
(*                                                                         *)
(* A subscription is keyed by the plugin's instance id, which survives a   *)
(* rebuild of the plugin, while the channel belongs to one drive task.     *)
(* An abort takes effect at the task's next await, so an aborted task may  *)
(* still register what its last guest call asked for.                      *)
(***************************************************************************)
EXTENDS Naturals, FiniteSets

CONSTANTS
  Kinds,       \* metrics
  Silent,      \* metrics the sampler never has a value for (ping)
  Drives,      \* drive tasks, each with a channel of its own
  Token,       \* Token[d] is the instance id that drive task d runs for
  Tasks,       \* identities of sampler tasks
  Periods,     \* min-period in multiples of BASE, at least one
  NULL

ASSUME FeedHubAssumption ==
  /\ Silent \subseteq Kinds
  /\ Periods \subseteq Nat \ {0}
  /\ Token \in [Drives -> {Token[d] : d \in Drives}]
  /\ NULL \notin Kinds

VARIABLES
  drive,       \* the life of each drive task
  buf,         \* what its feed channel holds
  asked,       \* the feeds its guest has subscribed to
  hubs,        \* Reactor.feeds: the kinds with a hub
  subs,        \* the subscriptions of all hubs
  tasks        \* the sampler tasks that run

vars == <<drive, buf, asked, hubs, subs, tasks>>

(* wait counts the samples until a subscription is due again. *)
MaxPeriod == CHOOSE p \in Periods : \A q \in Periods : q <= p
Sub == [kind : Kinds, chan : Drives, period : Periods, wait : 0 .. MaxPeriod]

(* A sampler task sleeps, or holds a value, or the lack of one, that it has *)
(* read outside the lock.                                                   *)
Stages == {"sleep", "value", "none"}
Sampler == [id : Tasks, kind : Kinds, stage : Stages]

TypeOK ==
  /\ drive \in [Drives -> {"new", "runs", "aborted", "gone"}]
  /\ buf \in [Drives -> Kinds \cup {NULL}]
  /\ asked \in [Drives -> SUBSET Kinds]
  /\ hubs \subseteq Kinds
  /\ subs \subseteq Sub
  /\ tasks \subseteq Sampler
  /\ \A d \in Drives : drive[d] = "gone" => buf[d] = NULL

Init ==
  /\ drive = [d \in Drives |-> "new"]
  /\ buf = [d \in Drives |-> NULL]
  /\ asked = [d \in Drives |-> {}]
  /\ hubs = {}
  /\ subs = {}
  /\ tasks = {}

-----------------------------------------------------------------------------
(* Drive tasks *)

(* The bar builds a plugin: at most one module per instance id. *)
AddPlugin(d) ==
  /\ drive[d] = "new"
  /\ \A e \in Drives : Token[e] = Token[d] => drive[e] # "runs"
  /\ drive' = [drive EXCEPT ![d] = "runs"]
  /\ UNCHANGED <<buf, asked, hubs, subs, tasks>>

(* WasmModule::shutdown or drop. *)
Abort(d) ==
  /\ drive[d] = "runs"
  /\ drive' = [drive EXCEPT ![d] = "aborted"]
  /\ UNCHANGED <<buf, asked, hubs, subs, tasks>>

(* The task is dropped: aborted, or its guest trapped.  The receiver of its *)
(* channel goes with it.                                                    *)
End(d) ==
  /\ drive[d] \in {"runs", "aborted"}
  /\ drive' = [drive EXCEPT ![d] = "gone"]
  /\ buf' = [buf EXCEPT ![d] = NULL]
  /\ UNCHANGED <<asked, hubs, subs, tasks>>

(* The drive loop takes the sample and calls update. *)
WakeFeed(d) ==
  /\ drive[d] = "runs"
  /\ buf[d] # NULL
  /\ buf' = [buf EXCEPT ![d] = NULL]
  /\ UNCHANGED <<drive, asked, hubs, subs, tasks>>

-----------------------------------------------------------------------------
(* subscribe_feed, under the lock of feeds *)

SubsOf(k) == {s \in subs : s.kind = k}

NewSub(d, k, p) == [kind |-> k, chan |-> d, period |-> p, wait |-> 0]

(* Re-subscribing updates the period of the token's subscription, whatever  *)
(* channel that one holds.  Faulty variants: it adds another; it starts the *)
(* period anew.                                                             *)
Upsert_Appends(d, k, p) == subs' = subs \cup {NewSub(d, k, p)}

Upsert_Resets(d, k, p) ==
  LET own == {s \in SubsOf(k) : Token[s.chan] = Token[d]}
  IN  subs' = IF own = {}
                THEN subs \cup {NewSub(d, k, p)}
                ELSE (subs \ own) \cup {[s EXCEPT !.period = p, !.wait = p] : s \in own}

Upsert(d, k, p) ==
  LET own == {s \in SubsOf(k) : Token[s.chan] = Token[d]}
  IN  subs' = IF own = {}
                THEN subs \cup {NewSub(d, k, p)}
                ELSE (subs \ own) \cup {[s EXCEPT !.period = p] : s \in own}

SpawnSampler(k) ==
  \E t \in Tasks :
    /\ \A u \in tasks : u.id # t
    /\ tasks' = tasks \cup {[id |-> t, kind |-> k, stage |-> "sleep"]}

SubscribeFeed(d, k, p) ==
  /\ Upsert(d, k, p)
  /\ hubs' = hubs \cup {k}
  /\ IF k \in hubs THEN UNCHANGED tasks ELSE SpawnSampler(k)

(* register_feeds, after a guest call that asked for feed k. *)
RegisterFeeds(d, k, p) ==
  /\ drive[d] \in {"runs", "aborted"}
  /\ asked' = [asked EXCEPT ![d] = @ \cup {k}]
  /\ SubscribeFeed(d, k, p)
  /\ UNCHANGED <<drive, buf>>

-----------------------------------------------------------------------------
(* The sampler task *)

Stage(t, s) == tasks' = (tasks \ {t}) \cup {[t EXCEPT !.stage = s]}

(* One reading on the blocking pool, with no lock held. *)
Sample(t) ==
  /\ t.stage = "sleep"
  /\ \/ t.kind \notin Silent /\ Stage(t, "value")
     \/ Stage(t, "none")
  /\ UNCHANGED <<drive, buf, asked, hubs, subs>>

(* A subscription is due when its period has passed since the last sample   *)
(* it was sent; a sample is BASE.                                           *)
Due(s) == s.wait <= 1
Closed(s) == drive[s.chan] = "gone"
Taken(s) == Due(s) /\ ~Closed(s) /\ buf[s.chan] = NULL

(* What retain_mut keeps and sends: a subscription that is not due stays, a *)
(* full channel loses the sample, a closed one its subscription.  Faulty    *)
(* variant: a closed one is taken for a full one.                           *)
Retained_KeepsClosed(k) ==
  { [s EXCEPT !.wait = IF Taken(s) THEN s.period ELSE IF Due(s) THEN 0 ELSE s.wait - 1] :
      s \in SubsOf(k) }

Retained(k) ==
  { [s EXCEPT !.wait = IF Taken(s) THEN s.period ELSE IF Due(s) THEN 0 ELSE s.wait - 1] :
      s \in {r \in SubsOf(k) : Due(r) => ~Closed(r)} }

Aged(k) == {[s EXCEPT !.wait = IF s.wait = 0 THEN 0 ELSE s.wait - 1] : s \in SubsOf(k)}

FanOut(t) ==
  IF t.stage = "value"
    THEN /\ subs' = (subs \ SubsOf(t.kind)) \cup Retained(t.kind)
         /\ buf' = [d \in Drives |->
                      IF \E s \in SubsOf(t.kind) : s.chan = d /\ Taken(s)
                        THEN t.kind ELSE buf[d]]
    ELSE /\ subs' = (subs \ SubsOf(t.kind)) \cup Aged(t.kind)
         /\ UNCHANGED buf

(* The emptiness test and the removal of the hub, in the critical section   *)
(* of the fan-out.  Faulty variant: the hub stays behind a task that ends.   *)
EndOrSleep_KeepsHub(t) ==
  /\ UNCHANGED hubs
  /\ IF \E s \in subs' : s.kind = t.kind THEN Stage(t, "sleep") ELSE tasks' = tasks \ {t}

EndOrSleep(t) ==
  IF \E s \in subs' : s.kind = t.kind
    THEN Stage(t, "sleep") /\ UNCHANGED hubs
    ELSE tasks' = tasks \ {t} /\ hubs' = hubs \ {t.kind}

Pass(t) ==
  /\ t.stage # "sleep"
  /\ IF t.kind \in hubs
       THEN FanOut(t) /\ EndOrSleep(t)
       ELSE tasks' = tasks \ {t} /\ UNCHANGED <<buf, hubs, subs>>
  /\ UNCHANGED <<drive, asked>>

Next ==
  \/ \E d \in Drives :
       \/ AddPlugin(d) \/ Abort(d) \/ End(d) \/ WakeFeed(d)
       \/ \E k \in Kinds, p \in Periods : RegisterFeeds(d, k, p)
  \/ \E t \in tasks : Sample(t) \/ Pass(t)

Spec == Init /\ [][Next]_vars

(* A guest that asks for its feed again with every call. *)
Reasserts(d, k) == \E p \in Periods : k \in asked[d] /\ RegisterFeeds(d, k, p)

-----------------------------------------------------------------------------
(* Properties *)

(* A kind has a hub exactly while one sampler task serves it: no second     *)
(* task, no hub that nobody samples (RFC 0012 4.2, lib.rs 1376-1377).       *)
OneTaskPerHub ==
  \A k \in Kinds :
    LET serving == {t \in tasks : t.kind = k}
    IN  IF k \in hubs THEN \E t \in serving : serving = {t} ELSE serving = {}

(* An instance id has one subscription per kind, and a subscription is in a *)
(* hub that is sampled (lib.rs 1335-1336).                                  *)
OneSubPerToken ==
  /\ \A s \in subs : s.kind \in hubs
  /\ \A s, t \in subs : s.kind = t.kind /\ Token[s.chan] = Token[t.chan] => s = t

(* One sampler to a hub, one subscription to a plugin. *)
OneSampler == OneTaskPerHub /\ OneSubPerToken

(* A plugin that runs and has asked for a feed is sent a sample in the end. *)
FeedArrives ==
  \A d \in Drives, k \in Kinds \ Silent :
    []<>(drive[d] = "runs" /\ k \in asked[d] => buf[d] = k)

(* When every plugin that asked for a kind is gone, its sampler task ends.  *)
Wants(k) == \E d \in Drives : drive[d] # "gone" /\ k \in asked[d]

IdleIsZero == \A k \in Kinds : []<>(Wants(k) \/ \A t \in tasks : t.kind # k)
=============================================================================
