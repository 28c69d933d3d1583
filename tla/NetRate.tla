------------------------------ MODULE NetRate ------------------------------
(***************************************************************************)
(* The rate the bar samples for the plugins' net feed (src/main.rs,        *)
(* net_rate and net_total_bytes): what all interfaces but the loopback     *)
(* have moved, over the time since the sample before.                      *)
(*                                                                         *)
(* Interfaces come and go and their counters start again from zero, reads  *)
(* of /proc may fail, and the sampler runs only while a plugin listens, so *)
(* that two samples may be any time apart.                                 *)
(***************************************************************************)
EXTENDS Integers, FiniteSets, FiniteSetsExt

CONSTANTS
  Interfaces,  \* the interfaces but lo
  GAP,         \* the longest time a rate is worked out over (5 s)
  MaxBytes,    \* bound: a counter
  Word,        \* what a counter wraps at (2^64)
  MaxTime,     \* bound: time
  NIL

ASSUME NetAssumption ==
  /\ IsFiniteSet(Interfaces) /\ GAP \in Nat /\ MaxTime \in Nat
  /\ MaxBytes \in Nat /\ Word \in Nat /\ MaxBytes < Word
  /\ NIL \notin [at : Nat, total : Nat]
  /\ NIL \notin [bytes : Nat, dt : Nat, moved : Nat, whole : BOOLEAN]

VARIABLES
  bytes,  \* the counters of /proc/net/dev
  now,    \* the clock
  prev,   \* the sample before: when, and the total
  moved,  \* history: what was moved since prev, in truth
  reset,  \* history: a counter started again since prev
  told    \* the sample: the bytes and the time it divides, with the truth

netVars == <<bytes, now, prev, moved, reset, told>>

NetInit ==
  /\ bytes = [i \in Interfaces |-> 0]
  /\ now = 0 /\ prev = NIL /\ moved = 0 /\ reset = FALSE
  /\ told = NIL

Traffic(i) ==
  /\ bytes[i] < MaxBytes /\ moved < MaxBytes
  /\ bytes' = [bytes EXCEPT ![i] = @ + 1]
  /\ moved' = moved + 1
  /\ UNCHANGED <<now, prev, reset, told>>

\* Interface i goes, or comes back: its counters are zero.
Restart(i) ==
  /\ bytes[i] > 0
  /\ bytes' = [bytes EXCEPT ![i] = 0]
  /\ reset' = TRUE
  /\ UNCHANGED <<now, prev, moved, told>>

ClockTicks ==
  /\ now < MaxTime
  /\ now' = now + 1
  /\ UNCHANGED <<bytes, prev, moved, reset, told>>

\* net_total_bytes
Total == MapThenSumSet(LAMBDA i : bytes[i], Interfaces)

\* Faulty variant: a total that went back is not looked for.
Stale_Never(dt, total) == dt <= 0 \/ dt > GAP

\* A sample that no rate comes from: it only primes the next.
Stale(dt, total) == dt <= 0 \/ dt > GAP \/ total < prev.total

\* One sample: the rate since the one before, if there is one, and that becomes this.
SampleRate ==
  /\ told' = IF prev = NIL \/ (prev # NIL /\ Stale(now - prev.at, Total)) THEN NIL
             ELSE [bytes |-> (Total - prev.total) % Word, dt |-> now - prev.at,
                   moved |-> moved, whole |-> ~reset]
  /\ prev' = [at |-> now, total |-> Total]
  /\ moved' = 0 /\ reset' = FALSE
  /\ UNCHANGED <<bytes, now>>

\* The read fails: no sample, and the one before stays.
SampleFails ==
  /\ told' = NIL
  /\ UNCHANGED <<bytes, now, prev, moved, reset>>

NetNext ==
  \/ \E i \in Interfaces : Traffic(i) \/ Restart(i)
  \/ ClockTicks \/ SampleRate \/ SampleFails

NetSpec == NetInit /\ [][NetNext]_netVars

-----------------------------------------------------------------------------
NetTypeOK ==
  /\ bytes \in [Interfaces -> 0 .. MaxBytes] /\ now \in 0 .. MaxTime
  /\ moved \in Nat /\ reset \in BOOLEAN

\* No spike, whatever interfaces and the sampler do: a rate is over a short while and never
\* above what was moved in it, and it is just that when no counter started again
\* (net_rate).
NoSpike ==
  told # NIL =>
    /\ told.dt \in 1 .. GAP
    /\ told.bytes <= told.moved
    /\ told.whole => told.bytes = told.moved
=============================================================================
