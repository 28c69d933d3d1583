------------------------------ MODULE Singleton ------------------------------
(***************************************************************************)
(* What the launcher promises: each Wayland session has at most one bar,   *)
(* and a bar gives way to another only by ending first.                    *)
(***************************************************************************)
CONSTANTS Procs, Sessions

VARIABLE bars    \* bars[s] is the set of processes that draw session s

Init == bars = [s \in Sessions |-> {}]

Start(s, p) ==
  /\ bars[s] = {}
  /\ bars' = [bars EXCEPT ![s] = {p}]

Stop(s) ==
  /\ bars[s] # {}
  /\ bars' = [bars EXCEPT ![s] = {}]

Next == \E s \in Sessions : Stop(s) \/ \E p \in Procs : Start(s, p)

Spec == Init /\ [][Next]_bars
=============================================================================
