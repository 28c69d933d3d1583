-------------------------- MODULE Contents_proofs --------------------------
(***************************************************************************)
(* What is on record is what was consented to, and a plugin with           *)
(* capabilities has the bytes of its consent, as long as the command and   *)
(* the bar do not save at the same time: for any plugins, versions and     *)
(* capabilities, and whatever is interrupted.  And what is worked out to be*)
(* shown is right: the calendar popup tells the days of its month, for any *)
(* months and weekday they begin with, the clock the time of its zone, and *)
(* a theme has the values of the last layers and palettes that give them,  *)
(* and the agents' meter gives every agent a session of its own and counts *)
(* its tokens once.                                                        *)
(***************************************************************************)
EXTENDS Consent, MonthGrid, ClockStream, Resolve, Agents, FiniteSetTheorems, WellFoundedInduction,
        TLAPS

(* What the steps need of the types. *)
RwShape ==
  /\ rw \in [Procs -> [at : {"none", "load", "open", "write", "rename", "saved", "failed"},
                       id : Ids \cup {NONE}, val : Content, doc : Doc]]
  /\ \A p \in Procs : rw[p].at # "none" => rw[p].id \in Ids

BarShape ==
  /\ bar = [at |-> bar.at, todo |-> bar.todo, id |-> bar.id, hash |-> bar.hash,
            conf |-> bar.conf, trusted |-> bar.trusted]
  /\ bar.at \in {"verdict", "first", "build"} => bar.id \in Ids
  /\ bar.at = "verdict" => bar.hash \in Content

DiskShape ==
  /\ file \in [Ids -> Content]
  /\ grants \in Doc /\ consent \in Doc
  /\ DOMAIN run = Ids /\ fd \in [Procs -> {"tmp", "live", NONE}]

(* One process saves at a time. *)
OneSaves == ~(Saving("cli") /\ Saving("bar"))

(* What a process is about to write is grants.toml with its entry changed,  *)
(* and what it is about to rename is all of that.                           *)
SavesRight(p) ==
  /\ Saving(p) => rw[p].doc = [grants EXCEPT ![rw[p].id] = rw[p].val]
  /\ rw[p].at = "write" => fd[p] = "tmp" /\ tmp = Empty
  /\ rw[p].at = "rename" => tmp = rw[p].doc

SavesOne == \A p \in Procs : SavesRight(p)

(* A first sight was a first sight when it was taken for one. *)
FirstTrusted == bar.at = "first" => bar.trusted

IInv ==
  /\ RwShape /\ BarShape /\ DiskShape
  /\ OneSaves /\ SavesOne /\ SavedStays
  /\ FirstTrusted /\ BoundToBytes

-----------------------------------------------------------------------------
LEMMA Others == Other("cli") = "bar" /\ Other("bar") = "cli"
BY DEF Other, Procs

LEMMA EmptyIsDoc == Empty \in Doc
BY DEF Empty, Doc, Content

(* Steps of the commands and of the bar, which save nothing themselves: a   *)
(* process begins to save, or is done with it.                              *)
LEMMA BeginsKeeps ==
  ASSUME IInv, NEW p \in Procs, NEW i \in Ids, NEW v \in Content, Begin(p, i, v),
         UNCHANGED <<grants, tmp, fd, consent>>
  PROVE  RwShape' /\ OneSaves' /\ SavesOne' /\ SavedStays'
<1>1. RwShape'
  BY EmptyIsDoc DEF IInv, RwShape, Begin
<1>2. ~Saving(p)' /\ \A q \in Procs : rw'[q].at # "load" => rw'[q] = rw[q]
  BY DEF IInv, RwShape, Begin, Saving
<1>3. \A q \in Procs : Saving(q)' => Saving(q) /\ rw'[q] = rw[q]
  BY <1>2 DEF Saving
<1>4. OneSaves'
  BY <1>3 DEF IInv, OneSaves, Procs
<1>5. SavesOne'
  BY <1>2, <1>3 DEF IInv, SavesOne, SavesRight, Saving
<1> QED
  BY <1>1, <1>4, <1>5 DEF IInv, SavedStays

LEMMA EndsKeeps ==
  ASSUME IInv, NEW p \in Procs, rw' = [rw EXCEPT ![p] = NoRw],
         fd' = fd \/ fd' = [fd EXCEPT ![p] = NONE], UNCHANGED <<grants, tmp, consent>>
  PROVE  RwShape' /\ OneSaves' /\ SavesOne' /\ SavedStays' /\ fd' \in [Procs -> {"tmp", "live", NONE}]
<1>1. RwShape'
  BY EmptyIsDoc DEF IInv, RwShape, NoRw, Content
<1>2. rw'[p].at = "none" /\ \A q \in Procs \ {p} : rw'[q] = rw[q] /\ fd'[q] = fd[q]
  BY DEF IInv, RwShape, DiskShape, NoRw
<1>3. OneSaves'
  BY <1>2 DEF IInv, OneSaves, Procs, Saving
<1>4. SavesOne'
  BY <1>2 DEF IInv, SavesOne, SavesRight, Saving
<1> QED
  BY <1>1, <1>3, <1>4 DEF IInv, SavedStays, DiskShape

(* The instances that run keep what they have, or go, or are built anew.    *)
LEMMA RunKeeps ==
  ASSUME IInv, DOMAIN run' = Ids, \A i \in Ids : run'[i] = run[i] \/ run'[i] = NONE
  PROVE  BoundToBytes'
BY DEF IInv, BoundToBytes

LEMMA BuiltKeeps ==
  ASSUME IInv, bar.id \in Ids, NEW granted \in BOOLEAN, NEW trusted \in BOOLEAN,
         Built(granted, trusted), granted => trusted
  PROVE  BoundToBytes' /\ BarShape' /\ FirstTrusted' /\ DOMAIN run' = Ids
<1>1. BoundToBytes' /\ DOMAIN run' = Ids
  BY DEF IInv, BoundToBytes, DiskShape, Built
<1>2. BarShape' /\ FirstTrusted'
  BY DEF IInv, BarShape, FirstTrusted, Built
<1> QED
  BY <1>1, <1>2

-----------------------------------------------------------------------------
(* Saving *)
LEMMA SaveKeeps ==
  ASSUME ~Overlap, IInv, NEW p \in Procs, Save(p)
  PROVE  IInv'
<1>1. PICK q \in Procs : q = Other(p) /\ q # p /\ Procs = {p, q}
  BY Others DEF Procs
<1>2. UNCHANGED <<file, bar, run>>
  BY DEF Save, Load, OpenTemp, WriteTemp, Rename, SaveFails, Resting, disk
<1>3. BarShape' /\ FirstTrusted' /\ BoundToBytes' /\ DOMAIN run' = Ids
  BY <1>2 DEF IInv, BarShape, FirstTrusted, BoundToBytes, DiskShape
<1>4. rw[p] \in [at : {"none", "load", "open", "write", "rename", "saved", "failed"},
                 id : Ids \cup {NONE}, val : Content, doc : Doc]
  BY DEF IInv, RwShape
<1>5. ~Saving(p) \/ ~Saving(q)
  BY <1>1 DEF IInv, OneSaves, Procs
<1>6. CASE Load(p)
  <2> DEFINE doc == [grants EXCEPT ![rw[p].id] = rw[p].val]
             to == IF doc = grants /\ rw[p].val = NONE THEN "failed" ELSE "open"
  <2>1. rw' = [rw EXCEPT ![p].doc = doc, ![p].at = to] /\ rw[p].at = "load" /\ ~Saving(q)
    BY <1>1, <1>6 DEF Load
  <2>2. rw[p].id \in Ids /\ doc \in Doc
    BY <1>4, <2>1 DEF IInv, RwShape, DiskShape, Doc
  <2>3. rw'[p] = [at |-> to, id |-> rw[p].id, val |-> rw[p].val, doc |-> doc] /\ rw'[q] = rw[q]
    BY <1>1, <1>4, <2>1 DEF IInv, RwShape
  <2>4. RwShape'
    BY <1>1, <1>4, <2>1, <2>2, <2>3 DEF IInv, RwShape
  <2>5. UNCHANGED <<grants, tmp, fd, consent>>
    BY <1>6 DEF Load, store
  <2>6. OneSaves' /\ ~Saving(q)'
    BY <1>1, <2>1, <2>3 DEF OneSaves, Saving, Procs
  <2>7. SavesRight(p)'
    <3>1. rw'[p].at = to /\ rw'[p].doc = doc /\ rw'[p].id = rw[p].id /\ rw'[p].val = rw[p].val
      BY <2>3
    <3>2. to \in {"failed", "open"}
      OBVIOUS
    <3>3. rw'[p].doc = [grants' EXCEPT ![rw'[p].id] = rw'[p].val]
      BY <2>5, <3>1
    <3> QED
      BY <3>1, <3>2, <3>3 DEF SavesRight
  <2>8. SavesRight(q)'
    BY <2>6 DEF SavesRight, Saving
  <2>9. SavesOne'
    BY <1>1, <2>7, <2>8 DEF SavesOne
  <2> QED
    BY <1>2, <1>3, <2>4, <2>5, <2>6, <2>9 DEF IInv, DiskShape, SavedStays
<1>7. ASSUME NEW l \in {"write", "rename", "saved", "failed"}, Saving(p),
             rw' = [rw EXCEPT ![p].at = l]
      PROVE  /\ RwShape' /\ OneSaves' /\ rw'[q] = rw[q] /\ ~Saving(q)'
             /\ rw'[p].at = l /\ rw'[p].doc = rw[p].doc /\ rw'[p].id = rw[p].id /\ rw'[p].val = rw[p].val
             /\ rw[p].id \in Ids /\ SavesRight(q)'
  <2>1. rw'[p] = [rw[p] EXCEPT !.at = l] /\ rw'[q] = rw[q]
    BY <1>1, <1>7 DEF IInv, RwShape
  <2>2. rw[p].id \in Ids
    BY <1>7 DEF IInv, RwShape, Saving
  <2>3. RwShape'
    BY <1>1, <1>4, <1>7, <2>1, <2>2 DEF IInv, RwShape
  <2>4. OneSaves' /\ ~Saving(q)'
    BY <1>1, <1>5, <1>7, <2>1 DEF OneSaves, Saving, Procs
  <2>5. SavesRight(q)'
    BY <2>4 DEF SavesRight, Saving
  <2> QED
    BY <1>4, <2>1, <2>2, <2>3, <2>4, <2>5
<1>8. CASE OpenTemp(p)
  <2>1. Saving(p) /\ rw' = [rw EXCEPT ![p].at = "write"]
    BY <1>8 DEF OpenTemp, At, Saving
  <2>2. tmp' = Empty /\ fd' = [fd EXCEPT ![p] = "tmp"] /\ UNCHANGED <<grants, consent>>
    BY <1>8 DEF OpenTemp
  <2>3. SavesOne'
    <3>1. SavesRight(p)'
      BY <1>7, <2>1, <2>2 DEF IInv, SavesOne, SavesRight, Saving, DiskShape
    <3> QED
      BY <1>1, <1>7, <2>1, <3>1 DEF SavesOne
  <2> QED
    BY <1>2, <1>3, <1>7, <2>1, <2>2, <2>3 DEF IInv, DiskShape, SavedStays
<1>9. CASE WriteTemp(p)
  <2>1. Saving(p) /\ rw[p].at = "write" /\ rw' = [rw EXCEPT ![p].at = "rename"]
    BY <1>9 DEF WriteTemp, At, Saving
  <2>2. fd[p] = "tmp" /\ tmp = Empty
    BY <2>1 DEF IInv, SavesOne, SavesRight
  <2>3. /\ tmp' = rw[p].doc /\ fd' = [fd EXCEPT ![p] = NONE]
        /\ UNCHANGED <<grants, consent>>
    BY <1>9, <2>2 DEF WriteTemp, Written
  <2>4. SavesOne'
    <3>1. SavesRight(p)'
      BY <1>7, <2>1, <2>3 DEF IInv, SavesOne, SavesRight, Saving, DiskShape
    <3> QED
      BY <1>1, <1>7, <2>1, <3>1 DEF SavesOne
  <2> QED
    BY <1>2, <1>3, <1>7, <2>1, <2>3, <2>4 DEF IInv, DiskShape, SavedStays
<1>10. CASE Rename(p)
  <2>1. Saving(p) /\ rw[p].at = "rename" /\ rw' = [rw EXCEPT ![p].at = "saved"]
    BY <1>10 DEF Rename, At, Saving
  <2>2. grants' = [grants EXCEPT ![rw[p].id] = rw[p].val]
    BY <1>10, <2>1 DEF Rename, IInv, SavesOne, SavesRight
  <2>3. consent' = [consent EXCEPT ![rw[p].id] = rw[p].val]
    BY <1>10 DEF Rename
  <2>4. fd' \in [Procs -> {"tmp", "live", NONE}]
    <3>1. Moved(Other(p)) \in {"tmp", "live", NONE}
      BY DEF Moved
    <3> QED
      BY <1>10, <3>1 DEF Rename, IInv, DiskShape
  <2>5. SavesOne'
    BY <1>1, <1>7, <2>1 DEF SavesOne, SavesRight, Saving
  <2>6. grants' \in Doc /\ consent' \in Doc /\ SavedStays'
    BY <1>4, <1>7, <2>1, <2>2, <2>3 DEF IInv, DiskShape, SavedStays, Doc
  <2> QED
    BY <1>2, <1>3, <1>7, <2>1, <2>4, <2>5, <2>6 DEF IInv, DiskShape
<1>11. CASE SaveFails(p)
  <2>1. Saving(p) /\ rw' = [rw EXCEPT ![p].at = "failed"]
    BY <1>11 DEF SaveFails
  <2>2. fd' = [fd EXCEPT ![p] = NONE] /\ UNCHANGED <<grants, tmp, consent>>
    BY <1>11 DEF SaveFails
  <2>3. SavesOne'
    BY <1>1, <1>7, <2>1 DEF SavesOne, SavesRight, Saving
  <2> QED
    BY <1>2, <1>3, <1>7, <2>1, <2>2, <2>3 DEF IInv, DiskShape, SavedStays
<1> QED
  BY <1>6, <1>8, <1>9, <1>10, <1>11 DEF Save

-----------------------------------------------------------------------------
LEMMA InitInv ==
  ASSUME Init
  PROVE  IInv
<1> USE EmptyIsDoc DEF Init
<1>1. RwShape
  BY DEF RwShape, NoRw, Content
<1>2. BarShape
  BY DEF BarShape
<1>3. DiskShape
  BY ConsentAssumption DEF DiskShape, Content
<1>4. \A p \in Procs : rw[p].at = "none"
  BY DEF NoRw
<1>5. OneSaves /\ SavesOne
  BY <1>4 DEF OneSaves, SavesOne, SavesRight, Saving, Procs
<1>6. SavedStays /\ FirstTrusted /\ BoundToBytes
  BY DEF SavedStays, FirstTrusted, BoundToBytes
<1> QED
  BY <1>1, <1>2, <1>3, <1>5, <1>6 DEF IInv
(* What the command does leaves the instances alone, and the bar leaves the *)
(* files of plugins alone.                                                  *)
LEMMA BarRests ==
  ASSUME IInv, UNCHANGED <<bar, run>>
  PROVE  BarShape' /\ FirstTrusted' /\ BoundToBytes' /\ DOMAIN run' = Ids
BY DEF IInv, BarShape, FirstTrusted, BoundToBytes, DiskShape

LEMMA StoreRests ==
  ASSUME IInv, UNCHANGED <<grants, tmp, fd, rw, consent>>
  PROVE  RwShape' /\ OneSaves' /\ SavesOne' /\ SavedStays'
BY DEF IInv, RwShape, OneSaves, SavesOne, SavesRight, SavedStays, Saving

LEMMA ChangedShape ==
  ASSUME IInv, NEW i \in Ids, NEW v \in Content, Changed(i, v)
  PROVE  file' \in [Ids -> Content]
BY DEF IInv, DiskShape, Changed

LEMMA CommandKeeps ==
  ASSUME IInv, Command \/ CliStep
  PROVE  IInv'
<1> "cli" \in Procs
  BY DEF Procs
<1>1. UNCHANGED <<bar, run, grants, tmp, consent>>
  BY DEF Command, CliStep, RemovePlugin, Grant, Approve, Forget, Stop, store
<1>2. BarShape' /\ FirstTrusted' /\ BoundToBytes' /\ DOMAIN run' = Ids
  BY <1>1, BarRests
<1>3. ASSUME NEW i \in Managed, RemovePlugin(i) \/ \E d \in BOOLEAN : Grant(i, d)
      PROVE  IInv'
  <2>1. i \in Ids
    BY ConsentAssumption
  <2>2. PICK v \in Content : Begin("cli", i, v)
    BY <1>3, <2>1 DEF RemovePlugin, Grant, Content, IInv, DiskShape
  <2>3. fd' = fd /\ file' \in [Ids -> Content]
    BY <1>3, <2>1, ChangedShape DEF RemovePlugin, Grant, store, Content, IInv, DiskShape
  <2> QED
    BY <1>1, <1>2, <2>1, <2>2, <2>3, BeginsKeeps DEF IInv, DiskShape
<1>4. CASE CliStep
  <2>1. /\ rw' = [rw EXCEPT !["cli"] = NoRw] /\ file' = file
        /\ fd' = fd \/ fd' = [fd EXCEPT !["cli"] = NONE]
    BY <1>4 DEF CliStep, Approve, Forget, Stop, Saved, disk, store
  <2> QED
    BY <1>1, <1>2, <2>1, EndsKeeps DEF IInv, DiskShape
<1> QED
  BY <1>3, <1>4 DEF Command

(* The bar decides by the record, which is the consent: without one there   *)
(* was none, and with one of other bytes it withholds.                      *)
LEMMA VerdictKeeps ==
  ASSUME IInv, Verdict
  PROVE  IInv'
<1>1. bar.at = "verdict" /\ bar.id \in Ids /\ grants[bar.id] = consent[bar.id]
  BY DEF Verdict, IInv, BarShape, SavedStays
<1>2. UNCHANGED <<file, grants, tmp, fd, consent>> /\ "bar" \in Procs
  BY DEF Verdict, disk, store, Procs
<1>3. CASE grants[bar.id] = NONE
  <2>1. /\ bar' = [bar EXCEPT !.at = "first", !.trusted = Trusted] /\ run' = run
        /\ Begin("bar", bar.id, bar.hash)
    BY <1>3 DEF Verdict
  <2>2. Trusted
    BY <1>1, <1>3 DEF Trusted
  <2>3. BarShape' /\ FirstTrusted'
    BY <1>1, <2>1, <2>2 DEF IInv, BarShape, FirstTrusted
  <2> QED
    BY <1>1, <1>2, <2>1, <2>3, BeginsKeeps DEF IInv, BarShape, DiskShape, BoundToBytes
<1>4. CASE grants[bar.id] # NONE
  <2>1. Built(grants[bar.id] = bar.hash, Trusted) /\ rw' = rw
    BY <1>4 DEF Verdict
  <2>2. (grants[bar.id] = bar.hash) => Trusted
    BY <1>1 DEF Trusted
  <2>3. BoundToBytes' /\ BarShape' /\ FirstTrusted' /\ DOMAIN run' = Ids
    <3>1. DOMAIN run' = Ids /\ BarShape' /\ FirstTrusted'
      BY <1>1, <2>1 DEF Built, IInv, BarShape, DiskShape, FirstTrusted
    <3>2. BoundToBytes'
      BY <1>1, <2>1, <2>2 DEF Built, IInv, DiskShape, BoundToBytes
    <3> QED
      BY <3>1, <3>2
  <2> QED
    BY <1>2, <2>1, <2>3, StoreRests DEF IInv, DiskShape
<1> QED
  BY <1>3, <1>4

LEMMA BarStepKeeps ==
  ASSUME IInv, BarStep
  PROVE  IInv'
<1> "bar" \in Procs
  BY DEF Procs
<1>1. CASE Verdict
  BY <1>1, VerdictKeeps
<1>2. CASE FirstSight
  <2>1. bar.id \in Ids /\ bar.trusted /\ Built(TRUE, bar.trusted)
    BY <1>2 DEF FirstSight, IInv, BarShape, FirstTrusted
  <2>2. BoundToBytes' /\ BarShape' /\ FirstTrusted' /\ DOMAIN run' = Ids
    BY <2>1 DEF IInv, BoundToBytes, DiskShape, Built, BarShape, FirstTrusted
  <2>3. rw' = [rw EXCEPT !["bar"] = NoRw] /\ UNCHANGED <<file, grants, tmp, fd, consent>>
    BY <1>2 DEF FirstSight, Saved, disk, store
  <2> QED
    BY <2>2, <2>3, EndsKeeps DEF IInv, DiskShape
<1>3. CASE Unreadable
  <2>1. bar.id \in Ids /\ Built(FALSE, TRUE) /\ UNCHANGED <<file, grants, tmp, fd, rw, consent>>
    BY <1>3 DEF Unreadable, IInv, BarShape, disk, store
  <2>2. BoundToBytes' /\ BarShape' /\ FirstTrusted' /\ DOMAIN run' = Ids
    BY <2>1, BuiltKeeps
  <2> QED
    BY <2>1, <2>2, StoreRests DEF IInv, DiskShape
<1>4. CASE Crash
  <2>1. /\ rw' = [rw EXCEPT !["bar"] = NoRw] /\ fd' = [fd EXCEPT !["bar"] = NONE]
        /\ UNCHANGED <<file, grants, tmp, consent>>
    BY <1>4 DEF Crash, disk
  <2>2. BarShape' /\ FirstTrusted' /\ BoundToBytes' /\ DOMAIN run' = Ids
    BY <1>4 DEF Crash, IInv, BarShape, FirstTrusted, BoundToBytes
  <2> QED
    BY <2>1, <2>2, EndsKeeps DEF IInv, DiskShape
<1>5. ASSUME Reload \/ Reloaded \/ \E i \in Ids : Keep(i) \/ Hash(i)
      PROVE  IInv'
  <2>1. UNCHANGED <<file, grants, tmp, fd, rw, consent>>
    BY <1>5 DEF Reload, Reloaded, Keep, Hash, disk, store
  <2>2. DOMAIN run' = Ids /\ \A i \in Ids : run'[i] = run[i] \/ run'[i] = NONE
    BY <1>5 DEF Reload, Reloaded, Keep, Hash, IInv, DiskShape
  <2>3. BarShape' /\ FirstTrusted'
    <3>1. ASSUME NEW i \in Ids, Hash(i) PROVE BarShape' /\ FirstTrusted'
      <4>1. bar' = [bar EXCEPT !.at = IF file[i] = NONE THEN "build" ELSE "verdict", !.id = i, !.hash = file[i]]
        BY <3>1 DEF Hash
      <4>2. bar'.at \in {"build", "verdict"} /\ bar'.id = i /\ bar'.hash = file[i]
        BY <4>1 DEF IInv, BarShape
      <4>3. bar' = [at |-> bar'.at, todo |-> bar'.todo, id |-> bar'.id, hash |-> bar'.hash,
                    conf |-> bar'.conf, trusted |-> bar'.trusted]
        BY <4>1 DEF IInv, BarShape
      <4> QED
        BY <4>2, <4>3 DEF BarShape, FirstTrusted, IInv, DiskShape
    <3>2. CASE Reload
      BY <3>2 DEF Reload, BarShape, FirstTrusted
    <3>3. ASSUME Reloaded \/ \E i \in Ids : Keep(i) PROVE BarShape' /\ FirstTrusted'
      BY <3>3 DEF Reloaded, Keep, IInv, BarShape, FirstTrusted
    <3> QED
      BY <1>5, <3>1, <3>2, <3>3
  <2> QED
    BY <2>1, <2>2, <2>3, RunKeeps, StoreRests DEF IInv, DiskShape
<1> QED
  BY <1>1, <1>2, <1>3, <1>4, <1>5 DEF BarStep

LEMMA NextInv ==
  ASSUME ~Overlap, IInv, [Next]_vars
  PROVE  IInv'
<1>1. CASE Command \/ CliStep
  BY <1>1, CommandKeeps
<1>2. CASE BarStep
  BY <1>2, BarStepKeeps
<1>3. ASSUME NEW p \in Procs, Save(p) PROVE IInv'
  BY <1>3, SaveKeeps
<1>4. ASSUME NEW i \in Managed, Deploy(i) PROVE IInv'
  <2>1. file' \in [Ids -> Content] /\ UNCHANGED <<store, bar, rw, run, consent>>
    BY <1>4, ChangedShape, ConsentAssumption DEF Deploy, Content
  <2> QED
    BY <2>1, BarRests, StoreRests DEF IInv, DiskShape, store
<1>5. CASE UNCHANGED vars
  BY <1>5, BarRests, StoreRests DEF vars, disk, store, IInv, DiskShape
<1> QED
  BY <1>1, <1>2, <1>3, <1>4, <1>5 DEF Next

-----------------------------------------------------------------------------
(* A consent that was recorded stays on record when the command and the bar *)
(* do not save at the same time, whatever is interrupted (record, forget).  *)
THEOREM ConsentStays == ASSUME ~Overlap PROVE Spec => []SavedStays
<1>1. Init => IInv
  BY InitInv
<1>2. IInv /\ [Next]_vars => IInv'
  BY NextInv
<1>3. IInv => SavedStays
  BY DEF IInv
<1> QED
  BY <1>1, <1>2, <1>3, PTL DEF Spec

(* And then the bar gives no plugin capabilities unless the bytes it looked *)
(* at are those of the last consent (decide, build).                        *)
THEOREM ConsentBoundToBytes == ASSUME ~Overlap PROVE Spec => []BoundToBytes
<1>1. Init => IInv
  BY InitInv
<1>2. IInv /\ [Next]_vars => IInv'
  BY NextInv
<1>3. IInv => BoundToBytes
  BY DEF IInv
<1> QED
  BY <1>1, <1>2, <1>3, PTL DEF Spec

-----------------------------------------------------------------------------
(* Counting up to N: what holds of 0 and of every successor holds up to N.  *)
LEMMA UpTo ==
  ASSUME NEW N \in Nat, NEW G, 0 \in G, \A n \in 0 .. N - 1 : n \in G => n + 1 \in G
  PROVE  0 .. N \subseteq G
<1> DEFINE Segments == {0 .. k : k \in (0 .. N) \ G}
<1> SUFFICES ASSUME (0 .. N) \ G # {} PROVE FALSE
  OBVIOUS
<1>1. Segments # {} /\ Segments \subseteq FiniteSubsetsOf(Nat)
  <2>1. \A k \in Nat : IsFiniteSet(0 .. k) /\ 0 .. k \in SUBSET Nat
    BY FS_Interval
  <2>2. QED
    BY <2>1 DEF FiniteSubsetsOf
<1>2. PICK m \in Segments : \A l \in Segments : <<l, m>> \notin StrictSubsetOrdering(Nat)
  BY <1>1, FS_StrictSubsetOrderingWellFounded, WFMin
<1>3. PICK k \in (0 .. N) \ G : m = 0 .. k
  OBVIOUS
<1>4. k - 1 \in (0 .. N) \ G
  BY <1>3
<1>5. 0 .. k - 1 \in Segments /\ 0 .. k - 1 \subseteq 0 .. k /\ 0 .. k - 1 # 0 .. k
  BY <1>3, <1>4
<1>6. <<0 .. k - 1, m>> \in StrictSubsetOrdering(Nat)
  BY <1>3, <1>5 DEF StrictSubsetOrdering
<1>7. QED
  BY <1>2, <1>5, <1>6

-----------------------------------------------------------------------------
(* The months' days follow one another. *)
L == Len(Lengths)

(* The first days of months 1 to n + 1. *)
FirstDays(n, g) ==
  /\ g \in [1 .. n + 1 -> Nat]
  /\ g[1] = 0
  /\ \A m \in 1 .. n : g[m + 1] = g[m] + Lengths[m]

LEMMA LengthsAre == L \in Nat /\ L >= 3 /\ \A m \in 1 .. L : Lengths[m] \in 28 .. 31
  BY MonthAssumption DEF L

LEMMA NextMonth ==
  ASSUME NEW n \in 0 .. L - 1, NEW g, FirstDays(n, g)
  PROVE  \E h : FirstDays(n + 1, h)
<1>1. n \in Nat /\ n + 1 \in 1 .. L /\ Lengths[n + 1] \in Nat /\ g[n + 1] \in Nat
  BY LengthsAre DEF FirstDays
<1> DEFINE h == [m \in 1 .. n + 2 |-> IF m = n + 2 THEN g[n + 1] + Lengths[n + 1] ELSE g[m]]
<1>2. (n + 1) + 1 = n + 2
  BY <1>1
<1>3. h \in [1 .. n + 2 -> Nat] /\ h[1] = 0
  BY <1>1 DEF FirstDays
<1>4. \A m \in 1 .. n + 1 : h[m + 1] = h[m] + Lengths[m]
  <2>1. TAKE m \in 1 .. n + 1
  <2>2. m \in 1 .. n + 2 /\ m + 1 \in 1 .. n + 2 /\ m # n + 2 /\ (m + 1 = n + 2 <=> m = n + 1)
    BY <1>1
  <2>3. h[m] = g[m]
    BY <2>2
  <2>4. CASE m = n + 1
    BY <2>2, <2>3, <2>4
  <2>5. CASE m # n + 1
    <3>1. m \in 1 .. n
      BY <1>1, <2>5
    <3>2. h[m + 1] = g[m + 1]
      BY <2>2, <2>5
    <3>3. QED
      BY <2>3, <3>1, <3>2 DEF FirstDays
  <2>6. QED
    BY <2>4, <2>5
<1> HIDE DEF h
<1>5. QED
  BY <1>2, <1>3, <1>4 DEF FirstDays

LEMMA FirstDayIs == FirstDays(L, FirstDay)
<1> DEFINE G == {n \in 0 .. L : \E g : FirstDays(n, g)}
           Recursion(f) == f = [m \in 1 .. Len(Lengths) + 1 |->
                                  IF m = 1 THEN 0 ELSE f[m - 1] + Lengths[m - 1]]
<1>1. L \in Nat /\ 0 \in 0 .. L /\ L \in 0 .. L
  BY LengthsAre
<1>2. 0 \in G
  <2>1. FirstDays(0, [m \in 1 .. 0 + 1 |-> 0])
    BY DEF FirstDays
  <2>2. QED
    BY <1>1, <2>1
<1>3. ASSUME NEW n \in 0 .. L - 1, n \in G PROVE n + 1 \in G
  BY <1>1, <1>3, NextMonth
<1>4. PICK g : FirstDays(L, g)
  <2> HIDE DEF G
  <2>1. L \in G
    BY <1>1, <1>2, <1>3, UpTo
  <2>2. QED
    BY <2>1 DEF G
<1>5. Recursion(g)
  <2>1. \A m \in 1 .. L + 1 : m # 1 => m - 1 \in 1 .. L /\ (m - 1) + 1 = m
    BY <1>1
  <2>2. \A m \in 1 .. L + 1 : g[m] = IF m = 1 THEN 0 ELSE g[m - 1] + Lengths[m - 1]
    BY <1>4, <2>1 DEF FirstDays
  <2>3. g \in [1 .. L + 1 -> Nat]
    BY <1>4 DEF FirstDays
  <2>4. QED
    BY <2>2, <2>3 DEF L
<1>6. Recursion(FirstDay)
  <2>1. FirstDay = CHOOSE f : Recursion(f)
    BY DEF FirstDay
  <2> HIDE DEF Recursion
  <2>2. QED
    BY <1>5, <2>1
<1>7. /\ FirstDay[1] = 0
      /\ \A m \in 1 .. L : FirstDay[m + 1] = FirstDay[m] + Lengths[m]
  <2>1. \A m \in 1 .. L : m + 1 \in 1 .. L + 1 /\ m + 1 # 1 /\ (m + 1) - 1 = m
    BY <1>1
  <2>2. \A m \in 1 .. L + 1 : FirstDay[m] = IF m = 1 THEN 0 ELSE FirstDay[m - 1] + Lengths[m - 1]
    BY <1>6 DEF L
  <2>3. QED
    BY <1>1, <2>1, <2>2
<1>8. \A m \in 1 .. L + 1 : FirstDay[m] \in Nat
  <2> DEFINE H == {n \in 0 .. L : FirstDay[n + 1] \in Nat}
  <2>1. 0 \in H
    BY <1>1, <1>7
  <2>2. ASSUME NEW n \in 0 .. L - 1, n \in H PROVE n + 1 \in H
    <3>1. n + 1 \in 1 .. L /\ n + 1 \in 0 .. L
      BY <1>1
    <3>2. FirstDay[(n + 1) + 1] = FirstDay[n + 1] + Lengths[n + 1] /\ Lengths[n + 1] \in Nat
      BY <1>7, <3>1, LengthsAre
    <3>3. QED
      BY <2>2, <3>1, <3>2
  <2> HIDE DEF H
  <2>3. 0 .. L \subseteq H
    BY <1>1, <2>1, <2>2, UpTo
  <2>4. \A m \in 1 .. L + 1 : m - 1 \in 0 .. L /\ (m - 1) + 1 = m
    BY <1>1
  <2>5. QED
    BY <2>3, <2>4 DEF H
<1>9. FirstDay \in [1 .. L + 1 -> Nat]
  <2>1. FirstDay = [m \in 1 .. L + 1 |-> FirstDay[m]]
    BY <1>6 DEF L
  <2>2. QED
    BY <1>8, <2>1
<1>10. QED
  BY <1>7, <1>9 DEF FirstDays

(* Every day is in a month. *)
LEMMA MonthExists ==
  ASSUME NEW day \in 0 .. FirstDay[L + 1] - 1
  PROVE  \E m \in Months : day \in Days(m)
<1> DEFINE G == {n \in 0 .. L : day < FirstDay[n + 1] => \E m \in Months : day \in Days(m)}
<1>1. L \in Nat /\ L \in 0 .. L /\ 0 \in 0 .. L /\ L + 1 \in 1 .. L + 1
  BY LengthsAre
<1>2. /\ FirstDay[1] = 0 /\ \A m \in 1 .. L + 1 : FirstDay[m] \in Nat
  BY FirstDayIs DEF FirstDays
<1>3. day \in Nat /\ day < FirstDay[L + 1]
  BY <1>1, <1>2
<1>4. 0 \in G
  BY <1>1, <1>2, <1>3
<1>5. ASSUME NEW n \in 0 .. L - 1, n \in G PROVE n + 1 \in G
  <2>1. n + 1 \in 1 .. L /\ n + 1 \in 0 .. L /\ n + 1 \in 1 .. L + 1 /\ (n + 1) + 1 \in 1 .. L + 1
    BY <1>1
  <2>2. n + 1 \in Months
    BY <2>1 DEF Months, L
  <2>3. FirstDay[n + 1] \in Nat /\ FirstDay[(n + 1) + 1] \in Nat
    BY <1>2, <2>1
  <2>4. CASE day < FirstDay[n + 1]
    BY <1>5, <2>1, <2>4
  <2>5. CASE ~(day < FirstDay[n + 1]) /\ day < FirstDay[(n + 1) + 1]
    <3>1. day \in Days(n + 1)
      BY <1>3, <2>3, <2>5 DEF Days
    <3>2. QED
      BY <2>1, <2>2, <3>1
  <2>6. CASE ~(day < FirstDay[(n + 1) + 1])
    BY <2>1, <2>6
  <2>7. QED
    BY <2>4, <2>5, <2>6
<1> HIDE DEF G
<1>6. L \in G
  BY <1>1, <1>4, <1>5, UpTo
<1>7. QED
  BY <1>3, <1>6 DEF G

LEMMA MonthOfIs ==
  ASSUME NEW day \in 0 .. FirstDay[L + 1] - 1
  PROVE  MonthOf(day) \in Months /\ day \in Days(MonthOf(day))
  BY MonthExists DEF MonthOf

(* The cells of a month: a day of it is in the grid once. *)
LEMMA DayCells ==
  ASSUME NEW m \in Months, NEW day \in Days(m), weekday \in 0 .. 6, sunday_first \in BOOLEAN
  PROVE  \E r \in 0 .. 5, c \in 0 .. 6 :
           /\ Cell(m, r, c) = day /\ WeekdayOrder(c) = Weekday(day)
           /\ \A r2 \in 0 .. 5, c2 \in 0 .. 6 : Cell(m, r2, c2) = day => r2 = r /\ c2 = c
           /\ ~sunday_first => WeekMonday(m, r) = day - Weekday(day)
<1> DEFINE f == FirstDay[m]
           b == Back(m)
           at == day - f + b
           r == at \div 7
           c == at % 7
<1>1. m \in 1 .. L /\ m \in 1 .. L + 1 /\ m + 1 \in 1 .. L + 1 /\ Lengths[m] \in 28 .. 31
  BY LengthsAre DEF Months, L
<1>2. f \in Nat /\ FirstDay[m + 1] = f + Lengths[m]
  BY <1>1, FirstDayIs DEF FirstDays
<1>3. day \in Nat /\ day - f \in 0 .. 30
  <2>1. day \in f .. FirstDay[m + 1] - 1
    BY DEF Days
  <2> DEFINE to == FirstDay[m + 1]
  <2>2. f \in Nat /\ to = f + Lengths[m] /\ Lengths[m] \in 28 .. 31
    BY <1>1, <1>2
  <2>3. day \in f .. to - 1
    BY <2>1
  <2> HIDE DEF f, to
  <2>4. QED
    BY <2>2, <2>3
<1>4. b \in 0 .. 6 /\ b = (IF sunday_first THEN (f + weekday + 1) % 7 ELSE (f + weekday) % 7)
  <2> HIDE DEF f
  <2>1. b = IF sunday_first THEN (((f + weekday) % 7) + 1) % 7 ELSE (f + weekday) % 7
    BY DEF Back, Weekday, b, f
  <2> HIDE DEF b
  <2>2. (((f + weekday) % 7) + 1) % 7 = (f + weekday + 1) % 7
    BY <1>2
  <2>3. (f + weekday + 1) % 7 \in 0 .. 6 /\ (f + weekday) % 7 \in 0 .. 6
    BY <1>2
  <2>4. QED
    BY <2>1, <2>2, <2>3
<1>5. at \in 0 .. 36
  <2> HIDE DEF f, b
  <2>1. QED
    BY <1>2, <1>3, <1>4
<1>6. r \in 0 .. 5 /\ c \in 0 .. 6 /\ 7 * r + c = at
  <2> HIDE DEF at
  <2>1. QED
    BY <1>5
<1>7. \A r2 \in 0 .. 5, c2 \in 0 .. 6 : Cell(m, r2, c2) = f - b + 7 * r2 + c2
  BY DEF Cell, GridStart
<1>8. Cell(m, r, c) = day
  <2> HIDE DEF r, c, f, b
  <2>1. QED
    BY <1>2, <1>3, <1>4, <1>6, <1>7
<1>9. ASSUME NEW r2 \in 0 .. 5, NEW c2 \in 0 .. 6, Cell(m, r2, c2) = day PROVE r2 = r /\ c2 = c
  <2> HIDE DEF r, c, f, b
  <2>1. 7 * r2 + c2 = 7 * r + c
    BY <1>2, <1>3, <1>4, <1>6, <1>7, <1>9
  <2>2. QED
    BY <1>6, <2>1
<1>10. WeekdayOrder(c) = Weekday(day)
  <2> HIDE DEF r, c, f, b
  <2>1. CASE sunday_first
    <3>1. b = (f + weekday + 1) % 7
      BY <1>4, <2>1
    <3>2. (c + 6) % 7 = (day + weekday) % 7
      BY <1>2, <1>3, <1>6, <3>1
    <3>3. QED
      BY <2>1, <3>2 DEF WeekdayOrder, Weekday
  <2>2. CASE ~sunday_first
    <3>1. b = (f + weekday) % 7
      BY <1>4, <2>2
    <3>2. c = (day + weekday) % 7
      BY <1>2, <1>3, <1>6, <3>1
    <3>3. QED
      BY <2>2, <3>2 DEF WeekdayOrder, Weekday
  <2>3. QED
    BY <2>1, <2>2
<1>11. ASSUME ~sunday_first PROVE WeekMonday(m, r) = day - Weekday(day)
  <2> HIDE DEF r, c, f, b
  <2>1. Weekday(day) = c
    BY <1>10, <1>11 DEF WeekdayOrder
  <2>2. Cell(m, r, 0) = day - c
    BY <1>2, <1>3, <1>4, <1>6, <1>7
  <2>3. Weekday(day - c) = 0
    BY <1>3, <1>6, <2>1 DEF Weekday
  <2>4. DaysToMonday(day - c) = 0
    BY <2>3 DEF DaysToMonday
  <2>5. QED
    BY <1>3, <1>6, <2>1, <2>2, <2>4 DEF WeekMonday
<1> HIDE DEF r, c
<1>12. QED
  BY <1>6, <1>8, <1>9, <1>10, <1>11

-----------------------------------------------------------------------------
(* The month that is shown is one there is, and so is today's. *)
MonthInv ==
  /\ weekday \in 0 .. 6 /\ sunday_first \in BOOLEAN
  /\ today \in 0 .. FirstDay[L + 1] - 1
  /\ shown_month \in Months

LEMMA PageIs == MonthInv => Page \in Months
  BY MonthOfIs DEF MonthInv, Page

LEMMA MonthStarts == MonthInit => MonthInv
<1> SUFFICES ASSUME MonthInit PROVE MonthInv
  OBVIOUS
<1>1. /\ L \in Nat /\ L >= 3 /\ FirstDay[1] = 0
      /\ \A m \in 1 .. L + 1 : FirstDay[m] \in Nat
      /\ \A m \in 1 .. L : FirstDay[m + 1] = FirstDay[m] + Lengths[m] /\ Lengths[m] \in 28 .. 31
  BY LengthsAre, FirstDayIs DEF FirstDays
<1>2. FirstDay[2] = Lengths[1] /\ FirstDay[3] = Lengths[1] + Lengths[2] /\ FirstDay[4] = FirstDay[3] + Lengths[3]
  <2>1. 1 \in 1 .. L /\ 2 \in 1 .. L /\ 3 \in 1 .. L /\ 1 + 1 = 2 /\ 2 + 1 = 3 /\ 3 + 1 = 4
    BY <1>1
  <2>2. QED
    BY <1>1, <2>1
<1>3. FirstDay[3] <= FirstDay[L + 1]
  <2> DEFINE G == {n \in 0 .. L : n >= 2 => FirstDay[3] <= FirstDay[n + 1]}
  <2>1. 0 \in G
    BY <1>1
  <2>2. ASSUME NEW n \in 0 .. L - 1, n \in G PROVE n + 1 \in G
    <3>1. n + 1 \in 1 .. L /\ n + 1 \in 0 .. L /\ n + 1 \in 1 .. L + 1 /\ 3 \in 1 .. L + 1
      BY <1>1
    <3>2. FirstDay[(n + 1) + 1] = FirstDay[n + 1] + Lengths[n + 1] /\ Lengths[n + 1] \in Nat
          /\ FirstDay[n + 1] \in Nat /\ FirstDay[3] \in Nat
      BY <1>1, <3>1
    <3>3. CASE n >= 2
      BY <2>2, <3>1, <3>2, <3>3
    <3>4. CASE ~(n >= 2) /\ n + 1 >= 2
      <4>1. n + 1 = 2
        BY <1>1, <3>4
      <4>2. (n + 1) + 1 = 3
        BY <4>1
      <4>3. QED
        BY <3>1, <3>2, <4>2
    <3>5. CASE ~(n + 1 >= 2)
      BY <3>1, <3>5
    <3>6. QED
      BY <3>3, <3>4, <3>5
  <2> HIDE DEF G
  <2>3. L \in G
    <3>1. L \in 0 .. L
      BY <1>1
    <3>2. QED
      BY <1>1, <2>1, <2>2, <3>1, UpTo
  <2>4. QED
    BY <1>1, <2>3 DEF G
<1>4. today \in 0 .. FirstDay[L + 1] - 1
  <2>1. L + 1 \in 1 .. L + 1 /\ 1 \in 1 .. L /\ 2 \in 1 .. L
    BY <1>1
  <2>2. FirstDay[L + 1] \in Nat /\ Lengths[1] \in 28 .. 31 /\ Lengths[2] \in 28 .. 31
    BY <1>1, <2>1
  <2>3. today = FirstDay[2] \/ today = FirstDay[3] - 1
    BY DEF MonthInit
  <2>4. QED
    BY <1>2, <1>3, <2>2, <2>3
<1>5. shown_month \in Months
  BY <1>4, MonthOfIs DEF MonthInit
<1>6. QED
  BY <1>4, <1>5 DEF MonthInit, MonthInv

LEMMA MonthKeeps == MonthInv /\ [MonthNext]_monthVars => MonthInv'
<1> SUFFICES ASSUME MonthInv, [MonthNext]_monthVars PROVE MonthInv'
  OBVIOUS
<1>1. FirstDay[L + 1] \in Nat
  <2>1. L + 1 \in 1 .. L + 1
    BY LengthsAre
  <2>2. QED
    BY <2>1, FirstDayIs DEF FirstDays
<1>2. OpenAt \in Months
  BY MonthOfIs DEF MonthInv, OpenAt
<1>3. CASE Midnight
  <2>1. today + 1 < FirstDay[L + 1] /\ today' = today + 1
    BY <1>3 DEF Midnight, L
  <2>2. today' \in 0 .. FirstDay[L + 1] - 1
    BY <1>1, <2>1 DEF MonthInv
  <2>3. QED
    BY <1>3, <2>2 DEF Midnight, MonthInv
<1>4. CASE Open \/ Close
  BY <1>2, <1>4 DEF Open, Close, MonthInv
<1>5. CASE Turn
  BY <1>5 DEF Turn, MonthInv
<1>6. CASE UNCHANGED monthVars
  BY <1>6 DEF monthVars, MonthInv
<1>7. QED
  BY <1>3, <1>4, <1>5, <1>6 DEF MonthNext

(* Whatever the months' lengths and the weekday they begin with, however    *)
(* the popup is paged and whenever midnight comes: the popup has every day  *)
(* of its month in one cell, under its weekday and in the row of its week,  *)
(* and a fresh one has today in sight (month_grid and update of             *)
(* src/modules/clock.rs).                                                   *)
THEOREM MonthCalendarTells == MonthSpec => CalendarTells
<1>1. MonthInv => GridTells
  <2> SUFFICES ASSUME MonthInv PROVE GridTells
    OBVIOUS
  <2>1. Page \in Months
    BY PageIs
  <2> DEFINE page == Page
  <2>2. \A day \in Days(page) : \E r \in 0 .. 5, c \in 0 .. 6 :
          /\ Cell(page, r, c) = day /\ WeekdayOrder(c) = Weekday(day)
          /\ \A r2 \in 0 .. 5, c2 \in 0 .. 6 : Cell(page, r2, c2) = day => r2 = r /\ c2 = c
          /\ ~sunday_first => WeekMonday(page, r) = day - Weekday(day)
    <3> HIDE DEF page
    <3>1. TAKE day \in Days(page)
    <3>2. page \in Months
      BY <2>1 DEF page
    <3>3. weekday \in 0 .. 6 /\ sunday_first \in BOOLEAN
      BY DEF MonthInv
    <3>4. QED
      BY <3>2, <3>3, DayCells
  <2>3. DayCell(page, today) = "disc"
    BY DEF DayCell
  <2>4. QED
    BY <2>2, <2>3, Zenon DEF GridTells
<1>2. MonthInv /\ MonthInv' /\ [MonthNext]_monthVars => [~open /\ open' => (today \in Days(Page))']_monthVars
  <2> SUFFICES ASSUME MonthInv, MonthNext, ~open, open' PROVE (today \in Days(Page))'
    OBVIOUS
  <2>1. Open
    BY DEF MonthNext, Midnight, Close, Turn
  <2>2. today' = today /\ trigger' = trigger /\ shown_month' = OpenAt
    BY <2>1 DEF Open
  <2>3. Page' = MonthOf(today)
    BY <2>2 DEF Page, OpenAt, MonthOf, Days, Months
  <2>4. today \in Days(MonthOf(today))
    BY MonthOfIs DEF MonthInv
  <2>5. QED
    BY <2>2, <2>3, <2>4 DEF Days
<1>3. QED
  BY MonthStarts, MonthKeeps, <1>1, <1>2, PTL DEF MonthSpec, CalendarTells, FreshOpen

-----------------------------------------------------------------------------
(* Multiples and quotients. *)
LEMMA TimesLess ==
  ASSUME NEW d \in Nat \ {0}, NEW a \in Int, NEW b \in Int
  PROVE  d * a < d * b <=> a < b
<1>1. ASSUME a < b PROVE d * a < d * b
  <2>1. PICK e \in Nat : b = a + 1 + e
    <3>1. b - a - 1 \in Nat /\ b = a + 1 + (b - a - 1)
      BY <1>1
    <3>2. QED
      BY <3>1
  <2>2. d * b = d * a + d + d * e /\ d * e \in Nat /\ d * a \in Int
    BY <2>1
  <2>3. QED
    BY <2>2
<1>2. ASSUME b < a PROVE d * b < d * a
  <2>1. PICK e \in Nat : a = b + 1 + e
    <3>1. a - b - 1 \in Nat /\ a = b + 1 + (a - b - 1)
      BY <1>2
    <3>2. QED
      BY <3>1
  <2>2. d * a = d * b + d + d * e /\ d * e \in Nat /\ d * b \in Int
    BY <2>1
  <2>3. QED
    BY <2>2
<1>3. d * a \in Int /\ d * b \in Int
  OBVIOUS
<1>4. QED
  BY <1>1, <1>2, <1>3

LEMMA Quotient ==
  ASSUME NEW d \in Nat \ {0}, NEW n \in Int
  PROVE  /\ n \div d \in Int /\ n % d \in 0 .. d - 1
         /\ n = d * (n \div d) + (n % d)
  OBVIOUS

LEMMA QuotientIs ==
  ASSUME NEW d \in Nat \ {0}, NEW n \in Int, NEW q \in Int, d * q <= n, n < d * q + d
  PROVE  n \div d = q
<1> DEFINE p == n \div d
<1>1. p \in Int /\ d * p <= n /\ n < d * p + d
  BY Quotient
<1> HIDE DEF p
<1>2. d * p \in Int /\ d * q \in Int /\ d * (p + 1) = d * p + d /\ d * (q + 1) = d * q + d
  BY <1>1
<1>3. d * p < d * (q + 1) /\ d * q < d * (p + 1)
  BY <1>1, <1>2
<1>4. p < q + 1 /\ q < p + 1
  BY <1>1, <1>3, TimesLess
<1>5. p = q
  BY <1>1, <1>4
<1>6. QED
  BY <1>5 DEF p

LEMMA MultipleIs ==
  ASSUME NEW d \in Nat \ {0}, NEW n \in Int
  PROVE  n % d = 0 <=> \E q \in Int : n = d * q
<1> DEFINE w == n \div d
           r == n % d
<1>1. w \in Int /\ r \in 0 .. d - 1 /\ n = d * w + r
  BY Quotient
<1>2. ASSUME NEW q \in Int, n = d * q PROVE w = q
  <2>1. d * q <= n /\ n < d * q + d
    BY <1>2
  <2>2. QED
    BY <2>1, QuotientIs, Zenon
<1> HIDE DEF w, r
<1>3. ASSUME r = 0 PROVE \E q \in Int : n = d * q
  <2>1. d * w \in Int
    BY <1>1
  <2>2. n = d * w
    BY <1>1, <1>3, <2>1
  <2>3. QED
    BY <1>1, <2>2
<1>4. ASSUME NEW q \in Int, n = d * q PROVE r = 0
  <2>1. n = d * q + r /\ d * q \in Int
    BY <1>1, <1>2, <1>4
  <2>2. QED
    BY <1>1, <1>4, <2>1
<1>5. QED
  BY <1>3, <1>4 DEF r

(* Between two multiples of d there is none of a multiple of d. *)
LEMMA Coarser ==
  ASSUME NEW d \in Nat \ {0}, NEW D \in Nat \ {0}, D % d = 0,
         NEW x \in Int, NEW y \in Int, x \div d = y \div d
  PROVE  x \div D = y \div D
<1>1. PICK k \in Int : D = d * k
  BY MultipleIs
<1> DEFINE q == x \div d
           p == x \div D
<1>2. q \in Int /\ d * q <= x /\ x < d * q + d /\ d * q <= y /\ y < d * q + d
  BY Quotient
<1>3. p \in Int /\ D * p <= x /\ x < D * p + D
  BY Quotient
<1> HIDE DEF q, p
<1>4. D * p = d * (k * p) /\ D * p + D = d * (k * p + k) /\ k * p \in Int
  BY <1>1, <1>3
<1>5. d * q + d = d * (q + 1) /\ d * q \in Int
  BY <1>2
<1>6. k * p < q + 1 /\ q < k * p + k
  <2>1. d * (k * p) < d * (q + 1)
    BY <1>2, <1>3, <1>4, <1>5
  <2>2. d * q < d * (k * p + k)
    BY <1>2, <1>3, <1>4, <1>5
  <2>3. QED
    BY <1>1, <1>2, <1>4, <2>1, <2>2, TimesLess
<1>7. d * (k * p) <= d * q /\ d * (q + 1) <= d * (k * p + k)
  <2>1. ~(q < k * p) /\ ~(k * p + k < q + 1)
    BY <1>1, <1>2, <1>4, <1>6
  <2>2. ~(d * q < d * (k * p)) /\ ~(d * (k * p + k) < d * (q + 1))
    BY <1>1, <1>2, <1>4, <2>1, TimesLess
  <2>3. d * (k * p) \in Int /\ d * (k * p + k) \in Int /\ d * (q + 1) \in Int
    BY <1>1, <1>2, <1>4
  <2>4. QED
    BY <1>5, <2>2, <2>3
<1>8. D * p <= y /\ y < D * p + D
  <2>1. D * p \in Int /\ d * (k * p + k) \in Int
    BY <1>1, <1>3, <1>4
  <2>2. QED
    BY <1>2, <1>4, <1>5, <1>7, <2>1
<1>9. y \div D = p
  BY <1>3, <1>8, QuotientIs
<1>10. QED
  BY <1>9 DEF p

LEMMA Shifted ==
  ASSUME NEW d \in Nat \ {0}, NEW x \in Int, NEW y \in Int, NEW c \in Int, c % d = 0,
         x \div d = y \div d
  PROVE  (x + c) \div d = (y + c) \div d
<1>1. PICK k \in Int : c = d * k
  BY MultipleIs
<1> DEFINE q == x \div d
<1>2. q \in Int /\ d * q <= x /\ x < d * q + d /\ d * q <= y /\ y < d * q + d
  BY Quotient
<1> HIDE DEF q
<1>3. d * (q + k) = d * q + c /\ d * q \in Int
  BY <1>1, <1>2
<1>4. /\ d * (q + k) <= x + c /\ x + c < d * (q + k) + d
      /\ d * (q + k) <= y + c /\ y + c < d * (q + k) + d
  BY <1>2, <1>3
<1>5. q + k \in Int /\ x + c \in Int /\ y + c \in Int
  BY <1>1, <1>2
<1>6. (x + c) \div d = q + k
  BY <1>4, <1>5, QuotientIs
<1>7. (y + c) \div d = q + k
  BY <1>4, <1>5, QuotientIs
<1>8. QED
  BY <1>6, <1>7

-----------------------------------------------------------------------------
LEMMA LeastIs ==
  ASSUME NEW S, S \subseteq Int, NEW x \in S, \A y \in S : x <= y
  PROVE  Min(S) = x
<1> DEFINE m == Min(S)
<1>1. m \in S /\ \A y \in S : m <= y
  BY DEF Min
<1> HIDE DEF m
<1>2. m = x
  BY <1>1
<1>3. QED
  BY <1>2 DEF m

LEMMA OnlyOne ==
  ASSUME NEW x \in Int
  PROVE  Min({x}) = x
  BY LeastIs

LEMMA MultipleOfMultiple ==
  ASSUME NEW d \in Nat \ {0}, NEW D \in Nat \ {0}, D % d = 0, NEW n \in Int, n % D = 0
  PROVE  n % d = 0
<1>1. PICK k \in Int : D = d * k
  BY MultipleIs
<1>2. PICK h \in Int : n = D * h
  BY MultipleIs
<1>3. n = d * (k * h) /\ k * h \in Int
  BY <1>1, <1>2
<1>4. QED
  BY <1>3, MultipleIs

LEMMA Multiples ==
  ASSUME NEW d \in Nat \ {0}
  PROVE  0 % d = 0 /\ d % d = 0
<1>1. 0 = d * 0 /\ d = d * 1
  OBVIOUS
<1>2. \E q \in Int : 0 = d * q
  BY <1>1
<1>3. \E q \in Int : d = d * q
  BY <1>1
<1>4. QED
  BY <1>2, <1>3, MultipleIs

LEMMA MultipleAbove ==
  ASSUME NEW d \in Nat \ {0}, NEW n \in Nat \ {0}, n % d = 0
  PROVE  d <= n
<1>1. PICK k \in Int : n = d * k
  BY MultipleIs
<1>2. d * 0 < d * k
  BY <1>1
<1>3. 0 < k
  BY <1>1, <1>2, TimesLess
<1>4. ~(k < 1)
  BY <1>1, <1>3
<1>5. ~(d * k < d * 1)
  BY <1>1, <1>4, TimesLess
<1>6. QED
  BY <1>1, <1>5

LEMMA UnitsAre ==
  /\ Minute \in Nat \ {0} /\ Hour \in Nat \ {0} /\ Day \in Nat \ {0}
  /\ Hour % Minute = 0 /\ Day % Hour = 0 /\ Minute <= Hour /\ Hour <= Day
  /\ MAX_IDLE \in Nat /\ 1 <= MAX_IDLE /\ MAX_IDLE < Minute
  BY ClockAssumption, MultipleAbove

(* A zone, and the label's fields. *)
ClockShape == zone \in [from : Int, by : Int] /\ zone \in Zones /\ fields \subseteq Fields /\ fields # {}

LEMMA LocalIs ==
  ASSUME ClockShape, NEW t \in Int
  PROVE  Local(t) \in Int /\ zone.from \in Int /\ zone.by \in Int
         /\ Local(t) = t + (IF t >= zone.from THEN zone.by ELSE 0)
  BY DEF Local, ClockShape

(* Two instants of one unit of the finest field have one label. *)
LEMMA OneLabel ==
  ASSUME ClockShape, NEW t \in Int, NEW u \in Int, "second" \notin fields,
         Local(t) \div Granularity = Local(u) \div Granularity
  PROVE  Render(t) = Render(u)
<1>1. Local(t) \in Int /\ Local(u) \in Int
  BY LocalIs
<1>2. "minute" \in fields => Local(t) \div Minute = Local(u) \div Minute
  BY DEF Granularity
<1>3. "minute" \in fields \/ "hour" \in fields => Local(t) \div Hour = Local(u) \div Hour
  <2>1. CASE "minute" \in fields
    BY <1>1, <1>2, <2>1, UnitsAre, Coarser
  <2>2. CASE "minute" \notin fields
    BY <2>2 DEF Granularity
  <2>3. QED
    BY <2>1, <2>2
<1>4. Local(t) \div Day = Local(u) \div Day
  <2>1. CASE "minute" \in fields \/ "hour" \in fields
    BY <1>1, <1>3, <2>1, UnitsAre, Coarser
  <2>2. CASE ~("minute" \in fields \/ "hour" \in fields)
    BY <2>2 DEF Granularity
  <2>3. QED
    BY <2>1, <2>2
<1>5. \A f \in fields : f \in Fields \ {"second"}
  BY DEF ClockShape
<1>6. QED
  BY <1>2, <1>3, <1>4, <1>5 DEF Render, Fields

LEMMA GranularityIs ==
  ASSUME ClockShape
  PROVE  /\ Granularity \in {1, Minute, Hour, Day}
         /\ Granularity = 1 \/ "second" \notin fields
  BY DEF Granularity

LEMMA InstantsAre ==
  ASSUME ClockShape, NEW local \in Int
  PROVE  /\ Instants(local) \subseteq {local, local - zone.by} /\ Instants(local) \subseteq Int
         /\ local \in Instants(local) <=> local < zone.from \/ zone.by = 0
         /\ local - zone.by \in Instants(local) <=> local - zone.by >= zone.from \/ zone.by = 0
<1>1. zone.by \in Int /\ zone.from \in Int /\ local - zone.by \in Int
  BY LocalIs
<1>2. Local(local) = local <=> local < zone.from \/ zone.by = 0
  <2>1. Local(local) = local + (IF local >= zone.from THEN zone.by ELSE 0)
    BY LocalIs
  <2>2. QED
    BY <1>1, <2>1
<1>3. Local(local - zone.by) = local <=> local - zone.by >= zone.from \/ zone.by = 0
  <2>1. Local(local - zone.by) = local - zone.by + (IF local - zone.by >= zone.from THEN zone.by ELSE 0)
    BY <1>1, LocalIs
  <2>2. QED
    BY <1>1, <2>1
<1>4. QED
  BY <1>1, <1>2, <1>3 DEF Instants

(* The earliest hour of the next six that there is. *)
LEMMA HourFound ==
  ASSUME NEW there, there \subseteq 0 .. 6, there # {}
  PROVE  Min(there) \in there /\ \A h \in there : Min(there) <= h
<1>1. \E h \in there : \A k \in there : h <= k
  <2> SUFFICES ASSUME \A h \in there : \E k \in there : k < h PROVE FALSE
    OBVIOUS
  <2> DEFINE G == {n \in 0 .. 6 : \A h \in there : n < h}
  <2>1. 0 \in G
    OBVIOUS
  <2>2. ASSUME NEW n \in 0 .. 6 - 1, n \in G PROVE n + 1 \in G
    BY <2>2
  <2> HIDE DEF G
  <2>3. 6 \in G
    BY <2>1, <2>2, UpTo
  <2>4. \A h \in there : 6 < h
    BY <2>3 DEF G
  <2>5. PICK h \in there : h \in 0 .. 6
    OBVIOUS
  <2>6. QED
    BY <2>4, <2>5
<1>2. QED
  BY <1>1 DEF Min

LEMMA FirstInstant ==
  ASSUME ClockShape, NEW local \in Int, Instants(local) # {}
  PROVE  Min(Instants(local)) \in Instants(local)
<1>1. \E x \in Instants(local) : \A y \in Instants(local) : x <= y
  <2>1. zone.by \in Int /\ local - zone.by \in Int
    BY LocalIs
  <2>2. Instants(local) \subseteq {local, local - zone.by}
    BY InstantsAre
  <2>3. QED
    BY <2>1, <2>2
<1>2. QED
  BY <1>1 DEF Min

LEMMA ResolveIs ==
  ASSUME ClockShape, NEW local \in Int, NEW after \in Int
  PROVE  ResolveLocal(local, after) \in Int
<1> DEFINE there == {h \in 0 .. 6 : Instants(local + h * Hour) # {}}
<1>1. CASE there # {}
  <2>1. Min(there) \in there
    BY <1>1, HourFound
  <2> DEFINE at == local + Min(there) * Hour
  <2>2. at \in Int /\ Instants(at) # {}
    <3> DEFINE h == Min(there)
    <3>1. h \in 0 .. 6 /\ Instants(local + h * Hour) # {}
      BY <2>1
    <3>2. h \in Int
      BY <3>1
    <3> HIDE DEF h
    <3>3. local + h * Hour \in Int
      BY <3>2, UnitsAre
    <3>4. QED
      BY <3>1, <3>3 DEF h
  <2>3. ResolveLocal(local, after) = Min(Instants(at))
    BY <1>1 DEF ResolveLocal
  <2> HIDE DEF at
  <2>4. QED
    BY <2>2, <2>3, FirstInstant, InstantsAre
<1>2. CASE there = {}
  BY <1>2, UnitsAre DEF ResolveLocal
<1>3. QED
  BY <1>1, <1>2

(* A local time there is needs no search. *)
LEMMA ResolveThere ==
  ASSUME ClockShape, NEW local \in Int, NEW after, Instants(local) # {}
  PROVE  ResolveLocal(local, after) = Min(Instants(local))
<1> DEFINE there == {h \in 0 .. 6 : Instants(local + h * Hour) # {}}
<1>1. local + 0 * Hour = local
  BY UnitsAre
<1>2. 0 \in there
  BY <1>1
<1>3. Min(there) = 0
  <2>1. there \subseteq Int /\ \A h \in there : 0 <= h
    OBVIOUS
  <2> HIDE DEF there
  <2>2. QED
    BY <1>2, <2>1, LeastIs
<1>4. ResolveLocal(local, after) = Min(Instants(local + Min(there) * Hour))
  BY <1>2 DEF ResolveLocal
<1> HIDE DEF there
<1>5. QED
  BY <1>1, <1>3, <1>4

LEMMA NextIs ==
  ASSUME ClockShape, NEW t \in Int
  PROVE  /\ UntilNextBoundary(t) \in Nat
         /\ Sleep(t) \in Nat /\ Sleep(t) <= MAX_IDLE /\ Sleep(t) <= UntilNextBoundary(t)
<1>1. UntilNextBoundary(t) \in Nat
  <2>1. Granularity \in Nat \ {0}
    BY UnitsAre, GranularityIs
  <2>2. CASE Granularity <= Minute
    <3> DEFINE g == Granularity
    <3>1. g \in Nat \ {0}
      BY <2>1
    <3> HIDE DEF g
    <3>2. g - (t % g) \in Nat
      BY <3>1, Quotient
    <3>3. QED
      BY <2>2, <3>2 DEF UntilNextBoundary, g
  <2>3. CASE ~(Granularity <= Minute)
    <3> DEFINE local == (Local(t) \div Granularity + 1) * Granularity
               at == ResolveLocal(local, t)
    <3>1. local \in Int
      <4> DEFINE q == Local(t) \div Granularity
      <4>1. q \in Int
        BY <2>1, LocalIs, Quotient
      <4> HIDE DEF q
      <4>2. (q + 1) * Granularity \in Int
        BY <2>1, <4>1
      <4>3. QED
        BY <4>2 DEF q
    <3> HIDE DEF local
    <3>2. at \in Int
      BY <3>1, ResolveIs
    <3> HIDE DEF at
    <3>3. UntilNextBoundary(t) = IF at >= t THEN at - t ELSE MAX_IDLE
      BY <2>3 DEF UntilNextBoundary, at, local
    <3>4. QED
      BY <3>2, <3>3, UnitsAre
  <2>4. QED
    BY <2>2, <2>3
<1> DEFINE u == UntilNextBoundary(t)
<1>2. u \in Nat
  BY <1>1
<1>3. Sleep(t) = Min({u, MAX_IDLE})
  BY DEF Sleep
<1> HIDE DEF u
<1>4. Min({u, MAX_IDLE}) = IF u <= MAX_IDLE THEN u ELSE MAX_IDLE
  <2>1. CASE u <= MAX_IDLE
    <3>1. Min({u, MAX_IDLE}) = u
      BY <1>2, <2>1, UnitsAre, LeastIs
    <3>2. QED
      BY <2>1, <3>1
  <2>2. CASE ~(u <= MAX_IDLE)
    <3>1. MAX_IDLE <= u
      BY <1>2, <2>2, UnitsAre
    <3>2. Min({u, MAX_IDLE}) = MAX_IDLE
      BY <1>2, <3>1, UnitsAre, LeastIs
    <3>3. QED
      BY <2>2, <3>2
  <2>3. QED
    BY <2>1, <2>2
<1>5. QED
  BY <1>2, <1>3, <1>4, UnitsAre DEF u

LEMMA NextMultiple ==
  ASSUME NEW d \in Nat \ {0}, NEW a \in Int, NEW b \in Int, d * a < d * b
  PROVE  d * a + d <= d * b
<1>1. a < b
  BY TimesLess
<1>2. ~(b < a + 1)
  BY <1>1
<1>3. ~(d * b < d * (a + 1))
  BY <1>2, TimesLess
<1>4. d * (a + 1) = d * a + d /\ d * a \in Int /\ d * b \in Int
  OBVIOUS
<1>5. QED
  BY <1>3, <1>4

(* A local time that the clocks leave out is taken for the instant of the   *)
(* shift.                                                                   *)
LEMMA GapIs ==
  ASSUME ClockShape, NEW M \in Int, NEW t,
         zone.from % Hour = 0, zone.by % Hour = 0, M % Hour = 0, zone.by <= 6 * Hour, 0 < zone.by,
         zone.from <= M, M < zone.from + zone.by
  PROVE  ResolveLocal(M, t) = zone.from
<1> DEFINE from == zone.from
           by == zone.by
           there == {h \in 0 .. 6 : Instants(M + h * Hour) # {}}
<1>1. from \in Int /\ by \in Int /\ Hour \in Nat \ {0}
  BY LocalIs, UnitsAre
<1>2. PICK f \in Int : from = Hour * f
  BY <1>1, MultipleIs
<1>3. PICK b \in Int : by = Hour * b
  BY <1>1, MultipleIs
<1>4. PICK m \in Int : M = Hour * m
  BY <1>1, MultipleIs
<1> DEFINE n == f + b - m
<1>5. n \in Int /\ Hour * (f + b) = from + by /\ f + b \in Int
  BY <1>1, <1>2, <1>3, <1>4
<1> HIDE DEF from, by, n
<1>6. n \in 0 .. 6
  <2>1. Hour * m < Hour * (f + b)
    BY <1>4, <1>5 DEF from, by
  <2>2. m < f + b
    BY <1>1, <1>4, <1>5, <2>1, TimesLess
  <2>3. Hour * (m + 6) = M + 6 * Hour /\ m + 6 \in Int
    BY <1>1, <1>4
  <2>4. ~(Hour * (m + 6) < Hour * (f + b))
    BY <1>1, <1>5, <2>3 DEF from, by
  <2>5. ~(m + 6 < f + b)
    BY <1>1, <1>5, <2>3, <2>4, TimesLess
  <2>6. QED
    BY <1>2, <1>3, <1>4, <2>2, <2>5 DEF n
<1>7. ASSUME NEW h \in 0 .. 6
      PROVE  /\ Instants(M + h * Hour) \subseteq {(M + h * Hour) - by}
             /\ (M + h * Hour) - by \in Instants(M + h * Hour) <=> n <= h
  <2> DEFINE x == M + h * Hour
  <2>1. x \in Int /\ x >= from /\ x = Hour * (m + h) /\ m + h \in Int
    BY <1>1, <1>4 DEF from
  <2> HIDE DEF x
  <2>2. /\ Instants(x) \subseteq {x, x - by} /\ x \notin Instants(x)
        /\ x - by \in Instants(x) <=> x >= from + by
    BY <1>1, <2>1, InstantsAre DEF from, by
  <2>3. x >= from + by <=> n <= h
    <3>1. Hour * (m + h) < Hour * (f + b) <=> m + h < f + b
      BY <1>1, <1>5, <2>1, TimesLess
    <3>2. m + h < f + b <=> ~(n <= h)
      BY <1>2, <1>3, <1>4 DEF n
    <3>3. QED
      BY <1>1, <1>5, <2>1, <3>1, <3>2
  <2>4. Instants(x) \subseteq {x - by} /\ (x - by \in Instants(x) <=> n <= h)
    BY <2>2, <2>3
  <2>5. QED
    BY <2>4 DEF x
<1>8. n \in there /\ there \subseteq Int /\ \A h \in there : n <= h
  <2>1. n \in there
    BY <1>6, <1>7
  <2>2. \A h \in there : h \in 0 .. 6 /\ n <= h
    BY <1>7
  <2>3. QED
    BY <2>1, <2>2
<1>9. ResolveLocal(M, t) = Min(Instants(M + Min(there) * Hour))
  BY <1>8 DEF ResolveLocal
<1> HIDE DEF there
<1>10. Min(there) = n
  BY <1>8, LeastIs
<1>11. M + n * Hour = from + by
  <2>1. n * Hour = Hour * (f + b) - Hour * m
    BY <1>1, <1>2, <1>3, <1>4 DEF n
  <2>2. n * Hour \in Int /\ Hour * (f + b) \in Int /\ Hour * m \in Int
    BY <1>1, <1>4, <1>5
  <2>3. \A u, v \in Int : u = v - M => M + u = v
    OBVIOUS
  <2>4. QED
    BY <1>4, <1>5, <2>1, <2>2, <2>3
<1>12. Instants(from + by) = {from}
  <2> DEFINE x == M + n * Hour
  <2>1. Instants(x) \subseteq {x - by} /\ x - by \in Instants(x)
    BY <1>6, <1>7
  <2>2. (from + by) - by = from
    BY <1>1
  <2>3. x = from + by
    BY <1>11
  <2> HIDE DEF x
  <2>4. QED
    BY <2>1, <2>2, <2>3
<1>13. Min({from}) = from
  BY <1>1, OnlyOne
<1>14. QED
  BY <1>9, <1>10, <1>11, <1>12, <1>13 DEF from

(* While the stream sleeps, the label it last sent is right. *)
LEMMA AsleepRight ==
  ASSUME ClockShape, ShiftsOnTheHour, zone.by % Hour = 0, NEW t \in Int, NEW k \in 0 .. Sleep(t) - 1
  PROVE  Render(t + k) = Render(t)
<1> DEFINE u == t + k
           G == Granularity
           from == zone.from
           by == zone.by
           until == UntilNextBoundary(t)
<1>1. k \in Nat /\ u \in Int /\ until \in Nat /\ k < until /\ k < MAX_IDLE /\ k < Minute /\ k < Hour
  BY NextIs, UnitsAre
<1>2. /\ from \in Int /\ by \in Int /\ from % Hour = 0 /\ -Hour <= by /\ by <= 6 * Hour
      /\ Local(t) \in Int /\ Local(t) = t + (IF t >= from THEN by ELSE 0)
      /\ Local(u) \in Int /\ Local(u) = u + (IF u >= from THEN by ELSE 0)
  <2>1. from % Hour = 0 /\ -Hour <= by /\ by <= 6 * Hour
    BY DEF ShiftsOnTheHour, ClockShape
  <2> HIDE DEF u
  <2>2. QED
    BY <1>1, <2>1, LocalIs
<1>3. CASE "second" \in fields
  <2>1. G = 1
    BY <1>3 DEF Granularity
  <2>2. t % 1 = 0
    BY Quotient
  <2>3. until = 1
    BY <2>1, <2>2, UnitsAre DEF UntilNextBoundary
  <2>4. k = 0 /\ u = t
    BY <1>1, <2>3
  <2>5. QED
    BY <2>4
<1>4. CASE "second" \notin fields /\ G <= Minute
  <2>1. G = Minute
    BY <1>4, UnitsAre DEF Granularity
  <2> DEFINE q == t \div Minute
             r == t % Minute
  <2>2. until = Minute - r
    BY <2>1, UnitsAre DEF UntilNextBoundary
  <2>3. q \in Int /\ r \in Int /\ t = Minute * q + r /\ 0 <= r /\ Minute * q \in Int
    BY UnitsAre, Quotient
  <2>4. PICK f \in Int : from = Minute * f
    BY <1>2, UnitsAre, MultipleOfMultiple, MultipleIs
  <2>6. by % Minute = 0 /\ 0 % Minute = 0
    BY <1>2, UnitsAre, MultipleOfMultiple, Multiples
  <2> HIDE DEF q, r, until, from, by
  <2>7. Minute * q <= t /\ t <= u /\ u < Minute * q + Minute
    BY <1>1, <2>2, <2>3, UnitsAre
  <2>8. u \div Minute = t \div Minute
    <3>1. Minute * q <= u
      BY <2>7, <1>1, <2>3
    <3> HIDE DEF u
    <3>2. u \div Minute = q
      BY <1>1, <2>3, <2>7, <3>1, UnitsAre, QuotientIs
    <3>3. QED
      BY <3>2 DEF q
  <2>9. t >= from <=> u >= from
    <3>1. SUFFICES ASSUME t < from, from <= u PROVE FALSE
      BY <1>1, <1>2
    <3>2. Minute * q < Minute * f /\ Minute * f < Minute * (q + 1)
      <4>1. Minute * (q + 1) = Minute * q + Minute
        BY <2>3, UnitsAre
      <4> HIDE DEF u
      <4>2. QED
        BY <1>1, <1>2, <2>3, <2>4, <2>7, <3>1, <4>1, UnitsAre
    <3>3. q < f /\ f < q + 1
      BY <2>3, <2>4, <3>2, UnitsAre, TimesLess
    <3>4. QED
      BY <2>3, <2>4, <3>3
  <2>10. Local(t) \div Minute = Local(u) \div Minute
    <3> HIDE DEF u
    <3>1. CASE t >= from
      <4>1. Local(t) = t + by /\ Local(u) = u + by
        BY <1>2, <2>9, <3>1
      <4>2. QED
        <5>1. (t + by) \div Minute = (u + by) \div Minute
          <6>1. by \in Int /\ u \in Int /\ Minute \in Nat \ {0} /\ by % Minute = 0
            BY <1>1, <1>2, <2>6, UnitsAre
          <6>2. QED
            BY <6>1, <2>8, Shifted
        <5>2. QED
          BY <4>1, <5>1
    <3>2. CASE ~(t >= from)
      <4>1. Local(t) = t /\ Local(u) = u
        BY <1>1, <1>2, <2>9, <3>2
      <4>2. QED
        BY <2>8, <4>1
    <3>3. QED
      BY <3>1, <3>2
  <2> HIDE DEF u
  <2>11. Render(t) = Render(u)
    BY <1>1, <1>4, <2>1, <2>10, OneLabel
  <2>12. QED
    BY <2>11 DEF u
<1>5. CASE "second" \notin fields /\ ~(G <= Minute)
  <2>1. G \in Nat \ {0} /\ G % Hour = 0 /\ Hour <= G
    <3>1. G = Hour \/ G = Day
      BY <1>5, UnitsAre DEF Granularity
    <3>2. Hour % Hour = 0
      BY UnitsAre, Multiples
    <3>3. QED
      BY <3>1, <3>2, UnitsAre
  <2> DEFINE q == Local(t) \div G
             M == (q + 1) * G
             at == ResolveLocal(M, t)
  <2>2. until = IF at >= t THEN at - t ELSE MAX_IDLE
    BY <1>5 DEF UntilNextBoundary
  <2> HIDE DEF G
  <2>3. q \in Int /\ G * q \in Int /\ M \in Int /\ M = G * q + G /\ G * q <= Local(t) /\ Local(t) < M
    <3> DEFINE lt == Local(t)
    <3>0. lt \in Int
      BY <1>2
    <3> HIDE DEF lt
    <3>1. q \in Int /\ G * q <= Local(t) /\ Local(t) < G * q + G
      <4>1. lt \div G \in Int /\ lt % G \in 0 .. G - 1 /\ lt = G * (lt \div G) + (lt % G)
        BY <2>1, <3>0, Quotient
      <4>2. q = lt \div G
        BY DEF lt
      <4> DEFINE r == lt % G
      <4> HIDE DEF q, r
      <4>3. q \in Int /\ r \in 0 .. G - 1 /\ lt = G * q + r
        BY <4>1, <4>2 DEF r
      <4>4. q \in Int /\ G * q <= lt /\ lt < G * q + G
        BY <2>1, <3>0, <4>3
      <4>5. QED
        BY <4>4 DEF lt
    <3> HIDE DEF q
    <3>2. QED
      BY <2>1, <3>1
  <2> HIDE DEF q, M, at, until, u, from, by
  <2>4. ASSUME G * q <= Local(u), Local(u) < M PROVE Render(u) = Render(t)
    <3>1. Local(u) \div G = q
      BY <1>2, <2>1, <2>3, <2>4, QuotientIs
    <3>2. QED
      BY <1>1, <1>5, <3>1, OneLabel DEF q, G
  <2>5. /\ Instants(M) \subseteq {M, M - by} /\ Instants(M) \subseteq Int
        /\ M \in Instants(M) <=> M < from \/ by = 0
        /\ M - by \in Instants(M) <=> M - by >= from \/ by = 0
    BY <2>3, InstantsAre DEF from, by
  <2>6. M % Hour = 0 /\ (G * q) % Hour = 0
    <3>1. M % G = 0 /\ (G * q) % G = 0
      <4>1. M = G * (q + 1) /\ q + 1 \in Int
        BY <2>1, <2>3
      <4>2. QED
        BY <2>1, <2>3, <4>1, MultipleIs
    <3>2. QED
      BY <2>1, <2>3, <3>1, UnitsAre, MultipleOfMultiple
  <2>7. PICK f \in Int, b \in Int, m \in Int, n \in Int :
          from = Hour * f /\ by = Hour * b /\ M = Hour * m /\ G * q = Hour * n
    <3>1. by % Hour = 0
      BY DEF by
    <3>2. /\ \E f \in Int : from = Hour * f
          /\ \E b \in Int : by = Hour * b
          /\ \E m \in Int : M = Hour * m
          /\ \E n \in Int : G * q = Hour * n
      BY <1>2, <2>3, <2>6, <3>1, UnitsAre, MultipleIs
    <3>3. QED
      BY <3>2
  <2>8. t <= u /\ u < t + Hour /\ (at >= t => u < at) /\ Hour \in Nat \ {0} /\ t \in Int
    <3>1. u = t + k
      BY DEF u
    <3>2. at >= t /\ at \in Int => u < at
      BY <1>1, <2>2, <3>1
    <3>3. at \in Int
      BY <2>3, ResolveIs DEF at
    <3>4. QED
      BY <1>1, <3>1, <3>2, <3>3, UnitsAre
  <2>9. Instants(M) # {} => at = Min(Instants(M))
    BY <2>3, ResolveThere DEF at
  <2>10. CASE t >= from
    <3>1. Local(t) = t + by /\ Local(u) = u + by
      BY <1>1, <1>2, <2>8, <2>10
    <3>2. M < from => M + Hour <= from
      BY <2>7, <2>8, NextMultiple
    <3>3. ~(M < from)
      BY <1>2, <2>3, <2>8, <2>10, <3>1, <3>2
    <3>4. Instants(M) = {M - by}
      <4>1. M - by >= from
        BY <1>2, <2>3, <2>10, <3>1
      <4>2. M \in Instants(M) => M = M - by
        BY <1>2, <2>3, <2>5, <3>3
      <4>3. QED
        BY <2>5, <4>1, <4>2
    <3>5. at = M - by
      <4>1. Min({M - by}) = M - by
        BY <1>2, <2>3, OnlyOne
      <4>2. QED
        BY <2>9, <3>4, <4>1
    <3>6. QED
      BY <1>1, <1>2, <2>3, <2>4, <2>8, <3>1, <3>5 DEF u
  <2>11. CASE t < from /\ u < from /\ from <= M
    <3>1. Local(t) = t /\ Local(u) = u
      BY <1>1, <1>2, <2>8, <2>11
    <3>2. QED
      BY <1>1, <1>2, <2>3, <2>4, <2>8, <2>11, <3>1 DEF u
  <2>12. CASE t < from /\ (by = 0 \/ M < from)
    <3>1. Local(t) = t
      BY <1>2, <2>8, <2>12
    <3>2. M \in Instants(M) /\ \A x \in Instants(M) : M <= x
      BY <1>2, <2>3, <2>5, <2>12
    <3>3. at = M
      BY <2>5, <2>9, <3>2, LeastIs
    <3>4. u < M
      BY <2>3, <2>8, <3>1, <3>3
    <3>5. Local(u) = u
      BY <1>1, <1>2, <2>3, <2>12, <3>4
    <3>6. QED
      BY <1>1, <1>2, <2>3, <2>4, <2>8, <3>1, <3>4, <3>5 DEF u
  <2>13. CASE t < from /\ from <= M /\ u >= from /\ by < 0
    <3>1. by = -Hour
      <4>1. by + Hour <= 0
        <5>1. Hour * 0 = 0
          BY <2>8
        <5>2. QED
          BY <2>7, <2>8, <2>13, <5>1, NextMultiple
      <4>2. QED
        BY <1>2, <2>8, <4>1
    <3>2. Local(t) = t /\ Local(u) = u - Hour
      BY <1>1, <1>2, <2>8, <2>13, <3>1
    <3>3. G * q + Hour <= from
      <4>1. G * q < from
        BY <1>2, <2>3, <2>8, <2>13, <3>2
      <4>2. QED
        BY <2>7, <2>8, <4>1, NextMultiple
    <3>4. QED
      BY <1>1, <1>2, <2>3, <2>4, <2>8, <2>13, <3>2, <3>3 DEF u
  <2>14. CASE t < from /\ from <= M /\ u >= from /\ 0 < by
    <3>1. Local(t) = t /\ Local(u) = u + by
      BY <1>1, <1>2, <2>8, <2>14
    <3>2. CASE M < from + by
      <4>1. at = from
        BY <1>2, <2>3, <2>6, <2>14, <3>2, GapIs DEF at, from, by
      <4>2. QED
        BY <1>1, <1>2, <2>8, <2>14, <4>1
    <3>3. CASE ~(M < from + by)
      <4>1. Instants(M) = {M - by}
        BY <1>2, <2>3, <2>5, <2>14, <3>3
      <4>2. at = M - by
        <5>1. Min({M - by}) = M - by
          BY <1>2, <2>3, OnlyOne
        <5>2. QED
          BY <2>9, <4>1, <5>1
      <4>3. QED
        BY <1>1, <1>2, <2>3, <2>4, <2>8, <2>14, <3>1, <3>3, <4>2 DEF u
    <3>4. QED
      BY <3>2, <3>3
  <2>15. QED
    BY <1>1, <1>2, <2>3, <2>8, <2>10, <2>11, <2>12, <2>13, <2>14
<1>6. QED
  BY <1>3, <1>4, <1>5

-----------------------------------------------------------------------------
(* For as long as the sleep still takes the label will be right, unless the *)
(* clock is touched; and the seconds it has been wrong and those that the   *)
(* sleep still takes are MAX_IDLE at most.                                  *)
ClockInv ==
  /\ ClockShape
  /\ wall \in Int /\ wake \in Nat /\ behind \in Nat
  /\ behind + wake <= MAX_IDLE
  /\ ShiftsOnTheHour /\ steady /\ zone.by % Hour = 0 => \A k \in 0 .. wake - 1 : shown = Render(wall + k)

LEMMA ClockStarts == ClockInit => ClockInv
<1> SUFFICES ASSUME ClockInit PROVE ClockInv
  OBVIOUS
<1>1. ClockShape
  BY ClockAssumption DEF ClockInit, ClockShape
<1>2. wall \in Int
  BY UnitsAre DEF ClockInit
<1>3. QED
  BY <1>1, <1>2, UnitsAre DEF ClockInit, ClockInv

LEMMA ClockKeeps == ClockInv /\ [ClockNext]_clockVars => ClockInv'
<1> SUFFICES ASSUME ClockInv, [ClockNext]_clockVars PROVE ClockInv'
  OBVIOUS
<1>1. fields' = fields /\ zone' = zone /\ ClockShape'
  BY DEF ClockInv, ClockShape, ClockNext, Second, Jump, Wake, clockVars
<1>2. \A t : Render(t)' = Render(t)
  BY <1>1 DEF Render, Local
<1>3. CASE Second
  <2>1. wall' = wall + 1 /\ wake' = wake - 1 /\ shown' = shown /\ steady' = steady /\ wake > 0
    BY <1>3 DEF Second
  <2>2. wall' \in Int /\ wake' \in Nat /\ behind' \in Nat /\ behind' + wake' <= MAX_IDLE
    <3>1. behind' \in {0, behind + 1}
      BY <1>3 DEF Second
    <3>2. wall \in Int /\ wake \in Nat /\ behind \in Nat /\ behind + wake <= MAX_IDLE
      BY DEF ClockInv
    <3>3. CASE behind' = 0
      BY <2>1, <3>2, <3>3, UnitsAre
    <3>4. CASE behind' = behind + 1
      BY <2>1, <3>2, <3>4, UnitsAre
    <3>5. QED
      BY <3>1, <3>3, <3>4
  <2>3. ASSUME ShiftsOnTheHour, steady, zone.by % Hour = 0, NEW k \in 0 .. wake - 2 PROVE shown = Render(wall + 1 + k)
    <3>1. k + 1 \in 0 .. wake - 1 /\ wall + (k + 1) = wall + 1 + k
      BY <2>3 DEF ClockInv
    <3>2. shown = Render(wall + (k + 1))
      BY <2>3, <3>1 DEF ClockInv
    <3>3. QED
      BY <3>1, <3>2
  <2>4. wake' - 1 = wake - 2
    BY <2>1 DEF ClockInv
  <2>5. ShiftsOnTheHour /\ steady' /\ zone'.by % Hour = 0 => \A k \in 0 .. wake' - 1 : shown' = Render(wall' + k)
    BY <1>1, <2>1, <2>3, <2>4
  <2>6. QED
    BY <1>1, <1>2, <2>2, <2>5 DEF ClockInv
<1>4. CASE Jump
  <2>1. PICK by \in {-Minute, 1, Minute + 1, Hour, Day} : wall' = wall + by
    BY <1>4 DEF Jump
  <2>2. wall' \in Int /\ steady' = FALSE /\ wake' = wake /\ behind' = behind
    BY <1>4, <2>1, UnitsAre DEF Jump, ClockInv
  <2>3. QED
    BY <1>1, <2>2 DEF ClockInv
<1>5. CASE Wake
  <2>1. shown' = Render(wall) /\ wake' = Sleep(wall) /\ behind' = 0 /\ wall' = wall
    BY <1>5 DEF Wake
  <2>2. Sleep(wall) \in Nat /\ Sleep(wall) <= MAX_IDLE
    BY NextIs DEF ClockInv
  <2>3. ShiftsOnTheHour /\ zone.by % Hour = 0 => \A k \in 0 .. Sleep(wall) - 1 : Render(wall + k) = Render(wall)
    BY AsleepRight DEF ClockInv
  <2>4. behind' + wake' <= MAX_IDLE
    BY <2>1, <2>2, UnitsAre
  <2>5. ShiftsOnTheHour /\ steady' /\ zone'.by % Hour = 0 => \A k \in 0 .. wake' - 1 : shown' = Render(wall' + k)
    BY <1>1, <2>1, <2>3
  <2>6. QED
    BY <1>1, <1>2, <2>1, <2>2, <2>4, <2>5 DEF ClockInv
<1>6. CASE UNCHANGED clockVars
  BY <1>1, <1>2, <1>6 DEF ClockInv, clockVars
<1>7. QED
  BY <1>3, <1>4, <1>5, <1>6 DEF ClockNext

(* Whatever happens to the clock, and in any zone, the label is wrong for   *)
(* MAX_IDLE seconds at most (clock_stream of src/modules/clock.rs).         *)
THEOREM ClockNeverLong == ClockSpec => [](behind <= MAX_IDLE)
<1>1. ClockInv => behind <= MAX_IDLE
  BY UnitsAre DEF ClockInv
<1>2. QED
  BY ClockStarts, ClockKeeps, <1>1, PTL DEF ClockSpec

(* In zones that shift at whole hours, back by one hour at most and forward *)
(* by no more than resolve_local looks for, the label is right for as long  *)
(* as the stream sleeps and nobody touches the clock                        *)
(* (until_next_boundary of src/modules/clock.rs).                           *)
THEOREM ClockStreamTells ==
  ASSUME ShiftsOnTheHour
  PROVE  ClockSpec => []ClockTells
<1>1. ClockInv => ClockTells
  <2> SUFFICES ASSUME ClockInv PROVE ClockTells
    OBVIOUS
  <2>1. wake > 0 /\ steady /\ zone.by % Hour = 0 => shown = Render(wall)
    <3> SUFFICES ASSUME wake > 0, steady, zone.by % Hour = 0 PROVE shown = Render(wall)
      OBVIOUS
    <3>1. 0 \in 0 .. wake - 1 /\ wall + 0 = wall
      BY DEF ClockInv
    <3>2. shown = Render(wall + 0)
      BY <3>1 DEF ClockInv
    <3>3. QED
      BY <3>1, <3>2
  <2>2. behind <= MAX_IDLE
    BY UnitsAre DEF ClockInv
  <2>3. QED
    BY <2>1, <2>2 DEF ClockTells
<1>2. QED
  BY ClockStarts, ClockKeeps, <1>1, PTL DEF ClockSpec

-----------------------------------------------------------------------------
(* Tables of a theme. *)
LEMMA LeavesAre ==
  /\ \A v \in Leaves : Scalar(v) /\ v[1] # "table" /\ v \in Grounds /\ v # Absent
  /\ \A b : Table(b)[1] = "table" /\ Table(b)[2] = b
  BY ThemeAssumption DEF Scalar, Grounds, Table

LEMMA TableIs ==
  ASSUME NEW t \in Themes
  PROVE  /\ t = [k \in DOMAIN t |-> t[k]] /\ DOMAIN t \subseteq {"text", "background"}
         /\ "text" \in DOMAIN t => t["text"] \in Leaves
         /\ \A k \in DOMAIN t : t[k] \in Grounds
<1>1. PICK S \in SUBSET {"text", "background"} : t \in [S -> Grounds]
  BY DEF Themes, Tables
<1>2. QED
  BY <1>1 DEF Themes

LEMMA ThemeFrom ==
  ASSUME NEW S \in SUBSET {"text", "background"}, NEW t \in [S -> Grounds], "text" \in S => t["text"] \in Leaves
  PROVE  t \in Themes
<1>1. t \in Tables({"text", "background"}, Grounds)
  BY DEF Tables
<1>2. QED
  BY <1>1 DEF Themes

(* A background with a table: its base, if any, is a leaf. *)
LEMMA GroundIs ==
  ASSUME NEW v \in Grounds
  PROVE  /\ v # Absent
         /\ v[1] # "table" => v \in Leaves
         /\ v[1] = "table" => /\ v = Table(v[2]) /\ v[2] = [k \in DOMAIN v[2] |-> v[2][k]]
                              /\ DOMAIN v[2] \subseteq {"base"}
                              /\ \A k \in DOMAIN v[2] : v[2][k] \in Leaves
<1>1. v # Absent
  BY ThemeAssumption
<1>2. CASE v \in Leaves
  BY <1>1, <1>2, LeavesAre
<1>3. CASE v \notin Leaves
  <2>1. PICK t \in Tables({"base"}, Leaves) : v = Table(t)
    BY <1>3 DEF Grounds
  <2>2. PICK S \in SUBSET {"base"} : t \in [S -> Leaves]
    BY DEF Tables
  <2>3. v[1] = "table" /\ v[2] = t
    BY <2>1, LeavesAre
  <2>4. QED
    BY <1>1, <2>1, <2>2, <2>3
<1>4. QED
  BY <1>2, <1>3

LEMMA OverIs ==
  ASSUME NEW a, NEW b, a \in Grounds, b \in Grounds, a[1] = "table", b[1] = "table"
  PROVE  /\ Table(Over(a[2], b[2])) \in Grounds
         /\ "base" \in DOMAIN Over(a[2], b[2]) <=> "base" \in DOMAIN a[2] \/ "base" \in DOMAIN b[2]
         /\ "base" \in DOMAIN a[2] => Over(a[2], b[2])["base"] = a[2]["base"]
         /\ "base" \notin DOMAIN a[2] /\ "base" \in DOMAIN b[2] => Over(a[2], b[2])["base"] = b[2]["base"]
<1> DEFINE o == Over(a[2], b[2])
           S == DOMAIN a[2] \cup DOMAIN b[2]
<1>1. o = [k \in S |-> IF k \in DOMAIN a[2] THEN a[2][k] ELSE b[2][k]]
  BY DEF Over
<1>2. S \in SUBSET {"base"} /\ o \in [S -> Leaves]
  BY <1>1, GroundIs
<1>3. o \in Tables({"base"}, Leaves)
  BY <1>2 DEF Tables
<1>4. QED
  BY <1>1, <1>3 DEF Grounds

-----------------------------------------------------------------------------
(* One merge. *)
Has(s, k) == s # Absent /\ k \in DOMAIN s

LEMMA MergedIs ==
  ASSUME NEW d \in Themes, NEW s \in Themes \cup {Absent}
  PROVE  /\ Merged(d, s) \in Themes
         /\ \A k : k \in DOMAIN Merged(d, s) <=> k \in DOMAIN d \/ Has(s, k)
         /\ \A k \in DOMAIN Merged(d, s) : Merged(d, s)[k] = IF Has(s, k) THEN MergeKey(d, s, k) ELSE d[k]
<1>1. CASE s = Absent
  BY <1>1 DEF Merged, Has
<1>2. CASE s # Absent
  <2> DEFINE S == DOMAIN d \cup DOMAIN s
             m == [k \in S |-> MergeKey(d, s, k)]
  <2>1. s \in Themes /\ Merged(d, s) = m
    BY <1>2 DEF Merged, MergeInto
  <2>2. \A k : Has(s, k) <=> k \in DOMAIN s
    BY <1>2 DEF Has
  <2>3. \A k \in S : k \notin DOMAIN s => MergeKey(d, s, k) = d[k]
    BY DEF MergeKey
  <2>4. S \in SUBSET {"text", "background"}
    BY <2>1, TableIs
  <2>5. ASSUME NEW k \in S PROVE MergeKey(d, s, k) \in Grounds
    <3>1. k \in DOMAIN d => d[k] \in Grounds
      BY TableIs
    <3>2. k \in DOMAIN s => s[k] \in Grounds
      BY <2>1, TableIs
    <3>3. k \in DOMAIN d /\ k \in DOMAIN s /\ d[k][1] = "table" /\ s[k][1] = "table" =>
             Table(Over(s[k][2], d[k][2])) \in Grounds
      BY <3>1, <3>2, OverIs
    <3>4. QED
      BY <3>1, <3>2, <3>3 DEF MergeKey
  <2>6. "text" \in S => MergeKey(d, s, "text") \in Leaves
    <3>1. "text" \in DOMAIN d => d["text"] \in Leaves /\ d["text"][1] # "table"
      BY TableIs, LeavesAre
    <3>2. "text" \in DOMAIN s => s["text"] \in Leaves
      BY <2>1, TableIs
    <3>3. QED
      BY <3>1, <3>2 DEF MergeKey
  <2>7. m \in Themes
    <3> HIDE DEF S
    <3>1. m \in [S -> Grounds]
      BY <2>5
    <3>2. "text" \in S => m["text"] \in Leaves
      BY <2>6
    <3>3. QED
      BY <2>4, <3>1, <3>2, ThemeFrom
  <2>8. QED
    BY <2>1, <2>2, <2>3, <2>7
<1>3. QED
  BY <1>1, <1>2

-----------------------------------------------------------------------------
(* What the first n layers say of the two keys, and what d has of them. *)
Ground(m) == layers[m]["background"]
Based(m, n) ==
  /\ Says(m, "background") /\ Ground(m)[1] = "table" /\ "base" \in DOMAIN Ground(m)[2]
  /\ \A l \in m + 1 .. n : Says(l, "background") => Ground(l)[1] = "table"

TellsText(d, n) ==
  /\ "text" \in DOMAIN d <=> \E m \in 1 .. n : Says(m, "text")
  /\ \A m \in 1 .. n : Says(m, "text") /\ (\A l \in m + 1 .. n : ~Says(l, "text")) => d["text"] = layers[m]["text"]

TellsGround(d, n) ==
  /\ "background" \in DOMAIN d <=> \E m \in 1 .. n : Says(m, "background")
  /\ \A m \in 1 .. n :
       Says(m, "background") /\ (\A l \in m + 1 .. n : ~Says(l, "background")) =>
         /\ d["background"][1] = "table" <=> Ground(m)[1] = "table"
         /\ Ground(m)[1] # "table" => d["background"] = Ground(m)

TellsBase(d, n) ==
  "background" \in DOMAIN d /\ d["background"][1] = "table" =>
    /\ "base" \in DOMAIN d["background"][2] <=> \E m \in 1 .. n : Based(m, n)
    /\ \A m \in 1 .. n :
         Based(m, n) /\ (\A l \in m + 1 .. n : ~Based(l, n)) => d["background"][2]["base"] = Ground(m)[2]["base"]

Tells(d, n) == d \in Themes /\ TellsText(d, n) /\ TellsGround(d, n) /\ TellsBase(d, n)

Layered == layers \in [1 .. 3 -> Themes \cup {Absent}] /\ named \in BOOLEAN

(* A layer that is not looked at says nothing. *)
Layer(n) == IF n < 3 /\ ~named THEN Absent ELSE layers[n]

LEMMA SaysIs ==
  ASSUME Layered, NEW n \in 1 .. 3
  PROVE  /\ Layer(n) \in Themes \cup {Absent}
         /\ \A k : Says(n, k) <=> Has(Layer(n), k)
         /\ \A k : Says(n, k) => Layer(n) = layers[n] /\ layers[n] \in Themes /\ k \in DOMAIN layers[n]
  BY DEF Layered, Layer, Says, Has

LEMMA TellsNothing == Tells(EMPTY, 0)
<1>1. EMPTY \in [{} -> Grounds] /\ DOMAIN EMPTY = {}
  BY DEF EMPTY
<1>2. EMPTY \in Themes
  BY <1>1, ThemeFrom
<1>3. 1 .. 0 = {}
  OBVIOUS
<1>4. QED
  BY <1>1, <1>2, <1>3 DEF Tells, TellsText, TellsGround, TellsBase

LEMMA LayerTells ==
  ASSUME Layered, NEW n \in 0 .. 2, NEW d, Tells(d, n)
  PROVE  Tells(Merged(d, Layer(n + 1)), n + 1)
<1> DEFINE N == n + 1
           s == Layer(N)
           r == Merged(d, s)
<1>1. /\ N \in 1 .. 3 /\ d \in Themes /\ s \in Themes \cup {Absent}
      /\ \A m \in 1 .. N : m \in 1 .. n \/ m = N
      /\ \A m \in 1 .. n : m \in 1 .. N /\ m # N /\ N \in m + 1 .. N /\ \A l \in m + 1 .. N : l \in m + 1 .. n \/ l = N
      /\ \A m \in 1 .. n : \A l \in m + 1 .. n : l \in m + 1 .. N
      /\ N + 1 .. N = {} /\ N \in 1 .. N
  BY SaysIs DEF Tells
<1> HIDE DEF N
<1>2. \A k : Says(N, k) <=> Has(s, k)
  BY <1>1, SaysIs
<1>3. \A k : Says(N, k) => s[k] = layers[N][k] /\ s \in Themes /\ k \in DOMAIN s
  BY <1>1, SaysIs
<1> HIDE DEF s
<1>4. /\ r \in Themes
      /\ \A k : k \in DOMAIN r <=> k \in DOMAIN d \/ Says(N, k)
      /\ \A k \in DOMAIN r : r[k] = IF Says(N, k) THEN MergeKey(d, s, k) ELSE d[k]
  BY <1>1, <1>2, MergedIs
<1> HIDE DEF r
<1>5. TellsText(r, N)
  <2>1. Says(N, "text") => r["text"] = layers[N]["text"]
    <3>1. "text" \in DOMAIN d => d["text"][1] # "table"
      BY <1>1, TableIs, LeavesAre
    <3>2. QED
      BY <1>3, <1>4, <3>1 DEF MergeKey
  <2>2. ~Says(N, "text") => ("text" \in DOMAIN r <=> "text" \in DOMAIN d) /\ ("text" \in DOMAIN d => r["text"] = d["text"])
    BY <1>4
  <2>3. TellsText(d, n)
    BY DEF Tells
  <2>4. CASE Says(N, "text")
    BY <1>1, <1>4, <2>1, <2>4 DEF TellsText
  <2>5. CASE ~Says(N, "text")
    BY <1>1, <2>2, <2>3, <2>5 DEF TellsText
  <2>6. QED
    BY <2>4, <2>5
<1>6. /\ ~Says(N, "background") => /\ "background" \in DOMAIN r <=> "background" \in DOMAIN d
                                   /\ "background" \in DOMAIN d => r["background"] = d["background"]
      /\ Says(N, "background") =>
           /\ "background" \in DOMAIN r
           /\ IF "background" \in DOMAIN d /\ d["background"][1] = "table" /\ Ground(N)[1] = "table"
              THEN r["background"] = Table(Over(Ground(N)[2], d["background"][2]))
              ELSE r["background"] = Ground(N)
  BY <1>3, <1>4 DEF MergeKey, Ground
<1>7. TellsGround(d, n) /\ TellsBase(d, n)
  BY DEF Tells
<1>8. TellsGround(r, N)
  <2>1. CASE Says(N, "background")
    <3>1. r["background"][1] = "table" <=> Ground(N)[1] = "table"
      BY <1>6, <2>1, LeavesAre
    <3>2. Ground(N)[1] # "table" => r["background"] = Ground(N)
      BY <1>6, <2>1
    <3>3. QED
      BY <1>1, <1>6, <2>1, <3>1, <3>2 DEF TellsGround
  <2>2. CASE ~Says(N, "background")
    BY <1>1, <1>6, <1>7, <2>2 DEF TellsGround
  <2>3. QED
    BY <2>1, <2>2
<1>9. TellsBase(r, N)
  <2>1. SUFFICES ASSUME "background" \in DOMAIN r, r["background"][1] = "table"
                 PROVE  /\ "base" \in DOMAIN r["background"][2] <=> \E m \in 1 .. N : Based(m, N)
                        /\ \A m \in 1 .. N : Based(m, N) /\ (\A l \in m + 1 .. N : ~Based(l, N)) =>
                             r["background"][2]["base"] = Ground(m)[2]["base"]
    BY DEF TellsBase
  <2>2. CASE ~Says(N, "background")
    <3>1. "background" \in DOMAIN d /\ r["background"] = d["background"]
      BY <1>6, <2>1, <2>2
    <3>2. ~Based(N, N) /\ \A m \in 1 .. n : Based(m, N) <=> Based(m, n)
      BY <1>1, <2>2 DEF Based
    <3>3. QED
      BY <1>1, <1>7, <2>1, <3>1, <3>2 DEF TellsBase
  <2>3. CASE Says(N, "background")
    <3>1. Ground(N)[1] = "table" /\ Ground(N) \in Grounds
      <4>1. Ground(N)[1] = "table"
        BY <1>6, <2>1, <2>3
      <4>2. Ground(N) \in Grounds
        BY <1>3, <2>3, TableIs DEF Ground
      <4>3. QED
        BY <4>1, <4>2
    <3>2. Based(N, N) <=> "base" \in DOMAIN Ground(N)[2]
      BY <1>1, <2>3, <3>1 DEF Based
    <3>3. \A m \in 1 .. n : Based(m, N) <=> Based(m, n)
      BY <1>1, <2>3, <3>1 DEF Based
    <3>4. CASE "background" \in DOMAIN d /\ d["background"][1] = "table"
      <4> DEFINE g == d["background"]
                 o == Over(Ground(N)[2], g[2])
      <4>1. g \in Grounds /\ g[1] = "table"
        BY <1>1, <3>4, TableIs
      <4>2. r["background"][2] = o
        BY <1>6, <2>3, <3>1, <3>4, LeavesAre
      <4>3. /\ "base" \in DOMAIN o <=> "base" \in DOMAIN Ground(N)[2] \/ "base" \in DOMAIN g[2]
            /\ "base" \in DOMAIN Ground(N)[2] => o["base"] = Ground(N)[2]["base"]
            /\ "base" \notin DOMAIN Ground(N)[2] /\ "base" \in DOMAIN g[2] => o["base"] = g[2]["base"]
        BY <3>1, <4>1, OverIs
      <4>4. /\ "base" \in DOMAIN g[2] <=> \E m \in 1 .. n : Based(m, n)
            /\ \A m \in 1 .. n : Based(m, n) /\ (\A l \in m + 1 .. n : ~Based(l, n)) => g[2]["base"] = Ground(m)[2]["base"]
        BY <1>7, <3>4 DEF TellsBase
      <4> HIDE DEF g, o
      <4>5. CASE Based(N, N)
        BY <1>1, <3>2, <4>2, <4>3, <4>5
      <4>6. CASE ~Based(N, N)
        <5>1. "base" \in DOMAIN o <=> \E m \in 1 .. N : Based(m, N)
          BY <1>1, <3>2, <3>3, <4>3, <4>4, <4>6
        <5>2. ASSUME NEW m \in 1 .. N, Based(m, N), \A l \in m + 1 .. N : ~Based(l, N)
              PROVE  o["base"] = Ground(m)[2]["base"]
          <6>1. m \in 1 .. n /\ Based(m, n) /\ \A l \in m + 1 .. n : l \in 1 .. n /\ l \in m + 1 .. N
            BY <1>1, <3>3, <4>6, <5>2
          <6>2. \A l \in m + 1 .. n : ~Based(l, n)
            BY <3>3, <5>2, <6>1
          <6>3. QED
            BY <3>2, <4>3, <4>4, <4>6, <6>1, <6>2
        <5>3. QED
          BY <4>2, <5>1, <5>2
      <4>7. QED
        BY <4>5, <4>6
    <3>5. CASE ~("background" \in DOMAIN d /\ d["background"][1] = "table")
      <4>1. r["background"] = Ground(N)
        BY <1>6, <2>3, <3>5
      <4>2. \A m \in 1 .. n : ~Based(m, n)
        <5>1. SUFFICES ASSUME NEW m \in 1 .. n, Based(m, n) PROVE FALSE
          OBVIOUS
        <5>2. "background" \in DOMAIN d
          BY <1>7, <5>1 DEF TellsGround, Based
        <5>3. PICK p \in 1 .. n : Says(p, "background") /\ \A l \in p + 1 .. n : ~Says(l, "background")
          BY <1>7, <5>2, n \in {0, 1, 2} DEF TellsGround
        <5>4. Ground(p)[1] = "table"
          <6>1. p = m \/ p \in m + 1 .. n \/ m \in p + 1 .. n
            OBVIOUS
          <6>2. QED
            BY <5>1, <5>3, <6>1 DEF Based
        <5>5. d["background"][1] = "table"
          BY <1>7, <5>3, <5>4 DEF TellsGround
        <5>6. QED
          BY <3>5, <5>2, <5>5
      <4>3. QED
        BY <1>1, <3>2, <3>3, <4>1, <4>2
    <3>6. QED
      BY <3>4, <3>5
  <2>4. QED
    BY <2>2, <2>3
<1>10. QED
  BY <1>4, <1>5, <1>8, <1>9 DEF Tells, r, s, N

(* The whole table: what a layer that is not looked at has is nothing. *)
LEMMA ThemeTells == Layered => Tells(ThemeTable, 3)
<1>1. SUFFICES ASSUME Layered PROVE Tells(ThemeTable, 3)
  OBVIOUS
<1>2. Tells(Merged(EMPTY, Layer(1)), 1)
  <2>1. Tells(Merged(EMPTY, Layer(0 + 1)), 0 + 1)
    BY <1>1, TellsNothing, LayerTells
  <2>2. QED
    BY <2>1
<1>3. Tells(Merged(Merged(EMPTY, Layer(1)), Layer(2)), 2)
  <2>1. Tells(Merged(Merged(EMPTY, Layer(1)), Layer(1 + 1)), 1 + 1)
    BY <1>1, <1>2, LayerTells
  <2>2. QED
    BY <2>1
<1>4. Tells(Merged(Merged(Merged(EMPTY, Layer(1)), Layer(2)), Layer(3)), 3)
  <2>1. Tells(Merged(Merged(Merged(EMPTY, Layer(1)), Layer(2)), Layer(2 + 1)), 2 + 1)
    BY <1>1, <1>3, LayerTells
  <2>2. QED
    BY <2>1
<1>5. ThemeTable = Merged(Merged(Merged(EMPTY, Layer(1)), Layer(2)), Layer(3))
  <2>1. CASE named
    BY <2>1 DEF ThemeTable, LoadPresetTable, Layer
  <2>2. CASE ~named
    BY <2>2 DEF ThemeTable, Layer, Merged
  <2>3. QED
    BY <2>1, <2>2
<1>6. QED
  BY <1>4, <1>5

-----------------------------------------------------------------------------
(* The palette likewise: the last source that has a name gives its value. *)
Source(n) == IF n \in {2, 3} /\ ~named THEN Absent ELSE palettes[n]
Gives(n, name) == palettes[n] # Absent /\ name \in DOMAIN palettes[n] /\ (n \in {2, 3} => named)

Given(d, n) ==
  \A name :
    /\ name \in DOMAIN d <=> \E m \in 1 .. n : Gives(m, name)
    /\ \A m \in 1 .. n : Gives(m, name) /\ (\A l \in m + 1 .. n : ~Gives(l, name)) => d[name] = palettes[m][name]

LEMMA SourceGiven ==
  ASSUME named \in BOOLEAN, NEW n \in 0 .. 3, NEW d, Given(d, n)
  PROVE  Given(Extended(d, Source(n + 1)), n + 1)
<1> DEFINE N == n + 1
           r == Extended(d, Source(N))
<1>1. /\ N \in 1 .. 4 /\ N \in 1 .. N /\ N + 1 .. N = {}
      /\ \A m \in 1 .. N : m \in 1 .. n \/ m = N
      /\ \A m \in 1 .. n : m \in 1 .. N /\ N \in m + 1 .. N
      /\ \A m \in 1 .. n : \A l \in m + 1 .. n : l \in m + 1 .. N
  OBVIOUS
<1> HIDE DEF N
<1>2. \A name : Gives(N, name) <=> Source(N) # Absent /\ name \in DOMAIN Source(N)
  BY DEF Gives, Source
<1>3. \A name : Gives(N, name) => Source(N) = palettes[N]
  BY DEF Gives, Source
<1>4. \A name : /\ name \in DOMAIN r <=> name \in DOMAIN d \/ Gives(N, name)
                /\ Gives(N, name) => r[name] = palettes[N][name]
                /\ ~Gives(N, name) /\ name \in DOMAIN d => r[name] = d[name]
  BY <1>2, <1>3 DEF Extended, Over
<1> HIDE DEF r
<1>5. \A name : name \in DOMAIN r <=> \E m \in 1 .. N : Gives(m, name)
  BY <1>1, <1>4 DEF Given
<1>6. ASSUME NEW name, NEW m \in 1 .. N, Gives(m, name), \A l \in m + 1 .. N : ~Gives(l, name)
      PROVE  r[name] = palettes[m][name]
  <2>1. CASE m = N
    BY <1>4, <1>6, <2>1
  <2>2. CASE m \in 1 .. n
    <3>1. ~Gives(N, name) /\ \A l \in m + 1 .. n : ~Gives(l, name)
      BY <1>1, <1>6, <2>2
    <3>2. name \in DOMAIN d /\ d[name] = palettes[m][name]
      BY <1>6, <2>2, <3>1 DEF Given
    <3>3. QED
      BY <1>4, <3>1, <3>2
  <2>3. QED
    BY <1>1, <2>1, <2>2
<1>7. Given(r, N)
  BY <1>5, <1>6 DEF Given
<1>8. QED
  BY <1>7 DEF r, N

LEMMA PaletteGiven == named \in BOOLEAN => Given(Palette, 4)
<1>1. SUFFICES ASSUME named \in BOOLEAN PROVE Given(Palette, 4)
  OBVIOUS
<1> DEFINE one == Extended(EMPTY, Source(1))
           two == Extended(one, Source(2))
           three == Extended(two, Source(3))
           four == Extended(three, Source(4))
<1>2. Given(EMPTY, 0)
  BY 1 .. 0 = {} DEF Given, EMPTY
<1>3. Given(one, 1)
  <2>1. Given(Extended(EMPTY, Source(0 + 1)), 0 + 1)
    BY <1>1, <1>2, SourceGiven
  <2>2. QED
    BY <2>1
<1>4. Given(two, 2)
  <2>1. Given(Extended(one, Source(1 + 1)), 1 + 1)
    <3> HIDE DEF one
    <3>1. QED
      BY <1>1, <1>3, SourceGiven
  <2>2. QED
    BY <2>1
<1>5. Given(three, 3)
  <2>1. Given(Extended(two, Source(2 + 1)), 2 + 1)
    <3> HIDE DEF two
    <3>1. QED
      BY <1>1, <1>4, SourceGiven
  <2>2. QED
    BY <2>1
<1>6. Given(four, 4)
  <2>1. Given(Extended(three, Source(3 + 1)), 3 + 1)
    <3> HIDE DEF three
    <3>1. QED
      BY <1>1, <1>5, SourceGiven
  <2>2. QED
    BY <2>1
<1>7. Palette = four
  <2>1. CASE named
    BY <2>1 DEF Palette, Source
  <2>2. CASE ~named
    BY <2>2 DEF Palette, Source, Extended
  <2>3. QED
    BY <2>1, <2>2
<1>8. QED
  BY <1>6, <1>7

(* The latest of some layers. *)
LEMMA TopIs ==
  ASSUME NEW S \in SUBSET (1 .. 4), S # {}
  PROVE  Top(S) \in S /\ \A l \in 1 .. 4 : l > Top(S) => l \notin S
<1>0. \A m \in S : m \in {1, 2, 3, 4} /\ m \in Int
  OBVIOUS
<1>1. \E n \in S : \A m \in S : m <= n
  <2>1. CASE 4 \in S
    BY <1>0, <2>1
  <2>2. CASE 4 \notin S /\ 3 \in S
    BY <1>0, <2>2
  <2>3. CASE 4 \notin S /\ 3 \notin S /\ 2 \in S
    BY <1>0, <2>3
  <2>4. CASE 4 \notin S /\ 3 \notin S /\ 2 \notin S
    <3>1. \A m \in S : m = 1
      BY <2>4, <1>0
    <3>2. PICK n \in S : TRUE
      OBVIOUS
    <3>3. \A m \in S : m <= n
      BY <3>1, <3>2
    <3>4. QED
      BY <3>3
  <2>5. QED
    BY <2>1, <2>2, <2>3, <2>4
<1>2. Top(S) \in S /\ \A m \in S : m <= Top(S)
  BY <1>1 DEF Top
<1>3. Top(S) \in Int
  BY <1>0, <1>2
<1>4. ASSUME NEW l \in 1 .. 4, l > Top(S), l \in S PROVE FALSE
  <2>1. l <= Top(S)
    BY <1>2, <1>4
  <2>2. QED
    BY <1>3, <1>4, <2>1
<1>5. QED
  BY <1>2, <1>4

Sourced == palettes \in [1 .. 4 -> Palettes \cup {Absent}] /\ named \in BOOLEAN

LEMMA PaletteTells ==
  ASSUME Sourced, NEW name
  PROVE  /\ name \in DOMAIN Palette <=> Meant(name) # Absent
         /\ name \in DOMAIN Palette => Palette[name] = Meant(name) /\ Scalar(Palette[name])
<1> DEFINE has == {n \in 1 .. 4 : palettes[n] # Absent /\ name \in DOMAIN palettes[n] /\ (n \in {2, 3} => named)}
<1>1. \A n \in 1 .. 4 : n \in has <=> Gives(n, name)
  BY DEF Gives
<1>2. /\ name \in DOMAIN Palette <=> \E m \in 1 .. 4 : Gives(m, name)
      /\ \A m \in 1 .. 4 : Gives(m, name) /\ (\A l \in m + 1 .. 4 : ~Gives(l, name)) =>
                              Palette[name] = palettes[m][name]
  BY PaletteGiven DEF Sourced, Given
<1>3. Meant(name) = IF has = {} THEN Absent ELSE palettes[Top(has)][name]
  BY DEF Meant
<1>4. has \in SUBSET (1 .. 4)
  OBVIOUS
<1> HIDE DEF has
<1>5. CASE has = {}
  BY <1>1, <1>2, <1>3, <1>5
<1>6. CASE has # {}
  <2>1. Top(has) \in has /\ \A l \in 1 .. 4 : l > Top(has) => l \notin has
    BY <1>4, <1>6, TopIs
  <2>2. Top(has) \in 1 .. 4 /\ Gives(Top(has), name)
    BY <1>1, <1>4, <2>1
  <2>3. \A l \in Top(has) + 1 .. 4 : ~Gives(l, name)
    BY <1>1, <2>1, <2>2
  <2>4. Palette[name] = palettes[Top(has)][name] /\ name \in DOMAIN Palette
    BY <1>2, <2>2, <2>3
  <2>5. palettes[Top(has)] \in Palettes /\ name \in DOMAIN palettes[Top(has)]
    BY <2>2 DEF Gives, Sourced
  <2>6. palettes[Top(has)][name] # Absent /\ Scalar(palettes[Top(has)][name])
    BY <2>5, ThemeAssumption
  <2>7. QED
    BY <1>3, <1>6, <2>4, <2>6
<1>7. QED
  BY <1>5, <1>6

-----------------------------------------------------------------------------
(* What is in effect of the table, and what the layers mean. *)
LEMMA LatestIs ==
  ASSUME Layered, NEW k \in {"text", "background"}
  PROVE  IF \E m \in 1 .. 3 : Says(m, k)
         THEN \E n \in 1 .. 3 : /\ Says(n, k) /\ (\A l \in n + 1 .. 3 : ~Says(l, k))
                                /\ Leaf(k) = layers[n][k] /\ Leaf(k) \in Grounds
         ELSE Leaf(k) = Absent
<1> DEFINE on == {n \in 1 .. 3 : Says(n, k)}
<1>1. Leaf(k) = IF on = {} THEN Absent ELSE layers[Top(on)][k]
  BY DEF Leaf
<1>2. on \in SUBSET (1 .. 4) /\ \A n : n \in on <=> n \in 1 .. 3 /\ Says(n, k)
  OBVIOUS
<1> HIDE DEF on
<1>3. CASE on = {}
  BY <1>1, <1>2, <1>3
<1>4. CASE on # {}
  <2>1. Top(on) \in on /\ \A l \in 1 .. 4 : l > Top(on) => l \notin on
    BY <1>2, <1>4, TopIs
  <2>2. PICK n \in 1 .. 3 : n = Top(on) /\ Says(n, k)
    BY <1>2, <2>1
  <2>3. \A l \in n + 1 .. 3 : ~Says(l, k)
    BY <1>2, <2>1, <2>2
  <2>4. layers[n][k] \in Grounds
    BY <2>2, SaysIs, TableIs
  <2>5. QED
    BY <1>1, <1>4, <2>2, <2>3, <2>4
<1>5. QED
  BY <1>3, <1>4

LEMMA TextIs ==
  ASSUME Layered
  PROVE  /\ "text" \in DOMAIN ThemeTable <=> Leaf("text") # Absent
         /\ "text" \in DOMAIN ThemeTable => ThemeTable["text"] = Leaf("text")
<1>1. TellsText(ThemeTable, 3)
  BY ThemeTells DEF Tells
<1>2. Absent \notin Grounds
  BY ThemeAssumption
<1>3. QED
  BY <1>1, <1>2, LatestIs DEF TellsText

LEMMA BackgroundIs ==
  ASSUME Layered
  PROVE  /\ "background" \in DOMAIN ThemeTable <=> Leaf("background") # Absent
         /\ "background" \in DOMAIN ThemeTable =>
              /\ ThemeTable["background"][1] = "table" <=> Leaf("background")[1] = "table"
              /\ Leaf("background")[1] # "table" => ThemeTable["background"] = Leaf("background")
<1>1. TellsGround(ThemeTable, 3)
  BY ThemeTells DEF Tells
<1>2. Absent \notin Grounds
  BY ThemeAssumption
<1>3. QED
  BY <1>1, <1>2, LatestIs DEF TellsGround, Ground

LEMMA BaseIs ==
  ASSUME Layered, "background" \in DOMAIN ThemeTable, ThemeTable["background"][1] = "table"
  PROVE  /\ "base" \in DOMAIN ThemeTable["background"][2] <=> BaseLeaf # Absent
         /\ BaseLeaf # Absent => ThemeTable["background"][2]["base"] = BaseLeaf
<1> DEFINE on == {n \in 1 .. 3 : Speaks(n, "background") /\ layers[n]["background"][1] = "table"
                                  /\ "base" \in DOMAIN layers[n]["background"][2]}
<1>1. BaseLeaf = IF on = {} THEN Absent ELSE layers[Top(on)]["background"][2]["base"]
  BY DEF BaseLeaf
<1>2. on \in SUBSET (1 .. 4) /\ \A n : n \in on <=> n \in 1 .. 3 /\ Based(n, 3)
  BY DEF Based, Speaks, Ground
<1>3. /\ "base" \in DOMAIN ThemeTable["background"][2] <=> \E m \in 1 .. 3 : Based(m, 3)
      /\ \A m \in 1 .. 3 : Based(m, 3) /\ (\A l \in m + 1 .. 3 : ~Based(l, 3)) =>
                              ThemeTable["background"][2]["base"] = Ground(m)[2]["base"]
  BY ThemeTells DEF Tells, TellsBase
<1> HIDE DEF on
<1>4. CASE on = {}
  BY <1>1, <1>2, <1>3, <1>4
<1>5. CASE on # {}
  <2>1. Top(on) \in on /\ \A l \in 1 .. 4 : l > Top(on) => l \notin on
    BY <1>2, <1>5, TopIs
  <2>2. PICK n \in 1 .. 3 : n = Top(on) /\ Based(n, 3)
    BY <1>2, <2>1
  <2>3. \A l \in n + 1 .. 3 : ~Based(l, 3)
    BY <1>2, <2>1, <2>2
  <2>4. Ground(n) \in Grounds /\ Ground(n)[1] = "table" /\ "base" \in DOMAIN Ground(n)[2]
    BY <2>2, SaysIs, TableIs DEF Based, Ground
  <2>5. Ground(n)[2]["base"] # Absent
    BY <2>4, GroundIs, LeavesAre
  <2>6. QED
    BY <1>1, <1>3, <1>5, <2>2, <2>3, <2>5 DEF Ground
<1>6. QED
  BY <1>4, <1>5

-----------------------------------------------------------------------------
(* The references of a table are all found exactly if each value's is. *)
Found(v) == Ref(v) => v[2] \in DOMAIN Palette
Good(v) == Found(v) /\ Colour(ResolveValue(v))

LEMMA RefsFound ==
  ASSUME NEW t \in Themes
  PROVE  RefsOf(t) \subseteq DOMAIN Palette <=>
           /\ "text" \in DOMAIN t => Found(t["text"])
           /\ "background" \in DOMAIN t =>
                IF t["background"][1] = "table"
                THEN "base" \in DOMAIN t["background"][2] => Found(t["background"][2]["base"])
                ELSE Found(t["background"])
<1> DEFINE P == DOMAIN Palette
<1>1. /\ DOMAIN t \subseteq {"text", "background"}
      /\ "text" \in DOMAIN t => t["text"][1] # "table"
      /\ "background" \in DOMAIN t /\ t["background"][1] = "table" => DOMAIN t["background"][2] \subseteq {"base"}
  BY TableIs, LeavesAre, GroundIs
<1>2. \A k \in DOMAIN t : Ref(t[k]) => t[k][1] # "table"
  BY DEF Ref
<1>3. RefsOf(t) \subseteq P <=>
        /\ \A k \in DOMAIN t : Ref(t[k]) => t[k][2] \in P
        /\ \A k \in DOMAIN t : t[k][1] = "table" =>
             \A j \in DOMAIN t[k][2] : Ref(t[k][2][j]) => t[k][2][j][2] \in P
  <2> HIDE DEF P
  <2>1. ASSUME RefsOf(t) \subseteq P, NEW k \in DOMAIN t, t[k][1] = "table",
               NEW j \in DOMAIN t[k][2], Ref(t[k][2][j])
        PROVE  t[k][2][j][2] \in P
    BY <2>1 DEF RefsOf
  <2>2. ASSUME RefsOf(t) \subseteq P, NEW k \in DOMAIN t, Ref(t[k])
        PROVE  t[k][2] \in P
    BY <2>2 DEF RefsOf
  <2>3. ASSUME \A k \in DOMAIN t : Ref(t[k]) => t[k][2] \in P,
               \A k \in DOMAIN t : t[k][1] = "table" =>
                 \A j \in DOMAIN t[k][2] : Ref(t[k][2][j]) => t[k][2][j][2] \in P
        PROVE  RefsOf(t) \subseteq P
    BY <2>3 DEF RefsOf
  <2>4. QED
    BY <2>1, <2>2, <2>3
<1> HIDE DEF P
<1>4. QED
  BY <1>1, <1>2, <1>3 DEF Found, P

(* The text is accepted exactly if every value of the table is a colour once *)
(* its reference is replaced, and a background table has its base.           *)
LEMMA ResolvedIs ==
  ASSUME NEW t \in Themes
  PROVE  LET r == ResolveTable(t) IN
         /\ DOMAIN r = DOMAIN t
         /\ "text" \in DOMAIN t => r["text"] = ResolveValue(t["text"])
         /\ "background" \in DOMAIN t /\ t["background"][1] # "table" =>
              r["background"] = ResolveValue(t["background"])
         /\ "background" \in DOMAIN t /\ t["background"][1] = "table" =>
              /\ r["background"][1] = "table" /\ DOMAIN r["background"][2] = DOMAIN t["background"][2]
              /\ "base" \in DOMAIN t["background"][2] =>
                   r["background"][2]["base"] = ResolveValue(t["background"][2]["base"])
<1>1. "text" \in DOMAIN t => t["text"][1] # "table"
  BY TableIs, LeavesAre
<1>2. QED
  BY <1>1, LeavesAre DEF ResolveTable

LEMMA Accepted ==
  ASSUME Sourced, NEW t \in Themes
  PROVE  RefsOf(t) \subseteq DOMAIN Palette /\ Deserializes(ResolveTable(t)) <=>
           /\ "text" \in DOMAIN t => Good(t["text"])
           /\ "background" \in DOMAIN t =>
                IF t["background"][1] = "table"
                THEN "base" \in DOMAIN t["background"][2] /\ Good(t["background"][2]["base"])
                ELSE Good(t["background"])
<1> DEFINE r == ResolveTable(t)
<1>1. DOMAIN t \subseteq {"text", "background"}
  BY TableIs
<1>2. Deserializes(r) <=>
        /\ "text" \in DOMAIN t => Colour(r["text"])
        /\ "background" \in DOMAIN t =>
             \/ Colour(r["background"])
             \/ r["background"][1] = "table" /\ "base" \in DOMAIN r["background"][2] /\ Colour(r["background"][2]["base"])
  <2>1. DOMAIN r = DOMAIN t
    BY ResolvedIs
  <2> HIDE DEF r
  <2>2. QED
    BY <1>1, <2>1 DEF Deserializes
<1>3. "background" \in DOMAIN t /\ t["background"][1] = "table" => ~Colour(r["background"])
  BY ResolvedIs DEF Colour
<1>4. "background" \in DOMAIN t /\ t["background"][1] # "table" /\ Found(t["background"]) => r["background"][1] # "table"
  <2>1. SUFFICES ASSUME "background" \in DOMAIN t, t["background"][1] # "table", Found(t["background"])
                 PROVE  ResolveValue(t["background"])[1] # "table"
    BY ResolvedIs
  <2>2. \A v : Scalar(v) => v[1] # "table"
    BY DEF Scalar
  <2>3. CASE Ref(t["background"])
    BY <2>1, <2>2, <2>3, PaletteTells DEF ResolveValue, Found
  <2>4. CASE ~Ref(t["background"])
    BY <2>1, <2>4 DEF ResolveValue
  <2>5. QED
    BY <2>3, <2>4
<1>5. QED
  BY <1>2, <1>3, <1>4, RefsFound, ResolvedIs DEF Good

-----------------------------------------------------------------------------
(* A value in effect is a colour in the palette in effect. *)
LEMMA GoodIsUsable ==
  ASSUME Sourced, NEW v, v # Absent
  PROVE  /\ Good(v) <=> Usable(v)
         /\ Good(v) => ResolveValue(v) = Value(v)
<1>1. CASE Ref(v)
  <2>1. /\ v[2] \in DOMAIN Palette <=> Meant(v[2]) # Absent
        /\ v[2] \in DOMAIN Palette => Palette[v[2]] = Meant(v[2])
    BY PaletteTells
  <2>2. QED
    BY <1>1, <2>1 DEF Good, Found, Usable, ResolveValue, Value, Colour
<1>2. CASE ~Ref(v)
  BY <1>2 DEF Good, Found, Usable, ResolveValue, Value, Colour
<1>3. QED
  BY <1>1, <1>2

(* What the theme in effect is made of. *)
InEffect ==
  /\ Usable(Leaf("text"))
  /\ IF IsTable THEN BaseLeaf # Absent /\ Usable(BaseLeaf) ELSE Usable(Leaf("background"))

LEMMA AcceptedIfUsable ==
  ASSUME Layered, Sourced
  PROVE  RefsOf(ThemeTable) \subseteq DOMAIN Palette /\ Deserializes(ResolveTable(ThemeTable)) <=> InEffect
<1> DEFINE t == ThemeTable
<1>1. t \in Themes
  BY ThemeTells DEF Tells
<1> HIDE DEF t
<1>2. RefsOf(t) \subseteq DOMAIN Palette /\ Deserializes(ResolveTable(t)) <=>
        /\ "text" \in DOMAIN t => Good(t["text"])
        /\ "background" \in DOMAIN t =>
             IF t["background"][1] = "table"
             THEN "base" \in DOMAIN t["background"][2] /\ Good(t["background"][2]["base"])
             ELSE Good(t["background"])
  BY <1>1, Accepted
<1>3. ("text" \in DOMAIN t => Good(t["text"])) <=> Usable(Leaf("text"))
  <2>1. /\ "text" \in DOMAIN t <=> Leaf("text") # Absent
        /\ "text" \in DOMAIN t => t["text"] = Leaf("text")
    BY TextIs DEF t
  <2>2. Usable(Absent)
    BY DEF Usable
  <2>3. QED
    BY <2>1, <2>2, GoodIsUsable
<1>4. /\ "background" \in DOMAIN t <=> Leaf("background") # Absent
      /\ "background" \in DOMAIN t =>
           /\ t["background"][1] = "table" <=> Leaf("background")[1] = "table"
           /\ Leaf("background")[1] # "table" => t["background"] = Leaf("background")
  BY BackgroundIs DEF t
<1>5. CASE Leaf("background") = Absent
  BY <1>2, <1>3, <1>4, <1>5 DEF t, InEffect, IsTable, Usable
<1>6. CASE Leaf("background") # Absent /\ Leaf("background")[1] # "table"
  BY <1>2, <1>3, <1>4, <1>6, GoodIsUsable DEF t, InEffect, IsTable
<1>7. CASE Leaf("background") # Absent /\ Leaf("background")[1] = "table"
  <2>1. /\ "base" \in DOMAIN t["background"][2] <=> BaseLeaf # Absent
        /\ BaseLeaf # Absent => t["background"][2]["base"] = BaseLeaf
    BY <1>4, <1>7, BaseIs DEF t
  <2>2. BaseLeaf # Absent => (Good(BaseLeaf) <=> Usable(BaseLeaf))
    BY GoodIsUsable
  <2>3. QED
    BY <1>2, <1>3, <1>4, <1>7, <2>1, <2>2 DEF t, InEffect, IsTable
<1>8. QED
  BY <1>5, <1>6, <1>7 DEF t

LEMMA ParsedIs ==
  ASSUME Layered, Sourced
  PROVE  ParseWith = IF InEffect THEN <<"ok", ResolveTable(ThemeTable)>> ELSE <<"err">>
  BY AcceptedIfUsable DEF ParseWith

(* The values of the theme that is returned are those in effect. *)
LEMMA EffectIs ==
  ASSUME Layered, Sourced, InEffect
  PROVE  LET t == ResolveTable(ThemeTable) IN
         /\ ("text" \in DOMAIN t) <=> (Leaf("text") # Absent)
         /\ "text" \in DOMAIN t => t["text"] = Value(Leaf("text"))
         /\ IsTable => t["background"][2]["base"] = Value(BaseLeaf)
         /\ "background" \in DOMAIN t /\ ~IsTable => t["background"] = Value(Leaf("background"))
<1> DEFINE m == ThemeTable
           t == ResolveTable(m)
<1>1. m \in Themes
  BY ThemeTells DEF Tells
<1> HIDE DEF m
<1>2. /\ DOMAIN t = DOMAIN m
      /\ "text" \in DOMAIN m => t["text"] = ResolveValue(m["text"])
      /\ "background" \in DOMAIN m /\ m["background"][1] # "table" => t["background"] = ResolveValue(m["background"])
      /\ "background" \in DOMAIN m /\ m["background"][1] = "table" /\ "base" \in DOMAIN m["background"][2] =>
           t["background"][2]["base"] = ResolveValue(m["background"][2]["base"])
  BY <1>1, ResolvedIs
<1> HIDE DEF t
<1>3. /\ "text" \in DOMAIN m <=> Leaf("text") # Absent
      /\ "text" \in DOMAIN m => m["text"] = Leaf("text")
  BY TextIs DEF m
<1>4. /\ "background" \in DOMAIN m <=> Leaf("background") # Absent
      /\ "background" \in DOMAIN m =>
           /\ m["background"][1] = "table" <=> Leaf("background")[1] = "table"
           /\ Leaf("background")[1] # "table" => m["background"] = Leaf("background")
  BY BackgroundIs DEF m
<1>5. "text" \in DOMAIN t => t["text"] = Value(Leaf("text"))
  <2>1. Leaf("text") # Absent => ResolveValue(Leaf("text")) = Value(Leaf("text"))
    BY GoodIsUsable DEF InEffect
  <2>2. QED
    BY <1>2, <1>3, <2>1
<1>6. IsTable => t["background"][2]["base"] = Value(BaseLeaf)
  <2>1. SUFFICES ASSUME IsTable PROVE t["background"][2]["base"] = Value(BaseLeaf)
    OBVIOUS
  <2>2. BaseLeaf # Absent /\ ResolveValue(BaseLeaf) = Value(BaseLeaf)
    BY <2>1, GoodIsUsable DEF InEffect
  <2>3. "background" \in DOMAIN m /\ m["background"][1] = "table"
    BY <1>4, <2>1 DEF IsTable
  <2>4. /\ "base" \in DOMAIN m["background"][2]
        /\ m["background"][2]["base"] = BaseLeaf
    BY <2>2, <2>3, BaseIs DEF m
  <2>5. QED
    BY <1>2, <2>2, <2>3, <2>4
<1>7. "background" \in DOMAIN t /\ ~IsTable => t["background"] = Value(Leaf("background"))
  <2>1. SUFFICES ASSUME "background" \in DOMAIN t, ~IsTable
                 PROVE  t["background"] = Value(Leaf("background"))
    OBVIOUS
  <2>2. Leaf("background") # Absent /\ Leaf("background")[1] # "table" /\ m["background"] = Leaf("background")
    BY <1>2, <1>4, <2>1 DEF IsTable
  <2>3. ResolveValue(Leaf("background")) = Value(Leaf("background"))
    BY <2>1, <2>2, GoodIsUsable DEF InEffect
  <2>4. QED
    BY <1>2, <1>4, <2>1, <2>2, <2>3
<1>8. QED
  BY <1>2, <1>3, <1>5, <1>6, <1>7 DEF t, m

-----------------------------------------------------------------------------
ThemeInv == Layered /\ Sourced /\ result \in {Absent, ParseWith}

LEMMA ThemeStarts == ThemeInit => ThemeInv
  BY DEF ThemeInit, ThemeInv, Layered, Sourced

LEMMA ThemeKeeps == ThemeInv /\ [ThemeNext]_themeVars => ThemeInv'
<1>1. SUFFICES ASSUME ThemeInv, [ThemeNext]_themeVars PROVE ThemeInv'
  OBVIOUS
<1>2. UNCHANGED <<layers, palettes, named>> /\ result' \in {result, ParseWith}
  BY <1>1 DEF ThemeNext, themeVars
<1>3. Layered' /\ Sourced'
  BY <1>1, <1>2 DEF ThemeInv, Layered, Sourced
<1>4. ParseWith' = ParseWith
  <2>1. ThemeTable' = ThemeTable /\ Palette' = Palette
    BY <1>2 DEF ThemeTable, LoadPresetTable, Palette
  <2>2. ResolveTable(ThemeTable)' = ResolveTable(ThemeTable)
    BY <2>1 DEF ResolveTable, ResolveValue
  <2>3. QED
    BY <2>1, <2>2 DEF ParseWith
<1>5. QED
  BY <1>1, <1>2, <1>3, <1>4 DEF ThemeInv

LEMMA ThemeInvSuffices == ThemeInv => Precedence
<1>1. SUFFICES ASSUME ThemeInv, result # Absent PROVE Precedence
  BY DEF Precedence
<1>2. Layered /\ Sourced /\ result = ParseWith
  BY <1>1 DEF ThemeInv
<1>3. CASE InEffect
  <2>1. result = <<"ok", ResolveTable(ThemeTable)>>
    BY <1>2, <1>3, ParsedIs
  <2>2. QED
    BY <1>2, <1>3, <2>1, EffectIs DEF Precedence, InEffect
<1>4. CASE ~InEffect
  <2>1. result = <<"err">>
    BY <1>2, <1>4, ParsedIs
  <2>2. QED
    BY <1>4, <2>1 DEF Precedence, InEffect
<1>5. QED
  BY <1>3, <1>4

(* config.rs, parse_with: whichever of the sources are there and whatever     *)
(* their tables and palettes say, a text is accepted exactly if every         *)
(* value in effect is a colour, and then each key has the value of the last   *)
(* layer that sets it and each reference that of the last palette.            *)
THEOREM ThemePrecedence == ThemeSpec => []Precedence
<1>1. ThemeInit => ThemeInv
  BY ThemeStarts
<1>2. ThemeInv /\ [ThemeNext]_themeVars => ThemeInv'
  BY ThemeKeeps
<1>3. ThemeInv => Precedence
  BY ThemeInvSuffices
<1>4. QED
  BY <1>1, <1>2, <1>3, PTL DEF ThemeSpec

-----------------------------------------------------------------------------
(* Agents and their sessions.                                               *)
Holdings == [Pids -> Sessions \cup {NOSESSION}]

(* No session is with two processes. *)
Apart(acc) == \A p, q \in Pids : acc[p] = acc[q] /\ acc[p] # NOSESSION => p = q

AgentsInv ==
  /\ place \in [Sessions -> Nat]
  /\ \A s, t \in Sessions : place[s] = place[t] /\ place[s] > 0 => s = t
  /\ title \in [Pids -> SUBSET Sessions] /\ up \subseteq Pids

(* What a pass has done when it is through with the first n processes: all  *)
(* keep what they had, take what they want, and want nothing that is left.  *)
Through(n, cand, acc, new, wanted) ==
  /\ new \in Holdings /\ Apart(new)
  /\ \A p \in Pids : acc[p] # NOSESSION => new[p] = acc[p]
  /\ \A p \in Pids : new[p] # acc[p] => new[p] \in cand \cap wanted[p]
  /\ \A p \in 1 .. n : new[p] = NOSESSION =>
       \A s \in cand \cap wanted[p] : \E q \in Pids : new[q] = s

LEMMA FirstPlace ==
  ASSUME place \in [Sessions -> Nat], NEW S, S \subseteq Sessions, S # {}
  PROVE  \E s \in S : \A t \in S : place[s] <= place[t]
<1> SUFFICES ASSUME \A s \in S : \E t \in S : place[t] < place[s]
             PROVE FALSE
  OBVIOUS
<1> DEFINE G == {n \in Nat : \A s \in S : place[s] > n}
<1>1. PICK x \in S : TRUE
  OBVIOUS
<1>2. place[x] \in Nat
  BY <1>1
<1>3. 0 \in G
  OBVIOUS
<1>4. ASSUME NEW n \in 0 .. place[x] - 1, n \in G PROVE n + 1 \in G
  <2>1. ASSUME NEW s \in S PROVE place[s] > n + 1
    <3>1. PICK t \in S : place[t] < place[s]
      OBVIOUS
    <3>2. place[t] > n /\ place[t] \in Nat /\ place[s] \in Nat
      BY <1>4
    <3>3. QED
      BY <3>1, <3>2
  <2>2. QED
    BY <2>1
<1> HIDE DEF G
<1>5. 0 .. place[x] \subseteq G
  BY <1>2, <1>3, <1>4, UpTo
<1>6. QED
  BY <1>1, <1>2, <1>5 DEF G

(* The process p has come to s, and the others have what they had. *)
Gets(new, acc, p, s) ==
  new \in Holdings /\ new[p] = s /\ \A q \in Pids : q # p => new[q] = acc[q]

LEMMA ClaimIs ==
  ASSUME place \in [Sessions -> Nat], NEW cand \in SUBSET Sessions, NEW acc \in Holdings,
         NEW p \in Pids, NEW wanted \in SUBSET Sessions
  PROVE  \/ /\ acc[p] # NOSESSION \/ Free(cand, acc) \cap wanted = {}
            /\ Claim(cand, acc, p, wanted) = acc
         \/ /\ acc[p] = NOSESSION
            /\ \E s \in Free(cand, acc) \cap wanted :
                 Gets(Claim(cand, acc, p, wanted), acc, p, s)
<1> DEFINE free == Free(cand, acc) \cap wanted
           s == CHOOSE s \in free : \A t \in free : place[s] <= place[t]
<1>1. CASE acc[p] # NOSESSION \/ free = {}
  BY <1>1 DEF Claim
<1>2. CASE acc[p] = NOSESSION /\ free # {}
  <2>1. free \subseteq Sessions
    BY DEF Free
  <2> HIDE DEF free
  <2>2. \E t \in free : \A u \in free : place[t] <= place[u]
    BY <1>2, <2>1, FirstPlace
  <2>3. s \in free
    BY <2>2
  <2>4. Claim(cand, acc, p, wanted) = [acc EXCEPT ![p] = s]
    BY <1>2 DEF Claim, free
  <2> HIDE DEF s
  <2>5. Gets([acc EXCEPT ![p] = s], acc, p, s)
    BY <2>1, <2>3 DEF Gets, Holdings
  <2>6. QED
    BY <1>2, <2>3, <2>4, <2>5 DEF free
<1>3. QED
  BY <1>1, <1>2

LEMMA ClaimGoesOn ==
  ASSUME place \in [Sessions -> Nat], NEW cand \in SUBSET Sessions, NEW acc \in Holdings,
         NEW wanted \in [Pids -> SUBSET Sessions], NEW n \in 0 .. MaxPid - 1, NEW new,
         Through(n, cand, acc, new, wanted)
  PROVE  Through(n + 1, cand, acc, Claim(cand, new, n + 1, wanted[n + 1]), wanted)
<1> DEFINE p == n + 1
           free == Free(cand, new) \cap wanted[p]
           next == Claim(cand, new, p, wanted[p])
<1>1. p \in Pids /\ 1 .. p = (1 .. n) \cup {p} /\ 1 .. p \subseteq Pids /\ 1 .. n \subseteq Pids
  BY AgentsAssumption DEF Pids
<1>2. new \in Holdings /\ wanted[p] \in SUBSET Sessions
  BY <1>1 DEF Through
<1>3. NOSESSION \notin Sessions
  BY AgentsAssumption
<1> HIDE DEF p
<1>4. CASE (new[p] # NOSESSION \/ free = {}) /\ next = new
  <2>1. new[p] = NOSESSION => \A s \in cand \cap wanted[p] : \E q \in Pids : new[q] = s
    BY <1>4 DEF Free
  <2>2. QED
    BY <1>1, <1>4, <2>1 DEF Through, p
<1>5. CASE new[p] = NOSESSION /\ \E s \in free : Gets(next, new, p, s)
  <2>1. PICK s \in free : Gets(next, new, p, s)
    BY <1>5
  <2>2. s \in cand /\ s \in wanted[p] /\ s \in Sessions /\ \A q \in Pids : new[q] # s
    BY <2>1 DEF Free
  <2>3. next \in Holdings /\ next[p] = s /\ \A q \in Pids : q # p => next[q] = new[q]
    BY <2>1 DEF Gets
  <2> HIDE DEF next, free
  <2>4. Apart(next)
    BY <2>2, <2>3 DEF Apart, Through
  <2>5. \A q \in Pids : acc[q] # NOSESSION => next[q] = acc[q]
    BY <1>1, <1>5, <2>3 DEF Through
  <2>6. \A q \in Pids : next[q] # acc[q] => next[q] \in cand \cap wanted[q]
    BY <2>2, <2>3 DEF Through
  <2>7. \A q \in 1 .. p : next[q] = NOSESSION =>
          \A t \in cand \cap wanted[q] : \E r \in Pids : next[r] = t
    <3>1. TAKE q \in 1 .. p
    <3>2. HAVE next[q] = NOSESSION
    <3>3. q # p /\ q \in 1 .. n /\ q \in Pids
      BY <1>1, <1>3, <2>2, <2>3, <3>2
    <3>4. new[q] = NOSESSION
      BY <2>3, <3>2, <3>3
    <3>5. ASSUME NEW t \in cand \cap wanted[q] PROVE \E r \in Pids : next[r] = t
      <4>1. PICK r \in Pids : new[r] = t
        BY <3>3, <3>4 DEF Through
      <4>2. r # p
        BY <1>3, <1>5, <4>1
      <4>3. QED
        BY <2>3, <4>1, <4>2
    <3>6. QED
      BY <3>5
  <2>8. QED
    BY <2>3, <2>4, <2>5, <2>6, <2>7 DEF Through, next, p
<1>6. QED
  <2>1. \/ (new[p] # NOSESSION \/ free = {}) /\ next = new
        \/ new[p] = NOSESSION /\ \E s \in free : Gets(next, new, p, s)
    <3> DEFINE w == wanted[p]
    <3>1. p \in Pids /\ new \in Holdings /\ w \in SUBSET Sessions
      BY <1>1, <1>2
    <3> HIDE DEF w
    <3>2. \/ (new[p] # NOSESSION \/ Free(cand, new) \cap w = {}) /\ Claim(cand, new, p, w) = new
          \/ /\ new[p] = NOSESSION
             /\ \E s \in Free(cand, new) \cap w : Gets(Claim(cand, new, p, w), new, p, s)
      BY <3>1, ClaimIs
    <3>3. QED
      BY <3>2 DEF w
  <2>2. QED
    BY <1>4, <1>5, <2>1

(* The claims of the first n processes, one after another.                  *)
Claims(n, cand, acc, g, wanted) ==
  /\ g \in [0 .. n -> Holdings] /\ g[0] = acc
  /\ \A m \in 1 .. n : g[m] = Claim(cand, g[m - 1], m, wanted[m])
  /\ \A m \in 0 .. n : Through(m, cand, acc, g[m], wanted)

LEMMA NextClaim ==
  ASSUME place \in [Sessions -> Nat], NEW cand \in SUBSET Sessions, NEW acc \in Holdings,
         NEW wanted \in [Pids -> SUBSET Sessions], NEW n \in 0 .. MaxPid - 1, NEW g,
         Claims(n, cand, acc, g, wanted)
  PROVE  \E h : Claims(n + 1, cand, acc, h, wanted)
<1> DEFINE new == Claim(cand, g[n], n + 1, wanted[n + 1])
           h == [m \in 0 .. n + 1 |-> IF m = n + 1 THEN new ELSE g[m]]
<1>1. n \in Nat /\ n \in 0 .. n /\ MaxPid \in Nat
  BY AgentsAssumption
<1>2. Through(n, cand, acc, g[n], wanted)
  BY <1>1 DEF Claims
<1>3. Through(n + 1, cand, acc, new, wanted)
  BY <1>2, ClaimGoesOn
<1>4. new \in Holdings
  BY <1>3 DEF Through
<1> HIDE DEF new
<1>5. h \in [0 .. n + 1 -> Holdings] /\ h[0] = acc
  BY <1>1, <1>4 DEF Claims
<1>6. h[n + 1] = new /\ \A m \in 0 .. n : m \in 0 .. n + 1 /\ h[m] = g[m]
  BY <1>1
<1> HIDE DEF h
<1>7. \A m \in 1 .. n + 1 : h[m] = Claim(cand, h[m - 1], m, wanted[m])
  <2>1. TAKE m \in 1 .. n + 1
  <2>2. CASE m = n + 1
    <3>1. m - 1 = n /\ h[m - 1] = g[n]
      BY <1>1, <1>6, <2>2
    <3>2. QED
      BY <1>6, <2>2, <3>1 DEF new
  <2>3. CASE m # n + 1
    <3>1. m \in 1 .. n /\ m \in 0 .. n /\ m - 1 \in 0 .. n
      BY <1>1, <2>3
    <3>2. QED
      BY <1>6, <3>1 DEF Claims
  <2>4. QED
    BY <2>2, <2>3
<1>8. \A m \in 0 .. n + 1 : Through(m, cand, acc, h[m], wanted)
  <2>1. \A m \in 0 .. n + 1 : m = n + 1 \/ m \in 0 .. n
    BY <1>1
  <2>2. QED
    BY <1>3, <1>6, <2>1 DEF Claims
<1>9. QED
  BY <1>5, <1>7, <1>8 DEF Claims

(* A pass is through with all processes. *)
LEMMA PassIs ==
  ASSUME place \in [Sessions -> Nat], NEW cand \in SUBSET Sessions, NEW acc \in Holdings, Apart(acc),
         NEW wanted \in [Pids -> SUBSET Sessions]
  PROVE  Through(MaxPid, cand, acc, Pass(cand, acc, wanted), wanted)
<1> DEFINE G == {n \in 0 .. MaxPid : \E g : Claims(n, cand, acc, g, wanted)}
           Recursion(f) == f = [n \in 0 .. MaxPid |->
                                  IF n = 0 THEN acc ELSE Claim(cand, f[n - 1], n, wanted[n])]
           claimed == CHOOSE f : Recursion(f)
<1>1. MaxPid \in Nat /\ 0 \in 0 .. MaxPid /\ MaxPid \in 0 .. MaxPid
  BY AgentsAssumption
<1>2. 0 \in G
  <2>1. Through(0, cand, acc, acc, wanted)
    BY DEF Through
  <2>2. Claims(0, cand, acc, [m \in 0 .. 0 |-> acc], wanted)
    BY <2>1 DEF Claims
  <2>3. QED
    BY <1>1, <2>2
<1>3. ASSUME NEW n \in 0 .. MaxPid - 1, n \in G PROVE n + 1 \in G
  BY <1>1, <1>3, NextClaim
<1>4. PICK g : Claims(MaxPid, cand, acc, g, wanted)
  <2> HIDE DEF G
  <2>1. MaxPid \in G
    BY <1>1, <1>2, <1>3, UpTo
  <2>2. QED
    BY <2>1 DEF G
<1>5. Recursion(g)
  <2>1. \A n \in 0 .. MaxPid : n # 0 => n \in 1 .. MaxPid
    BY <1>1
  <2>2. \A n \in 0 .. MaxPid : g[n] = IF n = 0 THEN acc ELSE Claim(cand, g[n - 1], n, wanted[n])
    BY <1>4, <2>1 DEF Claims
  <2>3. g \in [0 .. MaxPid -> Holdings]
    BY <1>4 DEF Claims
  <2>4. QED
    BY <2>2, <2>3
<1>6. Recursion(claimed)
  <2> HIDE DEF Recursion
  <2>1. QED
    BY <1>5
<1>7. \A n \in 0 .. MaxPid : claimed[n] = g[n]
  <2> DEFINE H == {n \in 0 .. MaxPid : claimed[n] = g[n]}
  <2> HIDE DEF claimed
  <2>1. \A n \in 0 .. MaxPid : claimed[n] = IF n = 0 THEN acc ELSE Claim(cand, claimed[n - 1], n, wanted[n])
    BY <1>6
  <2>2. \A n \in 0 .. MaxPid : g[n] = IF n = 0 THEN acc ELSE Claim(cand, g[n - 1], n, wanted[n])
    BY <1>5
  <2>3. 0 \in H
    BY <1>1, <2>1, <2>2
  <2>4. ASSUME NEW n \in 0 .. MaxPid - 1, n \in H PROVE n + 1 \in H
    <3>1. n + 1 \in 0 .. MaxPid /\ n + 1 # 0 /\ (n + 1) - 1 = n
      BY <1>1
    <3>2. QED
      BY <2>1, <2>2, <2>4, <3>1
  <2> HIDE DEF H
  <2>5. 0 .. MaxPid \subseteq H
    BY <1>1, <2>3, <2>4, UpTo
  <2>6. QED
    BY <2>5 DEF H
<1>8. Pass(cand, acc, wanted) = claimed[MaxPid]
  BY DEF Pass
<1>9. QED
  <2> HIDE DEF claimed
  <2>1. Pass(cand, acc, wanted) = g[MaxPid]
    BY <1>1, <1>7, <1>8
  <2>2. QED
    BY <1>1, <1>4, <2>1 DEF Claims

-----------------------------------------------------------------------------
(* A scan hands out each candidate once: all of them, if an agent goes      *)
(* without; and none that a title names to an agent whose title does not,   *)
(* while the other goes without or has been given what it does not name.    *)
Fair(seen, cand, m) ==
  /\ m \in [seen -> cand \cup {NOSESSION}]
  /\ \A p, q \in seen : m[p] = m[q] /\ m[p] # NOSESSION => p = q
  /\ \A p \in seen : m[p] = NOSESSION => \A s \in cand : \E q \in seen : m[q] = s
  /\ meter = "native" =>
       \A p, q \in seen : m[q] \in title[p] => m[p] \in title[p] \/ m[q] \in title[q]

LEMMA MatchedFair ==
  ASSUME AgentsInv, NEW seen \in SUBSET up, NEW busy
  PROVE  Fair(seen, Candidates(Cardinality(seen)), Matched(seen, busy))
<1> DEFINE cand == Candidates(Cardinality(seen))
           wantA == [p \in Pids |-> IF meter = "native" /\ p \in seen THEN title[p] ELSE {}]
           wantB == [p \in Pids |-> IF p \in seen \cap busy THEN Sessions ELSE {}]
           wantC == [p \in Pids |-> IF p \in seen \ busy THEN Sessions ELSE {}]
           A == TitlePass(cand, seen)
           B == Fallback(cand, A, seen \cap busy)
           C == Fallback(cand, B, seen \ busy)
<1>1. cand \in SUBSET Sessions /\ NOSESSION \notin Sessions /\ seen \subseteq Pids
  BY AgentsAssumption DEF AgentsInv, Candidates, Whole
<1>2. wantA \in [Pids -> SUBSET Sessions] /\ wantB \in [Pids -> SUBSET Sessions]
        /\ wantC \in [Pids -> SUBSET Sessions]
  BY DEF AgentsInv
<1>3. place \in [Sessions -> Nat]
  BY DEF AgentsInv
<1> HIDE DEF cand
<1>4. Through(MaxPid, cand, Nobody, A, wantA)
  <2>1. Nobody \in Holdings /\ Apart(Nobody)
    BY DEF Nobody, Holdings, Apart
  <2> HIDE DEF wantB, wantC
  <2>2. QED
    BY <1>1, <1>2, <1>3, <2>1, PassIs DEF TitlePass
<1>5. A \in Holdings /\ Apart(A)
  BY <1>4 DEF Through
<1> HIDE DEF A
<1>6. Through(MaxPid, cand, A, B, wantB)
  <2> HIDE DEF wantA, wantC
  <2>1. QED
    BY <1>1, <1>2, <1>3, <1>5, PassIs DEF Fallback
<1>7. B \in Holdings /\ Apart(B)
  BY <1>6 DEF Through
<1> HIDE DEF B
<1>8. Through(MaxPid, cand, B, C, wantC)
  <2> HIDE DEF wantA, wantB
  <2>1. QED
    BY <1>1, <1>2, <1>3, <1>7, PassIs DEF Fallback
<1>9. C \in Holdings /\ Apart(C)
  BY <1>8 DEF Through
<1>10. Matched(seen, busy) = [p \in seen |-> C[p]]
  BY DEF Matched, A, B, cand
<1> HIDE DEF C
<1>11. \A p \in Pids : (A[p] # NOSESSION => B[p] = A[p]) /\ (B[p] # NOSESSION => C[p] = B[p])
  BY <1>6, <1>8 DEF Through
<1>12. \A p \in Pids : A[p] # NOSESSION =>
         meter = "native" /\ p \in seen /\ A[p] \in cand \cap title[p]
  BY <1>4 DEF Through, Nobody
<1>13. \A p \in Pids : C[p] # NOSESSION => p \in seen /\ C[p] \in cand
  <2>1. \A p \in Pids : B[p] # NOSESSION => p \in seen /\ B[p] \in cand
    BY <1>6, <1>12 DEF Through
  <2>2. QED
    BY <1>8, <2>1 DEF Through
<1>14. ASSUME NEW p \in seen, C[p] = NOSESSION, NEW s \in cand
       PROVE  \E q \in seen : C[q] = s
  <2>1. p \in Pids /\ p \in 1 .. MaxPid /\ s \in Sessions /\ s # NOSESSION
    BY <1>1 DEF Pids
  <2>2. CASE p \in busy
    <3>1. B[p] = NOSESSION
      BY <1>11, <1>14, <2>1
    <3>2. wantB[p] = Sessions
      BY <2>1, <2>2
    <3>3. PICK q \in Pids : B[q] = s
      BY <1>6, <2>1, <3>1, <3>2 DEF Through
    <3>4. C[q] = s
      BY <1>11, <2>1, <3>3
    <3>5. QED
      BY <1>13, <2>1, <3>4
  <2>3. CASE p \notin busy
    <3>1. wantC[p] = Sessions
      BY <2>1, <2>3
    <3>2. PICK q \in Pids : C[q] = s
      BY <1>8, <1>14, <2>1, <3>1 DEF Through
    <3>3. QED
      BY <1>13, <2>1, <3>2
  <2>4. QED
    BY <2>2, <2>3
<1>15. ASSUME meter = "native", NEW p \in seen, NEW q \in seen, C[q] \in title[p]
       PROVE  C[p] \in title[p] \/ C[q] \in title[q]
  <2>1. p \in Pids /\ q \in Pids /\ p \in 1 .. MaxPid
    BY <1>1 DEF Pids
  <2>2. C[q] \in Sessions /\ C[q] # NOSESSION
    BY <1>1, <1>15, <2>1 DEF AgentsInv
  <2>3. CASE A[p] # NOSESSION
    BY <1>11, <1>12, <2>1, <2>3
  <2>4. CASE A[p] = NOSESSION
    <3>1. wantA[p] = title[p]
      BY <1>15, <2>1
    <3>2. C[q] \in cand \cap wantA[p]
      BY <1>13, <1>15, <2>1, <2>2, <3>1
    <3>3. PICK r \in Pids : A[r] = C[q]
      BY <1>4, <2>1, <2>4, <3>2 DEF Through
    <3>4. C[r] = C[q]
      BY <1>11, <2>2, <3>3
    <3>5. r = q
      BY <1>9, <2>1, <2>2, <3>4 DEF Apart
    <3>6. QED
      BY <1>12, <2>1, <2>2, <3>3, <3>5
  <2>5. QED
    BY <2>3, <2>4
<1>16. QED
  <2> DEFINE m == [p \in seen |-> C[p]]
  <2>1. \A p \in seen : p \in Pids /\ m[p] = C[p]
    BY <1>1
  <2>2. m \in [seen -> cand \cup {NOSESSION}]
    BY <1>1, <1>13
  <2> HIDE DEF m
  <2>3. \A p, q \in seen : m[p] = m[q] /\ m[p] # NOSESSION => p = q
    BY <1>9, <2>1 DEF Apart
  <2>4. \A p \in seen : m[p] = NOSESSION => \A s \in cand : \E q \in seen : m[q] = s
    BY <1>14, <2>1
  <2>5. meter = "native" =>
          \A p, q \in seen : m[q] \in title[p] => m[p] \in title[p] \/ m[q] \in title[q]
    BY <1>15, <2>1
  <2>6. Fair(seen, cand, m)
    BY <2>2, <2>3, <2>4, <2>5 DEF Fair
  <2>7. QED
    BY <1>10, <2>6 DEF m, cand

(* If an agent goes without, there is no transcript that nobody has: as     *)
(* many are candidates as there are agents, or all.                         *)
LEMMA NoneIsLeft ==
  ASSUME AgentsInv, NEW seen \in SUBSET up, NEW m, Fair(seen, Candidates(Cardinality(seen)), m),
         NEW p \in seen, m[p] = NOSESSION
  PROVE  \A s \in Whole : \E q \in seen : m[q] = s
<1> DEFINE cand == Candidates(Cardinality(seen))
           Before(s) == {t \in Whole : place[t] < place[s]}
<1>1. IsFiniteSet(Whole) /\ Whole \subseteq Sessions /\ NOSESSION \notin Sessions /\ Spare \in Nat
  BY AgentsAssumption, FS_Subset DEF Whole, AgentsInv
<1>2. IsFiniteSet(seen) /\ Cardinality(seen) \in Nat
  <2>1. IsFiniteSet(Pids)
    BY AgentsAssumption, FS_Interval DEF Pids
  <2>2. QED
    BY <2>1, FS_Subset, FS_CardinalityType DEF AgentsInv
<1>3. place \in [Sessions -> Nat]
  BY DEF AgentsInv
<1>4. \A t \in cand : \E q \in seen : m[q] = t
  BY DEF Fair
<1>5. ASSUME Whole \ cand # {} PROVE FALSE
  <2>1. PICK s \in Whole \ cand : \A t \in Whole \ cand : place[s] <= place[t]
    BY <1>1, <1>3, <1>5, FirstPlace
  <2>2. Cardinality(Before(s)) >= Cardinality(seen) + Spare
    <3>1. Cardinality(Before(s)) \in Nat
      <4>1. Before(s) \in SUBSET Whole
        OBVIOUS
      <4>2. QED
        BY <1>1, <4>1, FS_Subset, FS_CardinalityType
    <3>2. ~(Cardinality(Before(s)) < Cardinality(seen) + Spare)
      BY <2>1 DEF Candidates
    <3> HIDE DEF Before
    <3>3. QED
      BY <1>1, <1>2, <3>1, <3>2
  <2>3. Before(s) \subseteq cand
    <3>1. ASSUME NEW t \in Before(s), t \notin cand PROVE FALSE
      <4>1. t \in Whole \ cand /\ place[t] < place[s] /\ place[t] \in Nat /\ place[s] \in Nat
        BY <1>1, <1>3, <2>1, <3>1
      <4>2. QED
        BY <2>1, <4>1
    <3>2. QED
      BY <3>1
  <2> DEFINE others == seen \ {p}
             who == [t \in Before(s) |-> CHOOSE q \in seen : m[q] = t]
  <2>4. IsFiniteSet(others) /\ Cardinality(others) = Cardinality(seen) - 1
    BY <1>2, FS_RemoveElement
  <2>5. \A t \in Before(s) : who[t] \in seen /\ m[who[t]] = t /\ t # NOSESSION
    <3>1. \A t \in Before(s) : who[t] = CHOOSE q \in seen : m[q] = t
      OBVIOUS
    <3>2. \A t \in Before(s) : \E q \in seen : m[q] = t
      BY <1>4, <2>3
    <3>3. \A t \in Before(s) : t # NOSESSION
      BY <1>1
    <3> HIDE DEF who, Before
    <3>4. QED
      BY <3>1, <3>2, <3>3
  <2>6. who \in Injection(Before(s), others)
    <3>1. \A t \in Before(s) : who[t] \in others
      BY <2>5
    <3>2. who \in [Before(s) -> others]
      BY <3>1
    <3>3. \A t, u \in Before(s) : who[t] = who[u] => t = u
      BY <2>5
    <3> HIDE DEF who, Before, others
    <3>4. QED
      BY <3>2, <3>3 DEF Injection, IsInjective
  <2> HIDE DEF who, Before, others
  <2>7. Cardinality(Before(s)) <= Cardinality(others) /\ Cardinality(Before(s)) \in Nat
    BY <2>4, <2>6, FS_Injection, FS_CardinalityType
  <2>8. QED
    BY <1>1, <1>2, <2>2, <2>4, <2>7
<1>6. QED
  BY <1>4, <1>5

-----------------------------------------------------------------------------
LEMMA AgentsStart == AgentsInit => AgentsInv
BY DEF AgentsInit, AgentsInv

LEMMA TouchedKeeps ==
  ASSUME AgentsInv, NEW s \in Sessions, Touched(s)
  PROVE  /\ place' \in [Sessions -> Nat]
         /\ \A t, u \in Sessions : place'[t] = place'[u] /\ place'[t] > 0 => t = u
<1>1. place \in [Sessions -> Nat]
  BY DEF AgentsInv
<1>2. place' \in [Sessions -> Nat]
  BY <1>1 DEF Touched
<1>3. ASSUME NEW t \in Sessions, NEW u \in Sessions, place'[t] = place'[u], place'[t] > 0
      PROVE  t = u
  <2>1. place[t] \in Nat /\ place[u] \in Nat /\ place[s] \in Nat
    BY <1>1
  <2>2. \A v \in {t, u} : place'[v] =
          IF v = s THEN 1
          ELSE IF place[v] > 0 /\ (place[s] = 0 \/ place[v] < place[s]) THEN place[v] + 1
          ELSE place[v]
    BY DEF Touched
  <2>3. \A v, w \in {s, t, u} : place[v] = place[w] /\ place[v] > 0 => v = w
    BY DEF AgentsInv
  <2>4. QED
    BY <1>3, <2>1, <2>2, <2>3
<1>4. QED
  BY <1>2, <1>3

LEMMA AgentsKeep == AgentsInv /\ [AgentsNext]_agentVars => AgentsInv'
<1> SUFFICES ASSUME AgentsInv, [AgentsNext]_agentVars PROVE AgentsInv'
  OBVIOUS
<1>1. CASE UNCHANGED agentVars
  BY <1>1 DEF agentVars, machine, AgentsInv
<1>2. ASSUME NEW seen, NEW busy, Scan(seen, busy) PROVE AgentsInv'
  BY <1>2 DEF Scan, NativeScan, CodexScan, GuestScan, Tick, machine, AgentsInv
<1>3. ASSUME NEW p \in Pids, Start(p) \/ Exit(p) PROVE AgentsInv'
  BY <1>3 DEF Start, Exit, AgentsInv
<1>4. ASSUME NEW p \in Pids, NEW t \in SUBSET Sessions, Retitle(p, t) PROVE AgentsInv'
  BY <1>4 DEF Retitle, AgentsInv
<1>5. ASSUME NEW s \in Sessions, Touched(s), UNCHANGED <<up, title>> PROVE AgentsInv'
  BY <1>5, TouchedKeeps DEF AgentsInv
<1>6. ASSUME NEW s \in Sessions, BeginLine(s) \/ FinishOther(s) \/ Compact(s) PROVE AgentsInv'
  BY <1>5, <1>6 DEF BeginLine, FinishOther, Compact
<1>7. ASSUME NEW s \in Sessions, NEW f, NEW out, FinishLine(s, f, out) PROVE AgentsInv'
  BY <1>5, <1>7 DEF FinishLine
<1>8. QED
  BY <1>1, <1>2, <1>3, <1>4, <1>6, <1>7 DEF AgentsNext

(* For any transcripts, processes and titles, and whichever processes a     *)
(* scan sees: a session is with one agent only, an agent without one means  *)
(* that all transcripts are taken, and no agent has been given a session    *)
(* that another's title names and its own does not, unless that other has   *)
(* one its title names as well (modules/agents.rs, Scanner::scan).          *)
THEOREM AgentsOneSessionEach == AgentsSpec => OneSessionEach
<1>1. ASSUME AgentsInv, Polled
      PROVE  SessionEach
  <2>1. PICK seen \in SUBSET up, busy \in SUBSET up : Poll(seen, busy)
    BY <1>1 DEF Polled
  <2> DEFINE m == Matched(seen, busy)
  <2>2. agents' = m
    BY <2>1 DEF Poll
  <2>3. Fair(seen, Candidates(Cardinality(seen)), m)
    BY <1>1, MatchedFair
  <2> HIDE DEF m
  <2>4. DOMAIN agents' = seen
    BY <2>2, <2>3 DEF Fair
  <2>5. \A p \in seen : m[p] = NOSESSION => \A s \in Whole : \E q \in seen : m[q] = s
    BY <1>1, <2>3, NoneIsLeft
  <2>6. \A p \in seen : m[p] = NOSESSION => Whole \subseteq Range(m)
    BY <2>2, <2>4, <2>5 DEF Range
  <2>7. QED
    BY <2>2, <2>3, <2>4, <2>6 DEF Fair, SessionEach
<1>2. AgentsSpec => []AgentsInv
  BY AgentsStart, AgentsKeep, PTL DEF AgentsSpec
<1>3. AgentsInv => [Polled => SessionEach]_agentVars
  BY <1>1
<1>4. QED
  BY <1>2, <1>3, PTL DEF OneSessionEach

-----------------------------------------------------------------------------
(* Tokens.  Numbers up to N that are worked out one from another exist.     *)
Worked(n, f, S, v, step) ==
  /\ f \in [0 .. n -> S] /\ f[0] = v
  /\ \A k \in 1 .. n : f[k] = step[k][f[k - 1]]

LEMMA OneFromAnother ==
  ASSUME NEW N \in Nat, NEW S, NEW v \in S, NEW step \in [1 .. N -> [S -> S]]
  PROVE  \E f : Worked(N, f, S, v, step)
<1> DEFINE G == {n \in 0 .. N : \E f : Worked(n, f, S, v, step)}
<1>1. 0 \in G
  <2>1. Worked(0, [k \in 0 .. 0 |-> v], S, v, step)
    BY DEF Worked
  <2>2. QED
    BY <2>1
<1>2. ASSUME NEW n \in 0 .. N - 1, n \in G PROVE n + 1 \in G
  <2>1. PICK f : Worked(n, f, S, v, step)
    BY <1>2
  <2> DEFINE new == step[n + 1][f[n]]
             g == [k \in 0 .. n + 1 |-> IF k = n + 1 THEN new ELSE f[k]]
  <2>2. f[n] \in S /\ new \in S
    BY <2>1 DEF Worked
  <2> HIDE DEF new
  <2>3. g \in [0 .. n + 1 -> S] /\ g[0] = v
    BY <2>1, <2>2 DEF Worked
  <2>4. g[n + 1] = new /\ \A k \in 0 .. n : g[k] = f[k]
    OBVIOUS
  <2> HIDE DEF g
  <2>5. ASSUME NEW k \in 1 .. n + 1 PROVE g[k] = step[k][g[k - 1]]
    <3>1. CASE k = n + 1
      <4>1. k - 1 = n /\ n \in 0 .. n
        BY <3>1
      <4>2. QED
        BY <2>4, <3>1, <4>1 DEF new
    <3>2. CASE k # n + 1
      <4>1. k \in 1 .. n /\ k \in 0 .. n /\ k - 1 \in 0 .. n
        BY <3>2
      <4>2. QED
        BY <2>1, <2>4, <4>1 DEF Worked
    <3>3. QED
      BY <3>1, <3>2
  <2>6. Worked(n + 1, g, S, v, step)
    BY <2>3, <2>5 DEF Worked
  <2>7. QED
    BY <2>6
<1>3. N \in G
  <2> HIDE DEF G
  <2>1. 0 .. N \subseteq G
    BY <1>1, <1>2, UpTo
  <2>2. QED
    BY <2>1
<1>4. QED
  BY <1>3

(* The sum over the messages is one. *)
SumOf(f, lines, lo, hi) ==
  /\ f \in [0 .. MaxIds -> Nat] /\ f[0] = 0
  /\ \A m \in 1 .. MaxIds : f[m] = f[m - 1] + Final(lines, lo, hi, m)

LEMMA CountedIs ==
  ASSUME NEW lines, NEW lo, NEW hi, \A m \in 1 .. MaxIds : Final(lines, lo, hi, m) \in Nat
  PROVE  \E f : SumOf(f, lines, lo, hi) /\ Counted(lines, lo, hi) = f[MaxIds]
<1> DEFINE F(m) == Final(lines, lo, hi, m)
           step == [m \in 1 .. MaxIds |-> [n \in Nat |-> n + F(m)]]
           Recursion(f) == f = [m \in 0 .. MaxIds |-> IF m = 0 THEN 0 ELSE f[m - 1] + F(m)]
           sum == CHOOSE f : Recursion(f)
<1>1. MaxIds \in Nat /\ MaxIds \in 0 .. MaxIds
  BY AgentsAssumption
<1>2. \A m \in 1 .. MaxIds : F(m) \in Nat
  OBVIOUS
<1>3. Counted(lines, lo, hi) = sum[MaxIds]
  BY DEF Counted
<1> HIDE DEF F
<1>4. step \in [1 .. MaxIds -> [Nat -> Nat]]
  BY <1>2
<1>5. \A m \in 1 .. MaxIds : \A n \in Nat : step[m][n] = n + F(m)
  OBVIOUS
<1> HIDE DEF step
<1>6. PICK g : Worked(MaxIds, g, Nat, 0, step)
  <2>1. 0 \in Nat
    OBVIOUS
  <2>2. QED
    BY <1>1, <1>4, <2>1, OneFromAnother
<1>7. Recursion(g)
  <2>1. ASSUME NEW m \in 0 .. MaxIds PROVE g[m] = IF m = 0 THEN 0 ELSE g[m - 1] + F(m)
    <3>1. CASE m # 0
      <4>1. m \in 1 .. MaxIds /\ m - 1 \in 0 .. MaxIds
        BY <1>1, <3>1
      <4>2. QED
        BY <1>5, <1>6, <3>1, <4>1 DEF Worked
    <3>2. QED
      BY <1>6, <3>1 DEF Worked
  <2>2. QED
    BY <1>6, <2>1 DEF Worked
<1>8. Recursion(sum)
  <2> HIDE DEF Recursion
  <2>1. QED
    BY <1>7
<1> HIDE DEF sum
<1>9. sum[0] = 0 /\ \A m \in 1 .. MaxIds : sum[m] = sum[m - 1] + F(m)
  BY <1>1, <1>8
<1>10. \A m \in 0 .. MaxIds : sum[m] \in Nat
  <2> DEFINE G == {m \in 0 .. MaxIds : sum[m] \in Nat}
  <2>1. 0 \in G
    BY <1>1, <1>9
  <2>2. ASSUME NEW m \in 0 .. MaxIds - 1, m \in G PROVE m + 1 \in G
    <3>1. m + 1 \in 1 .. MaxIds /\ (m + 1) - 1 = m
      BY <1>1
    <3>2. QED
      BY <1>2, <1>9, <2>2, <3>1
  <2> HIDE DEF G
  <2>3. 0 .. MaxIds \subseteq G
    BY <1>1, <2>1, <2>2, UpTo
  <2>4. QED
    BY <2>3 DEF G
<1>11. SumOf(sum, lines, lo, hi)
  <2>1. DOMAIN sum = 0 .. MaxIds /\ sum = [m \in 0 .. MaxIds |-> sum[m]]
    BY <1>8
  <2>2. QED
    BY <1>9, <1>10, <2>1 DEF SumOf, F
<1>12. QED
  BY <1>3, <1>11

(* Sums that differ in one message differ by what that one does. *)
LEMMA CountedDiffers ==
  ASSUME NEW x, NEW xlo, NEW xhi, \A m \in 1 .. MaxIds : Final(x, xlo, xhi, m) \in Nat,
         NEW y, NEW ylo, NEW yhi, \A m \in 1 .. MaxIds : Final(y, ylo, yhi, m) \in Nat,
         NEW k \in 1 .. MaxIds,
         \A m \in 1 .. MaxIds : m # k => Final(x, xlo, xhi, m) = Final(y, ylo, yhi, m)
  PROVE  /\ Counted(x, xlo, xhi) \in Nat /\ Counted(y, ylo, yhi) \in Nat
         /\ Counted(x, xlo, xhi) - Counted(y, ylo, yhi) = Final(x, xlo, xhi, k) - Final(y, ylo, yhi, k)
<1> DEFINE F(m) == Final(x, xlo, xhi, m)
           H(m) == Final(y, ylo, yhi, m)
<1>1. MaxIds \in Nat /\ MaxIds \in 0 .. MaxIds
  BY AgentsAssumption
<1>2. \A m \in 1 .. MaxIds : F(m) \in Nat /\ H(m) \in Nat /\ (m # k => F(m) = H(m))
  OBVIOUS
<1>3. PICK f : SumOf(f, x, xlo, xhi) /\ Counted(x, xlo, xhi) = f[MaxIds]
  BY CountedIs
<1>4. PICK h : SumOf(h, y, ylo, yhi) /\ Counted(y, ylo, yhi) = h[MaxIds]
  BY CountedIs
<1>5. f \in [0 .. MaxIds -> Nat] /\ f[0] = 0 /\ \A m \in 1 .. MaxIds : f[m] = f[m - 1] + F(m)
  BY <1>3 DEF SumOf
<1>6. h \in [0 .. MaxIds -> Nat] /\ h[0] = 0 /\ \A m \in 1 .. MaxIds : h[m] = h[m - 1] + H(m)
  BY <1>4 DEF SumOf
<1> HIDE DEF F, H
<1> DEFINE G == {m \in 0 .. MaxIds : f[m] - h[m] = IF m < k THEN 0 ELSE F(k) - H(k)}
<1>7. 0 \in G
  BY <1>1, <1>5, <1>6
<1>8. ASSUME NEW m \in 0 .. MaxIds - 1, m \in G PROVE m + 1 \in G
  <2>1. m + 1 \in 1 .. MaxIds /\ (m + 1) - 1 = m /\ m \in 0 .. MaxIds /\ m + 1 \in 0 .. MaxIds
    BY <1>1
  <2>2. f[m + 1] = f[m] + F(m + 1) /\ h[m + 1] = h[m] + H(m + 1)
    BY <1>5, <1>6, <2>1
  <2>3. f[m] \in Nat /\ h[m] \in Nat /\ F(m + 1) \in Nat /\ H(m + 1) \in Nat
    BY <1>2, <1>5, <1>6, <2>1
  <2>4. m + 1 # k => F(m + 1) = H(m + 1)
    BY <1>2, <2>1
  <2>5. f[m] - h[m] = IF m < k THEN 0 ELSE F(k) - H(k)
    BY <1>8
  <2>6. F(k) \in Nat /\ H(k) \in Nat
    BY <1>2
  <2>7. CASE m + 1 = k
    <3>1. m < k /\ ~(m + 1 < k)
      BY <2>7
    <3>2. f[m + 1] - h[m + 1] = F(m + 1) - H(m + 1)
      BY <2>2, <2>3, <2>5, <3>1
    <3>3. QED
      BY <2>1, <2>7, <3>1, <3>2
  <2>8. CASE m + 1 # k
    <3>1. m < k <=> m + 1 < k
      BY <2>8
    <3>2. QED
      BY <2>1, <2>2, <2>3, <2>4, <2>5, <2>8, <3>1
  <2>9. QED
    BY <2>7, <2>8
<1> HIDE DEF G
<1>9. MaxIds \in G
  BY <1>1, <1>7, <1>8, UpTo
<1>10. QED
  BY <1>1, <1>3, <1>4, <1>5, <1>6, <1>9 DEF G, F, H
-----------------------------------------------------------------------------
(* The message of a session that the count runs for: Codex has one.         *)
Message(t) == IF meter = "codex" THEN (IF t.last = 0 THEN 0 ELSE 1) ELSE t.id

(* The last line with usage of lo + 1..hi is the one that was counted last. *)
LastRead(t, lines, lo, hi) ==
  /\ Message(t) # 0
  /\ \E n \in lo + 1 .. hi : /\ lines[n] = <<Message(t), t.last>>
                             /\ \A k \in n + 1 .. hi : lines[k] = NoUsage

Without(lines, lo, hi) == \A n \in lo + 1 .. hi : lines[n] = NoUsage

(* All that a transcript tells of is of later messages. *)
Below(t, lines) == \A n \in 1 .. Len(lines) : lines[n] # NoUsage => lines[n][1] > Message(t)
Fresh(s, t) == Below(t, logs[s]) /\ (Message(t) = 0 \/ Message(t) < ids[s])

(* Messages come one after another, each at growing counts. *)
Ordered(lines) ==
  \A n \in 1 .. Len(lines) : \A k \in 1 .. n :
    lines[k] # NoUsage /\ lines[n] # NoUsage =>
      /\ lines[k][1] <= lines[n][1]
      /\ lines[k][1] = lines[n][1] => lines[k][2] <= lines[n][2]

Logged(s) ==
  /\ logs[s] \in Seq(Lines) /\ Ordered(logs[s])
  /\ half[s] \in BOOLEAN
  /\ ids[s] \in 0 .. MaxIds /\ (meter = "codex" => ids[s] <= 1)
  /\ \A n \in 1 .. Len(logs[s]) : logs[s][n][1] <= ids[s]

Counters == [off : Nat, id : Nat, last : Nat, fin : Nat]

(* What a session's counters are, at a transcript as last read of which all *)
(* after the first few lines was counted.                                   *)
ReadOf(s, t, few) ==
  LET read == Len(prev[s])
  IN /\ t \in Counters /\ few \in Nat
     /\ t.off \in {2 * read, 2 * read + 1} /\ few <= read + 1
     /\ t.off = 2 * read + 1 <=> few = read + 1
     /\ Without(prev[s], few, read) \/ LastRead(t, prev[s], few, read)
     /\ Fresh(s, t) \/ (Grown(s, t) /\ LastRead(t, prev[s], few, read))

Tracked(s) ==
  /\ prev[s] \in Seq(Lines)
  /\ IF s \in DOMAIN track
     THEN /\ ReadOf(s, track[s], since[s])
          /\ anchors[s] \in Nat /\ anchors[s] <= Total(track[s])
     ELSE prev[s] = <<>>

CountInv ==
  /\ AgentsInv
  /\ logs \in [Sessions -> Seq(Lines)] /\ half \in [Sessions -> BOOLEAN] /\ ids \in [Sessions -> Nat]
  /\ DOMAIN track \subseteq Sessions /\ DOMAIN anchors = DOMAIN track
  /\ \A s \in Sessions : Logged(s) /\ Tracked(s)

-----------------------------------------------------------------------------
LEMMA LastOne ==
  ASSUME NEW hi \in Nat, NEW S, S \subseteq 1 .. hi, S # {}
  PROVE  \E n \in S : \A k \in S : k <= n
<1> SUFFICES ASSUME \A n \in S : \E k \in S : n < k
             PROVE FALSE
  OBVIOUS
<1> DEFINE G == {n \in Nat : \E k \in S : n <= k}
<1>1. 0 \in G
  <2>1. PICK k \in S : TRUE
    OBVIOUS
  <2>2. k \in 1 .. hi /\ 0 <= k
    BY <2>1
  <2>3. QED
    BY <2>2
<1>2. ASSUME NEW n \in 0 .. hi, n \in G PROVE n + 1 \in G
  <2>1. PICK k \in S : n <= k
    BY <1>2
  <2>2. PICK l \in S : k < l
    OBVIOUS
  <2>3. n + 1 <= l
    BY <2>1, <2>2
  <2>4. QED
    BY <2>3
<1> HIDE DEF G
<1>3. hi + 1 \in Nat /\ (hi + 1) - 1 = hi
  OBVIOUS
<1>4. 0 .. hi + 1 \subseteq G
  BY <1>1, <1>2, <1>3, UpTo
<1>5. hi + 1 \in G
  BY <1>4
<1>6. QED
  BY <1>5 DEF G

LEMMA FinalIs ==
  ASSUME NEW lines, NEW lo \in Nat, NEW hi \in Nat, NEW m
  PROVE  \/ (\A n \in lo + 1 .. hi : lines[n][1] # m) /\ Final(lines, lo, hi, m) = 0
         \/ \E n \in lo + 1 .. hi : /\ lines[n][1] = m /\ \A k \in n + 1 .. hi : lines[k][1] # m
                                    /\ Final(lines, lo, hi, m) = lines[n][2]
<1> DEFINE counts == {n \in lo + 1 .. hi : lines[n][1] = m}
           last == CHOOSE n \in counts : \A k \in counts : k <= n
<1>1. Final(lines, lo, hi, m) = IF counts = {} THEN 0 ELSE lines[last][2]
  BY DEF Final
<1>2. counts \subseteq 1 .. hi
  OBVIOUS
<1>3. CASE counts = {}
  BY <1>1, <1>3
<1>4. CASE counts # {}
  <2> HIDE DEF counts
  <2>1. \E n \in counts : \A k \in counts : k <= n
    BY <1>2, <1>4, LastOne
  <2>2. last \in counts /\ \A k \in counts : k <= last
    BY <2>1
  <2>3. Final(lines, lo, hi, m) = lines[last][2]
    BY <1>1, <1>4
  <2> HIDE DEF last
  <2>4. last \in lo + 1 .. hi /\ lines[last][1] = m
    BY <2>2 DEF counts
  <2>5. \A k \in last + 1 .. hi : lines[k][1] # m
    BY <2>2, <2>4 DEF counts
  <2>6. QED
    BY <2>3, <2>4, <2>5
<1>5. QED
  BY <1>3, <1>4

LEMMA LineIs ==
  ASSUME NEW line \in Lines
  PROVE  /\ line[1] \in 0 .. MaxIds /\ line[2] \in 0 .. MaxOut
         /\ line = <<line[1], line[2]>>
         /\ line # NoUsage <=> line[1] # 0
         /\ line # NoUsage <=> line[2] # 0
<1>1. MaxIds \in Nat /\ MaxOut \in Nat
  BY AgentsAssumption
<1>2. QED
  BY <1>1 DEF Lines, NoUsage

LEMMA LinesAre ==
  ASSUME NEW lines \in Seq(Lines), NEW n \in 1 .. Len(lines)
  PROVE  /\ lines[n] \in Lines
         /\ lines[n][1] \in 0 .. MaxIds /\ lines[n][2] \in 0 .. MaxOut
         /\ lines[n] = <<lines[n][1], lines[n][2]>>
         /\ lines[n] # NoUsage <=> lines[n][1] # 0
         /\ lines[n] # NoUsage <=> lines[n][2] # 0
<1>1. lines[n] \in Lines
  OBVIOUS
<1>2. QED
  BY <1>1, LineIs

LEMMA FinalNat ==
  ASSUME NEW lines \in Seq(Lines), NEW lo \in Nat, NEW hi \in Nat, hi <= Len(lines) \/ hi <= lo, NEW m
  PROVE  Final(lines, lo, hi, m) \in Nat
<1>1. \A n \in lo + 1 .. hi : n \in 1 .. Len(lines)
  OBVIOUS
<1>2. \A n \in lo + 1 .. hi : lines[n][2] \in Nat
  BY <1>1, LinesAre, AgentsAssumption
<1>3. QED
  BY <1>2, FinalIs

(* Where a message has the same lines, it has the same count. *)
LEMMA FinalSame ==
  ASSUME NEW x, NEW y, NEW lo \in Nat, NEW xhi \in Nat, NEW yhi \in Nat, NEW m,
         \A n \in lo + 1 .. xhi : x[n][1] = m => n \in lo + 1 .. yhi /\ x[n] = y[n],
         \A n \in lo + 1 .. yhi : y[n][1] = m => n \in lo + 1 .. xhi /\ x[n] = y[n]
  PROVE  Final(x, lo, xhi, m) = Final(y, lo, yhi, m)
<1>1. \/ (\A n \in lo + 1 .. xhi : x[n][1] # m) /\ Final(x, lo, xhi, m) = 0
      \/ \E n \in lo + 1 .. xhi : /\ x[n][1] = m /\ \A k \in n + 1 .. xhi : x[k][1] # m
                                  /\ Final(x, lo, xhi, m) = x[n][2]
  BY FinalIs
<1>2. \/ (\A n \in lo + 1 .. yhi : y[n][1] # m) /\ Final(y, lo, yhi, m) = 0
      \/ \E n \in lo + 1 .. yhi : /\ y[n][1] = m /\ \A k \in n + 1 .. yhi : y[k][1] # m
                                  /\ Final(y, lo, yhi, m) = y[n][2]
  BY FinalIs
<1>3. CASE \A n \in lo + 1 .. xhi : x[n][1] # m
  <2>1. \A n \in lo + 1 .. yhi : y[n][1] # m
    BY <1>3
  <2>2. QED
    BY <1>1, <1>2, <1>3, <2>1
<1>4. CASE \E n \in lo + 1 .. xhi : x[n][1] = m
  <2>1. \E n \in lo + 1 .. yhi : y[n][1] = m
    BY <1>4
  <2>2. PICK n \in lo + 1 .. xhi : /\ x[n][1] = m /\ \A k \in n + 1 .. xhi : x[k][1] # m
                                  /\ Final(x, lo, xhi, m) = x[n][2]
    BY <1>1, <1>4
  <2>3. PICK l \in lo + 1 .. yhi : /\ y[l][1] = m /\ \A k \in l + 1 .. yhi : y[k][1] # m
                                  /\ Final(y, lo, yhi, m) = y[l][2]
    BY <1>2, <2>1
  <2>4. l \in lo + 1 .. xhi /\ x[l][1] = m /\ x[l] = y[l]
    BY <2>3
  <2>5. n \in lo + 1 .. yhi /\ y[n][1] = m
    BY <2>2
  <2>6. ~(n < l) /\ ~(l < n)
    BY <2>2, <2>3, <2>4, <2>5
  <2>7. n = l
    BY <2>6
  <2>8. QED
    BY <2>2, <2>3, <2>4, <2>7
<1>5. QED
  BY <1>3, <1>4

(* Stretches with the same lines, or without any, count the same. *)
LEMMA SameCount ==
  ASSUME NEW x \in Seq(Lines), NEW y \in Seq(Lines), NEW lo \in Nat, NEW xhi \in Nat, NEW yhi \in Nat,
         \/ xhi <= lo /\ yhi <= lo
         \/ xhi = yhi /\ xhi <= Len(x) /\ xhi <= Len(y) /\ \A n \in 1 .. xhi : x[n] = y[n]
  PROVE  Counted(x, lo, xhi) \in Nat /\ Counted(x, lo, xhi) = Counted(y, lo, yhi)
<1>1. \A m \in 1 .. MaxIds : Final(x, lo, xhi, m) \in Nat /\ Final(y, lo, yhi, m) \in Nat
  BY FinalNat
<1>2. ASSUME NEW m \in 1 .. MaxIds PROVE Final(x, lo, xhi, m) = Final(y, lo, yhi, m)
  <2>1. CASE xhi <= lo /\ yhi <= lo
    <3>1. Final(x, lo, xhi, m) = 0
      BY <2>1, FinalIs
    <3>2. Final(y, lo, yhi, m) = 0
      BY <2>1, FinalIs
    <3>3. QED
      BY <3>1, <3>2
  <2>2. CASE xhi = yhi /\ \A n \in 1 .. xhi : x[n] = y[n]
    <3>1. \A n \in lo + 1 .. xhi : n \in 1 .. xhi /\ x[n] = y[n]
      BY <2>2
    <3>2. QED
      BY <2>2, <3>1, FinalSame
  <2>3. QED
    BY <2>1, <2>2
<1>3. 1 \in 1 .. MaxIds
  BY AgentsAssumption
<1>4. QED
  <2>1. /\ Counted(x, lo, xhi) \in Nat /\ Counted(y, lo, yhi) \in Nat
        /\ Counted(x, lo, xhi) - Counted(y, lo, yhi) = Final(x, lo, xhi, 1) - Final(y, lo, yhi, 1)
    BY <1>1, <1>2, <1>3, CountedDiffers
  <2>2. QED
    BY <1>1, <1>2, <1>3, <2>1

(* One line more: its message has its count, the others have what they had. *)
LEMMA OneMore ==
  ASSUME NEW lines \in Seq(Lines), NEW lo \in Nat, NEW h \in Nat, h + 1 <= Len(lines), lo <= h
  PROVE  LET m == lines[h + 1][1]
         IN /\ Counted(lines, lo, h) \in Nat /\ Counted(lines, lo, h + 1) \in Nat
            /\ Counted(lines, lo, h + 1) - Counted(lines, lo, h) =
                 IF m = 0 THEN 0 ELSE lines[h + 1][2] - Final(lines, lo, h, m)
<1> DEFINE m == lines[h + 1][1]
<1>1. h + 1 \in 1 .. Len(lines) /\ h + 1 \in lo + 1 .. h + 1 /\ lo + 1 .. h \subseteq lo + 1 .. h + 1
        /\ \A n \in lo + 1 .. h + 1 : n # h + 1 => n \in lo + 1 .. h
  OBVIOUS
<1>2. m \in 0 .. MaxIds /\ MaxIds \in Nat \ {0}
  BY <1>1, LinesAre, AgentsAssumption
<1>3. \A k \in 1 .. MaxIds : Final(lines, lo, h, k) \in Nat /\ Final(lines, lo, h + 1, k) \in Nat
  BY FinalNat
<1>4. ASSUME NEW k \in 1 .. MaxIds, k # m
      PROVE  Final(lines, lo, h + 1, k) = Final(lines, lo, h, k)
  <2>1. \A n \in lo + 1 .. h + 1 : lines[n][1] = k => n \in lo + 1 .. h
    BY <1>1, <1>4
  <2>2. QED
    BY <1>1, <2>1, FinalSame
<1>5. m # 0 => Final(lines, lo, h + 1, m) = lines[h + 1][2]
  <2>1. \/ (\A n \in lo + 1 .. h + 1 : lines[n][1] # m) /\ Final(lines, lo, h + 1, m) = 0
        \/ \E n \in lo + 1 .. h + 1 : /\ lines[n][1] = m /\ \A k \in n + 1 .. h + 1 : lines[k][1] # m
                                      /\ Final(lines, lo, h + 1, m) = lines[n][2]
    <3>1. h + 1 \in Nat
      OBVIOUS
    <3> HIDE DEF m
    <3>2. QED
      BY <3>1, FinalIs
  <2>2. PICK n \in lo + 1 .. h + 1 : /\ \A k \in n + 1 .. h + 1 : lines[k][1] # m
                                     /\ Final(lines, lo, h + 1, m) = lines[n][2]
    BY <1>1, <2>1
  <2>3. n = h + 1
    <3>1. n # h + 1 => h + 1 \in n + 1 .. h + 1
      BY <1>1
    <3>2. QED
      BY <2>2, <3>1
  <2>4. QED
    BY <2>2, <2>3
<1> HIDE DEF m
<1> DEFINE k == IF m = 0 THEN 1 ELSE m
<1>6. k \in 1 .. MaxIds /\ (m # 0 => k = m)
  BY <1>2
<1>7. \A j \in 1 .. MaxIds : j # k => Final(lines, lo, h + 1, j) = Final(lines, lo, h, j)
  BY <1>4
<1>8. m = 0 => Final(lines, lo, h + 1, k) = Final(lines, lo, h, k)
  BY <1>4, <1>6
<1> HIDE DEF k
<1>9. /\ Counted(lines, lo, h + 1) \in Nat /\ Counted(lines, lo, h) \in Nat
      /\ Counted(lines, lo, h + 1) - Counted(lines, lo, h) =
           Final(lines, lo, h + 1, k) - Final(lines, lo, h, k)
  BY <1>3, <1>6, <1>7, CountedDiffers
<1>10. QED
  BY <1>3, <1>5, <1>6, <1>8, <1>9 DEF m
-----------------------------------------------------------------------------
(* Reading on from h to k adds what the lines in between do, and whatever   *)
(* is read, the last line with usage is what was counted last.              *)
Single(lines) == meter = "codex" => \A n \in 1 .. Len(lines) : lines[n][1] <= 1

ReadTo(t, lines, lo, h) == (Below(t, lines) /\ Without(lines, lo, h)) \/ LastRead(t, lines, lo, h)

Gained(t, u, lines, lo, h, k) ==
  /\ u \in Counters /\ u.off = t.off /\ Total(u) >= Total(t)
  /\ Counted(lines, lo, h) \in Nat /\ Counted(lines, lo, k) \in Nat
  /\ Total(u) - Total(t) = Counted(lines, lo, k) - Counted(lines, lo, h)
  /\ (u = t /\ Without(lines, lo, k)) \/ LastRead(u, lines, lo, k)

LEMMA PushedLine ==
  ASSUME NEW lines \in Seq(Lines), Ordered(lines), Single(lines), NEW t \in Counters,
         NEW lo \in Nat, NEW h \in Nat, lo <= h, h + 1 <= Len(lines), ReadTo(t, lines, lo, h)
  PROVE  Gained(t, PushLine(t, lines[h + 1]), lines, lo, h, h + 1)
<1> DEFINE line == lines[h + 1]
           u == PushLine(t, line)
           m == line[1]
           out == line[2]
           before == Final(lines, lo, h, m)
<1>1. h + 1 \in 1 .. Len(lines) /\ \A n \in lo + 1 .. h : n \in 1 .. Len(lines) /\ n \in 1 .. h + 1
  OBVIOUS
<1>2. /\ m \in Nat /\ out \in Nat /\ line = <<m, out>>
      /\ line # NoUsage <=> m # 0
      /\ line # NoUsage <=> out # 0
  BY <1>1, LinesAre, AgentsAssumption
<1>3. /\ Counted(lines, lo, h) \in Nat /\ Counted(lines, lo, h + 1) \in Nat
      /\ Counted(lines, lo, h + 1) - Counted(lines, lo, h) = IF m = 0 THEN 0 ELSE out - before
  BY OneMore
<1>4. \A n \in lo + 1 .. h + 1 : n = h + 1 \/ n \in lo + 1 .. h
  OBVIOUS
<1>5. t = [off |-> t.off, id |-> t.id, last |-> t.last, fin |-> t.fin]
        /\ t.off \in Nat /\ t.id \in Nat /\ t.last \in Nat /\ t.fin \in Nat
  BY DEF Counters
<1>6. \A n \in lo + 1 .. h : lines[n][1] \in Nat /\ (lines[n] = NoUsage <=> lines[n][1] = 0)
  BY <1>1, LinesAre
<1>7. CASE line = NoUsage
  <2>1. u = t /\ Total(t) \in Nat
    BY <1>5, <1>7 DEF PushLine, Total
  <2>2. Without(lines, lo, h) => Without(lines, lo, h + 1)
    BY <1>4, <1>7 DEF Without
  <2>3. LastRead(t, lines, lo, h) => LastRead(t, lines, lo, h + 1)
    <3>1. ASSUME Message(t) # 0, NEW n \in lo + 1 .. h, lines[n] = <<Message(t), t.last>>,
                 \A k \in n + 1 .. h : lines[k] = NoUsage
          PROVE  LastRead(t, lines, lo, h + 1)
      <4>1. n \in lo + 1 .. h + 1 /\ \A k \in n + 1 .. h + 1 : k = h + 1 \/ k \in n + 1 .. h
        OBVIOUS
      <4>2. \A k \in n + 1 .. h + 1 : lines[k] = NoUsage
        BY <1>7, <3>1, <4>1
      <4>3. QED
        BY <3>1, <4>1, <4>2 DEF LastRead
    <3>2. QED
      BY <3>1 DEF LastRead
  <2>4. Counted(lines, lo, h + 1) - Counted(lines, lo, h) = 0
    BY <1>2, <1>3, <1>7
  <2>5. QED
    BY <1>3, <2>1, <2>2, <2>3, <2>4 DEF ReadTo, Gained
<1>8. CASE line # NoUsage
  <2>1. m # 0 /\ out # 0 /\ (meter = "codex" => m = 1)
    BY <1>1, <1>2, <1>8 DEF Single
  <2>2. u = IF meter = "codex" \/ m = t.id
            THEN [off |-> t.off, id |-> t.id, last |-> out, fin |-> t.fin]
            ELSE [off |-> t.off, id |-> m, last |-> out, fin |-> t.fin + t.last]
    BY <1>5, <1>8 DEF PushLine
  <2>3. u \in Counters /\ u.off = t.off /\ u.last = out /\ Message(u) = m
    BY <1>2, <1>5, <2>1, <2>2 DEF Counters, Message
  <2>4. LastRead(u, lines, lo, h + 1)
    <3>1. h + 1 \in lo + 1 .. h + 1 /\ h + 1 + 1 .. h + 1 = {}
      OBVIOUS
    <3>2. lines[h + 1] = <<Message(u), u.last>>
      BY <1>2, <2>3
    <3> HIDE DEF u, m
    <3>3. QED
      BY <2>1, <2>3, <3>1, <3>2 DEF LastRead
  <2>5. /\ meter = "codex" \/ m = t.id => Total(u) - Total(t) = out - t.last
        /\ ~(meter = "codex" \/ m = t.id) => Total(u) - Total(t) = out
        /\ Total(u) \in Nat /\ Total(t) \in Nat
    <3>1. CASE meter = "codex" \/ m = t.id
      <4>1. u.last = out /\ u.fin = t.fin
        BY <2>2, <3>1
      <4>2. QED
        BY <1>2, <1>5, <3>1, <4>1 DEF Total
    <3>2. CASE ~(meter = "codex" \/ m = t.id)
      <4>1. u.last = out /\ u.fin = t.fin + t.last
        BY <2>2, <3>2
      <4>2. QED
        BY <1>2, <1>5, <3>2, <4>1 DEF Total
    <3>3. QED
      BY <3>1, <3>2
  <2>6. Message(t) \in Nat
    BY <1>5 DEF Message
  <2>7. Total(u) - Total(t) = out - before /\ Total(u) >= Total(t)
    <3> HIDE DEF u, m, out, line
    <3>1. CASE Below(t, lines) /\ Without(lines, lo, h)
      <4>1. before = 0
        <5>1. \A n \in lo + 1 .. h : lines[n][1] # m
          BY <1>6, <2>1, <3>1 DEF Without
        <5>2. QED
          BY <5>1, FinalIs
      <4>2. Message(t) < m
        BY <1>1, <1>8, <3>1 DEF Below, m, line
      <4>3. meter = "codex" => t.last = 0
        BY <1>5, <2>1, <4>2 DEF Message
      <4>4. meter # "codex" => m # t.id
        BY <1>2, <1>5, <2>6, <4>2 DEF Message
      <4>5. QED
        BY <1>2, <1>5, <2>5, <4>1, <4>3, <4>4
    <3>2. CASE LastRead(t, lines, lo, h)
      <4>1. PICK n \in lo + 1 .. h : /\ lines[n] = <<Message(t), t.last>>
                                     /\ \A k \in n + 1 .. h : lines[k] = NoUsage
        BY <3>2 DEF LastRead
      <4>2. lines[n][1] = Message(t) /\ lines[n][2] = t.last /\ Message(t) # 0 /\ lines[n] # NoUsage
        BY <1>6, <3>2, <4>1 DEF LastRead
      <4>3. Message(t) <= m /\ (Message(t) = m => t.last <= out)
        BY <1>1, <1>8, <4>2 DEF Ordered, m, out, line
      <4>4. \A k \in lo + 1 .. h : k \in n + 1 .. h \/ k \in 1 .. n
        OBVIOUS
      <4>5. CASE Message(t) = m
        <5>1. before = t.last
          <6>1. \/ (\A k \in lo + 1 .. h : lines[k][1] # m) /\ before = 0
                \/ \E k \in lo + 1 .. h : /\ lines[k][1] = m /\ \A l \in k + 1 .. h : lines[l][1] # m
                                          /\ before = lines[k][2]
            BY FinalIs
          <6>2. PICK k \in lo + 1 .. h : /\ lines[k][1] = m /\ \A l \in k + 1 .. h : lines[l][1] # m
                                         /\ before = lines[k][2]
            BY <4>2, <4>5, <6>1
          <6>3. k \notin n + 1 .. h
            BY <1>6, <2>1, <4>1, <6>2
          <6>4. n \notin k + 1 .. h
            BY <4>2, <4>5, <6>2
          <6>5. n = k
            BY <6>3, <6>4
          <6>6. QED
            BY <4>2, <6>2, <6>5
        <5>2. meter = "codex" \/ m = t.id
          BY <4>5 DEF Message
        <5>3. QED
          BY <1>2, <1>5, <2>5, <4>3, <4>5, <5>1, <5>2
      <4>6. CASE Message(t) # m
        <5>1. meter # "codex" /\ m # t.id
          BY <2>1, <4>2, <4>6 DEF Message
        <5>2. ASSUME NEW k \in lo + 1 .. h PROVE lines[k][1] # m
          <6>1. CASE k \in n + 1 .. h
            BY <1>6, <2>1, <4>1, <6>1
          <6>2. CASE k \in 1 .. n
            <7>1. lines[k] # NoUsage => lines[k][1] <= Message(t)
              BY <1>1, <4>2, <6>2 DEF Ordered
            <7>2. lines[k] = NoUsage => lines[k][1] = 0
              BY <1>6
            <7>3. QED
              BY <1>2, <1>6, <2>1, <2>6, <4>3, <4>6, <7>1, <7>2
          <6>3. QED
            BY <4>4, <6>1, <6>2
        <5>3. before = 0
          BY <5>2, FinalIs
        <5>4. QED
          BY <1>2, <2>5, <5>1, <5>3
      <4>7. QED
        BY <4>5, <4>6
    <3>3. QED
      BY <3>1, <3>2 DEF ReadTo
  <2> HIDE DEF u, m, out, line, before
  <2>8. Total(u) - Total(t) = Counted(lines, lo, h + 1) - Counted(lines, lo, h)
    BY <1>3, <2>1, <2>7
  <2>9. QED
    BY <1>3, <2>3, <2>4, <2>7, <2>8 DEF Gained, u, line
<1>9. QED
  BY <1>7, <1>8

LEMMA NotWithout ==
  ASSUME NEW t, NEW lines, NEW lo \in Nat, NEW h \in Nat, NEW k \in Nat, h <= k, LastRead(t, lines, lo, h)
  PROVE  ~Without(lines, lo, k)
<1>1. PICK n \in lo + 1 .. h : lines[n] = <<Message(t), t.last>> /\ Message(t) # 0
  BY DEF LastRead
<1>2. n \in lo + 1 .. k /\ lines[n] # NoUsage
  BY <1>1 DEF NoUsage
<1>3. QED
  BY <1>2 DEF Without

LEMMA TotalNat == ASSUME NEW t \in Counters PROVE Total(t) \in Nat
BY DEF Counters, Total

LEMMA PushLineIs ==
  ASSUME NEW lines \in Seq(Lines), NEW n \in 1 .. Len(lines), NEW t \in Counters
  PROVE  PushLine(t, lines[n]) \in Counters
<1> DEFINE line == lines[n]
<1>1. line[1] \in Nat /\ line[2] \in Nat
  BY LinesAre, AgentsAssumption
<1> HIDE DEF line
<1>2. PushLine(t, line) \in Counters
  BY <1>1 DEF PushLine, Counters
<1>3. QED
  BY <1>2 DEF line

LEMMA PushedIs ==
  ASSUME NEW lines \in Seq(Lines), Ordered(lines), Single(lines), NEW t \in Counters,
         NEW lo \in Nat, NEW few \in Nat, lo <= few, lo = few \/ few <= Len(lines),
         ReadTo(t, lines, lo, few)
  PROVE  Gained(t, Pushed(t, lines, few), lines, lo, few, Len(lines))
<1> DEFINE N == Len(lines)
           step == [n \in 1 .. N |-> [x \in Counters |-> IF n <= few THEN t ELSE PushLine(x, lines[n])]]
           Recursion(f) == f = [n \in 0 .. N |-> IF n <= few THEN t ELSE PushLine(f[n - 1], lines[n])]
           read == CHOOSE f : Recursion(f)
<1>1. N \in Nat /\ 0 <= few
  OBVIOUS
<1>2. Pushed(t, lines, few) = read[N]
  BY DEF Pushed
<1>3. step \in [1 .. N -> [Counters -> Counters]]
  BY PushLineIs
<1>4. \A n \in 1 .. N : \A x \in Counters : step[n][x] = IF n <= few THEN t ELSE PushLine(x, lines[n])
  OBVIOUS
<1> HIDE DEF N, step
<1>5. PICK g : Worked(N, g, Counters, t, step)
  BY <1>1, <1>3, OneFromAnother
<1>6. Recursion(g)
  <2>1. ASSUME NEW n \in 0 .. N PROVE g[n] = IF n <= few THEN t ELSE PushLine(g[n - 1], lines[n])
    <3>1. CASE n # 0
      <4>1. n \in 1 .. N /\ n - 1 \in 0 .. N
        BY <1>1, <3>1
      <4>2. g[n] = step[n][g[n - 1]] /\ g[n - 1] \in Counters
        BY <1>5, <4>1 DEF Worked
      <4>3. QED
        BY <1>4, <4>1, <4>2
    <3>2. QED
      BY <1>1, <1>5, <3>1 DEF Worked
  <2>2. QED
    BY <1>5, <2>1 DEF Worked
<1>7. Recursion(read)
  <2> HIDE DEF Recursion
  <2>1. QED
    BY <1>6
<1> HIDE DEF read
<1>8. \A n \in 0 .. N : read[n] = IF n <= few THEN t ELSE PushLine(read[n - 1], lines[n])
  BY <1>7
<1> HIDE DEF Recursion
<1>9. t.off \in Nat /\ Total(t) \in Nat
  BY DEF Counters, Total
<1>10. CASE few >= N
  <2>1. read[N] = t
    BY <1>1, <1>8, <1>10
  <2>2. \/ few <= lo /\ N <= lo
        \/ few = N
    BY <1>1, <1>10 DEF N
  <2>3. Counted(lines, lo, few) \in Nat /\ Counted(lines, lo, few) = Counted(lines, lo, N)
    BY <1>1, <2>2, SameCount DEF N
  <2>4. (Without(lines, lo, few) => Without(lines, lo, N)) /\ (few <= lo => Without(lines, lo, N))
    <3>1. \A n \in lo + 1 .. N : n \in lo + 1 .. few
      BY <1>1, <1>10
    <3>2. few <= lo => lo + 1 .. N = {}
      BY <1>1, <1>10
    <3>3. QED
      BY <3>1, <3>2 DEF Without
  <2>5. (t = t /\ Without(lines, lo, N)) \/ LastRead(t, lines, lo, N)
    <3>1. CASE few = N
      BY <2>4, <3>1 DEF ReadTo
    <3>2. CASE few <= lo
      BY <2>4, <3>2
    <3>3. QED
      BY <2>2, <3>1, <3>2
  <2>6. QED
    BY <1>2, <1>9, <2>1, <2>3, <2>5 DEF Gained, N
<1>11. CASE few < N
  <2> DEFINE G == {n \in 0 .. N : /\ n <= few => read[n] = t
                                  /\ n >= few => Gained(t, read[n], lines, lo, few, n)}
  <2>1. ASSUME NEW n \in 0 .. N, n = few PROVE Gained(t, read[n], lines, lo, few, n)
    <3>1. read[n] = t
      BY <1>8, <2>1
    <3>2. Counted(lines, lo, few) \in Nat
      BY <1>11, SameCount DEF N
    <3>3. QED
      BY <1>9, <2>1, <3>1, <3>2 DEF Gained, ReadTo
  <2>2. 0 \in G
    BY <1>1, <1>8, <2>1
  <2>3. ASSUME NEW n \in 0 .. N - 1, n \in G PROVE n + 1 \in G
    <3>1. n + 1 \in 0 .. N /\ (n + 1) - 1 = n /\ n \in 0 .. N /\ n \in Nat /\ n + 1 <= Len(lines)
      BY <1>1 DEF N
    <3>2. CASE n + 1 <= few
      <4>1. read[n + 1] = t
        BY <1>8, <3>1, <3>2
      <4>2. n + 1 >= few => n + 1 = few
        BY <3>2
      <4>3. QED
        BY <2>1, <3>1, <4>1, <4>2
    <3>3. CASE n >= few
      <4> DEFINE u == read[n]
                 w == PushLine(u, lines[n + 1])
      <4>1. Gained(t, u, lines, lo, few, n)
        BY <2>3, <3>3
      <4>2. read[n + 1] = w
        BY <1>8, <3>1, <3>3
      <4> HIDE DEF u, w, G
      <4>3. u \in Counters /\ lo <= n
        BY <3>1, <3>3, <4>1 DEF Gained
      <4>4. ReadTo(u, lines, lo, n)
        <5>1. CASE u = t /\ Without(lines, lo, n)
          <6>1. ~LastRead(t, lines, lo, few)
            BY <3>1, <3>3, <5>1, NotWithout
          <6>2. QED
            BY <5>1, <6>1 DEF ReadTo
        <5>2. QED
          BY <4>1, <5>1 DEF Gained, ReadTo
      <4>5. Gained(u, w, lines, lo, n, n + 1)
        BY <3>1, <4>3, <4>4, PushedLine DEF w
      <4>6. (w = t /\ Without(lines, lo, n + 1)) \/ LastRead(w, lines, lo, n + 1)
        <5>1. CASE w = u /\ Without(lines, lo, n + 1)
          <6>1. ~LastRead(u, lines, lo, n)
            BY <3>1, <5>1, NotWithout
          <6>2. QED
            BY <4>1, <5>1, <6>1 DEF Gained
        <5>2. QED
          BY <4>5, <5>1 DEF Gained
      <4>7. Total(u) \in Nat /\ Total(w) \in Nat
        BY <4>3, <4>5, TotalNat DEF Gained
      <4>8. Gained(t, w, lines, lo, few, n + 1)
        BY <1>9, <4>1, <4>5, <4>6, <4>7 DEF Gained
      <4>9. ~(n + 1 <= few)
        BY <3>1, <3>3
      <4>10. QED
        BY <3>1, <4>2, <4>8, <4>9 DEF G
    <3>4. QED
      BY <3>1, <3>2, <3>3
  <2> HIDE DEF G
  <2>4. N \in G
    <3>1. 0 .. N \subseteq G
      BY <1>1, <2>2, <2>3, UpTo
    <3>2. QED
      BY <1>1, <3>1
  <2>5. QED
    BY <1>2, <1>11, <2>4 DEF G, N
<1>12. QED
  BY <1>1, <1>10, <1>11
-----------------------------------------------------------------------------
LEMMA PassedIs ==
  ASSUME NEW o \in Nat
  PROVE  /\ Passed(o) \in Nat /\ 2 * Passed(o) \in {o, o + 1}
         /\ \A k \in Nat : (o = 2 * k => Passed(o) = k) /\ (o = 2 * k + 1 => Passed(o) = k + 1)
BY DEF Passed

LEMMA FileLenIs ==
  ASSUME NEW s \in Sessions, Logged(s)
  PROVE  FileLen(s) \in Nat /\ FileLen(s) \in {2 * Len(logs[s]), 2 * Len(logs[s]) + 1}
<1> DEFINE len == Len(logs[s])
<1>1. len \in Nat
  BY DEF Logged
<1>2. FileLen(s) = 2 * len + IF half[s] THEN 1 ELSE 0
  BY DEF FileLen
<1> HIDE DEF len
<1>3. FileLen(s) \in Nat /\ FileLen(s) \in {2 * len, 2 * len + 1}
  BY <1>1, <1>2
<1>4. QED
  BY <1>3 DEF len

(* Where a scan begins to read, and from where its lines are counted.       *)
Begins(s, t, lo) ==
  LET few == Passed(Offset(s, t))
      len == Len(logs[s])
  IN /\ t \in Counters /\ lo \in Nat /\ lo <= few /\ (lo = few \/ few <= len)
     /\ lo = len + 1 <=> Offset(s, t) = 2 * len + 1
     /\ (Fresh(s, t) /\ Without(logs[s], lo, few)) \/ LastRead(t, logs[s], lo, few)

LEMMA OffsetIs ==
  ASSUME NEW s \in Sessions, Logged(s), NEW t \in Counters
  PROVE  /\ Offset(s, t) \in Nat /\ Offset(s, t) <= FileLen(s)
         /\ Offset(s, t) <= 2 * Len(logs[s]) + 1
         /\ FileLen(s) >= t.off => Offset(s, t) = t.off
<1>1. t.off \in Nat
  BY DEF Counters
<1>2. Len(logs[s]) \in Nat
  BY DEF Logged
<1>3. QED
  BY <1>1, <1>2, FileLenIs DEF Offset

LEMMA ReadNewLinesIs ==
  ASSUME NEW s \in Sessions, Logged(s), NEW t, NEW lo, Begins(s, t, lo)
  PROVE  LET len == Len(logs[s])
             few == Passed(Offset(s, t))
             new == ReadNewLines(s, t)
         IN /\ new \in Counters /\ Total(new) >= Total(t)
            /\ Counted(logs[s], lo, few) \in Nat /\ Counted(logs[s], lo, len) \in Nat
            /\ Total(new) - Total(t) = Counted(logs[s], lo, len) - Counted(logs[s], lo, few)
            /\ new.off \in {2 * len, 2 * len + 1} /\ lo <= len + 1 /\ new.off <= FileLen(s)
            /\ new.off = 2 * len + 1 <=> lo = len + 1
            /\ (Fresh(s, new) /\ Without(logs[s], lo, len)) \/ LastRead(new, logs[s], lo, len)
<1> DEFINE len == Len(logs[s])
           o == Offset(s, t)
           few == Passed(o)
           read == Pushed(t, logs[s], few)
           off == IF 2 * len > o THEN 2 * len ELSE o
           new == ReadNewLines(s, t)
<1>1. t \in Counters /\ lo \in Nat /\ lo <= few /\ (lo = few \/ few <= len)
        /\ (lo = len + 1 <=> o = 2 * len + 1)
        /\ ((Fresh(s, t) /\ Without(logs[s], lo, few)) \/ LastRead(t, logs[s], lo, few))
  BY DEF Begins
<1>2. logs[s] \in Seq(Lines) /\ Ordered(logs[s]) /\ len \in Nat
  BY DEF Logged
<1>3. Single(logs[s])
  <2>1. \A n \in 1 .. len : logs[s][n][1] \in Nat /\ logs[s][n][1] <= ids[s]
    BY <1>2, LinesAre, AgentsAssumption DEF Logged
  <2>2. ids[s] \in Nat /\ (meter = "codex" => ids[s] <= 1)
    BY AgentsAssumption DEF Logged
  <2>3. QED
    BY <2>1, <2>2 DEF Single
<1>4. o \in Nat /\ o <= 2 * len + 1 /\ o <= FileLen(s)
  BY <1>1, OffsetIs
<1>5. few \in Nat /\ 2 * few \in {o, o + 1}
  BY <1>4, PassedIs
<1>6. ReadTo(t, logs[s], lo, few)
  BY <1>1 DEF ReadTo, Fresh
<1>7. new = [read EXCEPT !.off = off]
  BY DEF ReadNewLines
<1>8. FileLen(s) >= 2 * len
  BY <1>2, FileLenIs
<1> HIDE DEF len, o, few, new
<1>9. Gained(t, read, logs[s], lo, few, len)
  BY <1>1, <1>2, <1>3, <1>5, <1>6, PushedIs DEF len
<1> HIDE DEF read
<1>10. read \in Counters /\ off \in Nat /\ off \in {2 * len, 2 * len + 1} /\ off <= FileLen(s)
         /\ (off = 2 * len + 1 <=> o = 2 * len + 1)
  BY <1>2, <1>4, <1>8, <1>9 DEF Gained
<1> HIDE DEF off
<1>11. /\ new \in Counters /\ new.off = off
       /\ new.id = read.id /\ new.last = read.last /\ new.fin = read.fin
  BY <1>7, <1>10 DEF Counters
<1>12. Message(new) = Message(read) /\ Total(new) = Total(read)
  BY <1>11 DEF Message, Total
<1>13. lo <= len + 1
  BY <1>1, <1>2, <1>4, <1>5
<1>14. CASE LastRead(read, logs[s], lo, len)
  <2>1. LastRead(new, logs[s], lo, len)
    BY <1>11, <1>12, <1>14 DEF LastRead
  <2>2. QED
    BY <1>1, <1>9, <1>10, <1>11, <1>12, <1>13, <2>1 DEF Gained, len, few, o, new
<1>15. CASE read = t /\ Without(logs[s], lo, len)
  <2>1. ~LastRead(t, logs[s], lo, few)
    <3>1. CASE few <= len
      BY <1>1, <1>2, <1>5, <1>15, <3>1, NotWithout
    <3>2. CASE lo = few
      <4>1. lo + 1 .. few = {}
        BY <1>1, <3>2
      <4>2. QED
        BY <4>1 DEF LastRead
    <3>3. QED
      BY <1>1, <3>1, <3>2
  <2>2. Fresh(s, new)
    BY <1>1, <1>12, <1>15, <2>1 DEF Fresh, Below
  <2>3. QED
    BY <1>1, <1>9, <1>10, <1>11, <1>12, <1>13, <1>15, <2>2 DEF Gained, len, few, o, new
<1>16. QED
  BY <1>9, <1>14, <1>15 DEF Gained
-----------------------------------------------------------------------------
LEMMA PrefixIs ==
  ASSUME NEW x \in Seq(Lines), NEW y \in Seq(Lines)
  PROVE  IsPrefix(x, y) <=> Len(x) <= Len(y) /\ \A n \in 1 .. Len(x) : x[n] = y[n]
<1>1. ASSUME Len(x) <= Len(y)
      PROVE  /\ SubSeq(x, 1, Len(x)) \in Seq(Lines) /\ Len(SubSeq(x, 1, Len(x))) = Len(x)
             /\ SubSeq(y, 1, Len(x)) \in Seq(Lines) /\ Len(SubSeq(y, 1, Len(x))) = Len(x)
             /\ \A n \in 1 .. Len(x) : SubSeq(x, 1, Len(x))[n] = x[n] /\ SubSeq(y, 1, Len(x))[n] = y[n]
  BY <1>1
<1>2. IsPrefix(x, y) <=> Len(x) <= Len(y) /\ SubSeq(x, 1, Len(x)) = SubSeq(y, 1, Len(x))
  BY DEF IsPrefix
<1>3. ASSUME Len(x) <= Len(y)
      PROVE  SubSeq(x, 1, Len(x)) = SubSeq(y, 1, Len(x)) <=> \A n \in 1 .. Len(x) : x[n] = y[n]
  <2> DEFINE u == SubSeq(x, 1, Len(x))
             v == SubSeq(y, 1, Len(x))
  <2>1. u \in Seq(Lines) /\ v \in Seq(Lines) /\ Len(u) = Len(x) /\ Len(v) = Len(x)
          /\ \A n \in 1 .. Len(x) : u[n] = x[n] /\ v[n] = y[n]
    BY <1>1, <1>3
  <2> HIDE DEF u, v
  <2>2. (\A n \in 1 .. Len(x) : u[n] = v[n]) => u = v
    BY <2>1
  <2>3. u = v <=> \A n \in 1 .. Len(x) : x[n] = y[n]
    BY <2>1, <2>2
  <2>4. QED
    BY <2>3 DEF u, v
<1>4. QED
  BY <1>2, <1>3

(* A line is appended: the session's own, of its last message or a new one. *)
LEMMA LineKeeps ==
  ASSUME NEW s \in Sessions, Logged(s), Tracked(s), UNCHANGED <<meter, meterState>>,
         NEW line \in Lines, logs'[s] = Append(logs[s], line), half[s], half'[s] = FALSE,
         ids'[s] \in ids[s] .. MaxIds, meter = "codex" => ids'[s] <= 1,
         line # NoUsage => /\ line[1] = ids'[s]
                           /\ \A n \in 1 .. Len(logs[s]) : logs[s][n][1] = line[1] => logs[s][n][2] <= line[2]
  PROVE  Logged(s)' /\ Tracked(s)'
<1> DEFINE old == logs[s]
           new == logs'[s]
<1>1. old \in Seq(Lines) /\ new \in Seq(Lines) /\ Len(new) = Len(old) + 1 /\ new[Len(old) + 1] = line
        /\ \A n \in 1 .. Len(old) : new[n] = old[n]
  BY DEF Logged
<1>2. /\ line[1] \in Nat /\ (line # NoUsage <=> line[1] # 0)
      /\ ids[s] \in 0 .. MaxIds /\ ids'[s] \in 0 .. MaxIds /\ ids[s] <= ids'[s] /\ MaxIds \in Nat
  <2>1. ids[s] \in 0 .. MaxIds /\ MaxIds \in Nat
    BY AgentsAssumption DEF Logged
  <2>2. line[1] \in Nat /\ (line # NoUsage <=> line[1] # 0)
    BY <2>1, LineIs
  <2>3. QED
    BY <2>1, <2>2
<1>3. \A n \in 1 .. Len(new) : n \in 1 .. Len(old) \/ (n = Len(old) + 1 /\ new[n] = line)
  BY <1>1
<1>4. \A n \in 1 .. Len(old) : old[n][1] <= ids[s] /\ old[n][1] \in Nat
  BY <1>1, <1>2, LinesAre DEF Logged
<1>5. Logged(s)'
  <2>1. \A n \in 1 .. Len(new) : new[n][1] <= ids'[s]
    BY <1>1, <1>2, <1>3, <1>4
  <2>2. ASSUME NEW n \in 1 .. Len(new), NEW k \in 1 .. n, new[k] # NoUsage, new[n] # NoUsage
        PROVE  /\ new[k][1] <= new[n][1]
               /\ new[k][1] = new[n][1] => new[k][2] <= new[n][2]
    <3>1. CASE n \in 1 .. Len(old)
      <4>1. k \in 1 .. Len(old)
        BY <1>1, <3>1
      <4>2. new[n] = old[n] /\ new[k] = old[k]
        BY <1>1, <3>1, <4>1
      <4>3. QED
        BY <2>2, <3>1, <4>2 DEF Logged, Ordered
    <3>2. CASE n = Len(old) + 1
      <4>1. new[n] = line /\ line[1] = ids'[s]
        BY <1>1, <2>2, <3>2
      <4>2. CASE k = n
        <5>1. line[1] \in Nat /\ line[2] \in Nat
          BY LineIs, AgentsAssumption
        <5>2. QED
          BY <4>1, <4>2, <5>1
      <4>3. CASE k \in 1 .. Len(old)
        <5>1. new[k] = old[k] /\ old[k][1] <= ids'[s]
          BY <1>1, <1>2, <1>4, <4>3
        <5>2. QED
          BY <2>2, <4>1, <4>3, <5>1
      <4>4. QED
        BY <1>1, <3>2, <4>2, <4>3
    <3>3. QED
      BY <1>3, <3>1, <3>2
  <2>3. Ordered(new)
    BY <2>2 DEF Ordered
  <2>4. QED
    BY <1>1, <1>2, <2>1, <2>3 DEF Logged
<1>6. ASSUME NEW t, Message(t) \in Nat, Fresh(s, t) PROVE Fresh(s, t)'
  <2>1. Message(t)' = Message(t)
    BY DEF Message
  <2>2. ASSUME NEW n \in 1 .. Len(new), new[n] # NoUsage PROVE new[n][1] > Message(t)
    <3>1. CASE n \in 1 .. Len(old)
      BY <1>1, <1>6, <2>2, <3>1 DEF Fresh, Below
    <3>2. CASE new[n] = line
      BY <1>2, <1>6, <2>2, <3>2 DEF Fresh
    <3>3. QED
      BY <1>3, <3>1, <3>2
  <2>3. QED
    BY <1>2, <1>6, <2>1, <2>2 DEF Fresh, Below
<1>7. ASSUME NEW t, t.off \in Nat, prev[s] \in Seq(Lines), Grown(s, t) PROVE Grown(s, t)'
  <2>1. Len(prev[s]) <= Len(old) /\ \A n \in 1 .. Len(prev[s]) : prev[s][n] = old[n]
    BY <1>1, <1>7, PrefixIs DEF Grown
  <2>2. Len(prev[s]) <= Len(new) /\ \A n \in 1 .. Len(prev[s]) : prev[s][n] = new[n]
    BY <1>1, <1>7, <2>1
  <2>3. IsPrefix(prev[s], new)
    BY <1>1, <1>7, <2>2, PrefixIs
  <2>4. FileLen(s)' >= FileLen(s) /\ FileLen(s)' \in Nat /\ FileLen(s) \in Nat
    <3>1. FileLen(s) = 2 * Len(old) + 1 /\ FileLen(s)' = 2 * Len(new) + 0
      <4>1. (IF half[s] THEN 1 ELSE 0) = 1 /\ (IF half'[s] THEN 1 ELSE 0) = 0
        BY Zenon
      <4>2. QED
        BY <4>1, Zenon DEF FileLen
    <3>2. Len(old) \in Nat /\ Len(new) = Len(old) + 1
      BY <1>1
    <3> HIDE DEF old, new
    <3>3. QED
      BY <3>1, <3>2
  <2>5. QED
    BY <1>7, <2>3, <2>4 DEF Grown, meterState
<1>8. Tracked(s)'
  <2>1. UNCHANGED <<track, anchors, prev, since, meter>>
    BY DEF meterState
  <2>2. CASE s \in DOMAIN track
    <3> DEFINE t == track[s]
               few == since[s]
               read == Len(prev[s])
    <3>1. ReadOf(s, t, few) /\ prev[s] \in Seq(Lines)
      BY <2>2 DEF Tracked
    <3>2. t \in Counters /\ t.off \in Nat /\ Message(t) \in Nat
      BY <3>1 DEF ReadOf, Counters, Message
    <3>3. Fresh(s, t)' \/ (Grown(s, t)' /\ LastRead(t, prev[s], few, read))
      BY <1>6, <1>7, <2>1, <3>1, <3>2 DEF ReadOf
    <3>4. ReadOf(s, t, few)'
      BY <2>1, <3>1, <3>3 DEF ReadOf, Without, LastRead, Message
    <3>5. QED
      BY <2>1, <2>2, <3>4 DEF Tracked
  <2>3. CASE s \notin DOMAIN track
    BY <2>1, <2>3 DEF Tracked
  <2>4. QED
    BY <2>2, <2>3
<1>9. QED
  BY <1>5, <1>8

LEMMA RestKeeps ==
  ASSUME NEW s \in Sessions, Logged(s), Tracked(s), UNCHANGED <<meter, track, anchors, prev, since>>,
         logs'[s] = logs[s], ids'[s] = ids[s], half'[s] = half[s] \/ half'[s] = TRUE
  PROVE  Logged(s)' /\ Tracked(s)'
<1>1. Logged(s)'
  BY DEF Logged
<1>2. UNCHANGED <<track, anchors, prev, since, meter>>
  OBVIOUS
<1>3. FileLen(s)' >= FileLen(s) /\ FileLen(s)' \in Nat /\ FileLen(s) \in Nat
  <2> DEFINE len == Len(logs[s])
             tail == IF half[s] THEN 1 ELSE 0
             new == IF half'[s] THEN 1 ELSE 0
  <2>1. FileLen(s) = 2 * len + tail /\ FileLen(s)' = 2 * len + new
    BY Zenon DEF FileLen
  <2>2. tail \in {0, 1} /\ new \in {0, 1} /\ (new = tail \/ new = 1)
    BY Zenon
  <2>3. len \in Nat
    BY DEF Logged
  <2> HIDE DEF len, tail, new
  <2>4. QED
    BY <2>1, <2>2, <2>3
<1>4. CASE s \in DOMAIN track
  <2> DEFINE t == track[s]
             few == since[s]
             read == Len(prev[s])
  <2>1. ReadOf(s, t, few) /\ prev[s] \in Seq(Lines)
    BY <1>4 DEF Tracked
  <2>2. t.off \in Nat
    BY <2>1 DEF ReadOf, Counters
  <2>3. Message(t)' = Message(t)
    BY <1>2 DEF Message
  <2>4. Fresh(s, t) => Fresh(s, t)'
    BY <2>3 DEF Fresh, Below
  <2>5. Grown(s, t) => Grown(s, t)'
    BY <1>2, <1>3, <2>2 DEF Grown
  <2>6. ReadOf(s, t, few)'
    BY <1>2, <2>1, <2>4, <2>5 DEF ReadOf, Without, LastRead, Message
  <2>7. QED
    BY <1>1, <1>2, <1>4, <2>6 DEF Tracked
<1>5. CASE s \notin DOMAIN track
  BY <1>1, <1>2, <1>5 DEF Tracked
<1>6. QED
  BY <1>1, <1>4, <1>5

(* What a compaction leaves tells of later messages than were counted.      *)
LEMMA CompactKeeps ==
  ASSUME NEW s \in Sessions, Logged(s), Tracked(s), UNCHANGED <<meter, meterState>>,
         meter # "codex", logs'[s] = <<NoUsage>>, half'[s] = FALSE, ids[s] < MaxIds, ids'[s] = ids[s] + 1
  PROVE  Logged(s)' /\ Tracked(s)'
<1> DEFINE new == logs'[s]
<1>1. new \in Seq(Lines) /\ Len(new) = 1 /\ \A n \in 1 .. Len(new) : new[n] = NoUsage
  BY DEF Lines
<1>2. ids[s] \in Nat /\ MaxIds \in Nat
  BY AgentsAssumption DEF Logged
<1>3. Logged(s)'
  <2>1. ids'[s] \in 0 .. MaxIds /\ NoUsage[1] <= ids'[s]
    BY <1>2 DEF NoUsage
  <2>2. Ordered(new)
    BY <1>1 DEF Ordered
  <2> HIDE DEF new
  <2>3. \A n \in 1 .. Len(new) : new[n][1] <= ids'[s]
    BY <1>1, <2>1
  <2>4. QED
    BY <1>1, <2>1, <2>2, <2>3 DEF Logged, new
<1>4. UNCHANGED <<track, anchors, prev, since, meter>>
  BY DEF meterState
<1>5. CASE s \in DOMAIN track
  <2> DEFINE t == track[s]
             few == since[s]
             read == Len(prev[s])
  <2>1. ReadOf(s, t, few) /\ prev[s] \in Seq(Lines)
    BY <1>5 DEF Tracked
  <2>2. few \in Nat /\ Message(t) \in Nat
    BY <2>1 DEF ReadOf, Counters, Message
  <2>3. Message(t) <= ids[s]
    <3>1. CASE Fresh(s, t)
      BY <1>2, <2>2, <3>1 DEF Fresh
    <3>2. CASE Grown(s, t) /\ LastRead(t, prev[s], few, read)
      <4>1. PICK n \in few + 1 .. read : prev[s][n] = <<Message(t), t.last>>
        BY <3>2 DEF LastRead
      <4>2. logs[s] \in Seq(Lines)
        BY DEF Logged
      <4>3. Len(prev[s]) <= Len(logs[s]) /\ \A k \in 1 .. Len(prev[s]) : prev[s][k] = logs[s][k]
        BY <2>1, <3>2, <4>2, PrefixIs DEF Grown
      <4>4. n \in 1 .. Len(prev[s]) /\ n \in 1 .. Len(logs[s])
        BY <2>1, <2>2, <4>2, <4>3
      <4>5. logs[s][n] = <<Message(t), t.last>> /\ logs[s][n][1] <= ids[s]
        BY <4>1, <4>3, <4>4 DEF Logged
      <4>6. QED
        BY <4>5
    <3>3. QED
      BY <2>1, <3>1, <3>2 DEF ReadOf
  <2>4. Message(t)' = Message(t)
    BY <1>4 DEF Message
  <2>5. Fresh(s, t)'
    BY <1>1, <1>2, <2>2, <2>3, <2>4 DEF Fresh, Below
  <2>6. ReadOf(s, t, few)'
    BY <1>4, <2>1, <2>5 DEF ReadOf, Without, LastRead, Message
  <2>7. QED
    BY <1>3, <1>4, <1>5, <2>6 DEF Tracked
<1>6. CASE s \notin DOMAIN track
  BY <1>3, <1>4, <1>6 DEF Tracked
<1>7. QED
  BY <1>5, <1>6

LEMMA FinishKeeps ==
  ASSUME CountInv, NEW s \in Sessions, NEW f \in BOOLEAN, NEW out \in 1 .. MaxOut, FinishLine(s, f, out),
         UNCHANGED <<meter, meterState>>
  PROVE  Logged(s)' /\ Tracked(s)'
<1> DEFINE line == <<ids'[s], out>>
           old == logs[s]
<1>1. /\ Logged(s) /\ Tracked(s) /\ MaxIds \in Nat \ {0}
      /\ logs \in [Sessions -> Seq(Lines)] /\ half \in [Sessions -> BOOLEAN] /\ ids \in [Sessions -> Nat]
  BY AgentsAssumption DEF CountInv
<1>2. ids'[s] = IF f THEN ids[s] + 1 ELSE ids[s]
  BY <1>1, Zenon DEF FinishLine
<1>3. half[s] /\ half'[s] = FALSE
  BY <1>1, Zenon DEF FinishLine
<1>4. logs'[s] = Append(old, line)
  BY <1>1 DEF FinishLine
<1>5. /\ ids[s] \in 0 .. MaxIds /\ (meter = "codex" => ids[s] <= 1) /\ old \in Seq(Lines) /\ Ordered(old)
      /\ \A n \in 1 .. Len(old) : old[n][1] <= ids[s] /\ old[n][1] \in Nat
  BY <1>1, LinesAre DEF Logged
<1>6. CASE f
  <2>1. ids'[s] = ids[s] + 1 /\ ids[s] < IF meter = "codex" THEN 1 ELSE MaxIds
    BY <1>2, <1>6 DEF FinishLine
  <2>2. ids'[s] \in ids[s] .. MaxIds /\ ids'[s] \in 1 .. MaxIds /\ (meter = "codex" => ids'[s] <= 1)
    BY <1>1, <1>5, <2>1
  <2>3. line \in Lines /\ line[1] = ids'[s]
    BY <2>2 DEF Lines
  <2>4. \A n \in 1 .. Len(old) : old[n][1] # line[1]
    BY <1>1, <1>5, <2>1
  <2> HIDE DEF line
  <2>5. QED
    BY <1>1, <1>3, <1>4, <2>2, <2>3, <2>4, LineKeeps
<1>7. CASE ~f
  <2>1. ids'[s] = ids[s] /\ ids[s] > 0 /\ out >= OutOf(s)
    BY <1>2, <1>7 DEF FinishLine
  <2>2. ids'[s] \in ids[s] .. MaxIds /\ ids'[s] \in 1 .. MaxIds /\ (meter = "codex" => ids'[s] <= 1)
    BY <1>1, <1>5, <2>1
  <2>3. line \in Lines /\ line[1] = ids'[s] /\ line[2] = out
    BY <2>2 DEF Lines
  <2>4. ASSUME NEW n \in 1 .. Len(old), old[n][1] = ids[s] PROVE old[n][2] <= out
    <3> DEFINE lasts == {k \in DOMAIN logs[s] : logs[s][k][1] = ids[s]}
               last == CHOOSE k \in lasts : \A l \in lasts : l <= k
    <3>1. DOMAIN old = 1 .. Len(old) /\ Len(old) \in Nat
      BY <1>5
    <3>2. n \in lasts /\ lasts \subseteq 1 .. Len(old)
      BY <2>4, <3>1
    <3>3. OutOf(s) = logs[s][last][2]
      BY <3>2 DEF OutOf
    <3> HIDE DEF lasts
    <3>4. last \in lasts /\ n <= last
      <4>1. \E k \in lasts : \A l \in lasts : l <= k
        BY <3>1, <3>2, LastOne
      <4>2. QED
        BY <3>2, <4>1
    <3> HIDE DEF last
    <3>5. last \in 1 .. Len(old) /\ old[last][1] = ids[s] /\ n \in 1 .. last
      BY <3>1, <3>2, <3>4 DEF lasts
    <3>6. old[last] # NoUsage /\ old[n] # NoUsage
      BY <2>1, <2>4, <3>5 DEF NoUsage
    <3>7. old[n][2] <= old[last][2]
      BY <1>5, <2>4, <3>5, <3>6 DEF Ordered
    <3>8. old[n][2] \in Nat /\ old[last][2] \in Nat
      BY <1>5, <3>5, LinesAre, AgentsAssumption
    <3>9. QED
      BY <2>1, <3>3, <3>7, <3>8
  <2>5. \A n \in 1 .. Len(old) : old[n][1] = line[1] => old[n][2] <= line[2]
    BY <2>1, <2>3, <2>4
  <2> HIDE DEF line
  <2>6. QED
    BY <1>1, <1>3, <1>4, <2>2, <2>3, <2>5, LineKeeps
<1>8. QED
  BY <1>6, <1>7
-----------------------------------------------------------------------------
Entry(s) == IF s \in DOMAIN track THEN track[s] ELSE FirstWatch(s)

(* What is read of is either what was, or what begins here. *)
Lo(s) ==
  IF s \in DOMAIN track /\ Grown(s, Entry(s)) THEN since[s] ELSE Passed(Offset(s, Entry(s)))

LEMMA EntryIs ==
  ASSUME NEW s \in Sessions, Logged(s), Tracked(s)
  PROVE  /\ Begins(s, Entry(s), Lo(s))
         /\ (s \in DOMAIN track => Grown(s, Entry(s))) =>
              Counted(logs[s], Lo(s), Passed(Offset(s, Entry(s)))) = Counted(prev[s], Lo(s), Len(prev[s]))
         /\ s \notin DOMAIN track => Total(Entry(s)) = 0
<1> DEFINE t == Entry(s)
           lo == Lo(s)
           o == Offset(s, t)
           few == Passed(o)
           len == Len(logs[s])
           read == Len(prev[s])
<1>1. /\ logs[s] \in Seq(Lines) /\ len \in Nat /\ prev[s] \in Seq(Lines) /\ read \in Nat
      /\ FileLen(s) \in Nat
  BY FileLenIs DEF Logged, Tracked
<1>2. \A n \in 1 .. len : logs[s][n] # NoUsage => logs[s][n][1] > 0
  BY <1>1, LinesAre, AgentsAssumption
<1>3. s \notin DOMAIN track =>
        t \in Counters /\ Message(t) = 0 /\ Total(t) = 0 /\ prev[s] = <<>> /\ lo = few
  BY <1>1 DEF Entry, Lo, FirstWatch, GuestFirstWatch, New, Counters, Message, Total, Tracked
<1>4. s \in DOMAIN track => ReadOf(s, t, since[s]) /\ t \in Counters
  BY DEF Entry, Tracked, ReadOf
<1>5. o \in Nat /\ o <= 2 * len + 1 /\ (FileLen(s) >= t.off => o = t.off)
  BY <1>3, <1>4, OffsetIs
<1>6. few \in Nat /\ 2 * few \in {o, o + 1}
        /\ \A k \in Nat : (o = 2 * k => few = k) /\ (o = 2 * k + 1 => few = k + 1)
  BY <1>5, PassedIs
<1> HIDE DEF len, read, few, o
<1>7. CASE s \in DOMAIN track /\ Grown(s, t)
  <2>1. lo = since[s]
    BY <1>7 DEF Lo
  <2> HIDE DEF t, lo
  <2>2. /\ lo \in Nat /\ t.off \in {2 * read, 2 * read + 1} /\ lo <= read + 1
        /\ t.off = 2 * read + 1 <=> lo = read + 1
        /\ Without(prev[s], lo, read) \/ LastRead(t, prev[s], lo, read)
        /\ Fresh(s, t) \/ LastRead(t, prev[s], lo, read)
    BY <1>4, <1>7, <2>1 DEF ReadOf, read
  <2>3. o = t.off /\ read <= len /\ \A n \in 1 .. read : prev[s][n] = logs[s][n]
    BY <1>1, <1>5, <1>7, PrefixIs DEF Grown, len, read
  <2>4. (few = read /\ lo <= read) \/ (few = read + 1 /\ lo = read + 1)
    BY <1>1, <1>6, <2>2, <2>3
  <2>5. lo <= few /\ (lo = few \/ few <= len) /\ (lo = len + 1 <=> o = 2 * len + 1)
    BY <1>1, <1>5, <2>2, <2>3, <2>4
  <2>6. \A n \in lo + 1 .. read : n \in 1 .. read
    BY <1>1, <2>2
  <2>7. (Fresh(s, t) /\ Without(logs[s], lo, few)) \/ LastRead(t, logs[s], lo, few)
    <3>1. CASE few = read
      <4>1. Without(prev[s], lo, read) => Without(logs[s], lo, few)
        BY <2>3, <2>6, <3>1 DEF Without
      <4>2. ASSUME LastRead(t, prev[s], lo, read) PROVE LastRead(t, logs[s], lo, few)
        <5>1. PICK n \in lo + 1 .. read : /\ prev[s][n] = <<Message(t), t.last>>
                                          /\ \A k \in n + 1 .. read : prev[s][k] = NoUsage
          BY <4>2 DEF LastRead
        <5>2. \A k \in n + 1 .. read : k \in 1 .. read
          BY <2>6
        <5>3. logs[s][n] = <<Message(t), t.last>> /\ \A k \in n + 1 .. read : logs[s][k] = NoUsage
          BY <2>3, <2>6, <5>1, <5>2
        <5>4. QED
          BY <3>1, <4>2, <5>3 DEF LastRead
      <4>3. QED
        BY <2>2, <4>1, <4>2
    <3>2. CASE few = read + 1 /\ lo = read + 1
      <4>1. lo + 1 .. read = {} /\ lo + 1 .. few = {}
        BY <1>1, <3>2
      <4>2. ~LastRead(t, prev[s], lo, read) /\ Without(logs[s], lo, few)
        BY <4>1 DEF LastRead, Without
      <4>3. QED
        BY <2>2, <4>2
    <3>3. QED
      BY <2>4, <3>1, <3>2
  <2>8. Counted(logs[s], lo, few) = Counted(prev[s], lo, read)
    <3>1. CASE few = read
      <4>1. few <= Len(logs[s]) /\ few <= Len(prev[s]) /\ few = read /\ few \in Nat
        BY <1>1, <2>3, <3>1 DEF len, read
      <4>2. \A n \in 1 .. few : logs[s][n] = prev[s][n]
        BY <2>3, <3>1
      <4> DEFINE x == logs[s]
                 y == prev[s]
      <4>3. x \in Seq(Lines) /\ y \in Seq(Lines) /\ lo \in Nat /\ few \in Nat
              /\ few <= Len(x) /\ few <= Len(y) /\ \A n \in 1 .. few : x[n] = y[n]
        BY <1>1, <2>2, <4>1, <4>2
      <4> HIDE DEF x, y
      <4>4. Counted(x, lo, few) = Counted(y, lo, few)
        BY <4>3, SameCount
      <4>5. QED
        BY <3>1, <4>4 DEF x, y
    <3>2. CASE few = read + 1 /\ lo = read + 1
      <4>1. few <= lo /\ read <= lo
        BY <1>1, <3>2
      <4>2. few \in Nat /\ read \in Nat /\ logs[s] \in Seq(Lines) /\ prev[s] \in Seq(Lines) /\ lo \in Nat
        BY <1>1, <1>6, <2>2
      <4> DEFINE x == logs[s]
                 y == prev[s]
      <4>3. x \in Seq(Lines) /\ y \in Seq(Lines)
        BY <4>2
      <4> HIDE DEF x, y
      <4>4. Counted(x, lo, few) = Counted(y, lo, read)
        BY <4>1, <4>2, <4>3, SameCount
      <4>5. QED
        BY <4>4 DEF x, y
    <3>3. QED
      BY <2>4, <3>1, <3>2
  <2>9. Begins(s, t, lo)
    BY <1>4, <1>7, <2>2, <2>5, <2>7 DEF Begins, few, o, len
  <2>10. QED
    BY <1>7, <2>8, <2>9 DEF few, o, len, read, t, lo
<1>8. CASE ~(s \in DOMAIN track /\ Grown(s, t))
  <2>1. lo = few
    BY <1>8 DEF Lo, few, o
  <2>2. Fresh(s, t)
    <3>1. CASE s \notin DOMAIN track
      BY <1>2, <1>3, <3>1 DEF Fresh, Below, len
    <3>2. CASE s \in DOMAIN track
      BY <1>4, <1>8, <3>2 DEF ReadOf
    <3>3. QED
      BY <3>1, <3>2
  <2>3. t \in Counters
    BY <1>3, <1>4
  <2> HIDE DEF t, lo
  <2>4. lo = len + 1 <=> o = 2 * len + 1
    <3>1. o = 2 * len + 1 => few = len + 1
      BY <1>1, <1>6
    <3>2. few = len + 1 => o = 2 * len + 1
      BY <1>1, <1>5, <1>6
    <3>3. QED
      BY <2>1, <3>1, <3>2
  <2>5. Without(logs[s], lo, few)
    <3>1. lo + 1 .. few = {}
      BY <1>6, <2>1
    <3>2. QED
      BY <3>1 DEF Without
  <2>6. Begins(s, t, lo)
    BY <1>6, <2>1, <2>2, <2>3, <2>4, <2>5 DEF Begins, few, o, len
  <2>7. s \notin DOMAIN track => Counted(logs[s], lo, few) = Counted(prev[s], lo, read)
    <3>1. s \notin DOMAIN track => few <= lo /\ read <= lo
      BY <1>3, <1>6, <2>1 DEF read
    <3>2. QED
      BY <1>1, <1>6, <2>1, <3>1, SameCount
  <2>8. QED
    BY <1>3, <1>8, <2>6, <2>7 DEF few, o, len, read, t, lo
<1>9. QED
  BY <1>7, <1>8

(* A scan of a session that is live: what it adds, and what it leaves.      *)
LEMMA PollIs ==
  ASSUME CountInv, NEW seen \in SUBSET up, NEW busy, Poll(seen, busy)
  PROVE  /\ DOMAIN track' \subseteq Sessions /\ DOMAIN anchors' = DOMAIN track'
         /\ prev' \in [Sessions -> Seq(Lines)]
         /\ \A s \in Sessions \ DOMAIN track' : prev'[s] = <<>>
         /\ \A s \in DOMAIN track' :
              /\ prev'[s] = logs[s] /\ since'[s] = Lo(s) /\ track'[s] = ReadNewLines(s, Entry(s))
              /\ anchors'[s] = IF s \in DOMAIN track THEN anchors[s] ELSE Total(track'[s])
<1> DEFINE live == Range(Matched(seen, busy)) \ {NOSESSION}
<1>1. live \subseteq Sessions
  <2> DEFINE cand == Candidates(Cardinality(seen))
             m == Matched(seen, busy)
  <2>1. Fair(seen, cand, m)
    BY MatchedFair DEF CountInv
  <2>2. cand \subseteq Sessions
    BY DEF Candidates, Whole, CountInv, AgentsInv
  <2> HIDE DEF cand, m
  <2>3. \A x \in Range(m) : x \in Sessions \cup {NOSESSION}
    BY <2>1, <2>2 DEF Fair, Range
  <2>4. QED
    BY <2>3 DEF m
<1>2. /\ track' = [s \in live |-> ReadNewLines(s, [r \in live |-> Entry(r)][s])]
      /\ anchors' = [s \in live |-> IF s \in DOMAIN anchors THEN anchors[s] ELSE Total(track'[s])]
      /\ prev' = [s \in Sessions |-> IF s \in live THEN logs[s] ELSE <<>>]
      /\ since' = [s \in Sessions |->
                     IF s \notin live THEN 0
                     ELSE IF s \in DOMAIN track /\ Grown(s, [r \in live |-> Entry(r)][s]) THEN since[s]
                     ELSE Passed(Offset(s, [r \in live |-> Entry(r)][s]))]
  BY Zenon DEF Poll, Entry
<1> HIDE DEF live
<1>3. DOMAIN track' = live /\ DOMAIN anchors' = live
  BY <1>2
<1>4. logs \in [Sessions -> Seq(Lines)] /\ DOMAIN anchors = DOMAIN track
  BY DEF CountInv
<1>5. prev' \in [Sessions -> Seq(Lines)]
  <2>1. \A s \in Sessions : logs[s] \in Seq(Lines) /\ <<>> \in Seq(Lines)
    BY <1>4
  <2>2. QED
    BY <1>2, <2>1
<1>6. \A s \in Sessions \ live : prev'[s] = <<>>
  BY <1>2
<1>7. ASSUME NEW s \in live
      PROVE  /\ prev'[s] = logs[s] /\ since'[s] = Lo(s) /\ track'[s] = ReadNewLines(s, Entry(s))
             /\ anchors'[s] = IF s \in DOMAIN track THEN anchors[s] ELSE Total(track'[s])
  <2>1. s \in Sessions /\ [r \in live |-> Entry(r)][s] = Entry(s)
    BY <1>1
  <2>2. QED
    BY <1>2, <1>4, <2>1, Zenon DEF Lo
<1>8. QED
  BY <1>1, <1>3, <1>5, <1>6, <1>7

LEMMA PollCounts ==
  ASSUME CountInv, NEW seen \in SUBSET up, NEW busy, Poll(seen, busy), NEW s \in DOMAIN track'
  PROVE  LET was == IF s \in DOMAIN track THEN track[s] ELSE New
         IN /\ Grown(s, was) =>
                 Total(track'[s]) - Total(was) =
                   Counted(logs[s], since'[s], Len(logs[s])) - Counted(prev[s], since'[s], Len(prev[s]))
            /\ anchors'[s] \in Nat /\ anchors'[s] <= Total(track'[s])
<1> DEFINE t == Entry(s)
           new == track'[s]
           few == Passed(Offset(s, t))
           was == IF s \in DOMAIN track THEN track[s] ELSE New
<1>1. /\ s \in Sessions /\ since'[s] = Lo(s) /\ new = ReadNewLines(s, t)
      /\ anchors'[s] = IF s \in DOMAIN track THEN anchors[s] ELSE Total(new)
  BY PollIs
<1>2. Logged(s) /\ Tracked(s)
  BY <1>1 DEF CountInv
<1>3. /\ Begins(s, t, Lo(s))
      /\ (s \in DOMAIN track => Grown(s, t)) =>
           Counted(logs[s], Lo(s), few) = Counted(prev[s], Lo(s), Len(prev[s]))
      /\ s \notin DOMAIN track => Total(t) = 0
  BY <1>1, <1>2, EntryIs
<1>4. /\ new \in Counters /\ Total(new) >= Total(t)
      /\ Total(new) - Total(t) = Counted(logs[s], Lo(s), Len(logs[s])) - Counted(logs[s], Lo(s), few)
  BY <1>1, <1>2, <1>3, ReadNewLinesIs
<1>5. t \in Counters /\ Total(t) \in Nat /\ Total(new) \in Nat
  BY <1>3, <1>4, TotalNat DEF Begins
<1>6. s \in DOMAIN track => was = t
  BY DEF Entry
<1>7. Total(was) = Total(t)
  BY <1>3, <1>6 DEF New, Total
<1>8. s \in DOMAIN track => anchors[s] \in Nat /\ anchors[s] <= Total(t)
  BY <1>2 DEF Tracked, Entry
<1>9. anchors'[s] \in Nat /\ anchors'[s] <= Total(new)
  BY <1>1, <1>4, <1>5, <1>8
<1> HIDE DEF t, new, few, was
<1>10. Grown(s, was) =>
         Total(new) - Total(was) = Counted(logs[s], since'[s], Len(logs[s])) - Counted(prev[s], since'[s], Len(prev[s]))
  BY <1>1, <1>3, <1>4, <1>6, <1>7
<1>11. QED
  BY <1>9, <1>10 DEF was, new

LEMMA PollKeeps ==
  ASSUME CountInv, NEW seen \in SUBSET up, NEW busy, Poll(seen, busy), UNCHANGED <<meter, machine>>,
         NEW s \in Sessions
  PROVE  Logged(s)' /\ Tracked(s)'
<1>1. Logged(s) /\ Tracked(s) /\ logs[s] \in Seq(Lines)
  BY DEF CountInv
<1>2. UNCHANGED <<logs, half, ids, meter>>
  BY DEF machine
<1>3. Logged(s)'
  BY <1>1, <1>2 DEF Logged
<1>4. prev' \in [Sessions -> Seq(Lines)] /\ (s \notin DOMAIN track' => prev'[s] = <<>>)
  BY PollIs
<1>5. CASE s \in DOMAIN track'
  <2> DEFINE t == Entry(s)
             new == track'[s]
             lo == since'[s]
             len == Len(logs[s])
  <2>1. prev'[s] = logs[s] /\ lo = Lo(s) /\ new = ReadNewLines(s, t)
    BY <1>5, PollIs
  <2>2. Begins(s, t, lo)
    BY <1>1, <2>1, EntryIs
  <2>3. /\ new \in Counters /\ new.off \in {2 * len, 2 * len + 1} /\ lo <= len + 1
        /\ new.off <= FileLen(s)
        /\ new.off = 2 * len + 1 <=> lo = len + 1
        /\ (Fresh(s, new) /\ Without(logs[s], lo, len)) \/ LastRead(new, logs[s], lo, len)
    BY <1>1, <2>1, <2>2, ReadNewLinesIs
  <2>4. lo \in Nat
    BY <2>2 DEF Begins
  <2>5. FileLen(s)' = FileLen(s) /\ Message(new) = Message(track[s])' /\ FileLen(s) \in Nat
    BY <1>1, <1>2, FileLenIs DEF FileLen, Message
  <2>6. Fresh(s, new) => Fresh(s, track[s])'
    BY <1>2, <2>5 DEF Fresh, Below
  <2>7. Grown(s, track[s])'
    <3>1. IsPrefix(logs[s], logs[s])
      BY <1>1, PrefixIs
    <3>2. FileLen(s) >= new.off
      BY <2>3, <2>5 DEF Counters
    <3>3. QED
      BY <1>2, <2>1, <2>5, <3>1, <3>2 DEF Grown
  <2>8. LastRead(new, logs[s], lo, len) => LastRead(track[s], prev[s], since[s], Len(prev[s]))'
    BY <2>1, <2>5 DEF LastRead
  <2>9. Without(logs[s], lo, len) => Without(prev[s], since[s], Len(prev[s]))'
    BY <2>1 DEF Without
  <2>10. ReadOf(s, track[s], since[s])'
    BY <2>1, <2>3, <2>4, <2>6, <2>7, <2>8, <2>9 DEF ReadOf
  <2>11. anchors'[s] \in Nat /\ anchors'[s] <= Total(new)
    BY <1>5, PollCounts
  <2>12. Total(new) = Total(track[s])'
    BY DEF Total
  <2>13. QED
    BY <1>3, <1>4, <1>5, <2>10, <2>11, <2>12 DEF Tracked
<1>6. CASE s \notin DOMAIN track'
  BY <1>3, <1>4, <1>6 DEF Tracked
<1>7. QED
  BY <1>5, <1>6

LEMMA CountStarts == AgentsInit => CountInv
<1> SUFFICES ASSUME AgentsInit PROVE CountInv
  OBVIOUS
<1>1. AgentsInv
  BY AgentsStart
<1>2. /\ logs = [s \in Sessions |-> <<>>] /\ half = [s \in Sessions |-> FALSE]
      /\ ids = [s \in Sessions |-> 0] /\ prev = [s \in Sessions |-> <<>>]
      /\ track = <<>> /\ anchors = <<>>
  BY DEF AgentsInit
<1>3. DOMAIN track = {} /\ DOMAIN anchors = {}
  BY <1>2
<1>4. /\ logs \in [Sessions -> Seq(Lines)] /\ half \in [Sessions -> BOOLEAN] /\ ids \in [Sessions -> Nat]
      /\ MaxIds \in Nat
  BY <1>2, AgentsAssumption
<1>5. ASSUME NEW s \in Sessions PROVE Logged(s) /\ Tracked(s)
  <2>1. logs[s] = <<>> /\ prev[s] = <<>> /\ ids[s] = 0 /\ <<>> \in Seq(Lines) /\ Len(<<>>) = 0
    BY <1>2
  <2>2. Logged(s)
    BY <1>4, <2>1 DEF Logged, Ordered
  <2>3. Tracked(s)
    BY <1>3, <2>1 DEF Tracked
  <2>4. QED
    BY <2>2, <2>3
<1>6. QED
  BY <1>1, <1>3, <1>4, <1>5 DEF CountInv

(* A session is as it was, if nothing is written and nothing scanned.       *)
LEMMA OthersKeep ==
  ASSUME CountInv, NEW s \in Sessions, UNCHANGED <<meter, track, anchors, prev, since>>,
         logs'[s] = logs[s], half'[s] = half[s], ids'[s] = ids[s]
  PROVE  Logged(s)' /\ Tracked(s)'
<1>1. Logged(s) /\ Tracked(s)
  BY DEF CountInv
<1>2. QED
  BY <1>1, RestKeeps

LEMMA CountKeeps == CountInv /\ [AgentsNext]_agentVars => CountInv'
<1> SUFFICES ASSUME CountInv, [AgentsNext]_agentVars PROVE CountInv'
  OBVIOUS
<1>1. AgentsInv'
  BY AgentsKeep DEF CountInv
<1>2. /\ logs \in [Sessions -> Seq(Lines)] /\ half \in [Sessions -> BOOLEAN] /\ ids \in [Sessions -> Nat]
      /\ DOMAIN track \subseteq Sessions /\ DOMAIN anchors = DOMAIN track
      /\ \A s \in Sessions : Logged(s) /\ Tracked(s)
  BY DEF CountInv
<1>3. ASSUME UNCHANGED <<meter, machine, track, anchors, prev, since>> PROVE CountInv'
  <2>1. \A s \in Sessions : Logged(s)' /\ Tracked(s)'
    BY <1>3, OthersKeep DEF machine
  <2>2. QED
    BY <1>1, <1>2, <1>3, <2>1 DEF CountInv, machine
<1>4. ASSUME NEW seen \in SUBSET up, NEW busy \in SUBSET up, Scan(seen, busy) PROVE CountInv'
  <2>1. Tick(seen, busy)
    BY <1>4 DEF Scan, NativeScan, CodexScan, GuestScan
  <2>2. CASE Glitch(seen)
    BY <1>3, <2>1, <2>2 DEF Tick, Glitch
  <2>3. CASE Poll(seen, busy)
    <3>1. UNCHANGED <<meter, machine>>
      BY <2>1 DEF Tick
    <3>2. \A s \in Sessions : Logged(s)' /\ Tracked(s)'
      BY <2>3, <3>1, PollKeeps
    <3>3. DOMAIN track' \subseteq Sessions /\ DOMAIN anchors' = DOMAIN track'
      BY <2>3, PollIs
    <3>4. QED
      BY <1>1, <1>2, <3>1, <3>2, <3>3 DEF CountInv, machine
  <2>4. QED
    BY <2>1, <2>2, <2>3 DEF Tick
<1>5. ASSUME UNCHANGED <<meter, meterState>>, NEW s \in Sessions, Logged(s)', Tracked(s)',
             NEW l \in Seq(Lines), logs' = [logs EXCEPT ![s] = l],
             NEW h \in BOOLEAN, half' = [half EXCEPT ![s] = h],
             NEW i \in Nat, ids' = [ids EXCEPT ![s] = i]
      PROVE  CountInv'
  <2>1. UNCHANGED <<meter, track, anchors, prev, since>>
    BY <1>5 DEF meterState
  <2>2. ASSUME NEW r \in Sessions, r # s PROVE Logged(r)' /\ Tracked(r)'
    <3>1. logs'[r] = logs[r] /\ half'[r] = half[r] /\ ids'[r] = ids[r]
      BY <1>2, <1>5, <2>2
    <3>2. QED
      BY <2>1, <3>1, OthersKeep
  <2>3. \A r \in Sessions : Logged(r)' /\ Tracked(r)'
    BY <1>5, <2>2
  <2>4. logs' \in [Sessions -> Seq(Lines)] /\ half' \in [Sessions -> BOOLEAN] /\ ids' \in [Sessions -> Nat]
    BY <1>2, <1>5
  <2>5. QED
    BY <1>1, <1>2, <2>1, <2>3, <2>4 DEF CountInv
<1>6. ASSUME UNCHANGED <<meter, meterState>>, NEW s \in Sessions, BeginLine(s) PROVE CountInv'
  <2>1. logs' = logs /\ ids' = ids /\ half' = [half EXCEPT ![s] = TRUE]
    BY <1>6 DEF BeginLine
  <2>2. UNCHANGED <<meter, track, anchors, prev, since>>
    BY <1>6 DEF meterState
  <2>3. Logged(s)' /\ Tracked(s)'
    <3>1. logs'[s] = logs[s] /\ ids'[s] = ids[s] /\ half'[s] = TRUE
      BY <1>2, <2>1
    <3>2. QED
      BY <1>2, <2>2, <3>1, RestKeeps
  <2>4. logs' = [logs EXCEPT ![s] = logs[s]] /\ ids' = [ids EXCEPT ![s] = ids[s]]
    BY <1>2, <2>1
  <2>5. logs[s] \in Seq(Lines) /\ ids[s] \in Nat
    BY <1>2
  <2>6. QED
    BY <1>5, <1>6, <2>1, <2>3, <2>4, <2>5
<1>7. ASSUME UNCHANGED <<meter, meterState>>, NEW s \in Sessions, FinishOther(s) PROVE CountInv'
  <2>1. logs' = [logs EXCEPT ![s] = Append(logs[s], NoUsage)] /\ ids' = ids
          /\ half[s] /\ half' = [half EXCEPT ![s] = FALSE]
    BY <1>7 DEF FinishOther
  <2>2. NoUsage \in Lines /\ Append(logs[s], NoUsage) \in Seq(Lines) /\ ids[s] \in Nat
    BY <1>2 DEF Lines
  <2>3. Logged(s)' /\ Tracked(s)'
    <3>1. logs'[s] = Append(logs[s], NoUsage) /\ ids'[s] = ids[s]
      BY <1>2, <2>1
    <3>2. half'[s] = FALSE
      BY <1>2, <2>1
    <3>3. ids'[s] \in ids[s] .. MaxIds /\ (meter = "codex" => ids'[s] <= 1)
      BY <1>2, <3>1, AgentsAssumption DEF Logged
    <3>4. QED
      BY <1>2, <1>7, <2>1, <2>2, <3>1, <3>2, <3>3, LineKeeps
  <2>4. ids' = [ids EXCEPT ![s] = ids[s]]
    BY <1>2, <2>1
  <2>5. QED
    BY <1>5, <1>7, <2>1, <2>2, <2>3, <2>4
<1>8. ASSUME UNCHANGED <<meter, meterState>>, NEW s \in Sessions, Compact(s) PROVE CountInv'
  <2>1. logs' = [logs EXCEPT ![s] = <<NoUsage>>] /\ half' = [half EXCEPT ![s] = FALSE]
          /\ ids' = [ids EXCEPT ![s] = ids[s] + 1] /\ ids[s] < MaxIds /\ meter # "codex"
    BY <1>8 DEF Compact
  <2>2. <<NoUsage>> \in Seq(Lines) /\ ids[s] + 1 \in Nat
    BY <1>2 DEF Lines
  <2>3. logs'[s] = <<NoUsage>> /\ half'[s] = FALSE /\ ids'[s] = ids[s] + 1
    BY <1>2, <2>1
  <2>4. Logged(s)' /\ Tracked(s)'
    BY <1>2, <1>8, <2>1, <2>3, CompactKeeps
  <2>5. QED
    BY <1>5, <1>8, <2>1, <2>2, <2>4
<1>9. ASSUME UNCHANGED <<meter, meterState>>, NEW s \in Sessions, NEW f \in BOOLEAN, NEW out \in 1 .. MaxOut,
             FinishLine(s, f, out)
      PROVE  CountInv'
  <2>1. Logged(s)' /\ Tracked(s)'
    BY <1>9, FinishKeeps
  <2> DEFINE i == ids'[s]
             l == logs'[s]
             n == IF f THEN ids[s] + 1 ELSE ids[s]
  <2>2. logs' = [logs EXCEPT ![s] = Append(logs[s], <<i, out>>)] /\ half' = [half EXCEPT ![s] = FALSE]
          /\ ids' = [ids EXCEPT ![s] = n]
    BY <1>9, Zenon DEF FinishLine
  <2>3. i \in Nat /\ ids' = [ids EXCEPT ![s] = i]
    <3>1. n \in Nat
      BY <1>2
    <3> HIDE DEF n
    <3>2. i = n
      BY <1>2, <2>2
    <3>3. QED
      BY <2>2, <3>1, <3>2
  <2>4. l \in Seq(Lines) /\ logs' = [logs EXCEPT ![s] = l]
    <3>1. l \in Seq(Lines)
      BY <2>1 DEF Logged
    <3>2. l = Append(logs[s], <<i, out>>)
      BY <1>2, <2>2
    <3>3. QED
      BY <2>2, <3>1, <3>2
  <2> HIDE DEF i, l
  <2>5. QED
    BY <1>5, <1>9, <2>1, <2>2, <2>3, <2>4
<1>10. CASE UNCHANGED agentVars
  BY <1>3, <1>10 DEF agentVars, meterState
<1>11. CASE UNCHANGED <<meter, meterState>> /\ UNCHANGED <<logs, half, ids>>
  <2>1. UNCHANGED <<meter, track, anchors, prev, since>>
    BY <1>11 DEF meterState
  <2>2. \A s \in Sessions : Logged(s)' /\ Tracked(s)'
    BY <1>11, <2>1, OthersKeep
  <2>3. QED
    BY <1>1, <1>2, <1>11, <2>1, <2>2 DEF CountInv
<1>12. ASSUME UNCHANGED <<meter, meterState>>, NEW p \in Pids, Start(p) \/ Exit(p) PROVE CountInv'
  BY <1>11, <1>12 DEF Start, Exit
<1>13. ASSUME UNCHANGED <<meter, meterState>>, NEW p \in Pids, NEW t \in SUBSET Sessions, Retitle(p, t)
       PROVE  CountInv'
  BY <1>11, <1>13 DEF Retitle
<1>14. QED
  BY <1>4, <1>6, <1>7, <1>8, <1>9, <1>10, <1>12, <1>13 DEF AgentsNext

(* For any transcripts, processes and messages, whatever a scan misses and  *)
(* wherever a poll finds a line unfinished: while a transcript is only      *)
(* appended to, a poll adds to its session's total what its new lines add,  *)
(* each message at its last count; and what a rate is measured from is      *)
(* never more than the total (modules/agents.rs, read_new_lines and ingest).*)
THEOREM AgentsTotalsExact == AgentsSpec => TotalsExact
<1>1. ASSUME CountInv PROVE TotalsKept
  <2>1. SUFFICES ASSUME Polled PROVE TotalsKept
    BY DEF TotalsKept
  <2>2. PICK seen \in SUBSET up, busy \in SUBSET up : Poll(seen, busy)
    BY <2>1 DEF Polled
  <2>3. ASSUME NEW s \in DOMAIN track'
        PROVE  LET was == IF s \in DOMAIN track THEN track[s] ELSE New
               IN /\ Grown(s, was) =>
                       Total(track'[s]) - Total(was) =
                         Counted(logs[s], since'[s], Len(logs[s])) - Counted(prev[s], since'[s], Len(prev[s]))
                  /\ anchors'[s] <= Total(track'[s])
    BY <1>1, <2>2, PollCounts
  <2>4. QED
    BY <2>3 DEF TotalsKept
<1>2. AgentsSpec => []CountInv
  BY CountStarts, CountKeeps, PTL DEF AgentsSpec
<1>3. CountInv => [TotalsKept]_agentVars
  BY <1>1
<1>4. QED
  BY <1>2, <1>3, PTL DEF TotalsExact
=============================================================================
