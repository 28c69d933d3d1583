------------------------------- MODULE Consent -------------------------------
(***************************************************************************)
(* Which plugins may use the capabilities that the config gives them       *)
(* (src/grants.rs): grants.toml records the bytes a plugin was approved    *)
(* with.  It is written by `ezbar grant` and `ezbar remove`, of which a    *)
(* user runs one at a time, and by the bar, which records the first sight  *)
(* of a plugin when it builds it.  Any of them may end between two steps,  *)
(* and all save through one temporary name.                                *)
(*                                                                         *)
(* A plugin's bytes, their hash and their version are one value.           *)
(***************************************************************************)
EXTENDS Naturals, FiniteSets

CONSTANTS
  Ids,         \* plugins
  Managed,     \* those the commands name
  Versions,    \* numbers of versions
  Caps,        \* capabilities; the dangerous tier among them
  Dangerous,
  Declares,    \* Declares[v] is what the manifest of v asks for
  Overlap,     \* two processes may save at the same time
  TORN,        \* a file of which a part is written
  NONE

(* A user has some version at first. *)
ASSUME ConsentAssumption == Managed \subseteq Ids /\ 1 \in Versions

Procs == {"cli", "bar"}

VARIABLES
  file,        \* each plugin's .wasm
  moved,       \* it changed since the bar took its signature
  grants,      \* grants.toml; an unreadable file has no records
  tmp,         \* its temporary file
  fd,          \* the file under which a writer's open file is by now
  caps,        \* what [modules] of config.toml gives each plugin
  cli, bar,    \* where the command and the bar's reload are
  rw,          \* the read-modify-write of grants.toml in each process
  run,         \* the plugins the bar runs
  consent      \* history: what record and forget have saved

disk == <<file, moved, caps>>
store == <<grants, tmp, fd>>
vars == <<disk, store, cli, bar, rw, run, consent>>

Content == Versions \cup {TORN, NONE}
Doc == [Ids -> Content]
Empty == [i \in Ids |-> NONE]
Idle == [at |-> "idle", id |-> NONE]
NoRw == [at |-> "none", id |-> NONE, val |-> NONE, doc |-> Empty]
Run == [cfg : SUBSET Caps, caps : SUBSET Caps, trusted : BOOLEAN]

TypeOK ==
  /\ file \in [Ids -> Content] /\ moved \in [Ids -> BOOLEAN]
  /\ grants \in Doc /\ tmp \in Doc \cup {NONE}
  /\ fd \in [Procs -> {"tmp", "live", NONE}]
  /\ caps \in [Ids -> SUBSET Caps]
  /\ cli.at \in {"idle", "approve", "forget"}
  /\ bar.at \in {"idle", "next", "verdict", "first", "build"}
  /\ \A p \in Procs : rw[p].at \in {"none", "load", "open", "write", "rename", "saved", "failed"}
  /\ run \in [Ids -> Run \cup {NONE}]

(* Nothing is on record yet. *)
Init ==
  /\ file \in [Ids -> {NONE, 1}]
  /\ moved = [i \in Ids |-> FALSE]
  /\ grants = Empty /\ tmp = NONE /\ fd = [p \in Procs |-> NONE]
  /\ caps \in [Ids -> {Caps \ Dangerous}]
  /\ cli = Idle
  /\ bar = [at |-> "idle", todo |-> {}, id |-> NONE, hash |-> NONE, conf |-> caps, trusted |-> TRUE]
  /\ rw = [p \in Procs |-> NoRw]
  /\ run = [i \in Ids |-> NONE]
  /\ consent = Empty

-----------------------------------------------------------------------------
(* record and forget: read grants.toml, change an entry, write a temporary  *)
(* file and rename it                                                       *)

At(p, here, there) == rw[p].at = here /\ rw' = [rw EXCEPT ![p].at = there]
Other(p) == CHOOSE q \in Procs : q # p
Resting == UNCHANGED <<disk, cli, bar, run>>

Saving(p) == rw[p].at \in {"open", "write", "rename"}

(* Forgetting an id without a record writes nothing. *)
Load(p) ==
  LET doc == [grants EXCEPT ![rw[p].id] = rw[p].val]
  IN  /\ rw[p].at = "load"
      /\ Overlap \/ ~Saving(Other(p))
      /\ rw' = [rw EXCEPT ![p].doc = doc, ![p].at = IF doc = grants /\ rw[p].val = NONE THEN "failed" ELSE "open"]
      /\ UNCHANGED <<store, consent>> /\ Resting

(* fs::write empties the file, or creates it. *)
OpenTemp(p) ==
  /\ At(p, "open", "write")
  /\ tmp' = Empty /\ fd' = [fd EXCEPT ![p] = "tmp"]
  /\ UNCHANGED <<grants, consent>> /\ Resting

(* Over what the other process wrote into the same file, the text of a      *)
(* shorter table leaves a tail that does not parse.                         *)
Written(p, old) == IF old = Empty THEN {rw[p].doc} ELSE {rw[p].doc, Empty}

WriteTemp(p) ==
  /\ At(p, "write", "rename")
  /\ IF fd[p] = "tmp" THEN tmp' \in Written(p, tmp) ELSE UNCHANGED tmp
  /\ IF fd[p] = "live" THEN grants' \in Written(p, grants) ELSE UNCHANGED grants
  /\ fd' = [fd EXCEPT ![p] = NONE]
  /\ UNCHANGED consent /\ Resting

(* The other process's open file is grants.toml from now on, or nobody's. *)
Moved(q) == CASE fd[q] = "tmp" -> "live" [] fd[q] = "live" -> NONE [] OTHER -> NONE

Rename(p) ==
  /\ tmp # NONE /\ At(p, "rename", "saved")
  /\ grants' = tmp /\ tmp' = NONE
  /\ fd' = [fd EXCEPT ![Other(p)] = Moved(Other(p))]
  /\ consent' = [consent EXCEPT ![rw[p].id] = rw[p].val]
  /\ Resting

(* The I/O fails, or the temporary file is gone: record returns false. *)
SaveFails(p) ==
  /\ Saving(p)
  /\ rw' = [rw EXCEPT ![p].at = "failed"]
  /\ fd' = [fd EXCEPT ![p] = NONE]
  /\ UNCHANGED <<grants, tmp, consent>> /\ Resting

Save(p) == Load(p) \/ OpenTemp(p) \/ WriteTemp(p) \/ Rename(p) \/ SaveFails(p)
Saved(p) == rw[p].at \in {"saved", "failed"} /\ rw' = [rw EXCEPT ![p] = NoRw]
Begin(p, i, v) == rw' = [rw EXCEPT ![p] = [at |-> "load", id |-> i, val |-> v, doc |-> Empty]]

-----------------------------------------------------------------------------
(* The commands *)

Changed(i, content) ==
  /\ file' = [file EXCEPT ![i] = content]
  /\ moved' = [moved EXCEPT ![i] = TRUE]

(* ezbar grant: the config first, and no capability of the dangerous tier   *)
(* unless it is asked for; then the record.                                 *)
Grant(i, danger) ==
  /\ cli.at = "idle" /\ file[i] # NONE
  /\ caps' = IF file[i] = TORN THEN caps
             ELSE [caps EXCEPT ![i] = @ \cup (Declares[file[i]] \ (IF danger THEN {} ELSE Dangerous))]
  /\ cli' = [Idle EXCEPT !.at = "approve", !.id = i]
  /\ Begin("cli", i, file[i])
  /\ UNCHANGED <<file, moved, store, bar, run, consent>>

Approve ==
  /\ cli.at = "approve" /\ Saved("cli") /\ cli' = Idle
  /\ UNCHANGED <<disk, store, bar, run, consent>>

(* ezbar remove: the file, then its record. *)
RemovePlugin(i) ==
  /\ cli.at = "idle" /\ file[i] # NONE
  /\ Changed(i, NONE)
  /\ cli' = [Idle EXCEPT !.at = "forget", !.id = i]
  /\ Begin("cli", i, NONE)
  /\ UNCHANGED <<caps, store, bar, run, consent>>

Forget ==
  /\ cli.at = "forget" /\ Saved("cli") /\ cli' = Idle
  /\ UNCHANGED <<disk, store, bar, run, consent>>

(* The command is refused, fails, or is interrupted. *)
Stop ==
  /\ cli.at # "idle" /\ cli' = Idle
  /\ rw' = [rw EXCEPT !["cli"] = NoRw] /\ fd' = [fd EXCEPT !["cli"] = NONE]
  /\ UNCHANGED <<disk, grants, tmp, bar, run, consent>>

-----------------------------------------------------------------------------
(* The bar: a reload builds what is new or has changed *)

There == {i \in Ids : file[i] # NONE}

Reload ==
  /\ bar.at = "idle"
  /\ bar' = [at |-> "next", todo |-> There, id |-> NONE, hash |-> NONE, conf |-> caps, trusted |-> TRUE]
  /\ run' = [i \in Ids |-> IF i \in There THEN run[i] ELSE NONE]
  /\ UNCHANGED <<disk, store, cli, rw, consent>>

(* reconcile_modules: same config and same signature keep the instance. *)
Kept(i) == run[i] # NONE /\ run[i].cfg = bar.conf[i] /\ ~moved[i]

Keep(i) ==
  /\ bar.at = "next" /\ i \in bar.todo /\ Kept(i)
  /\ bar' = [bar EXCEPT !.todo = @ \ {i}]
  /\ UNCHANGED <<disk, store, cli, rw, run, consent>>

(* decide reads the bytes; when they are gone it withholds. *)
Hash(i) ==
  /\ bar.at = "next" /\ i \in bar.todo /\ ~Kept(i)
  /\ moved' = [moved EXCEPT ![i] = FALSE]
  /\ bar' = [bar EXCEPT !.at = IF file[i] = NONE THEN "build" ELSE "verdict", !.id = i, !.hash = file[i]]
  /\ run' = [run EXCEPT ![i] = NONE]
  /\ UNCHANGED <<file, caps, store, cli, rw, consent>>

Built(granted, trusted) ==
  /\ bar' = [bar EXCEPT !.at = "next", !.todo = @ \ {bar.id}, !.hash = NONE, !.id = NONE, !.trusted = TRUE]
  /\ run' = [run EXCEPT ![bar.id] =
       [cfg |-> bar.conf[bar.id], caps |-> IF granted THEN bar.conf[bar.id] ELSE {}, trusted |-> trusted]]

(* The bytes are those of the last consent that was recorded, if any. *)
Trusted == consent[bar.id] \in {NONE, bar.hash}

(* No record: record the first sight.  Faulty variant: any record will do.  *)
Verdict_AnyRecord ==
  /\ bar.at = "verdict"
  /\ IF grants[bar.id] = NONE
       THEN bar' = [bar EXCEPT !.at = "first", !.trusted = Trusted] /\ Begin("bar", bar.id, bar.hash) /\ UNCHANGED run
       ELSE Built(TRUE, Trusted) /\ UNCHANGED rw
  /\ UNCHANGED <<disk, store, cli, consent>>

Verdict ==
  /\ bar.at = "verdict"
  /\ IF grants[bar.id] = NONE
       THEN bar' = [bar EXCEPT !.at = "first", !.trusted = Trusted] /\ Begin("bar", bar.id, bar.hash) /\ UNCHANGED run
       ELSE Built(grants[bar.id] = bar.hash, Trusted) /\ UNCHANGED rw
  /\ UNCHANGED <<disk, store, cli, consent>>

(* Recorded or not, first sight is granted. *)
FirstSight ==
  /\ bar.at = "first" /\ Saved("bar") /\ Built(TRUE, bar.trusted)
  /\ UNCHANGED <<disk, store, cli, consent>>

Unreadable ==
  /\ bar.at = "build" /\ Built(FALSE, TRUE)
  /\ UNCHANGED <<disk, store, cli, rw, consent>>

Reloaded ==
  /\ bar.at = "next" /\ bar.todo = {} /\ bar' = [bar EXCEPT !.at = "idle"]
  /\ UNCHANGED <<disk, store, cli, rw, run, consent>>

(* The supervisor starts it again, with nothing built. *)
Crash ==
  /\ bar' = [bar EXCEPT !.at = "idle", !.todo = {}, !.id = NONE, !.hash = NONE, !.trusted = TRUE]
  /\ run' = [i \in Ids |-> NONE]
  /\ rw' = [rw EXCEPT !["bar"] = NoRw] /\ fd' = [fd EXCEPT !["bar"] = NONE]
  /\ UNCHANGED <<disk, grants, tmp, cli, consent>>

(* A plugin is copied over its file, by hand or by `ezbar add`, in steps.   *)
Deploy(i) ==
  /\ \E v \in (Versions \cup {TORN}) \ {file[i]} : Changed(i, v)
  /\ UNCHANGED <<caps, store, cli, bar, rw, run, consent>>

Command == \E i \in Managed : RemovePlugin(i) \/ \E d \in BOOLEAN : Grant(i, d)
CliStep == Approve \/ Forget \/ Stop
BarStep == Reload \/ (\E i \in Ids : Keep(i) \/ Hash(i)) \/ Verdict \/ FirstSight \/ Unreadable
           \/ Reloaded \/ Crash

Next == Command \/ CliStep \/ BarStep \/ (\E p \in Procs : Save(p)) \/ (\E i \in Managed : Deploy(i))
Spec == Init /\ [][Next]_vars

-----------------------------------------------------------------------------
(* Properties *)

(* A plugin whose bytes are not those of its last recorded consent runs     *)
(* without capabilities, whatever command or bar was interrupted while it   *)
(* saved (grants.rs 21-24).                                                 *)
BoundToBytes == \A i \in Ids : run[i] # NONE /\ run[i].caps # {} => run[i].trusted

(* A consent that was recorded stays on record: record and forget are       *)
(* atomic read-modify-writes (grants.rs 105).                               *)
SavedStays == \A i \in Ids : grants[i] = consent[i]
=============================================================================
