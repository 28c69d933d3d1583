------------------------------ MODULE Registry ------------------------------
(***************************************************************************)
(* `ezbar add`, `update` and `remove` (src/registry.rs): a plugin is       *)
(* picked from the index of a registry, its publisher is pinned, and the   *)
(* artifact is verified and written over the plugin's file; what was       *)
(* installed is recorded last.  A user runs one command at a time; it may  *)
(* be interrupted between any two of its steps, which leaves what it did.  *)
(* publishers.toml and installed.toml are renamed into place as a whole;   *)
(* nobody notices when that fails.                                         *)
(***************************************************************************)
EXTENDS Naturals

CONSTANTS
  Ids,
  Versions,    \* numbers of versions
  Index,       \* contents that a plugin's directory in a registry can have
  TORN,        \* a file of which a part is written
  NONE

(* An entry of an index: good is that the artifact has the entry's hash.    *)
Entries == UNION Index
Publishers == {e.publisher : e \in Entries} \ {NONE}

VARIABLES
  file,        \* each plugin's .wasm
  pins,        \* publishers.toml
  installed,   \* installed.toml: the version
  cmd,         \* the command that runs
  missed,      \* history: ids whose pin could not be written since the last removal
  whole,       \* history: versions that were written as a whole
  from         \* history: who signed what was installed since the last removal

vars == <<file, pins, installed, cmd, missed, whole, from>>

Idle == [at |-> "idle", id |-> NONE, entry |-> NONE]

TypeOK ==
  /\ file \in [Ids -> Versions \cup {TORN, NONE}]
  /\ pins \in [Ids -> Publishers \cup {NONE}]
  /\ installed \in [Ids -> Versions \cup {NONE}]
  /\ cmd \in [at : {"idle", "fetch", "write", "note", "unpin", "forget"},
              id : Ids \cup {NONE}, entry : Entries \cup {NONE}]
  /\ missed \in SUBSET Ids
  /\ whole \in [Ids -> SUBSET Versions]
  /\ from \in [Ids -> Publishers \cup {NONE}]

(* A plugin may have been copied there by hand. *)
Init ==
  /\ file \in [Ids -> {NONE, 1}]
  /\ pins = [i \in Ids |-> NONE] /\ installed = [i \in Ids |-> NONE]
  /\ cmd = Idle /\ missed = {}
  /\ whole = [i \in Ids |-> {}] /\ from = [i \in Ids |-> NONE]

-----------------------------------------------------------------------------
(* add *)

(* pick_in_window: the newest entry this host can load. *)
InWindow(index) == {e \in index : e.wit}
Picked(index) == {e \in InWindow(index) : \A f \in InWindow(index) : f.version <= e.version}

(* check_publisher: an unsigned entry passes, another publisher does not.   *)
(* Faulty variant: nobody compares.                                         *)
Refused_Never(i, e) == FALSE
Refused(i, e) == e.publisher # NONE /\ pins[i] \notin {NONE, e.publisher}

(* An id is pinned at the first signed entry, or the pin is not written and *)
(* the installation goes on.                                                *)
Pin(i, e) ==
  IF e.publisher # NONE /\ pins[i] = NONE
    THEN \/ pins' = [pins EXCEPT ![i] = e.publisher] /\ UNCHANGED missed
         \/ missed' = missed \cup {i} /\ UNCHANGED pins
    ELSE UNCHANGED <<pins, missed>>

(* The publisher is pinned before anything is fetched.  Faulty variant: a   *)
(* publisher is checked and not pinned.                                     *)
Resolve_NoPin(i, e) ==
  /\ cmd.at = "idle" /\ ~Refused(i, e)
  /\ cmd' = [at |-> "fetch", id |-> i, entry |-> e]
  /\ UNCHANGED <<file, pins, installed, missed, whole, from>>

Resolve(i, e) ==
  /\ cmd.at = "idle" /\ ~Refused(i, e)
  /\ Pin(i, e)
  /\ cmd' = [at |-> "fetch", id |-> i, entry |-> e]
  /\ UNCHANGED <<file, installed, whole, from>>

Add(i) == \E index \in Index : \E e \in Picked(index) : Resolve(i, e)

(* update skips a plugin whose newest version it has, and lets add read the *)
(* registry again.                                                          *)
Newer(i) == \E index \in Index : \E e \in Picked(index) : installed[i] # NONE => e.version > installed[i]
Update(i) == Newer(i) /\ Add(i)

(* The artifact has the hash of its entry; fs::write empties the file.      *)
(* Faulty variant: the version is recorded before it is written.            *)
Fetch_Records ==
  /\ cmd.at = "fetch" /\ cmd.entry.good
  /\ file' = [file EXCEPT ![cmd.id] = TORN]
  /\ installed' = [installed EXCEPT ![cmd.id] = cmd.entry.version]
  /\ cmd' = [cmd EXCEPT !.at = "write"]
  /\ UNCHANGED <<pins, missed, whole, from>>

Fetch ==
  /\ cmd.at = "fetch" /\ cmd.entry.good
  /\ file' = [file EXCEPT ![cmd.id] = TORN]
  /\ cmd' = [cmd EXCEPT !.at = "write"]
  /\ UNCHANGED <<pins, installed, missed, whole, from>>

Write ==
  /\ cmd.at = "write" /\ cmd' = [cmd EXCEPT !.at = "note"]
  /\ file' = [file EXCEPT ![cmd.id] = cmd.entry.version]
  /\ whole' = [whole EXCEPT ![cmd.id] = @ \cup {cmd.entry.version}]
  /\ from' = IF cmd.entry.publisher = NONE THEN from ELSE [from EXCEPT ![cmd.id] = cmd.entry.publisher]
  /\ UNCHANGED <<pins, installed, missed>>

(* record_installed: nobody notices when it fails. *)
Note ==
  /\ cmd.at = "note" /\ cmd' = Idle
  /\ installed' \in {installed, [installed EXCEPT ![cmd.id] = cmd.entry.version]}
  /\ UNCHANGED <<file, pins, missed, whole, from>>

-----------------------------------------------------------------------------
(* remove: the file, its consent (see Consent), its pin, its record; the    *)
(* last two may stay when they cannot be written.                           *)

Remove(i) ==
  /\ cmd.at = "idle" /\ file[i] # NONE
  /\ file' = [file EXCEPT ![i] = NONE]
  /\ from' = [from EXCEPT ![i] = NONE] /\ missed' = missed \ {i}
  /\ cmd' = [Idle EXCEPT !.at = "unpin", !.id = i]
  /\ UNCHANGED <<pins, installed, whole>>

Unpin ==
  /\ cmd.at = "unpin" /\ cmd' = [cmd EXCEPT !.at = "forget"]
  /\ pins' \in {pins, [pins EXCEPT ![cmd.id] = NONE]}
  /\ UNCHANGED <<file, installed, missed, whole, from>>

Forget ==
  /\ cmd.at = "forget" /\ cmd' = Idle
  /\ installed' \in {installed, [installed EXCEPT ![cmd.id] = NONE]}
  /\ UNCHANGED <<file, pins, missed, whole, from>>

(* An artifact that does not verify, an I/O error, or Ctrl-C. *)
Stop == cmd.at # "idle" /\ cmd' = Idle /\ UNCHANGED <<file, pins, installed, missed, whole, from>>

Next ==
  \/ \E i \in Ids : Add(i) \/ Update(i) \/ Remove(i)
  \/ Fetch \/ Write \/ Note \/ Unpin \/ Forget \/ Stop

Spec == Init /\ [][Next]_vars

-----------------------------------------------------------------------------
(* Properties *)

(* Whatever is installed under an id between two removals, and is signed,   *)
(* is from one publisher (registry.rs 118-121), interrupted commands        *)
(* included, unless its pin could not be written meanwhile, which the code  *)
(* does not notice (122); and once a pin is there, whatever was missed      *)
(* before, nothing is installed that is from another publisher.             *)
OnePublisher ==
  [][\A i \in Ids :
       /\ from[i] # NONE /\ i \notin missed => from'[i] \in {from[i], NONE}
       /\ pins[i] # NONE => from'[i] \in {from[i], pins[i], NONE}]_vars

(* The version on record was installed as a whole: an upgrade that was      *)
(* interrupted does not look done, and update takes it up again             *)
(* (registry.rs 206-210).                                                   *)
RecordBehind == \A i \in Ids : installed[i] # NONE => installed[i] \in whole[i]
=============================================================================
