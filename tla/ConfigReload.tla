---------------------------- MODULE ConfigReload ----------------------------
(***************************************************************************)
(* How an edit of config.toml reaches the bar, and the preset that a user  *)
(* selects (config_stream, read_parse and update in src/main.rs, load in   *)
(* src/config.rs).  An editor saves by renaming a new file over the old    *)
(* one, or in place, or leaves the path empty for a while; the watcher     *)
(* sleeps, drains its events, reads, and sends what it has read to the GUI *)
(* thread, which meanwhile may load the same files on its own account.     *)
(***************************************************************************)
EXTENDS Naturals, Sequences

CONSTANTS
  Presets,
  MaxSaves,    \* bound: saves of config.toml
  MaxPicks,    \* bound: presets selected, and reloads asked for
  MaxQueue,    \* messages that fit into the stream's channel
  GONE,        \* there is no file
  EMPTY,       \* an empty file, which is a configuration of defaults
  BROKEN,      \* a file that does not parse
  DEFAULT, ERR, NONE

VARIABLES
  file,        \* what is at the path of config.toml
  saving,      \* an editor is between the two halves of a save
  saves,       \* saves begun; the number of a save is its content
  inotify,     \* an event that the watcher's thread has yet to deliver
  rx,          \* there are events in the watcher's channel
  pc,          \* where config_stream is
  second,      \* it reads for the second time
  held,        \* what it has read
  queue,       \* the ConfigReloaded messages
  applied,     \* the configuration the bar runs
  active,      \* state.toml: the selected preset
  picking,     \* the preset of which the GUI thread writes state.toml
  picks        \* presets selected and reloads asked for

disk == <<file, saving, saves>>
watch == <<rx, pc, second, held>>
gui == <<applied, active, picking, picks>>
vars == <<disk, inotify, watch, queue, gui>>

Good == 0 .. MaxSaves
Content == Good \cup {GONE, EMPTY, BROKEN}
Config == [file : Good \cup {DEFAULT}, preset : Presets \cup {NONE}]
Held == [file : Content \cup {DEFAULT}, preset : Presets \cup {NONE}] \cup {ERR}

TypeOK ==
  /\ file \in Content /\ saving \in BOOLEAN /\ saves \in 0 .. MaxSaves
  /\ inotify \in BOOLEAN /\ rx \in BOOLEAN
  /\ pc \in {"recv", "drain", "exists", "read", "parse", "failed", "send"}
  /\ second \in BOOLEAN
  /\ held \in Held
  /\ queue \in Seq(Config \cup {ERR}) /\ Len(queue) <= MaxQueue
  /\ applied \in Config
  /\ active \in Presets \cup {NONE} /\ picking \in Presets \cup {NONE}
  /\ picks \in 0 .. MaxPicks

Init ==
  /\ file = 0 /\ saving = FALSE /\ saves = 0
  /\ inotify = FALSE /\ rx = FALSE
  /\ pc = "recv" /\ second = FALSE /\ held = ERR /\ queue = <<>>
  /\ applied = [file |-> 0, preset |-> NONE]
  /\ active = NONE /\ picking = NONE /\ picks = 0

-----------------------------------------------------------------------------
(* The editor *)

Puts(content) == file' = content /\ inotify' = TRUE /\ UNCHANGED <<watch, queue, gui>>

Begin ==
  /\ ~saving /\ saves < MaxSaves
  /\ saves' = saves + 1 /\ saving' = TRUE
  /\ \E content \in {GONE, EMPTY, BROKEN} : Puts(content)

(* What is saved need not parse. *)
End ==
  /\ saving /\ saving' = FALSE
  /\ \E content \in {saves, BROKEN} : Puts(content)
  /\ UNCHANGED saves

Replace ==
  /\ ~saving /\ saves < MaxSaves
  /\ saves' = saves + 1
  /\ \E content \in {saves + 1, BROKEN} : Puts(content)
  /\ UNCHANGED saving

-----------------------------------------------------------------------------
(* config_stream *)

Deliver ==
  /\ inotify /\ inotify' = FALSE /\ rx' = TRUE
  /\ UNCHANGED <<disk, pc, second, held, queue, gui>>

Goes(here, there) == pc = here /\ pc' = there

Recv == Goes("recv", "drain") /\ rx /\ UNCHANGED <<disk, inotify, rx, second, held, queue, gui>>

(* After the debounce, what came meanwhile is dropped: the file is yet to   *)
(* be read.                                                                 *)
Drain == Goes("drain", "exists") /\ rx' = FALSE /\ UNCHANGED <<disk, inotify, second, held, queue, gui>>

(* read_parse: is the file there, what is in it, which preset is selected?  *)
Exists ==
  /\ Goes("exists", IF file = GONE THEN "failed" ELSE "read")
  /\ UNCHANGED <<disk, inotify, rx, second, held, queue, gui>>

(* The watcher may hear of its own reading. *)
Read ==
  /\ Goes("read", "parse")
  /\ held' = [file |-> file, preset |-> NONE]
  /\ inotify' \in {inotify, TRUE}
  /\ UNCHANGED <<disk, rx, second, queue, gui>>

(* load_result: a file that is gone by now is one of defaults. *)
Loaded(content, preset) ==
  IF content = BROKEN THEN ERR
  ELSE [file |-> IF content \in Good THEN content ELSE DEFAULT, preset |-> preset]

Parse ==
  /\ pc = "parse"
  /\ held' = Loaded(held.file, active)
  /\ pc' = IF held.file = BROKEN THEN "failed" ELSE "send"
  /\ UNCHANGED <<disk, inotify, rx, second, queue, gui>>

(* Once more after a pause, then the error is what is sent. *)
Failed ==
  /\ Goes("failed", IF second THEN "send" ELSE "exists")
  /\ second' = TRUE /\ held' = ERR
  /\ UNCHANGED <<disk, inotify, rx, queue, gui>>

(* Faulty variant: what came while it was reading is dropped, too. *)
Send_Drains ==
  /\ Goes("send", "recv") /\ Len(queue) < MaxQueue
  /\ queue' = Append(queue, held) /\ second' = FALSE /\ held' = ERR /\ rx' = FALSE
  /\ UNCHANGED <<disk, inotify, gui>>

Send ==
  /\ Goes("send", "recv") /\ Len(queue) < MaxQueue
  /\ queue' = Append(queue, held) /\ second' = FALSE /\ held' = ERR
  /\ UNCHANGED <<disk, inotify, rx, gui>>

Watch == Recv \/ Drain \/ Exists \/ Read \/ Parse \/ Failed \/ Send

-----------------------------------------------------------------------------
(* update() *)

ConfigReloaded ==
  /\ picking = NONE /\ queue # <<>>
  /\ queue' = Tail(queue)
  /\ applied' = IF Head(queue) = ERR THEN applied ELSE Head(queue)
  /\ UNCHANGED <<disk, inotify, watch, active, picking, picks>>

(* load: what does not parse is the default, without a preset. *)
Load(preset) ==
  IF file = BROKEN THEN [file |-> DEFAULT, preset |-> NONE] ELSE Loaded(file, preset)

(* SelectPreset: fs::write empties state.toml first.  It may fail, and the  *)
(* load takes place all the same.                                           *)
SelectPreset(p) ==
  /\ picking = NONE /\ picks < MaxPicks
  /\ picks' = picks + 1
  /\ active' = NONE /\ picking' = p
  /\ UNCHANGED <<disk, inotify, watch, queue, applied>>

PresetSelected ==
  /\ picking # NONE /\ picking' = NONE
  /\ active' \in {picking, active}
  /\ applied' = Load(active')
  /\ UNCHANGED <<disk, inotify, watch, queue, picks>>

(* ezbar msg reload *)
Reload ==
  /\ picking = NONE /\ picks < MaxPicks
  /\ picks' = picks + 1 /\ applied' = Load(active)
  /\ UNCHANGED <<disk, inotify, watch, queue, active, picking>>

Update == ConfigReloaded \/ PresetSelected

Next ==
  \/ Begin \/ End \/ Replace \/ Deliver \/ Watch
  \/ Update \/ Reload \/ \E p \in Presets : SelectPreset(p)

Spec == Init /\ [][Next]_vars

(* The watcher's thread, its stream and the GUI thread run. *)
Fairness == WF_vars(Deliver) /\ WF_vars(Watch) /\ WF_vars(Update)
FairSpec == Spec /\ Fairness

-----------------------------------------------------------------------------
(* Properties *)

(* The last edit that is a configuration becomes the one that runs, however *)
(* saves, reads, retries, selections and reloads interleave, and whatever   *)
(* is in flight (main.rs 3203-3204).                                        *)
EditApplied == <>[](file \in Good => applied.file = file)

(* A reload keeps the preset that the user has selected (main.rs 3103).     *)
PresetStays == <>[](file \in Good => applied.preset = active)
=============================================================================
