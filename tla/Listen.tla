------------------------------- MODULE Listen -------------------------------
(* The custom module's listen form (modules/custom.rs): a command that runs  *)
(* as long as the module does, every line of its output a new text; started  *)
(* again when it ends, killed when the module is dropped or rebuilt.         *)
EXTENDS Integers, Sequences, FiniteSets

CONSTANTS
  MaxLines,    \* bound: changes of what the command watches
  MaxEnds,     \* bound: commands that end, starts that fail, and rebuilds
  NONE

VARIABLES
  value,       \* what the command watches, counted
  child,       \* the running command: "none", "runs", "silent" (its output closed), "ended"
  printed,     \* its lines nobody read yet
  at,          \* the stream: "spawn", "read", "wait", "sleep"
  pipe,        \* channel(1) and the sender's slot
  text,        \* what the module shows
  ends

vars == <<value, child, printed, at, pipe, text, ends>>

Init ==
  /\ value = 0 /\ child = "none" /\ printed = <<>> /\ at = "spawn"
  /\ pipe = <<>> /\ text = NONE /\ ends = 0

End == ends < MaxEnds /\ ends' = ends + 1

(* The command: a line for what it finds when it starts, and for every       *)
(* change; it ends, or closes its output and runs on.                        *)
Change ==
  /\ value < MaxLines /\ value' = value + 1
  /\ printed' = IF child = "runs" THEN Append(printed, value') ELSE printed
  /\ UNCHANGED <<child, at, pipe, text, ends>>
Exits ==
  /\ child = "runs" /\ End /\ child' = "ended"
  /\ UNCHANGED <<value, printed, at, pipe, text>>
Closes ==
  /\ child = "runs" /\ End /\ child' = "silent"
  /\ UNCHANGED <<value, printed, at, pipe, text>>

-----------------------------------------------------------------------------
(* listen_stream. *)
Spawn ==
  /\ at = "spawn"
  /\ \/ child' = "runs" /\ printed' = <<value>> /\ at' = "read" /\ UNCHANGED ends
     \/ End /\ at' = "sleep" /\ UNCHANGED <<child, printed>>
  /\ UNCHANGED <<value, pipe, text>>

NextLine ==
  /\ at = "read" /\ printed # <<>> /\ Len(pipe) < 2
  /\ pipe' = Append(pipe, Head(printed)) /\ printed' = Tail(printed)
  /\ UNCHANGED <<value, child, at, text, ends>>

(* The end of the output: wait for the command itself, then sleep.           *)
Eof ==
  /\ at = "read" /\ printed = <<>> /\ child \in {"silent", "ended"} /\ at' = "wait"
  /\ UNCHANGED <<value, child, printed, pipe, text, ends>>
Reap ==
  /\ at = "wait" /\ child = "ended" /\ child' = "none" /\ at' = "sleep"
  /\ UNCHANGED <<value, printed, pipe, text, ends>>

(* Faulty variant: a command that ended is not started again. *)
Rested_Ends == "sleep"
Rested == "spawn"
Slept ==
  /\ at = "sleep" /\ at' = Rested
  /\ UNCHANGED <<value, child, printed, pipe, text, ends>>

(* update: Msg::Data. *)
Data ==
  /\ pipe # <<>> /\ text' = Head(pipe) /\ pipe' = Tail(pipe)
  /\ UNCHANGED <<value, child, printed, at, ends>>

(* A new configuration drops the stream and its channel, and kill_on_drop    *)
(* the command; a new stream starts its own.                                 *)
Rebuild ==
  /\ End /\ at' = "spawn" /\ child' = "none" /\ printed' = <<>> /\ pipe' = <<>>
  /\ text' = NONE
  /\ UNCHANGED value

Next == Change \/ Exits \/ Closes \/ Spawn \/ NextLine \/ Eof \/ Reap \/ Slept \/ Data \/ Rebuild
Spec == /\ Init /\ [][Next]_vars
        /\ WF_vars(Spawn) /\ WF_vars(NextLine) /\ WF_vars(Eof) /\ WF_vars(Reap) /\ WF_vars(Slept) /\ WF_vars(Data)

-----------------------------------------------------------------------------
(* Whatever ends in between, the module comes to show what the command       *)
(* watches, unless a command runs on with its output closed: it is waited    *)
(* for.                                                                      *)
LinesFollow == <>[](child = "silent" \/ (text # NONE /\ text = value))
=============================================================================
