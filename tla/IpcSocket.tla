------------------------------ MODULE IpcSocket ------------------------------
(***************************************************************************)
(* The control socket of `ezbar msg` (src/ipc.rs 9-15, ipc_stream in       *)
(* src/main.rs 1268-1320).  Every bar of a user shares one socket file,    *)
(* whatever its Wayland session, because the file is named by the runtime  *)
(* directory alone.  A bar probes the file before it removes it, with a    *)
(* system call for each step.  Bars come and go as Singleton allows: one   *)
(* per session, which the launcher guarantees.                             *)
(***************************************************************************)
EXTENDS Naturals, FiniteSets

CONSTANTS
  Listeners,   \* bars; an id is reused once its file is gone
  Displays,    \* Wayland sessions of one runtime directory
  NOFILE

VARIABLES
  bars,        \* the bar of each session, as in Singleton
  sock,        \* where ipc_stream of each bar is
  path         \* the bar whose listener the file is, alive or not, or NOFILE

ipcVars == <<bars, sock, path>>

Single == INSTANCE Singleton WITH Procs <- Listeners, Sessions <- Displays

(* "mute" runs without IPC; "serve" accepts on its listener. *)
Starting == {"exists", "connect", "unlink", "bind"}
SockPCs == Starting \cup {"off", "mute", "serve"}

IpcTypeOK ==
  /\ bars \in [Displays -> SUBSET Listeners]
  /\ sock \in [Listeners -> SockPCs]
  /\ path \in Listeners \cup {NOFILE}
  /\ \A p \in Listeners : sock[p] = "off" <=> \A s \in Displays : p \notin bars[s]

IpcInit ==
  /\ Single!Init
  /\ sock = [p \in Listeners |-> "off"]
  /\ path = NOFILE

SockGoto(p, l) == sock' = [sock EXCEPT ![p] = l]

(* A connect to the file is answered. *)
Answered == path # NOFILE /\ sock[path] = "serve"

-----------------------------------------------------------------------------
(* A bar starts and iced runs its ipc_stream, once. *)
Begin(s, p) ==
  /\ sock[p] = "off" /\ path # p
  /\ Single!Start(s, p)
  /\ SockGoto(p, "exists")
  /\ UNCHANGED path

(* The bar ends or is killed: its listener closes, its file stays. *)
Finish(s) ==
  /\ Single!Stop(s)
  /\ sock' = [p \in Listeners |-> IF p \in bars[s] THEN "off" ELSE sock[p]]
  /\ UNCHANGED path

Exists(p) ==
  /\ sock[p] = "exists"
  /\ SockGoto(p, IF path = NOFILE THEN "bind" ELSE "connect")
  /\ UNCHANGED <<bars, path>>

(* Answered: run without IPC; else clear the file.  The faulty variant is   *)
(* the old unconditional remove.                                            *)
Connect_NoProbe(p) ==
  /\ sock[p] = "connect"
  /\ SockGoto(p, "unlink")
  /\ UNCHANGED <<bars, path>>

Connect(p) ==
  /\ sock[p] = "connect"
  /\ SockGoto(p, IF Answered THEN "mute" ELSE "unlink")
  /\ UNCHANGED <<bars, path>>

(* The faulty variant leaves a stale file in place. *)
Unlink_Keeps(p) ==
  /\ sock[p] = "unlink"
  /\ SockGoto(p, "bind")
  /\ UNCHANGED <<bars, path>>

Unlink(p) ==
  /\ sock[p] = "unlink"
  /\ path' = NOFILE
  /\ SockGoto(p, "bind")
  /\ UNCHANGED bars

(* bind and listen; an existing file is an error, and the bar is mute. *)
Bind(p) ==
  /\ sock[p] = "bind"
  /\ SockGoto(p, IF path = NOFILE THEN "serve" ELSE "mute")
  /\ path' = IF path = NOFILE THEN p ELSE path
  /\ UNCHANGED bars

IpcStream(p) == Exists(p) \/ Connect(p) \/ Unlink(p) \/ Bind(p)

IpcNext ==
  \/ \E s \in Displays : Finish(s) \/ \E p \in Listeners : Begin(s, p)
  \/ \E p \in Listeners : IpcStream(p)

IpcSpec == IpcInit /\ [][IpcNext]_ipcVars

(* The executor polls the stream of a running bar. *)
IpcFairness == \A p \in Listeners : WF_ipcVars(IpcStream(p))

-----------------------------------------------------------------------------
(* Properties *)

(* Bar p listens on the file, and no start-up that found the file dead      *)
(* before is still about to remove it.                                      *)
Kept(p) ==
  /\ Answered /\ path = p
  /\ \A q \in Listeners : sock[q] # "unlink"

(* From then on nobody takes the file from the bar while it runs, whichever *)
(* bars start and end meanwhile (main.rs 1273-1277).  Before, a start-up    *)
(* that probed the file when it was dead removes it under the new listener. *)
NoHijack ==
  [][\A p \in Listeners : Kept(p) => path' = p /\ (Kept(p)' \/ sock'[p] = "off")]_ipcVars

(* Whoever starts, after whatever crashes, the user ends up with a control  *)
(* socket that answers: the new bar's own, or that of a bar that was there  *)
(* first; a stale file never leaves both without one (main.rs 1288-1291).   *)
SocketAnswers == \A p \in Listeners : sock[p] = "exists" ~> sock[p] = "off" \/ Answered
=============================================================================
