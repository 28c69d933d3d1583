----------------------------- MODULE MCLauncher -----------------------------
(* How a bar starts and what it then listens to, in one run: the processes  *)
(* of Launcher, the control socket of IpcSocket, the frames of FrameSlot,   *)
(* the edits of ConfigReload.  A behaviour is one of these parts, and the   *)
(* others rest.                                                             *)
EXTENDS Launcher, IpcSocket, FrameSlot

CONSTANTS GONE, EMPTY, BROKEN, DEFAULT, ERR, NONE

VARIABLES part, file, saving, saves, inotify, rx, at, second, held, queue, applied, active, picking, picks

(* Two spellings of one session. *)
MCAliases == {"wayland-0", "/run/user/wayland-0"}
MCAliasSessionOf == [e \in MCAliases |-> "s0"]

Conf == INSTANCE ConfigReload
  WITH Presets <- {"dark"}, MaxSaves <- 2, MaxPicks <- 1, MaxQueue <- 1, pc <- at

confVars == <<file, saving, saves, inotify, rx, at, second, held, queue, applied, active, picking, picks>>

MCInit ==
  /\ part \in {"launcher", "ipc", "frame", "config"}
  /\ part # "launcher" => env = [p \in Procs |-> "wayland-0"]
  /\ Init /\ IpcInit /\ FrameInit /\ Conf!Init

MCNext ==
  /\ UNCHANGED part
  /\ \/ part = "launcher" /\ Next /\ UNCHANGED <<ipcVars, frameVars, confVars>>
     \/ part = "ipc" /\ IpcNext /\ UNCHANGED <<vars, frameVars, confVars>>
     \/ part = "frame" /\ FrameNext /\ UNCHANGED <<vars, ipcVars, confVars>>
     \/ part = "config" /\ Conf!Next /\ UNCHANGED <<vars, ipcVars, frameVars>>

(* The fairness of each part, asked of it while it is the one that runs. *)
LauncherFairness ==
  \A p \in Procs :
    /\ WF_vars(part = "launcher" /\ (TakeSupervisorGuard(p) \/ LeaveSupervisorGuard(p)))
    /\ WF_vars(part = "launcher" /\ (SpawnFails(p) \/ \E q \in Procs : SpawnChild(p, q)))
    /\ SF_vars(part = "launcher" /\ \E q \in Procs : SpawnChild(p, q))
    /\ WF_vars(part = "launcher" /\ ReapChild(p))
    /\ WF_vars(part = "launcher" /\ Wake(p))
    /\ WF_vars(part = "launcher" /\ (TakeRendererGuard(p) \/ LeaveRendererGuard(p)))
    /\ SF_vars(part = "launcher" /\ TakeRendererGuard(p))

StreamFairness ==
  /\ \A p \in Listeners : WF_ipcVars(part = "ipc" /\ IpcStream(p))
  /\ WF_frameVars(part = "frame" /\ writing /\ Drive)
  /\ WF_frameVars(part = "frame" /\ started = 0 /\ StartStream)
  /\ WF_frameVars(part = "frame" /\ TickStream)
  /\ WF_frameVars(part = "frame" /\ HandleTick)
  /\ WF_frameVars(part = "frame" /\ Render)
  /\ WF_confVars(part = "config" /\ Conf!Deliver)
  /\ WF_confVars(part = "config" /\ Conf!Watch)
  /\ WF_confVars(part = "config" /\ Conf!Update)

MCSpec ==
  /\ MCInit /\ [][MCNext]_<<part, vars, ipcVars, frameVars, confVars>>
  /\ LauncherFairness /\ StreamFairness

(* While a supervisor lives, a bar comes back. *)
BarComesBack == part = "launcher" => BarReturns

(* A bar that starts leaves a control socket that answers, the last frame   *)
(* of a guest is drawn, and the last edit of the configuration is the one   *)
(* that runs.                                                               *)
StreamsServe ==
  /\ part = "ipc" => SocketAnswers
  /\ part = "frame" => FrameDrawn
  /\ part = "config" => Conf!EditApplied
=============================================================================
