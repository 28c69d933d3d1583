------------------------------ MODULE Launcher ------------------------------
(***************************************************************************)
(* The processes of ezbar (src/main.rs 405-462, src/launcher.rs).  A       *)
(* supervisor spawns a renderer child, waits for it, sleeps and spawns the *)
(* next, forever.  A renderer draws the bar.  Either may be killed at any  *)
(* moment, and a renderer outlives its supervisor.                         *)
(*                                                                         *)
(* Two abstract Unix sockets act as locks.  The supervisor's is named by   *)
(* the environment as spelled; the renderer's by the canonical path of the *)
(* Wayland socket, so that spellings of one session share it.  The kernel  *)
(* releases a lock when the process that bound it ends.                    *)
(***************************************************************************)
EXTENDS Naturals, FiniteSets

CONSTANTS
  Procs,       \* process ids; one is reused once its process is gone
  Envs,        \* spellings of (XDG_RUNTIME_DIR, WAYLAND_DISPLAY)
  Sessions,    \* canonical names of Wayland sockets (renderer_name)
  SessionOf,   \* SessionOf[e] is the session that spelling e denotes
  NULL

ASSUME LauncherAssumption ==
  /\ SessionOf \in [Envs -> Sessions]
  /\ NULL \notin Procs

VARIABLES
  pc,          \* where each process is
  env,         \* the environment it was started with
  child,       \* the child a supervisor waits for
  supLock,     \* per spelling, the process that bound the supervisor's name
  barLock      \* per session, the process that bound the renderer's name

vars == <<pc, env, child, supLock, barLock>>

(* "gone" no process; a supervisor is at "guard", "spawn", "wait" or        *)
(* "sleep"; a renderer at "rguard" or "bar".                                *)
PCs == {"gone", "guard", "spawn", "wait", "sleep", "rguard", "bar"}
SupervisorPCs == {"spawn", "wait", "sleep"}

TypeOK ==
  /\ pc \in [Procs -> PCs]
  /\ env \in [Procs -> Envs]
  /\ child \in [Procs -> Procs \cup {NULL}]
  /\ supLock \in [Envs -> Procs \cup {NULL}]
  /\ barLock \in [Sessions -> Procs \cup {NULL}]
  /\ \A p \in Procs : child[p] # NULL <=> pc[p] = "wait"

Init ==
  /\ pc = [p \in Procs |-> "gone"]
  /\ env \in [Procs -> Envs]
  /\ child = [p \in Procs |-> NULL]
  /\ supLock = [e \in Envs |-> NULL]
  /\ barLock = [s \in Sessions |-> NULL]

Goto(p, l) == pc' = [pc EXCEPT ![p] = l]

(* The kernel closes the sockets of a process that ends. *)
Released(lock, p) == [x \in DOMAIN lock |-> IF lock[x] = p THEN NULL ELSE lock[x]]

End(p) ==
  /\ Goto(p, "gone")
  /\ supLock' = Released(supLock, p)
  /\ barLock' = Released(barLock, p)

-----------------------------------------------------------------------------
Free == {p \in Procs : pc[p] = "gone" /\ \A q \in Procs : child[q] # p}

(* exec_always runs ezbar again, or a user starts one with EZBAR_CHILD=1.   *)
(* Bound: a launch leaves a free process id for a child.                    *)
Start(p, e, l) ==
  /\ p \in Free
  /\ Free # {p}
  /\ Goto(p, l)
  /\ env' = [env EXCEPT ![p] = e]
  /\ child' = [child EXCEPT ![p] = NULL]
  /\ UNCHANGED <<supLock, barLock>>

Launch(p) == \E e \in Envs : Start(p, e, "guard")
Foreground(p) == \E e \in Envs : Start(p, e, "rguard")

(* supervisor_guard: take the name, or exit when it is taken.              *)
TakeSupervisorGuard(p) ==
  /\ pc[p] = "guard"
  /\ supLock[env[p]] = NULL
  /\ supLock' = [supLock EXCEPT ![env[p]] = p]
  /\ Goto(p, "spawn")
  /\ UNCHANGED <<env, child, barLock>>

(* An occupied name is a quiet exit; an error of bind is an exit with 1. *)
LeaveSupervisorGuard(p) ==
  /\ pc[p] = "guard"
  /\ End(p)
  /\ UNCHANGED <<env, child>>

SpawnChild(p, q) ==
  /\ pc[p] = "spawn"
  /\ q \in Free
  /\ pc' = [pc EXCEPT ![p] = "wait", ![q] = "rguard"]
  /\ env' = [env EXCEPT ![q] = env[p]]
  /\ child' = [child EXCEPT ![p] = q, ![q] = NULL]
  /\ UNCHANGED <<supLock, barLock>>

(* current_exe or spawn failed: log, sleep and try again. *)
SpawnFails(p) ==
  /\ pc[p] = "spawn"
  /\ Goto(p, "sleep")
  /\ UNCHANGED <<env, child, supLock, barLock>>

(* status() returns once the child ended, cleanly or not. *)
ReapChild(p) ==
  /\ pc[p] = "wait"
  /\ pc[child[p]] = "gone"
  /\ Goto(p, "sleep")
  /\ child' = [child EXCEPT ![p] = NULL]
  /\ UNCHANGED <<env, supLock, barLock>>

(* The 500 ms backoff is over.  Faulty variant: the loop is not taken again. *)
Wake_Once(p) ==
  /\ pc[p] = "sleep"
  /\ UNCHANGED vars

Wake(p) ==
  /\ pc[p] = "sleep"
  /\ Goto(p, "spawn")
  /\ UNCHANGED <<env, child, supLock, barLock>>

-----------------------------------------------------------------------------
(* renderer_guard, held for all of run_bar *)

(* Faulty variants: a foreground launch bypasses the guard; the renderer    *)
(* replaces the one that runs.                                              *)
TakeRendererGuard_Replaces(p) ==
  LET s == SessionOf[env[p]]
  IN  /\ pc[p] = "rguard"
      /\ barLock' = [barLock EXCEPT ![s] = p]
      /\ pc' = [q \in Procs |-> IF q = p THEN "bar" ELSE IF q = barLock[s] THEN "gone" ELSE pc[q]]
      /\ UNCHANGED <<env, child, supLock>>

TakeRendererGuard_Bypass(p) ==
  /\ pc[p] = "rguard"
  /\ barLock' = [barLock EXCEPT ![SessionOf[env[p]]] = p]
  /\ Goto(p, "bar")
  /\ UNCHANGED <<env, child, supLock>>

TakeRendererGuard(p) ==
  /\ pc[p] = "rguard"
  /\ barLock[SessionOf[env[p]]] = NULL
  /\ barLock' = [barLock EXCEPT ![SessionOf[env[p]]] = p]
  /\ Goto(p, "bar")
  /\ UNCHANGED <<env, child, supLock>>

(* Occupied: exit with Ok; a bind or /proc error: exit with 1. *)
LeaveRendererGuard(p) ==
  /\ pc[p] = "rguard"
  /\ End(p)
  /\ UNCHANGED <<env, child>>

(* The bar crashes, or run_bar returns because the compositor went away.    *)
BarEnds(p) ==
  /\ pc[p] = "bar"
  /\ End(p)
  /\ UNCHANGED <<env, child>>

(* SIGKILL of a supervisor: its child is orphaned and runs on.              *)
KillSupervisor(p) ==
  /\ pc[p] \in SupervisorPCs
  /\ End(p)
  /\ child' = [child EXCEPT ![p] = NULL]
  /\ UNCHANGED env

Next ==
  \E p \in Procs :
    \/ Launch(p)
    \/ Foreground(p)
    \/ TakeSupervisorGuard(p)
    \/ LeaveSupervisorGuard(p)
    \/ \E q \in Procs : SpawnChild(p, q)
    \/ SpawnFails(p)
    \/ ReapChild(p)
    \/ Wake(p)
    \/ TakeRendererGuard(p)
    \/ LeaveRendererGuard(p)
    \/ BarEnds(p)
    \/ KillSupervisor(p)

Spec == Init /\ [][Next]_vars

(* The supervisor loop and the start of a renderer run on.  Taking a free   *)
(* guard and spawning a child may fail now and then (SpawnFails, the error  *)
(* half of LeaveRendererGuard), not every time they are tried.              *)
FairSpec ==
  /\ Spec
  /\ \A p \in Procs :
       /\ WF_vars(TakeSupervisorGuard(p) \/ LeaveSupervisorGuard(p))
       /\ WF_vars(SpawnFails(p) \/ \E q \in Procs : SpawnChild(p, q))
       /\ SF_vars(\E q \in Procs : SpawnChild(p, q))
       /\ WF_vars(ReapChild(p))
       /\ WF_vars(Wake(p))
       /\ WF_vars(TakeRendererGuard(p) \/ LeaveRendererGuard(p))
       /\ SF_vars(TakeRendererGuard(p))

-----------------------------------------------------------------------------
(* Properties *)

Bars(s) == {p \in Procs : pc[p] = "bar" /\ SessionOf[env[p]] = s}

(* At most one process draws a session, orphaned renderers and foreground   *)
(* launches included (main.rs 447-449).                                     *)
OneBar == \A s \in Sessions : \A p, q \in Bars(s) : p = q

(* At most one supervisor per spelling of the session's environment.        *)
OneSupervisorPerEnv ==
  \A p, q \in Procs :
    pc[p] \in SupervisorPCs /\ pc[q] \in SupervisorPCs /\ env[p] = env[q] => p = q

(* A taken name has a living owner in the role the name stands for: no lock *)
(* survives a crash or a kill (main.rs 421-422).                            *)
NoStaleLock ==
  /\ \A e \in Envs : supLock[e] # NULL =>
       pc[supLock[e]] \in SupervisorPCs /\ env[supLock[e]] = e
  /\ \A s \in Sessions : barLock[s] # NULL => barLock[s] \in Bars(s)

(* As long as a supervisor of a session lives, a session without a bar gets *)
(* one again, whether its own child crashed or an orphan it waited for.     *)
BarReturns ==
  \A p \in Procs, e \in Envs :
    pc[p] \in SupervisorPCs /\ env[p] = e
      ~> Bars(SessionOf[e]) # {} \/ pc[p] \notin SupervisorPCs

(* The launcher implements the abstract singleton. *)
Abstract == INSTANCE Singleton WITH bars <- [s \in Sessions |-> Bars(s)]
ImplementsSingleton == Abstract!Spec
=============================================================================
