--------------------------- MODULE Launcher_proofs ---------------------------
(***************************************************************************)
(* Theorems about Launcher, for any processes, spellings and sessions, and *)
(* about IpcSocket and FrameSlot, at the end.  Launcher's                  *)
(* inductive invariant adds to NoStaleLock its converse: a process in a    *)
(* role holds the lock of that role.  Together they make the locks the     *)
(* inverse of the roles, which is what mutual exclusion and the refinement *)
(* of Singleton rest on.                                                   *)
(***************************************************************************)
EXTENDS Launcher, IpcSocket, FrameSlot, TLAPS

(* Every supervisor past its guard and every bar holds its lock. *)
Held ==
  /\ \A p \in Procs : pc[p] \in SupervisorPCs => supLock[env[p]] = p
  /\ \A p \in Procs : pc[p] = "bar" => barLock[SessionOf[env[p]]] = p

IInv == TypeOK /\ NoStaleLock /\ Held

USE LauncherAssumption

(* Nothing runs and nothing is locked at first. *)
LEMMA InitIInv == Init => IInv
  BY DEF Init, IInv, TypeOK, NoStaleLock, Held, PCs, SupervisorPCs, Bars

(* Every action keeps the types, and that supervisors that wait, and only   *)
(* they, have a child.                                                      *)
LEMMA TypeStep == TypeOK /\ [Next]_vars => TypeOK'
<1> SUFFICES ASSUME TypeOK, [Next]_vars PROVE TypeOK'
  OBVIOUS
<1> USE DEF TypeOK, PCs, SupervisorPCs, Goto, End, Released, Free
<1>1. ASSUME NEW p \in Procs, Launch(p) PROVE TypeOK'
  BY <1>1 DEF Launch, Start
<1>2. ASSUME NEW p \in Procs, Foreground(p) PROVE TypeOK'
  BY <1>2 DEF Foreground, Start
<1>3. ASSUME NEW p \in Procs, TakeSupervisorGuard(p) PROVE TypeOK'
  BY <1>3 DEF TakeSupervisorGuard
<1>4. ASSUME NEW p \in Procs, LeaveSupervisorGuard(p) PROVE TypeOK'
  BY <1>4 DEF LeaveSupervisorGuard
<1>5. ASSUME NEW p \in Procs, NEW q \in Procs, SpawnChild(p, q) PROVE TypeOK'
  BY <1>5 DEF SpawnChild
<1>6. ASSUME NEW p \in Procs, SpawnFails(p) PROVE TypeOK'
  BY <1>6 DEF SpawnFails
<1>7. ASSUME NEW p \in Procs, ReapChild(p) PROVE TypeOK'
  BY <1>7 DEF ReapChild
<1>8. ASSUME NEW p \in Procs, Wake(p) PROVE TypeOK'
  BY <1>8 DEF Wake
<1>9. ASSUME NEW p \in Procs, TakeRendererGuard(p) PROVE TypeOK'
  BY <1>9 DEF TakeRendererGuard
<1>10. ASSUME NEW p \in Procs, LeaveRendererGuard(p) PROVE TypeOK'
  BY <1>10 DEF LeaveRendererGuard
<1>11. ASSUME NEW p \in Procs, BarEnds(p) PROVE TypeOK'
  BY <1>11 DEF BarEnds
<1>12. ASSUME NEW p \in Procs, KillSupervisor(p) PROVE TypeOK'
  BY <1>12 DEF KillSupervisor
<1>13. CASE UNCHANGED vars
  BY <1>13 DEF vars
<1> QED
  BY <1>1, <1>2, <1>3, <1>4, <1>5, <1>6, <1>7, <1>8, <1>9, <1>10, <1>11,
     <1>12, <1>13 DEF Next

(* The locks stay the inverse of the roles. *)
LEMMA LockStep == IInv /\ [Next]_vars => NoStaleLock' /\ Held'
<1> SUFFICES ASSUME IInv, [Next]_vars PROVE NoStaleLock' /\ Held'
  OBVIOUS
<1> DEFINE Good == NoStaleLock /\ Held
<1> USE DEF IInv, TypeOK, NoStaleLock, Held, Bars, PCs, SupervisorPCs, Goto, End,
            Released, Free
<1>1. ASSUME NEW p \in Procs, Launch(p) PROVE Good'
  BY <1>1 DEF Launch, Start
<1>2. ASSUME NEW p \in Procs, Foreground(p) PROVE Good'
  BY <1>2 DEF Foreground, Start
<1>3. ASSUME NEW p \in Procs, TakeSupervisorGuard(p) PROVE Good'
  BY <1>3 DEF TakeSupervisorGuard
<1>4. ASSUME NEW p \in Procs, LeaveSupervisorGuard(p) PROVE Good'
  BY <1>4 DEF LeaveSupervisorGuard
<1>5. ASSUME NEW p \in Procs, NEW q \in Procs, SpawnChild(p, q) PROVE Good'
  BY <1>5 DEF SpawnChild
<1>6. ASSUME NEW p \in Procs, SpawnFails(p) PROVE Good'
  BY <1>6 DEF SpawnFails
<1>7. ASSUME NEW p \in Procs, ReapChild(p) PROVE Good'
  BY <1>7 DEF ReapChild
<1>8. ASSUME NEW p \in Procs, Wake(p) PROVE Good'
  BY <1>8 DEF Wake
<1>9. ASSUME NEW p \in Procs, TakeRendererGuard(p) PROVE Good'
  BY <1>9 DEF TakeRendererGuard
<1>10. ASSUME NEW p \in Procs, LeaveRendererGuard(p) PROVE Good'
  BY <1>10 DEF LeaveRendererGuard
<1>11. ASSUME NEW p \in Procs, BarEnds(p) PROVE Good'
  BY <1>11 DEF BarEnds
<1>12. ASSUME NEW p \in Procs, KillSupervisor(p) PROVE Good'
  BY <1>12 DEF KillSupervisor
<1>13. CASE UNCHANGED vars
  BY <1>13 DEF vars
<1> QED
  BY <1>1, <1>2, <1>3, <1>4, <1>5, <1>6, <1>7, <1>8, <1>9, <1>10, <1>11,
     <1>12, <1>13 DEF Next

(* The locks are the inverse of the roles in every reachable state. *)
THEOREM LauncherInv == Spec => []IInv
<1>1. IInv /\ [Next]_vars => IInv'
  BY TypeStep, LockStep DEF IInv
<1> QED
  BY InitIInv, <1>1, PTL DEF Spec

(* The processes, their children and the two locks keep their types, and   *)
(* exactly the supervisors that wait have a child.                         *)
THEOREM LauncherTyping == Spec => []TypeOK
<1>1. IInv => TypeOK
  BY DEF IInv
<1> QED
  BY LauncherInv, <1>1, PTL

(* At most one process draws a session: two bars would hold one lock.      *)
THEOREM LauncherOneBar == Spec => []OneBar
<1>1. IInv => OneBar
  BY DEF IInv, Held, OneBar, Bars
<1> QED
  BY LauncherInv, <1>1, PTL

(* At most one supervisor runs per spelling of the environment.            *)
THEOREM LauncherOneSupervisor == Spec => []OneSupervisorPerEnv
<1>1. IInv => OneSupervisorPerEnv
  BY DEF IInv, Held, OneSupervisorPerEnv
<1> QED
  BY LauncherInv, <1>1, PTL

(* No lock outlives the process that took it.                              *)
THEOREM LauncherNoStaleLock == Spec => []NoStaleLock
<1>1. IInv => NoStaleLock
  BY DEF IInv
<1> QED
  BY LauncherInv, <1>1, PTL

-----------------------------------------------------------------------------
(* Refinement of Singleton.  Only two actions change who draws a session.  *)

(* The mapped variable bars. *)
BarsOf == [s \in Sessions |-> Bars(s)]

(* A step that moves no process in or out of "bar" changes no session. *)
LEMMA BarsKept ==
  ASSUME TypeOK, TypeOK', 
         \A p \in Procs : pc[p] = "bar" <=> pc'[p] = "bar",
         \A p \in Procs : pc[p] = "bar" => env'[p] = env[p]
  PROVE  BarsOf' = BarsOf
<1>1. ASSUME NEW s \in Sessions PROVE Bars(s)' = Bars(s)
  BY <1>1 DEF Bars
<1> QED
  BY <1>1 DEF BarsOf

(* Taking the renderer's guard starts the bar of a session without one. *)
LEMMA TakeStarts ==
  ASSUME IInv, TypeOK', NEW p \in Procs, TakeRendererGuard(p)
  PROVE  Abstract!Start(SessionOf[env[p]], p)
<1> DEFINE s == SessionOf[env[p]]
<1>1. s \in Sessions
  BY DEF IInv, TypeOK
<1>2. barLock[s] = NULL /\ pc' = [pc EXCEPT ![p] = "bar"] /\ env' = env
  BY DEF TakeRendererGuard, Goto
<1>3. Bars(s) = {}
  BY <1>2 DEF IInv, Held, Bars
<1>4. ASSUME NEW t \in Sessions
      PROVE  Bars(t)' = IF t = s THEN {p} ELSE Bars(t)
  <2>1. ASSUME NEW q \in Procs, q # p PROVE pc'[q] = pc[q]
    BY <1>2, <2>1 DEF IInv, TypeOK
  <2>2. pc'[p] = "bar" /\ pc[p] # "bar"
    BY <1>2 DEF IInv, TypeOK, TakeRendererGuard
  <2> QED
    BY <1>2, <1>3, <2>1, <2>2 DEF Bars
<1> QED
  BY <1>1, <1>3, <1>4 DEF Abstract!Start

(* The end of a bar leaves its session without one: it was the only one. *)
LEMMA EndStops ==
  ASSUME IInv, TypeOK', NEW p \in Procs, BarEnds(p)
  PROVE  Abstract!Stop(SessionOf[env[p]])
<1> DEFINE s == SessionOf[env[p]]
<1>1. s \in Sessions
  BY DEF IInv, TypeOK
<1>2. pc[p] = "bar" /\ pc' = [pc EXCEPT ![p] = "gone"] /\ env' = env
  BY DEF BarEnds, End, Goto
<1>3. Bars(s) = {p}
  BY <1>2 DEF IInv, Held, Bars
<1>4. ASSUME NEW t \in Sessions
      PROVE  Bars(t)' = IF t = s THEN {} ELSE Bars(t)
  <2>1. ASSUME NEW q \in Procs, q # p PROVE pc'[q] = pc[q]
    BY <1>2, <2>1 DEF IInv, TypeOK
  <2>2. pc'[p] # "bar"
    BY <1>2 DEF IInv, TypeOK
  <2> QED
    BY <1>2, <1>3, <2>1, <2>2 DEF Bars
<1> QED
  BY <1>1, <1>3, <1>4 DEF Abstract!Stop

(* Every step of the launcher is a step or a stutter of Singleton. *)
LEMMA StepRefines ==
  IInv /\ TypeOK' /\ [Next]_vars => [Abstract!Next]_BarsOf
<1> SUFFICES ASSUME IInv, TypeOK', [Next]_vars PROVE [Abstract!Next]_BarsOf
  OBVIOUS
<1>t. TypeOK
  BY DEF IInv
<1>1. ASSUME NEW p \in Procs, TakeRendererGuard(p) PROVE Abstract!Next
  <2>1. SessionOf[env[p]] \in Sessions
    BY <1>t DEF TypeOK
  <2> QED
    BY <1>1, <2>1, TakeStarts DEF Abstract!Next
<1>2. ASSUME NEW p \in Procs, BarEnds(p) PROVE Abstract!Next
  <2>1. SessionOf[env[p]] \in Sessions
    BY <1>t DEF TypeOK
  <2> QED
    BY <1>2, <2>1, EndStops DEF Abstract!Next
<1>3. ASSUME NEW p \in Procs,
             \/ Launch(p) \/ Foreground(p)
             \/ TakeSupervisorGuard(p) \/ LeaveSupervisorGuard(p)
             \/ SpawnFails(p) \/ ReapChild(p) \/ Wake(p)
             \/ LeaveRendererGuard(p) \/ KillSupervisor(p)
      PROVE  BarsOf' = BarsOf
  <2>1. /\ \A q \in Procs : pc[q] = "bar" <=> pc'[q] = "bar"
        /\ \A q \in Procs : pc[q] = "bar" => env'[q] = env[q]
    BY <1>3, <1>t DEF TypeOK, PCs, SupervisorPCs, Launch, Foreground, Start, Free,
       TakeSupervisorGuard, LeaveSupervisorGuard, SpawnFails, ReapChild, Wake,
       LeaveRendererGuard, KillSupervisor, Goto, End
  <2> QED
    BY <2>1, <1>t, BarsKept
<1>4. ASSUME NEW p \in Procs, NEW q \in Procs, SpawnChild(p, q)
      PROVE  BarsOf' = BarsOf
  <2>1. /\ \A r \in Procs : pc[r] = "bar" <=> pc'[r] = "bar"
        /\ \A r \in Procs : pc[r] = "bar" => env'[r] = env[r]
    BY <1>4, <1>t DEF TypeOK, PCs, SpawnChild, Free
  <2> QED
    BY <2>1, <1>t, BarsKept
<1>5. CASE UNCHANGED vars
  BY <1>5, <1>t, BarsKept DEF vars
<1> QED
  BY <1>1, <1>2, <1>3, <1>4, <1>5 DEF Next

(* Who draws a session changes only as Singleton allows: a bar starts where *)
(* there is none and ends before the next one starts.                      *)
THEOREM LauncherRefines == Spec => ImplementsSingleton
<1>1. Init => Abstract!Init
  BY DEF Init, Abstract!Init, Bars
<1>2. IInv /\ IInv' /\ [Next]_vars => [Abstract!Next]_BarsOf
  <2> SUFFICES ASSUME IInv, IInv', [Next]_vars PROVE [Abstract!Next]_BarsOf
    OBVIOUS
  <2>1. TypeOK'
    BY DEF IInv
  <2> QED
    BY <2>1, StepRefines
<1> QED
  BY <1>1, <1>2, LauncherInv, PTL DEF Spec, ImplementsSingleton, Abstract!Spec, BarsOf

-----------------------------------------------------------------------------
(* IpcSocket.  While a bar listens on the file no start-up finds it dead,   *)
(* and only one that did removes it.                                        *)
SocketInv == sock \in [Listeners -> SockPCs]

LEMMA SocketStep == SocketInv /\ [IpcNext]_ipcVars => SocketInv'
<1> SUFFICES ASSUME SocketInv, [IpcNext]_ipcVars PROVE SocketInv'
  OBVIOUS
<1> USE DEF SocketInv, SockPCs, Starting, SockGoto
<1>1. ASSUME NEW s \in Displays, Finish(s) \/ \E p \in Listeners : Begin(s, p) PROVE SocketInv'
  BY <1>1 DEF Finish, Begin
<1>2. ASSUME NEW p \in Listeners, IpcStream(p) PROVE SocketInv'
  BY <1>2 DEF IpcStream, Exists, Connect, Unlink, Bind
<1>3. CASE UNCHANGED ipcVars
  BY <1>3 DEF ipcVars
<1> QED
  BY <1>1, <1>2, <1>3 DEF IpcNext

LEMMA KeptStays ==
  ASSUME SocketInv, IpcNext, NEW b \in Listeners, Kept(b)
  PROVE  path' = b /\ (Kept(b)' \/ sock'[b] = "off")
<1> USE DEF SocketInv, Kept, Answered
<1>1. ASSUME NEW s \in Displays, Finish(s) PROVE path' = b /\ (Kept(b)' \/ sock'[b] = "off")
  BY <1>1 DEF Finish
<1>2. ASSUME NEW s \in Displays, NEW p \in Listeners, Begin(s, p)
      PROVE  path' = b /\ (Kept(b)' \/ sock'[b] = "off")
  BY <1>2 DEF Begin, SockGoto
<1>3. ASSUME NEW p \in Listeners, IpcStream(p) PROVE path' = b /\ (Kept(b)' \/ sock'[b] = "off")
  <2>1. p # b /\ path' = b /\ sock'[p] # "unlink" /\ DOMAIN sock' = Listeners
    <3>1. CASE Exists(p) \/ Connect(p)
      BY <3>1 DEF Exists, Connect, SockGoto
    <3>2. CASE Unlink(p)
      BY <3>2 DEF Unlink
    <3>3. CASE Bind(p)
      BY <3>3 DEF Bind, SockGoto
    <3> QED
      BY <1>3, <3>1, <3>2, <3>3 DEF IpcStream
  <2>2. \A q \in Listeners \ {p} : sock'[q] = sock[q]
    BY <1>3 DEF IpcStream, Exists, Connect, Unlink, Bind, SockGoto
  <2> QED
    BY <2>1, <2>2
<1> QED
  BY <1>1, <1>2, <1>3 DEF IpcNext

(* Once a bar listens on the socket file and no start-up that found the     *)
(* file dead is still to remove it, no other bar takes the file away, how-  *)
(* ever bars of any sessions start, probe and end (main.rs 1273-1277).      *)
THEOREM IpcNoHijack == IpcSpec => NoHijack
<1> DEFINE Stays == \A p \in Listeners : Kept(p) => path' = p /\ (Kept(p)' \/ sock'[p] = "off")
<1>1. IpcInit => SocketInv
  BY DEF IpcInit, SocketInv, SockPCs
<1>2. SocketInv /\ [IpcNext]_ipcVars => [Stays]_ipcVars
  BY KeptStays
<1> HIDE DEF Stays
<1>3. IpcSpec => [][Stays]_ipcVars
  BY <1>1, <1>2, SocketStep, PTL DEF IpcSpec
<1> QED
  BY <1>3 DEF NoHijack, Stays

-----------------------------------------------------------------------------
(* FrameSlot.  A version a stream has seen has been; and for every version  *)
(* that moved and every stream that started there was one tick at most, the *)
(* one that is still to be sent included.                                   *)
ToSend == IF stream \in {"greets", "sends"} THEN 1 ELSE 0

FrameInv ==
  /\ version \in Nat /\ seen \in Nat /\ sent \in Nat /\ started \in Nat /\ ticks \in Nat
  /\ seen <= version
  /\ sent + ToSend <= seen + started
  /\ NoneForgotten

(* Neither is a frame forgotten nor a tick sent for nothing, whatever the   *)
(* guest, the stream and the GUI do (lib.rs 2237-2242).                     *)
THEOREM FrameSlotSound == FrameSpec => []FramesSound
<1>1. FrameInit => FrameInv
  BY DEF FrameInit, FrameInv, ToSend, NoneForgotten
<1>2. FrameInv /\ [FrameNext]_frameVars => FrameInv'
  <2> SUFFICES ASSUME FrameInv, [FrameNext]_frameVars PROVE FrameInv'
    OBVIOUS
  <2> USE DEF FrameInv, ToSend, NoneForgotten, drive, sub, gui
  <2>1. CASE Drive
    BY <2>1 DEF Drive, Publish
  <2>2. CASE StartStream
    BY <2>2 DEF StartStream
  <2>3. CASE Greet
    BY <2>3 DEF Greet, Send, Room
  <2>4. CASE PollVersion
    BY <2>4 DEF PollVersion
  <2>5. CASE SendTick
    BY <2>5 DEF SendTick, Send, Room
  <2>6. CASE HandleTick
    BY <2>6 DEF HandleTick
  <2>7. CASE HandleOther
    BY <2>7 DEF HandleOther
  <2>8. CASE Render
    BY <2>8 DEF Render
  <2>9. CASE UNCHANGED frameVars
    BY <2>9 DEF frameVars
  <2> QED
    BY <2>1, <2>2, <2>3, <2>4, <2>5, <2>6, <2>7, <2>8, <2>9 DEF FrameNext, TickStream
<1>3. FrameInv => FramesSound
  BY DEF FrameInv, FramesSound, IdleIsFree, ToSend
<1> QED
  BY <1>1, <1>2, <1>3, PTL DEF FrameSpec
=============================================================================
