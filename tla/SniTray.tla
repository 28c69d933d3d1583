------------------------------- MODULE SniTray -------------------------------
(* The StatusNotifier side of the tray (sources/tray/sni.rs): the bar is    *)
(* the watcher of the session bus if nobody else is, and in any case a host *)
(* of whoever is; every two seconds it looks who the watcher is, prunes its *)
(* own list, and reads the items of the watcher's.                          *)
(*                                                                          *)
(* A connection has a unique number that is never used again.  An           *)
(* application that quits is another one when it is back.                   *)
EXTENDS Integers, FiniteSets

CONSTANTS
  Apps,        \* applications with an item
  MaxItems,    \* MAX_ITEMS
  MaxConns,    \* bound: connections of the bar and of other watchers
  MaxFaults,   \* bound: timeouts and lost connections
  NONE

VARIABLES
  alive,       \* applications on the bus
  toldTo,      \* application -> the watcher it registered with last
  watcher,     \* owner of the watcher's name, or NONE
  others,      \* items of a watcher that is not the bar
  conns, faults,
  conn,        \* the bar's connection, or NONE
  items,       \* State.items, at the bar's own watcher
  calls,       \* registrations at work: <<application, "lookup" or "push">>
  refused,     \* applications the bar turned down
  hostAt,      \* watchers that the connection is registered with as a host
  stage, current, registeredWith, doomed, names,   \* the discovery loop
  published    \* Snapshot.sni

app == <<alive, toldTo>>
own == <<items, calls, refused>>
loop == <<stage, current, registeredWith, doomed, names>>
vars == <<app, watcher, others, conns, faults, conn, own, hostAt, loop, published>>

Live == {a \in Apps : alive[a] = "up"}

Init ==
  /\ alive = [a \in Apps |-> "unborn"] /\ toldTo = [a \in Apps |-> NONE]
  /\ watcher \in {NONE, 1} /\ others = {}
  /\ conns = 2 /\ faults = 0 /\ conn = 2
  /\ items = {} /\ calls = {} /\ refused = {} /\ hostAt = {}
  /\ stage = "tick" /\ current = NONE /\ registeredWith = NONE /\ doomed = {} /\ names = {}
  /\ published = {}

-----------------------------------------------------------------------------
(* The bus: applications come, register with the watcher of the time, and   *)
(* go; another watcher takes the name while it is free.                     *)
Start(a) ==
  /\ alive[a] = "unborn" /\ alive' = [alive EXCEPT ![a] = "up"]
  /\ UNCHANGED <<toldTo, watcher, others, conns, faults, conn, own, hostAt, loop, published>>

Quit(a) ==
  /\ alive[a] = "up" /\ alive' = [alive EXCEPT ![a] = "gone"]
  /\ others' = others \ {a}
  /\ UNCHANGED <<toldTo, watcher, conns, faults, conn, own, hostAt, loop, published>>

OtherTakes ==
  /\ watcher = NONE /\ conns < MaxConns
  /\ watcher' = conns + 1 /\ conns' = conns + 1
  /\ UNCHANGED <<app, others, faults, conn, own, hostAt, loop, published>>

OtherQuits ==
  /\ watcher # NONE /\ watcher # conn /\ conns < MaxConns
  /\ watcher' = NONE /\ others' = {}
  /\ UNCHANGED <<app, conns, faults, conn, own, hostAt, loop, published>>

Register(a) ==
  /\ a \in Live /\ watcher # NONE /\ toldTo[a] # watcher
  /\ toldTo' = [toldTo EXCEPT ![a] = watcher]
  /\ IF watcher = conn THEN calls' = calls \cup {<<a, "lookup">>} /\ UNCHANGED others
                       ELSE others' = others \cup {a} /\ UNCHANGED calls
  /\ UNCHANGED <<alive, watcher, conns, faults, conn, items, refused, hostAt, loop, published>>

-----------------------------------------------------------------------------
(* register_status_notifier_item: the caller's name is looked up, and then  *)
(* the item is entered, if it is not there and there is room.  A lookup     *)
(* that times out turns the application down, too.                          *)
OwnerLookup(a) ==
  /\ <<a, "lookup">> \in calls
  /\ \/ /\ calls' = (calls \ {<<a, "lookup">>}) \cup (IF a \in Live THEN {<<a, "push">>} ELSE {})
        /\ UNCHANGED <<faults, refused>>
     \/ /\ faults < MaxFaults /\ faults' = faults + 1
        /\ calls' = calls \ {<<a, "lookup">>} /\ refused' = refused \cup {a}
  /\ UNCHANGED <<app, watcher, others, conns, conn, items, hostAt, loop, published>>

Push(a) ==
  /\ <<a, "push">> \in calls /\ calls' = calls \ {<<a, "push">>}
  /\ IF Cardinality(items) < MaxItems THEN items' = items \cup {a} /\ UNCHANGED refused
                                      ELSE refused' = refused \cup {a} /\ UNCHANGED items
  /\ UNCHANGED <<app, watcher, others, conns, faults, conn, hostAt, loop, published>>

-----------------------------------------------------------------------------
(* The discovery loop.  An error ends the session: the connection, with the *)
(* name if it is the bar's and the list, and all that is shown.             *)
SessionEnds ==
  /\ conn' = NONE /\ watcher' = (IF watcher = conn THEN NONE ELSE watcher)
  /\ items' = {} /\ calls' = {} /\ refused' = {} /\ hostAt' = {}
  /\ stage' = "tick" /\ current' = NONE /\ registeredWith' = NONE /\ doomed' = {} /\ names' = {}
  /\ published' = {}
  /\ UNCHANGED <<app, others, conns>>

Disconnect ==
  /\ conn # NONE /\ faults < MaxFaults /\ faults' = faults + 1 /\ conns < MaxConns
  /\ SessionEnds

(* run: three seconds later there is a new session. *)
Connect ==
  /\ conn = NONE /\ conn' = conns + 1 /\ conns' = conns + 1
  /\ UNCHANGED <<app, watcher, others, faults, own, hostAt, loop, published>>

At(s) == conn # NONE /\ stage = s
Found == current' = watcher /\ stage' = "host"

LookWho ==
  /\ At("tick")
  /\ IF watcher # NONE THEN Found ELSE stage' = "request" /\ UNCHANGED current
  /\ UNCHANGED <<app, watcher, others, conns, faults, conn, own, hostAt, registeredWith, doomed, names, published>>

(* RequestName, DoNotQueue: a name somebody took meanwhile stays with them. *)
RequestName ==
  /\ At("request") /\ stage' = "ask"
  /\ watcher' = (IF watcher = NONE THEN conn ELSE watcher)
  /\ UNCHANGED <<app, others, conns, faults, conn, own, hostAt, current, registeredWith, doomed, names, published>>

AskAgain ==
  /\ At("ask")
  /\ IF watcher = NONE THEN SessionEnds /\ UNCHANGED faults
     ELSE /\ Found
          /\ UNCHANGED <<app, watcher, others, conns, faults, conn, own, hostAt, registeredWith, doomed, names, published>>

(* The call goes to the name, whoever has it by now.  Faulty variant: once  *)
(* registered is enough.                                                    *)
Known_Once == registeredWith # NONE
Known == registeredWith = current

RegisterHost ==
  /\ At("host")
  /\ IF Known THEN /\ stage' = "prune"
                   /\ UNCHANGED <<app, watcher, others, conns, conn, own, hostAt, registeredWith, current, doomed, names, published>>
     ELSE IF watcher = NONE THEN SessionEnds
     ELSE /\ stage' = "prune" /\ registeredWith' = current /\ hostAt' = hostAt \cup {watcher}
          /\ UNCHANGED <<app, watcher, others, conns, conn, own, current, doomed, names, published>>
  /\ UNCHANGED faults

(* prune: the list is copied, every owner is asked for, and what is gone is *)
(* removed from the list as it is by then.  A lookup that times out spares. *)
PruneLookups ==
  /\ At("prune")
  /\ IF current # conn THEN stage' = "list" /\ UNCHANGED <<doomed, faults>>
     ELSE /\ stage' = "remove"
          /\ \/ doomed' = items \ Live /\ UNCHANGED faults
             \/ /\ faults < MaxFaults /\ faults' = faults + 1 /\ items \ Live # {}
                /\ doomed' = {}
  /\ UNCHANGED <<app, watcher, others, conns, conn, own, hostAt, current, registeredWith, names, published>>

PruneRemoves ==
  /\ At("remove") /\ stage' = "list"
  /\ items' = items \ doomed /\ doomed' = {}
  /\ UNCHANGED <<app, watcher, others, conns, faults, conn, calls, refused, hostAt, current, registeredWith, names, published>>

(* The list is the one of whoever is the watcher now; without an answer the *)
(* host registers again. *)
ListNames ==
  /\ At("list")
  /\ IF watcher = NONE THEN stage' = "tick" /\ registeredWith' = NONE /\ UNCHANGED names
     ELSE /\ stage' = "read" /\ names' = (IF watcher = conn THEN items ELSE others)
          /\ UNCHANGED registeredWith
  /\ UNCHANGED <<app, watcher, others, conns, faults, conn, own, hostAt, current, doomed, published>>

(* read_item: an item whose properties do not come in time is left out.     *)
ReadItems ==
  /\ At("read") /\ stage' = "tick"
  /\ \/ published' = names \cap Live /\ UNCHANGED faults
     \/ /\ faults < MaxFaults /\ faults' = faults + 1
        /\ \E late \in names \cap Live : published' = (names \cap Live) \ {late}
  /\ UNCHANGED <<app, watcher, others, conns, conn, own, hostAt, current, registeredWith, doomed, names>>

Discovery ==
  \/ LookWho \/ RequestName \/ AskAgain \/ RegisterHost
  \/ PruneLookups \/ PruneRemoves \/ ListNames \/ ReadItems

Next ==
  \/ \E a \in Apps : Start(a) \/ Quit(a) \/ Register(a) \/ OwnerLookup(a) \/ Push(a)
  \/ OtherTakes \/ OtherQuits \/ Disconnect \/ Connect \/ Discovery

(* The loop goes on, a session is opened again, calls are answered; and     *)
(* applications register with a watcher when it appears, as the protocol    *)
(* has it.                                                                  *)
Spec ==
  /\ Init /\ [][Next]_vars
  /\ WF_vars(Discovery) /\ WF_vars(Connect)
  /\ \A a \in Apps : WF_vars(Register(a)) /\ WF_vars(OwnerLookup(a)) /\ WF_vars(Push(a))

-----------------------------------------------------------------------------
(* Whatever watchers, sessions and applications come and go, in the end     *)
(* somebody is the watcher, the bar is a host of theirs, and it shows the   *)
(* live applications that were not turned down, and no others.              *)
TrayComplete ==
  <>[](watcher # NONE /\ watcher \in hostAt /\ published = Live \ refused)

TypeOK ==
  /\ items \subseteq Apps /\ Cardinality(items) <= MaxItems
  /\ published \subseteq Apps /\ refused \subseteq Apps
  /\ watcher \in {NONE} \cup Nat /\ conn \in {NONE} \cup Nat
=============================================================================
