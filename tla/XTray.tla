-------------------------------- MODULE XTray --------------------------------
(* The legacy side of the tray (sources/tray/xembed.rs) and the service     *)
(* both sides belong to (sources/tray/mod.rs): a worker thread claims the   *)
(* tray selection of the X server if nobody has it and takes the windows    *)
(* that ask for it into containers of its own.  The tray modules share one  *)
(* service; when the last has gone its worker is told to stop, and a module *)
(* that comes back starts another worker, the first perhaps still at work.  *)
EXTENDS Integers, Sequences

CONSTANTS
  Clients,     \* windows with an icon
  TrayModules,     \* tray modules
  MaxWorkers,  \* bound: services started
  MaxMoves,    \* bound: what clients and the other tray do
  Root, Other, Dead,  \* where a window is: the root, another tray's, nowhere
  NOBODY

Workers == 1..MaxWorkers

ASSUME XTrayAssumption ==
  /\ MaxWorkers \in Nat
  /\ Root \notin Workers /\ Other \notin Workers /\ Dead \notin Workers /\ NOBODY \notin Workers

VARIABLES
  users,       \* modules that hold the service
  started,     \* services so far; the last is the one in SHARED
  stop,        \* worker -> its stop flag
  owner,       \* of the selection: a worker, Other or NOBODY
  parent,      \* window -> Root, a worker (in its container), Other or Dead
  host,        \* worker -> "none", "checked", "open", "closing" or "over"
  icons,       \* worker -> Host.icons
  selected,    \* worker -> windows it has asked the server to hear of
  xevents,     \* worker -> the X events it has yet to read
  job,         \* worker -> the window it is taking in or letting go, and how far it is
  moves

holding == <<users, started, stop>>
server == <<owner, parent>>
worker == <<host, icons, selected, xevents, job>>
xtrayVars == <<holding, server, worker, moves>>

Running(w) == w <= started /\ host[w] # "over"
Idle == <<"idle", NOBODY>>

XTrayInit ==
  /\ users = {} /\ started = 0 /\ stop = [w \in Workers |-> FALSE]
  /\ owner \in {NOBODY, Other} /\ parent = [c \in Clients |-> Root]
  /\ host = [w \in Workers |-> "none"] /\ icons = [w \in Workers |-> {}]
  /\ selected = [w \in Workers |-> {}]
  /\ xevents = [w \in Workers |-> <<>>] /\ job = [w \in Workers |-> Idle]
  /\ moves = 0

-----------------------------------------------------------------------------
(* Service::acquire: the shared one while anybody holds it, else another.   *)
Acquire(m) ==
  /\ m \notin users /\ (users = {} => started < MaxWorkers)
  /\ users' = users \cup {m}
  /\ started' = started + (IF users = {} THEN 1 ELSE 0)
  /\ UNCHANGED <<stop, server, worker, moves>>

(* Drop for Service, with the last module.  Faulty variant: the flag is     *)
(* left alone.                                                              *)
Release_Forgets(m) ==
  /\ m \in users /\ users' = users \ {m} /\ UNCHANGED <<stop, started, server, worker, moves>>

Release(m) ==
  /\ m \in users /\ users' = users \ {m}
  /\ stop' = IF users' = {} THEN [stop EXCEPT ![started] = TRUE] ELSE stop
  /\ UNCHANGED <<started, server, worker, moves>>

-----------------------------------------------------------------------------
(* The X server tells a worker what becomes of the windows in its           *)
(* containers and of those it selected once, be they icons still or not.    *)
(* Who takes a window in hears of it too, as of the container it knows.     *)
Hearing(c) ==
  {w \in Workers : host[w] \in {"open", "closing"} /\ (c \in selected[w] \/ parent[c] = w)}
Tell(c, e, taker) ==
  xevents' = [w \in Workers |->
               IF w = taker THEN Append(xevents[w], <<"here", c>>)
               ELSE IF w \in Hearing(c) THEN Append(xevents[w], <<e, c>>) ELSE xevents[w]]

Move ==
  /\ moves < MaxMoves /\ moves' = moves + 1 /\ UNCHANGED <<holding, host, icons, selected, job>>

(* A client asks the owner of the selection to dock it, and may ask again.  *)
AskDock(c) ==
  /\ Move /\ parent[c] # Dead /\ owner \in Workers
  /\ xevents' = [xevents EXCEPT ![owner] = Append(@, <<"dock", c>>)]
  /\ UNCHANGED server

Destroy(c) ==
  /\ Move /\ parent[c] # Dead
  /\ parent' = [parent EXCEPT ![c] = Dead] /\ Tell(c, "destroy", NOBODY)
  /\ UNCHANGED owner

(* A client moves to another tray, or out. *)
Leave(c, to) ==
  /\ Move /\ parent[c] \in Workers
  /\ parent' = [parent EXCEPT ![c] = to] /\ Tell(c, "reparent", NOBODY)
  /\ UNCHANGED owner

OtherTray ==
  /\ Move /\ owner' = (IF owner = Other THEN NOBODY ELSE Other) /\ owner \in {NOBODY, Other}
  /\ UNCHANGED <<parent, xevents>>

(* It may claim the selection over a worker's head, which is told. *)
OtherSteals ==
  /\ Move /\ owner \in Workers /\ owner' = Other
  /\ xevents' = [xevents EXCEPT ![owner] = Append(@, <<"clear", NOBODY>>)]
  /\ UNCHANGED parent

-----------------------------------------------------------------------------
(* Host::open: looks whether there is an owner, creates its window, and     *)
(* looks once more before it claims, with the server grabbed.               *)
OpenLooks(w) ==
  /\ Running(w) /\ ~stop[w] /\ host[w] = "none" /\ owner = NOBODY
  /\ host' = [host EXCEPT ![w] = "checked"]
  /\ UNCHANGED <<holding, server, icons, selected, xevents, job, moves>>

OpenClaims(w) ==
  /\ host[w] = "checked"
  /\ IF owner = NOBODY THEN owner' = w /\ host' = [host EXCEPT ![w] = "open"]
                     ELSE host' = [host EXCEPT ![w] = "none"] /\ UNCHANGED owner
  /\ UNCHANGED <<holding, parent, icons, selected, xevents, job, moves>>

-----------------------------------------------------------------------------
(* embed: the icon is entered before the steps that may fail, and removed   *)
(* if one does.                                                             *)
Doing(w, step) == host[w] \in {"open", "closing"} /\ job[w][1] = step
Icon(w) == job[w][2]

Tracked(w, c) == [icons EXCEPT ![w] = @ \cup {c}]

EmbedBegins(w, c) ==
  IF c \in icons[w] \/ parent[c] = Dead THEN job' = job /\ icons' = icons
  ELSE /\ icons' = Tracked(w, c)
       /\ job' = [job EXCEPT ![w] = <<"reparent", c>>]

EmbedReparents(w) ==
  /\ Doing(w, "reparent")
  /\ IF parent[Icon(w)] = Dead
     THEN job' = [job EXCEPT ![w] = <<"letgo", Icon(w)>>] /\ UNCHANGED <<parent, xevents>>
     ELSE /\ parent' = [parent EXCEPT ![Icon(w)] = w]
          /\ job' = [job EXCEPT ![w] = <<"redirect", Icon(w)>>]
          /\ Tell(Icon(w), "reparent", w)
  /\ UNCHANGED <<holding, owner, host, icons, selected, moves>>

(* The redirect is refused when another client has it, or the window died,  *)
(* which may also be found after the window was selected.                   *)
EmbedFails(w) == [job EXCEPT ![w] = <<"letgo", Icon(w)>>]
Selecting(w) == [selected EXCEPT ![w] = @ \cup {Icon(w)}]

EmbedRedirects(w) ==
  /\ Doing(w, "redirect")
  /\ \/ job' = EmbedFails(w) /\ selected' \in {selected, Selecting(w)}
     \/ parent[Icon(w)] # Dead /\ job' = [job EXCEPT ![w] = Idle] /\ selected' = Selecting(w)
  /\ UNCHANGED <<holding, server, host, icons, xevents, moves>>

(* remove: asks for the window's parent, and takes it out of the container  *)
(* if it is in it.  Faulty variant: the container goes with the window.     *)
PutsBack_Never(w) == FALSE
PutsBack(w) == parent[Icon(w)] = w

LetGo(w, c) == IF c \in icons[w] THEN <<"letgo", c>> ELSE Idle

(* With the icon its container is forgotten: what is still to be read of it *)
(* will be of another container than the window has, if it is docked again. *)
Outdated(q, c) ==
  [i \in DOMAIN q |-> IF q[i] = <<"here", c>> THEN <<"reparent", c>> ELSE q[i]]

RemoveLooks(w) ==
  /\ Doing(w, "letgo")
  /\ icons' = [icons EXCEPT ![w] = @ \ {Icon(w)}]
  /\ xevents' = [xevents EXCEPT ![w] = Outdated(@, Icon(w))]
  /\ job' = [job EXCEPT ![w] = <<IF PutsBack(w) THEN "takeout" ELSE "gone", Icon(w)>>]
  /\ UNCHANGED <<holding, server, host, selected, moves>>

RemoveEnds(w) ==
  /\ Doing(w, "takeout") \/ Doing(w, "gone")
  /\ IF job[w][1] = "takeout" /\ parent[Icon(w)] # Dead
     THEN /\ parent' = [parent EXCEPT ![Icon(w)] = Root]
          /\ Tell(Icon(w), "reparent", NOBODY)
     ELSE UNCHANGED <<parent, xevents>>
  /\ job' = [job EXCEPT ![w] = Idle]
  /\ UNCHANGED <<holding, owner, host, icons, selected, moves>>

(* events, one at a time. *)
Closing(w) == stop[w] \/ host[w] = "closing"

ReadEvent(w) ==
  /\ Doing(w, "idle") /\ ~Closing(w) /\ xevents[w] # <<>>
  /\ xevents' = [xevents EXCEPT ![w] = Tail(@)]
  /\ LET e == Head(xevents[w])
     IN CASE e[1] = "dock" -> EmbedBegins(w, e[2])
          [] e[1] \in {"clear", "here"} -> UNCHANGED <<job, icons>>
          [] OTHER -> job' = [job EXCEPT ![w] = LetGo(w, e[2])] /\ UNCHANGED icons
  /\ host' = IF Head(xevents[w])[1] = "clear" THEN [host EXCEPT ![w] = "closing"] ELSE host
  /\ UNCHANGED <<holding, server, selected, moves>>

(* Drop for Host, when run ends or has lost the selection: every icon is    *)
(* removed, then what the host owns.  In the second case it opens again.    *)
Stops(w) ==
  /\ Doing(w, "idle") /\ Closing(w) /\ icons[w] # {}
  /\ \E c \in icons[w] : job' = [job EXCEPT ![w] = <<"letgo", c>>]
  /\ UNCHANGED <<holding, server, host, icons, selected, xevents, moves>>

Ends(w) ==
  /\ Running(w) /\ Closing(w) /\ job[w] = Idle /\ icons[w] = {}
  /\ host' = [host EXCEPT ![w] = IF stop[w] THEN "over" ELSE "none"]
  /\ owner' = IF owner = w THEN NOBODY ELSE owner
  /\ xevents' = [xevents EXCEPT ![w] = <<>>] /\ selected' = [selected EXCEPT ![w] = {}]
  /\ UNCHANGED <<holding, parent, icons, job, moves>>

Work(w) ==
  \/ OpenLooks(w) \/ OpenClaims(w) \/ ReadEvent(w) \/ Stops(w) \/ Ends(w)
  \/ EmbedReparents(w) \/ EmbedRedirects(w) \/ RemoveLooks(w) \/ RemoveEnds(w)

XTrayNext ==
  \/ \E m \in TrayModules : Acquire(m) \/ Release(m)
  \/ \E c \in Clients : AskDock(c) \/ Destroy(c) \/ Leave(c, Other) \/ Leave(c, Root)
  \/ OtherTray \/ OtherSteals
  \/ \E w \in Workers : Work(w)

(* A worker's thread runs. *)
XTraySpec == XTrayInit /\ [][XTrayNext]_xtrayVars /\ \A w \in Workers : WF_xtrayVars(Work(w))

-----------------------------------------------------------------------------
(* A window is in a worker's container only while the worker knows of it,   *)
(* whatever step of taking it in failed, so that one that ends leaves none  *)
(* behind; and one with nothing to read has exactly the windows it shows.   *)
NoneLeftBehind ==
  \A w \in Workers, c \in Clients :
    /\ parent[c] = w => c \in icons[w] \/ (job[w] = <<"takeout", c>>)
    /\ host[w] = "open" /\ job[w] = Idle /\ xevents[w] = <<>> /\ c \in icons[w] => parent[c] = w

(* A worker claims the selection only while it is free.                    *)
SelectionFree == [][owner' \in Workers => owner = NOBODY]_owner

(* In the end the worker of the service in use has it, or another tray, and *)
(* nobody if no module is left: a worker that stops frees it for the one    *)
(* that follows.                                                            *)
SelectionHanded == <>[](IF users # {} THEN owner \in {started, Other} ELSE owner \in {NOBODY, Other})
=============================================================================
