------------------------------- MODULE SwayBus -------------------------------
(* The sway service (sources/sway.rs): one thread asks sway for the         *)
(* workspaces, the focused window and the keyboard layout, subscribes to    *)
(* their events, asks again for what an event is about, and publishes the   *)
(* whole to the modules that show a part of it (modules/workspaces,         *)
(* window_title, keyboard).                                                 *)
EXTENDS Integers, Sequences

CONSTANTS
  MaxChanges,  \* bound: changes in sway
  MaxLosses,   \* bound: lost connections and failing questions
  MaxQueue,    \* bound: events on their way
  NONE

Slices == {"window", "workspace", "input"}
Shows == [window_title |-> "window", workspaces |-> "workspace", keyboard |-> "input"]
Modules == DOMAIN Shows

VARIABLES
  sway,        \* slice -> what is so, as a number that changes
  changes, losses,
  stage,       \* of the service: what it asks for, or what it does next
  asked,       \* the slices as the service knows them
  events,      \* of the subscription, or NONE
  published, version,
  streams,     \* module -> last version its stream has seen, and the value it let through
  shown,       \* module -> what it shows
  missed       \* history: slices that changed after they were asked for and
               \* before the subscription, or whose question failed

service == <<stage, asked, published, version>>
vars == <<sway, changes, losses, service, events, streams, shown, missed>>

Blank == [s \in Slices |-> 0]
Default == -1   \* no title, or "??" for the layout

Init ==
  /\ sway = Blank /\ changes = 0 /\ losses = 0
  /\ stage = "window" /\ asked = Blank /\ events = NONE
  /\ published = Blank /\ version = 0
  /\ streams = [m \in Modules |-> [seen |-> -1, last |-> NONE]]
  /\ shown = [m \in Modules |-> NONE]
  /\ missed = {}

-----------------------------------------------------------------------------
(* Sway: a slice changes, and those who subscribed are told. *)
Change(s) ==
  /\ changes < MaxChanges /\ changes' = changes + 1
  /\ events # NONE => Len(events) < MaxQueue
  /\ sway' = [sway EXCEPT ![s] = changes + 1]
  /\ events' = IF events = NONE THEN NONE ELSE Append(events, s)
  /\ missed' = IF events = NONE THEN missed \cup {s} ELSE missed
  /\ UNCHANGED <<losses, service, streams, shown>>

(* A connection breaks: in a second the service starts anew, and what was   *)
(* published stays.                                                         *)
Lose ==
  /\ losses < MaxLosses /\ losses' = losses + 1
  /\ stage' = "window" /\ events' = NONE
  /\ missed' = Slices
  /\ UNCHANGED <<sway, changes, asked, published, version, streams, shown>>

-----------------------------------------------------------------------------
(* A question, and what is known then.  One for the tree or the inputs may   *)
(* fail and say nothing; if it is for the workspaces, that ends the service. *)
Answers(s) ==
  \/ asked' = [asked EXCEPT ![s] = sway[s]] /\ missed' = missed \ {s} /\ UNCHANGED losses
  \/ /\ s # "workspace" /\ losses < MaxLosses /\ losses' = losses + 1
     /\ asked' = [asked EXCEPT ![s] = Default] /\ missed' = missed \cup {s}

(* run_service: three questions, a publication, the subscription.           *)
Ask(s, then) ==
  /\ stage = s /\ events = NONE /\ stage' = then /\ Answers(s)
  /\ UNCHANGED <<sway, changes, events, published, version, streams, shown>>

Asks == Ask("window", "workspace") \/ Ask("workspace", "input") \/ Ask("input", "publish")

(* send_replace: the latest value, whether or not anybody receives.         *)
Publish ==
  /\ stage = "publish"
  /\ published' = asked /\ version' = version + 1
  /\ stage' = IF events = NONE THEN "subscribe" ELSE "wait"
  /\ UNCHANGED <<sway, changes, losses, asked, events, streams, shown, missed>>

Subscribe ==
  /\ stage = "subscribe" /\ stage' = "wait" /\ events' = <<>>
  /\ UNCHANGED <<sway, changes, losses, asked, published, version, streams, shown, missed>>

(* An event names what changed; its answer may already be of a later change. *)
(* Faulty variant: of the next event the service asks for what the last was  *)
(* about.                                                                    *)
Slice_Always(e) == "workspace"
Slice(e) == e

HandleEvent ==
  /\ stage = "wait" /\ events # <<>>
  /\ Answers(Slice(Head(events)))
  /\ events' = Tail(events) /\ stage' = "publish"
  /\ UNCHANGED <<sway, changes, published, version, streams, shown>>

Service == Asks \/ Publish \/ Subscribe \/ HandleEvent

-----------------------------------------------------------------------------
(* A module's stream: the current value first, then whenever there is a     *)
(* newer one than it has seen (several may become one), unless the slice is *)
(* what it was.                                                             *)
Deliver(m) ==
  /\ streams[m].seen < version
  /\ streams' = [streams EXCEPT ![m] = [seen |-> version, last |-> published[Shows[m]]]]
  /\ shown' = IF streams[m].last = published[Shows[m]] THEN shown
              ELSE [shown EXCEPT ![m] = published[Shows[m]]]
  /\ UNCHANGED <<sway, changes, losses, service, events, missed>>

Next ==
  \/ \E s \in Slices : Change(s)
  \/ Lose \/ Service
  \/ \E m \in Modules : Deliver(m)

(* The thread runs, and iced polls its streams. *)
Spec == Init /\ [][Next]_vars /\ WF_vars(Service) /\ \A m \in Modules : WF_vars(Deliver(m))

-----------------------------------------------------------------------------
(* Every module comes to show what is so in sway, however changes, events   *)
(* and lost connections come together and whatever is skipped on the way,   *)
(* but for a change that fell between a question and the subscription and a *)
(* question that failed, either until the slice changes again.              *)
BarFollows == <>[](\A m \in Modules : Shows[m] \notin missed => shown[m] = sway[Shows[m]])

(* "A late subscriber sees current state" (sources/sway.rs:44): also if the *)
(* change fell there. *)
BarCurrent == <>[](\A m \in Modules : shown[m] = sway[Shows[m]])
=============================================================================
