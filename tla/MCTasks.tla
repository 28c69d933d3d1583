------------------------------ MODULE MCTasks ------------------------------
(* The tasks that drive plugins and what they are served with, in one run:  *)
(* the loop of Reactor, the hubs of FeedHub, the services of HostServices,  *)
(* the sampler of NetRate.  A behaviour is one of these parts, and the      *)
(* others rest.                                                             *)
EXTENDS FeedHub, Reactor, NetRate, HostServices

VARIABLES part

(* A plugin that is rebuilt under its instance id, beside a second plugin,  *)
(* whose guests ask again with every call.                                  *)
MCDrives == {"a1", "a2", "b1"}
MCToken == [d \in MCDrives |-> IF d = "b1" THEN "b" ELSE "a"]

(* A plugin of the first or of a later version of the interface, granted a  *)
(* host with its port, any host, or none; a body of two chunks or of none;  *)
(* a program that is given more than a pipe holds, or nothing.              *)
MCGrants == {[host |-> "a", port |-> 443], [host |-> "*", port |-> ABSENT]}
MCUrls == {[host |-> "a", port |-> 443], [host |-> "a", port |-> ABSENT]}
MCBodies == {<<<<1, 2, 3>>, <<4>>>>, <<>>}

MCInit ==
  /\ part \in {"loop", "hub", "serve", "net"}
  /\ part # "serve" => plugin = [version |-> 6, network |-> {}, feed |-> FALSE, exec |-> FALSE]
  /\ ReactorInit /\ Init /\ ServeInit /\ NetInit

MCNext ==
  /\ UNCHANGED part
  /\ \/ part = "loop" /\ ReactorNext /\ UNCHANGED <<vars, serveVars, netVars>>
     \/ part = "hub" /\ Next /\ UNCHANGED <<reactorVars, serveVars, netVars>>
     \/ part = "serve" /\ ServeNext /\ UNCHANGED <<reactorVars, vars, netVars>>
     \/ part = "net" /\ NetNext /\ UNCHANGED <<reactorVars, vars, serveVars>>

(* The fairness of each part, asked of it while it is the one that runs. *)
LoopFairness ==
  /\ WF_reactorVars(part = "loop" /\ SendTap)
  /\ WF_reactorVars(part = "loop" /\ Load)
  /\ WF_reactorVars(part = "loop" /\ Loop)
  /\ WF_reactorVars(part = "loop" /\ Answered)
  /\ WF_reactorVars(part = "loop" /\ WallElapses)
  /\ WF_reactorVars(part = "loop" /\ Tick)

(* Drive tasks poll their channel, an aborted task ends, sampler tasks run  *)
(* on, and a metric has a value now and again.                              *)
HubFairness ==
  /\ \A d \in MCDrives :
       /\ WF_vars(part = "hub" /\ WakeFeed(d))
       /\ WF_vars(part = "hub" /\ drive[d] = "aborted" /\ End(d))
  /\ WF_vars(part = "hub" /\ \E t \in tasks : Sample(t) \/ Pass(t))
  /\ SF_vars(part = "hub" /\ \E t \in tasks : Sample(t) /\ Stage(t, "value"))

GuestsReassert ==
  \A d \in MCDrives : WF_vars(part = "hub" /\ drive[d] = "runs" /\ Reasserts(d, "cpu"))

ServicesFairness ==
  /\ WF_serveVars(part = "serve" /\ at # "pick" /\ Settles)
  /\ WF_serveVars(part = "serve" /\ Thread)
  /\ WF_serveVars(part = "serve" /\ ExecAnswered)
  /\ WF_serveVars(part = "serve" /\ LimitElapses)

Parts == MCInit /\ [][MCNext]_<<part, reactorVars, vars, serveVars, netVars>>

MCSpec == Parts /\ LoopFairness /\ HubFairness /\ GuestsReassert /\ ServicesFairness

\* Guests that ask when they want to.
OnceSpec == Parts /\ part = "hub" /\ HubFairness

(* What is on the channel reaches the guest, a deadline fires, whatever     *)
(* wakes the task meanwhile, a guest that hangs is ended, and a call ends   *)
(* whatever service it waits for.                                           *)
LoopServes ==
  /\ part = "loop" => TapArrives /\ DeadlineFires /\ RunawayEnds
  /\ part = "serve" => CallsEnd

(* A plugin that asks for a metric is fed, and one nobody asks for is not   *)
(* sampled.                                                                 *)
FeedsFlow == part = "hub" => FeedArrives /\ IdleIsZero
=============================================================================
