---------------------------- MODULE HostServices ----------------------------
(***************************************************************************)
(* What the host does for one plugin while its update runs                 *)
(* (crates/ezbar-wasm/src/lib.rs, RFC 0012 to 0020).                       *)
(*                                                                         *)
(* The guest calls one service at a time: a download, a stream of one in   *)
(* chunks, a program, a pick, or one that answers at once.  A download and *)
(* a pick suspend the wall-clock limit of the call, a program does not.    *)
(* The SDK gives services to update alone, so view and popup make none.    *)
(*                                                                         *)
(* A body is the sequence of chunks the wire brings, a program one of two  *)
(* kinds: a filter copies what it reads and ends with its input; a         *)
(* launcher ends at once and leaves a process that holds its output.       *)
(***************************************************************************)
EXTENDS Naturals, Sequences, FiniteSets

CONSTANTS
  Versions,          \* the WIT versions plugins are built against
  Grants,            \* network grants: a host, "*" for any, and a port or ABSENT
  Urls,              \* the hosts the guest asks, with a port or ABSENT
  Bytes,             \* what chunks consist of
  Bodies,            \* bodies: sequences of chunks
  Sizes,             \* the sizes the guest reads with
  Inputs,            \* lengths of what a program is given
  PIPE,              \* what a pipe holds
  MAX_HTTP_STREAMS,  \* streams of a plugin (8 in the code)
  MaxCalls,          \* bound: services the guest asks for
  ABSENT

ASSUME HostAssumption ==
  /\ Bodies \subseteq Seq(Seq(Bytes)) /\ Sizes \subseteq Nat
  /\ ABSENT # "end"

VARIABLES
  plugin,    \* what the plugin was built against and granted
  at,        \* where the plugin is: idle, guest, a service or ended
  request,   \* the service's arguments
  in_service, \* in_blocking_service
  streams,   \* http_streams
  next_id,   \* next_stream_id
  timer_request, feed_requests, \* of the same names
  child,     \* the program, its pipes and the thread that serves them
  given,     \* history: for each stream the body, what the guest read, how it ended
  calls,     \* counts the services
  outcome    \* history: why the plugin ended

store == <<streams, next_id, timer_request, feed_requests>>
serveVars  == <<plugin, at, request, in_service, store, child, given, calls, outcome>>

\* The services each version's host offers.
V1Host == {"set_timeout", "feed_subscribe", "http_get"}
V2Host == V1Host \cup {"sway_snapshot"}
V3Host == V2Host \cup {"exec"}
V4Host == V3Host \cup {"pick"}
V5Host == V4Host \cup {"local_timezone"}
V6Host == V5Host \cup {"http_open", "http_read", "http_close"}

\* The services a plugin of version v is linked against.
Offers(v) == <<V1Host, V2Host, V3Host, V4Host, V5Host, V6Host>>[v]

\* The program no guest has started.
NoChild == [kind |-> ABSENT, run |-> FALSE, left |-> 0, in |-> 0, out |-> 0, held |-> FALSE, read |-> FALSE]

ServeInit ==
  /\ plugin \in [version : Versions, network : SUBSET Grants, feed : BOOLEAN, exec : BOOLEAN]
  /\ at = "idle" /\ request = ABSENT /\ in_service = FALSE
  /\ streams = << >> /\ next_id = 0
  /\ timer_request = ABSENT /\ feed_requests = 0
  /\ child = NoChild /\ given = << >> /\ calls = 0 /\ outcome = ABSENT

(***************************************************************************)
(* The call and the services that answer at once.                          *)
(***************************************************************************)
\* The drive task calls update.
CallUpdate ==
  /\ at = "idle"
  /\ at' = "guest"
  /\ UNCHANGED <<plugin, request, in_service, store, child, given, calls, outcome>>

\* update returns; the drive task takes the timer request and the feed requests.
UpdateReturns ==
  /\ at = "guest"
  /\ at' = "idle" /\ timer_request' = ABSENT /\ feed_requests' = 0
  /\ UNCHANGED <<plugin, request, in_service, streams, next_id, child, given, calls, outcome>>

\* The guest calls service s, which its version offers.
Asks(s) ==
  /\ at = "guest" /\ s \in Offers(plugin.version)
  /\ calls < MaxCalls
  /\ calls' = calls + 1

\* Keeps a request for a timer, zero for none, until the call returns.
SetTimeout(ms) ==
  /\ Asks("set_timeout")
  /\ timer_request' = IF ms = 0 THEN "cancel" ELSE "after"
  /\ UNCHANGED <<plugin, at, request, in_service, streams, next_id, feed_requests, child, given, outcome>>

\* Keeps a request for a granted feed; any other is dropped without a word.
FeedSubscribe ==
  /\ Asks("feed_subscribe") /\ plugin.feed
  /\ feed_requests' = feed_requests + 1
  /\ UNCHANGED <<plugin, at, request, in_service, streams, next_id, timer_request, child, given, outcome>>

\* Does grant g authorise requests to host h?
HostMatches(g, h) ==
  \/ g.host = "*" /\ g.port = ABSENT
  \/ g.host = h.host /\ (g.port = ABSENT \/ g.port = h.port)

Granted(h) == \E g \in plugin.network : HostMatches(g, h)

\* The guest waits in service s, which suspends the wall-clock limit or not.
WaitIn(s, args, suspends) ==
  /\ Asks(s)
  /\ at' = s /\ request' = args /\ in_service' = suspends
  /\ UNCHANGED <<plugin, store, child, given, outcome>>

\* Faulty variant: the answer leaves in_blocking_service set.
Answer_KeepsFlag == at' = "guest" /\ request' = ABSENT /\ UNCHANGED in_service

\* The service answers and the guest goes on.
Answer == at' = "guest" /\ request' = ABSENT /\ in_service' = FALSE

(***************************************************************************)
(* Downloads, picks and streams.                                           *)
(***************************************************************************)
HttpGet(h) == Granted(h) /\ WaitIn("http_get", ABSENT, TRUE)

HttpOpen(h) ==
  /\ Granted(h) /\ Cardinality(DOMAIN streams) < MAX_HTTP_STREAMS
  /\ WaitIn("http_open", ABSENT, TRUE)

GuestPick == WaitIn("pick", ABSENT, TRUE)

\* The download is there, or the pick was made or dismissed.
Done ==
  /\ at \in {"http_get", "pick"}
  /\ Answer
  /\ UNCHANGED <<plugin, store, child, given, calls, outcome>>

\* The response's head is there: its body is a new stream.
Opened(body) ==
  /\ at = "http_open"
  /\ Answer
  /\ streams' = [s \in DOMAIN streams \cup {next_id} |->
                   IF s = next_id THEN [wire |-> body, leftover |-> << >>, pos |-> 0] ELSE streams[s]]
  /\ given' = Append(given, [body |-> body, read |-> << >>, done |-> ABSENT])
  /\ next_id' = next_id + 1
  /\ UNCHANGED <<plugin, timer_request, feed_requests, child, calls, outcome>>

\* The request fails or times out.
OpenFails ==
  /\ at = "http_open"
  /\ Answer
  /\ UNCHANGED <<plugin, store, child, given, calls, outcome>>

Drop(s) == [t \in DOMAIN streams \ {s} |-> streams[t]]

\* What stream s hands out of the chunk c from position p on, and where that ends.
\* Faulty variant: the next read starts at the beginning again.
EndOf(c, p, max) == IF p + max < Len(c) THEN p + max ELSE Len(c)
Hand_Restarts(s, c, p, max) ==
  /\ streams' = [streams EXCEPT ![s] = [wire |-> @.wire, leftover |-> c, pos |-> EndOf(c, 0, max)]]
  /\ given' = [given EXCEPT ![s + 1].read = @ \o SubSeq(c, p + 1, EndOf(c, p, max))]

Hand(s, c, p, max) ==
  /\ streams' = [streams EXCEPT ![s] = [wire |-> @.wire, leftover |-> c, pos |-> EndOf(c, p, max)]]
  /\ given' = [given EXCEPT ![s + 1].read = @ \o SubSeq(c, p + 1, EndOf(c, p, max))]

\* A read that what is left of the last chunk serves.
ReadLeftover(s, max) ==
  /\ Asks("http_read")
  /\ s \in DOMAIN streams /\ streams[s].pos < Len(streams[s].leftover)
  /\ Hand(s, streams[s].leftover, streams[s].pos, max)
  /\ UNCHANGED <<plugin, at, request, in_service, next_id, timer_request, feed_requests, child, outcome>>

\* A read that has to wait for the wire.
ReadWire(s, max) ==
  /\ s \in DOMAIN streams /\ streams[s].pos >= Len(streams[s].leftover)
  /\ WaitIn("http_read", <<s, max>>, TRUE)

\* The next chunk comes in, or the end of the body, which drops the stream.
Chunk ==
  /\ at = "http_read"
  /\ Answer
  /\ LET s == request[1]  wire == streams[s].wire IN
       \/ /\ wire # << >>
          /\ streams' = [streams EXCEPT ![s] = [wire |-> Tail(wire), leftover |-> Head(wire),
                                                pos |-> EndOf(Head(wire), 0, request[2])]]
          /\ given' = [given EXCEPT ![s + 1].read = @ \o SubSeq(Head(wire), 1, EndOf(Head(wire), 0, request[2]))]
       \/ /\ wire = << >>
          /\ streams' = Drop(s) /\ given' = [given EXCEPT ![s + 1].done = "end"]
  /\ UNCHANGED <<plugin, next_id, timer_request, feed_requests, child, calls, outcome>>

\* The wire fails or the request times out: the stream is dropped.
ReadFails ==
  /\ at = "http_read"
  /\ Answer
  /\ streams' = Drop(request[1]) /\ given' = [given EXCEPT ![request[1] + 1].done = "error"]
  /\ UNCHANGED <<plugin, next_id, timer_request, feed_requests, child, calls, outcome>>

HttpClose(s) ==
  /\ Asks("http_close") /\ s \in DOMAIN streams
  /\ streams' = Drop(s) /\ given' = [given EXCEPT ![s + 1].done = "closed"]
  /\ UNCHANGED <<plugin, at, request, in_service, next_id, timer_request, feed_requests, child, outcome>>

(***************************************************************************)
(* Programs: a thread of the pool starts one, writes its input, closes     *)
(* it, and reads the output until nobody holds it open any more.           *)
(***************************************************************************)
Exec(kind, n) ==
  /\ plugin.exec
  /\ Asks("exec")
  /\ at' = "exec" /\ request' = ABSENT /\ in_service' = FALSE
  /\ child' = [kind |-> kind, run |-> TRUE, left |-> n, in |-> 0, out |-> 0, held |-> FALSE, read |-> FALSE]
  /\ UNCHANGED <<plugin, store, given, outcome>>

\* The thread has something it can do; child as it is after that.
Broken    == ~child.run /\ ~child.held
ThreadCan == IF child.left > 0 THEN child.in < PIPE \/ Broken ELSE child.out > 0
Reads     == ~child.read /\ child.kind # ABSENT /\ child.left = 0 /\ child.out = 0 /\ Broken
Thread ==
  /\ \/ /\ ThreadCan /\ child.left > 0
        /\ child' = IF Broken THEN [child EXCEPT !.left = 0]
                    ELSE [child EXCEPT !.left = @ - 1, !.in = @ + 1]
     \/ /\ ThreadCan /\ child.left = 0
        /\ child' = [child EXCEPT !.out = @ - 1]
     \/ Reads /\ child' = [child EXCEPT !.read = TRUE]
  /\ UNCHANGED <<plugin, at, request, in_service, store, given, calls, outcome>>

\* The program copies, ends with its input, or has launched what it launches.
Program ==
  /\ child.run
  /\ \/ /\ child.kind = "filter" /\ child.in > 0 /\ child.out < PIPE
        /\ child' = [child EXCEPT !.in = @ - 1, !.out = @ + 1]
     \/ /\ child.kind = "filter" /\ child.in = 0 /\ child.left = 0
        /\ child' = [child EXCEPT !.run = FALSE]
     \/ /\ child.kind = "launcher"
        /\ child' = [child EXCEPT !.run = FALSE, !.held = TRUE]
  /\ UNCHANGED <<plugin, at, request, in_service, store, given, calls, outcome>>

\* What the launcher left behind ends, some day or never.
Released ==
  /\ child.held
  /\ child' = [child EXCEPT !.held = FALSE]
  /\ UNCHANGED <<plugin, at, request, in_service, store, given, calls, outcome>>

ExecAnswered ==
  /\ at = "exec" /\ child.read
  /\ Answer /\ child' = NoChild
  /\ UNCHANGED <<plugin, store, given, calls, outcome>>

(***************************************************************************)
(* The end of the plugin: its store goes, the thread and the program stay. *)
(***************************************************************************)
Ends(why) ==
  /\ at' = "ended" /\ outcome' = why /\ in_service' = FALSE /\ request' = ABSENT
  /\ streams' = << >> /\ timer_request' = ABSENT /\ feed_requests' = 0
  /\ UNCHANGED <<plugin, next_id, child, given, calls>>

\* The limit elapses in a call: a parked guest is given another.  The thread's own
\* steps are never that late.
LimitElapses ==
  /\ at \notin {"idle", "ended"}
  /\ at = "exec" => ~ThreadCan /\ ~Reads /\ ~child.read
  /\ ~in_service
  /\ Ends("wall")

\* The bar drops the module, whatever it is in.
ModuleDropped == at # "ended" /\ Ends("abort")

Settles == Done \/ (\E b \in Bodies : Opened(b)) \/ OpenFails \/ Chunk \/ ReadFails

ServeNext ==
  \/ CallUpdate \/ UpdateReturns
  \/ \E ms \in {0, 1} : SetTimeout(ms)
  \/ FeedSubscribe
  \/ \E h \in Urls : HttpGet(h) \/ HttpOpen(h)
  \/ GuestPick
  \/ \E s \in 0 .. MaxCalls, max \in Sizes : ReadLeftover(s, max) \/ ReadWire(s, max)
  \/ \E s \in 0 .. MaxCalls : HttpClose(s)
  \/ \E kind \in {"filter", "launcher"}, n \in Inputs : Exec(kind, n)
  \/ Settles \/ Thread \/ Program \/ Released \/ ExecAnswered
  \/ LimitElapses \/ ModuleDropped

ServeFairness ==
  /\ WF_serveVars(at # "pick" /\ Settles)
  /\ WF_serveVars(Thread) /\ WF_serveVars(ExecAnswered)
  /\ WF_serveVars(LimitElapses)

ServeSpec == ServeInit /\ [][ServeNext]_serveVars /\ ServeFairness

-----------------------------------------------------------------------------
Flat(wire) == LET f[n \in 0 .. Len(wire)] == IF n = 0 THEN << >> ELSE f[n - 1] \o wire[n] IN f[Len(wire)]

ServeTypeOK ==
  /\ in_service \in BOOLEAN
  /\ Cardinality(DOMAIN streams) <= MAX_HTTP_STREAMS
  /\ DOMAIN streams \subseteq 0 .. (next_id - 1)
  /\ calls \in 0 .. MaxCalls

\* However a guest reads, closes and mixes its streams, what it was given of a body, what
\* is buffered and what the wire still has are that body, and a stream that ended was read
\* to its last byte (http_read, http_open, http_close).
StreamsWhole ==
  \A i \in DOMAIN given :
    LET g == given[i] IN
    /\ i - 1 \in DOMAIN streams =>
         LET s == streams[i - 1] IN
         g.read \o SubSeq(s.leftover, s.pos + 1, Len(s.leftover)) \o Flat(s.wire) = Flat(g.body)
    /\ g.done = "end" => g.read = Flat(g.body)

\* A call of update comes to an end or to a pick, whatever the guest, the network and the
\* programs do: a download has its own limit, everything else the wall-clock one (step).
CallsEnd == []<>(at \in {"idle", "ended", "pick"})

\* A program that has ended gives its answer to the guest that waits for it.
ExecAnswers == (at = "exec" /\ child.kind # ABSENT /\ ~child.run) ~> (at # "exec" /\ outcome # "wall")
=============================================================================
