------------------------------- MODULE Agents -------------------------------
(* The agents meter: the built-in (modules/agents.rs), for Claude and for   *)
(* Codex, and the guest (wasm/claude) that was its model.  A scan of /proc  *)
(* finds the agents, matches each with a transcript of its directory,       *)
(* reads what was appended to it, and keeps the counters of the sessions    *)
(* that some agent runs.  One directory: the others are scanned alike.      *)
(*                                                                          *)
(* A position in a transcript counts half lines: 2n after the n-th newline, *)
(* 2n+1 within an unfinished line.                                          *)
EXTENDS Integers, FiniteSets, SequencesExt

CONSTANTS
  Meters,      \* subset of {"native", "codex", "guest"}
  Sessions,    \* transcripts of the directory
  MaxPid,      \* processes are 1..MaxPid, in the order /proc lists them
  Spare,       \* transcripts looked at beyond one for each agent
  MaxLines,    \* bound: lines of a transcript
  MaxIds,      \* bound: messages of a session
  MaxOut,      \* bound: output tokens of a message
  NOSESSION

ASSUME AgentsAssumption ==
  /\ IsFiniteSet(Sessions) /\ NOSESSION \notin Sessions
  /\ MaxPid \in Nat /\ Spare \in Nat
  /\ MaxLines \in Nat /\ MaxIds \in Nat \ {0} /\ MaxOut \in Nat

Pids == 1..MaxPid

VARIABLES
  meter,       \* which of the three this behaviour is about
  logs, half,  \* complete lines of a transcript; has it an unfinished one?
  ids,         \* messages a session has begun
  place,       \* of a transcript, 1 for the last written; 0 without one
  up, title,   \* running agents; the sessions whose name a title matches
  track,       \* session -> Scanner.token_files / codex_files entry
  sawEmpty, hadAgents,
  agents,      \* published: process -> session
  anchors,     \* session -> tokens at its first poll
  prev, since  \* ghosts: the transcript as last read; lines before tracking

machine == <<logs, half, ids, place, up, title>>
meterState == <<track, sawEmpty, hadAgents, agents, anchors, prev, since>>
agentVars == <<meter, machine, meterState>>

NoUsage == <<0, 0>>   \* a line without usage, or longer than LINE_CAP
Lines == {NoUsage} \cup ((1..MaxIds) \X (1..MaxOut))
New == [off |-> 0, id |-> 0, last |-> 0, fin |-> 0]

AgentsTypeOK ==
  /\ meter \in Meters
  /\ logs \in [Sessions -> UNION {[1..n -> Lines] : n \in 0..MaxLines}]
  /\ half \in [Sessions -> BOOLEAN] /\ ids \in [Sessions -> 0..MaxIds]
  /\ place \in [Sessions -> Nat] /\ up \subseteq Pids
  /\ title \in [Pids -> SUBSET Sessions]
  /\ DOMAIN track \subseteq Sessions /\ DOMAIN anchors \subseteq DOMAIN track
  /\ sawEmpty \in BOOLEAN /\ hadAgents \in BOOLEAN
  /\ \A p \in DOMAIN agents : agents[p] \in Sessions \cup {NOSESSION}

AgentsInit ==
  /\ meter \in Meters
  /\ logs = [s \in Sessions |-> <<>>] /\ half = [s \in Sessions |-> FALSE]
  /\ ids = [s \in Sessions |-> 0] /\ place = [s \in Sessions |-> 0]
  /\ up = {} /\ title = [p \in Pids |-> {}]
  /\ track = <<>> /\ agents = <<>> /\ anchors = <<>>
  /\ sawEmpty = FALSE /\ hadAgents = FALSE
  /\ prev = [s \in Sessions |-> <<>>] /\ since = [s \in Sessions |-> 0]

-----------------------------------------------------------------------------
(* The agents: they come and go, retitle their windows, and append to their *)
(* transcripts a piece at a time.  Claude writes a message several times,   *)
(* at growing counts, Codex a running total; a compaction of Claude's       *)
(* replaces the file by a short one.                                        *)
Start(p) == p \notin up /\ up' = up \cup {p} /\ UNCHANGED <<logs, half, ids, place, title>>
Exit(p) == p \in up /\ up' = up \ {p} /\ UNCHANGED <<logs, half, ids, place, title>>

Retitle(p, t) ==
  /\ meter = "native" /\ p \in up
  /\ title' = [title EXCEPT ![p] = t]
  /\ UNCHANGED <<logs, half, ids, place, up>>

(* The transcript that is written comes before those that did. *)
Touched(s) ==
  place' = [t \in Sessions |->
              IF t = s THEN 1
              ELSE IF place[t] > 0 /\ (place[s] = 0 \/ place[t] < place[s]) THEN place[t] + 1
              ELSE place[t]]

BeginLine(s) ==
  /\ ~half[s] /\ Len(logs[s]) < MaxLines
  /\ half' = [half EXCEPT ![s] = TRUE]
  /\ Touched(s) /\ UNCHANGED <<logs, ids, up, title>>

OutOf(s) ==
  LET last == {n \in DOMAIN logs[s] : logs[s][n][1] = ids[s]}
  IN IF last = {} THEN 1 ELSE logs[s][CHOOSE n \in last : \A m \in last : m <= n][2]

FinishLine(s, fresh, out) ==
  /\ half[s]
  /\ IF fresh THEN ids[s] < (IF meter = "codex" THEN 1 ELSE MaxIds)
              ELSE ids[s] > 0 /\ out >= OutOf(s)
  /\ ids' = [ids EXCEPT ![s] = IF fresh THEN @ + 1 ELSE @]
  /\ logs' = [logs EXCEPT ![s] = Append(@, <<ids'[s], out>>)]
  /\ half' = [half EXCEPT ![s] = FALSE]
  /\ Touched(s) /\ UNCHANGED <<up, title>>

FinishOther(s) ==
  /\ half[s]
  /\ logs' = [logs EXCEPT ![s] = Append(@, NoUsage)]
  /\ half' = [half EXCEPT ![s] = FALSE]
  /\ Touched(s) /\ UNCHANGED <<ids, up, title>>

Compact(s) ==
  /\ meter # "codex" /\ Len(logs[s]) > 1 /\ ids[s] < MaxIds
  /\ logs' = [logs EXCEPT ![s] = <<NoUsage>>] /\ half' = [half EXCEPT ![s] = FALSE]
  /\ ids' = [ids EXCEPT ![s] = @ + 1]
  /\ Touched(s) /\ UNCHANGED <<up, title>>

-----------------------------------------------------------------------------
(* Which agent runs which session: by window title first (native), then the *)
(* busy ones take the last written transcripts nobody has.  A Codex rollout *)
(* counts once its first line, with the directory, is whole; the guest      *)
(* looks at all transcripts, the others at the last written ones.           *)
Whole == {s \in DOMAIN place : place[s] > 0 /\ (meter = "codex" => logs[s] # <<>>)}

Candidates(n) ==
  {s \in Whole : meter = "guest" \/ Cardinality({t \in Whole : place[t] < place[s]}) < n + Spare}

Free(cand, acc) == {s \in cand : \A p \in Pids : acc[p] # s}

(* The last written candidate of those wanted that is free. *)
Claim(cand, acc, p, wanted) ==
  LET free == Free(cand, acc) \cap wanted
  IN IF acc[p] # NOSESSION \/ free = {} THEN acc
     ELSE [acc EXCEPT ![p] = CHOOSE s \in free : \A t \in free : place[s] <= place[t]]

(* One process after another claims what it wants. *)
Pass(cand, acc, wanted) ==
  LET claimed[n \in 0..MaxPid] ==
        IF n = 0 THEN acc ELSE Claim(cand, claimed[n - 1], n, wanted[n])
  IN claimed[MaxPid]

Nobody == [p \in Pids |-> NOSESSION]

(* Faulty variant: a session may be claimed twice. *)
TitlePass_Shares(cand, seen) ==
  [p \in Pids |->
     IF meter = "native" /\ p \in seen /\ cand \cap title[p] # {}
     THEN CHOOSE s \in cand \cap title[p] : TRUE ELSE NOSESSION]
TitlePass(cand, seen) ==
  Pass(cand, Nobody, [p \in Pids |-> IF meter = "native" /\ p \in seen THEN title[p] ELSE {}])

Fallback(cand, acc, who) == Pass(cand, acc, [p \in Pids |-> IF p \in who THEN Sessions ELSE {}])

Matched(seen, busy) ==
  LET cand == Candidates(Cardinality(seen))
      all == Fallback(cand, Fallback(cand, TitlePass(cand, seen), seen \cap busy), seen \ busy)
  IN [p \in seen |-> all[p]]

-----------------------------------------------------------------------------
(* Reading what was appended since the last scan.                           *)
FileLen(s) == 2 * Len(logs[s]) + (IF half[s] THEN 1 ELSE 0)

PushLine(t, line) ==
  IF line = NoUsage THEN t
  ELSE IF meter = "codex" \/ line[1] = t.id THEN [t EXCEPT !.last = line[2]]
  ELSE [off |-> t.off, id |-> line[1], last |-> line[2], fin |-> t.fin + t.last]

(* The lines after the first few. *)
Pushed(t, lines, few) ==
  LET read[n \in 0..Len(lines)] == IF n <= few THEN t ELSE PushLine(read[n - 1], lines[n])
  IN read[Len(lines)]

Total(t) == t.fin + t.last

Offset(s, t) == IF FileLen(s) < t.off THEN FileLen(s) ELSE t.off
Passed(o) == (o + 1) \div 2   \* lines a reading from o does not see whole

(* Faulty variant: the unfinished line counts as read. *)
ReadNewLines_Commits(s, t) ==
  LET o == Offset(s, t)
      read == Pushed(t, logs[s], Passed(o))
  IN [read EXCEPT !.off = FileLen(s)]
ReadNewLines(s, t) ==
  LET o == Offset(s, t)
      read == Pushed(t, logs[s], Passed(o))
      newline == 2 * Len(logs[s])
  IN [read EXCEPT !.off = IF newline > o THEN newline ELSE o]

(* The guest begins at the end of a transcript, the built-in at its start. *)
GuestFirstWatch(s) == [New EXCEPT !.off = FileLen(s)]
FirstWatch(s) == IF meter = "guest" THEN GuestFirstWatch(s) ELSE New

(* Ghost: the transcript was only appended to since its last scan. *)
Grown(s, t) == IsPrefix(prev[s], logs[s]) /\ FileLen(s) >= t.off

-----------------------------------------------------------------------------
(* One poll.  /proc may be read while processes come and go: the scan sees  *)
(* some of the agents.  A first reading without any is taken for a glitch.  *)
Glitch(seen) ==
  /\ seen = {} /\ hadAgents /\ ~sawEmpty
  /\ sawEmpty' = TRUE
  /\ UNCHANGED <<track, hadAgents, agents, anchors, prev, since>>

(* Counters of sessions no agent runs are dropped, in the scanner and in    *)
(* the module (ingest).                                                     *)
Poll(seen, busy) ==
  LET live == Range(Matched(seen, busy)) \ {NOSESSION}
      entry == [s \in live |-> IF s \in DOMAIN track THEN track[s] ELSE FirstWatch(s)]
  IN /\ ~(seen = {} /\ hadAgents /\ ~sawEmpty)
     /\ agents' = Matched(seen, busy)
     /\ track' = [s \in live |-> ReadNewLines(s, entry[s])]
     /\ anchors' = [s \in live |->
                      IF s \in DOMAIN anchors THEN anchors[s] ELSE Total(track'[s])]
     /\ sawEmpty' = (seen = {}) /\ hadAgents' = (seen # {})
     /\ prev' = [s \in Sessions |-> IF s \in live THEN logs[s] ELSE <<>>]
     /\ since' = [s \in Sessions |->
                   IF s \notin live THEN 0
                   ELSE IF s \in DOMAIN track /\ Grown(s, entry[s]) THEN since[s]
                   ELSE Passed(Offset(s, entry[s]))]

Tick(seen, busy) == (Glitch(seen) \/ Poll(seen, busy)) /\ UNCHANGED <<meter, machine>>

NativeScan(seen, busy) == meter = "native" /\ Tick(seen, busy)
CodexScan(seen, busy) == meter = "codex" /\ Tick(seen, busy)
GuestScan(seen, busy) == meter = "guest" /\ Tick(seen, busy)

Scan(seen, busy) ==
  NativeScan(seen, busy) \/ CodexScan(seen, busy) \/ GuestScan(seen, busy)

AgentsNext ==
  \/ \E seen \in SUBSET up, busy \in SUBSET up : Scan(seen, busy)
  \/ /\ \/ \E p \in Pids : Start(p) \/ Exit(p)
        \/ \E p \in Pids, t \in SUBSET Sessions : Retitle(p, t)
        \/ \E s \in Sessions : BeginLine(s) \/ FinishOther(s) \/ Compact(s)
        \/ \E s \in Sessions, f \in BOOLEAN, out \in 1..MaxOut : FinishLine(s, f, out)
     /\ UNCHANGED <<meter, meterState>>

AgentsSpec == AgentsInit /\ [][AgentsNext]_agentVars

-----------------------------------------------------------------------------
Polled == \E seen \in SUBSET up, busy \in SUBSET up : Poll(seen, busy)

(* Two agents never share a session; an agent is without one only if there  *)
(* are more agents than transcripts; and a session an agent's title names   *)
(* is not guessed away to an agent whose title does not.                    *)
SessionEach ==
  /\ \A p, q \in DOMAIN agents' :
       p # q /\ agents'[p] # NOSESSION => agents'[p] # agents'[q]
  /\ \A p \in DOMAIN agents' :
       agents'[p] = NOSESSION => Whole \subseteq Range(agents')
  /\ meter = "native" =>
       \A p, q \in DOMAIN agents' :
         agents'[q] \in title[p] => agents'[p] \in title[p] \/ agents'[q] \in title[q]

OneSessionEach == [][Polled => SessionEach]_agentVars

(* The tokens of the messages in the lines lo + 1..hi, each at its last count. *)
Final(lines, lo, hi, m) ==
  LET counts == {n \in lo + 1..hi : lines[n][1] = m}
  IN IF counts = {} THEN 0 ELSE lines[CHOOSE n \in counts : \A k \in counts : k <= n][2]

Counted(lines, lo, hi) ==
  LET sum[m \in 0..MaxIds] == IF m = 0 THEN 0 ELSE sum[m - 1] + Final(lines, lo, hi, m)
  IN sum[MaxIds]

(* While a transcript is only appended to, a poll adds to a session's total *)
(* what its new lines add, however they fall on the polls and whatever is   *)
(* unfinished; and what a rate is measured from is never more than the      *)
(* total (the guest's starts over when an agent is missed by a scan).       *)
TotalsKept ==
  Polled =>
    \A s \in DOMAIN track' :
      LET was == IF s \in DOMAIN track THEN track[s] ELSE New
      IN /\ Grown(s, was) =>
              Total(track'[s]) - Total(was) =
                Counted(logs[s], since'[s], Len(logs[s])) - Counted(prev[s], since'[s], Len(prev[s]))
         /\ anchors'[s] <= Total(track'[s])

TotalsExact == [][TotalsKept]_agentVars
=============================================================================
