------------------------------ MODULE Calendar ------------------------------
(* The calendar guest (wasm/calendar, calendar-logic): the iCal feed is     *)
(* streamed in chunks through a slimmer that keeps the events of a few      *)
(* days, and the day's agenda is worked out from what it kept at every      *)
(* tick, also when later fetches fail.                                      *)
(*                                                                          *)
(* Time counts half days.  An event gives its start as wall-clock time of   *)
(* its own zone, up to half a day from the bar's.                           *)
EXTENDS Integers, FiniteSets, SequencesExt

CONSTANTS
  Feeds,       \* the feeds the server may have: sequences of events
  MaxNow,      \* bound: half days
  MaxTicks,    \* bound: timer events
  MaxChunk,    \* bound: half lines read at a time
  NONE

VARIABLES
  feed, now,
  configured,  \* is there an address in the url file?
  slim,        \* [on, events, cut] of the last whole fetch, or NONE (empty)
  lastFetch,
  reading,     \* fetch_slim at work: [at, pos, slimmer, cut], or NONE
  shown,       \* the agenda as of the last tick, or NONE
  ticks

vars == <<feed, now, configured, slim, lastFetch, reading, shown, ticks>>

DayOf(t) == t \div 2
DayStart(d) == 2 * d

(* An event: uid, wall (start in its zone), zone, dur, every (0: no RRULE), *)
(* until, ex (EXDATE), rid (RECURRENCE-ID), cancelled, allDay, title, text  *)
(* (the links it has, in the order of the fields they are scanned in).  A   *)
(* title in Wide has a character of several bytes.                          *)
Wide == {"b"}
Garbled == "?"
ParseDt(e, w) == w - e.zone

-----------------------------------------------------------------------------
(* The best link to join by: a Zoom one with its password, else Meet, else  *)
(* Zoom without.                                                            *)
JoinUrl(text) ==
  LET first(k) == SelectSeq(text, LAMBDA l : l[1] = k)
      ranked == first("zoom+pwd") \o first("meet") \o first("zoom")
  IN IF ranked = <<>> THEN NONE ELSE ranked[1]

-----------------------------------------------------------------------------
(* The slimmer, a line at a time.  A chunk may end within a line, which     *)
(* waits in "pending" (here: is not counted as read) for the rest; it may   *)
(* end within a character, of which each half is decoded by itself.  Only a *)
(* SUMMARY with such a character has a line here.                           *)
LinesOf(e) ==
  <<<<"BEGIN", e>>, <<"DTSTART", e>>>>
    \o (IF e.title \in Wide THEN <<<<"SUMMARY", e>>>> ELSE <<>>)
    \o (IF e.rid = NONE THEN <<>> ELSE <<<<"RECURRENCE-ID", e>>>>)
    \o (IF e.every = 0 THEN <<>> ELSE <<<<"RRULE", e>>>>)
    \o <<<<"END", e>>>>

(* A feed begins with a VTIMEZONE, which has a DTSTART too. *)
Body(f) == <<<<"DTSTART", [wall |-> 0]>>>> \o FlattenSeq([n \in DOMAIN f |-> LinesOf(f[n])])

NewSlimmer(today) ==
  [lo |-> today - 1, hi |-> today + 2, inEvent |-> FALSE, keep |-> FALSE, title |-> NONE, out |-> <<>>]

InWindow(s, w) == DayOf(w) >= s.lo /\ DayOf(w) <= s.hi

Justifies(s, line) ==
  CASE line[1] = "DTSTART" -> InWindow(s, line[2].wall)
    [] line[1] = "RECURRENCE-ID" -> InWindow(s, line[2].rid)
    [] line[1] = "RRULE" -> line[2].until = NONE \/ DayOf(line[2].until) >= s.lo
    [] OTHER -> FALSE

Titled(s, e) == IF s.title = NONE THEN e ELSE [e EXCEPT !.title = s.title]

FeedLineWith(s, line, keep) ==
  CASE line[1] = "BEGIN" -> [s EXCEPT !.inEvent = TRUE, !.keep = FALSE, !.title = NONE]
    [] ~s.inEvent -> s
    [] line[1] = "END" ->
         [s EXCEPT !.out = IF s.keep THEN Append(@, Titled(s, line[2])) ELSE @, !.inEvent = FALSE]
    [] line[1] = "GARBLED" -> [s EXCEPT !.title = Garbled]
    [] OTHER -> [s EXCEPT !.keep = keep]

(* Faulty variant: the last line that could decide, decides. *)
FeedLine_Decides(s, line) == FeedLineWith(s, line, Justifies(s, line))
FeedLine(s, line) == FeedLineWith(s, line, s.keep \/ Justifies(s, line))

-----------------------------------------------------------------------------
(* parse_calendar, for the day that "at" falls on. *)
Overridden(events) ==
  {<<events[n].uid, ParseDt(events[n], events[n].rid)>> :
     n \in {m \in DOMAIN events : events[m].rid # NONE}}

Meeting(e, start) ==
  [start |-> start, end |-> start + e.dur, allDay |-> e.allDay, title |-> e.title,
   link |-> JoinUrl(e.text)]

Today(m, at) == m.end > DayStart(DayOf(at)) /\ m.start < DayStart(DayOf(at) + 1)

(* The series' occurrences from a day before to a day after today. *)
Occurrences(e, at) ==
  SetToSortSeq({w \in DayStart(DayOf(at) - 1) + e.zone .. DayStart(DayOf(at) + 2) + e.zone :
                  /\ w >= e.wall /\ (w - e.wall) % e.every = 0
                  /\ (e.until # NONE => w <= e.until) /\ w \notin e.ex}, <)

ExpandRrule(e, at, over) ==
  IF e.allDay THEN <<>>
  ELSE SelectSeq([n \in DOMAIN Occurrences(e, at) |-> Meeting(e, ParseDt(e, Occurrences(e, at)[n]))],
                 LAMBDA m : <<e.uid, m.start>> \notin over /\ Today(m, at))

Concrete(e, at, over) ==
  CASE e.cancelled -> <<>>
    [] e.every > 0 -> ExpandRrule(e, at, over)
    [] OTHER -> SelectSeq(<<Meeting(e, ParseDt(e, e.wall))>>, LAMBDA m : Today(m, at))

Same(m, k) ==
  m.start = k.start /\ m.end = k.end /\ m.title = k.title /\ m.allDay = k.allDay

(* One row per meeting; a copy gives its link to one without. *)
AddMeeting(out, m) ==
  LET twin == SelectInSeq(out, LAMBDA k : Same(m, k))
  IN IF twin = 0 THEN Append(out, m)
     ELSE IF out[twin].link = NONE THEN [out EXCEPT ![twin].link = m.link] ELSE out

DedupeEvents(ms) == FoldLeft(AddMeeting, <<>>, ms)

ParseCalendar(events, at) ==
  LET over == Overridden(events)
      all == FlattenSeq([n \in DOMAIN events |-> Concrete(events[n], at, over)])
      one == DedupeEvents(all)
      index == SetToSortSeq(DOMAIN one, LAMBDA a, b : 2 * Len(one) * one[a].start + a
                                                     < 2 * Len(one) * one[b].start + b)
  IN [n \in DOMAIN index |-> one[index[n]]]

(* The meeting of the chip: of those not over, the first to begin. *)
(* Faulty variant: the last one looked at. *)
NextMeeting_Last(ms, at) ==
  LET open == SelectSeq(ms, LAMBDA m : ~m.allDay /\ m.end > at)
  IN IF open = <<>> THEN NONE ELSE open[Len(open)]
NextMeeting(ms, at) ==
  LET open == SelectSeq(ms, LAMBDA m : ~m.allDay /\ m.end > at)
  IN IF open = <<>> THEN NONE ELSE open[1]

Overdue(m, at) == m # NONE /\ m.start < at

(* The rows of the popup, and where its "now" line is. *)
Rows(ms) == SelectSeq(ms, LAMBDA m : m.allDay) \o SelectSeq(ms, LAMBDA m : ~m.allDay)
MarkerAt(rows, at) == SelectInSeq(rows, LAMBDA m : ~m.allDay /\ m.start > at)

-----------------------------------------------------------------------------
Init ==
  /\ feed \in Feeds /\ now = 4 /\ configured \in BOOLEAN
  /\ slim = NONE /\ lastFetch = 0 /\ reading = NONE /\ shown = NONE /\ ticks = 0

Recompute(events) ==
  LET ms == IF events = NONE THEN <<>> ELSE ParseCalendar(events, now)
  IN shown' = [at |-> now, rows |-> Rows(ms), marker |-> MarkerAt(Rows(ms), now),
               next |-> NextMeeting(ms, now), overdue |-> Overdue(NextMeeting(ms, now), now)]

Kept == IF slim = NONE THEN NONE ELSE slim.events

(* The timer: without an address, look for it again; a feed fetched lately  *)
(* is used as it is; else it is fetched.                                    *)
FetchDue == slim = NONE \/ now > lastFetch

TimerIdle ==
  /\ reading = NONE /\ ticks < MaxTicks /\ ticks' = ticks + 1
  /\ ~configured \/ ~FetchDue
  /\ Recompute(Kept)
  /\ UNCHANGED <<feed, now, configured, slim, lastFetch, reading>>

TimerFetch ==
  /\ reading = NONE /\ ticks < MaxTicks /\ ticks' = ticks + 1
  /\ configured /\ FetchDue
  /\ reading' = [at |-> now, pos |-> 0, slimmer |-> NewSlimmer(DayOf(now)), cut |-> {}]
  /\ UNCHANGED <<feed, now, configured, slim, lastFetch, shown>>

(* The next chunk, of so many half lines.  Where it ends within a title, it *)
(* may do so within a character: that line comes out garbled.               *)
FeedEnd == 2 * Len(Body(feed))
LineAt(n) == Body(feed)[n]
Decoded(n) == IF n \in reading.cut THEN <<"GARBLED", LineAt(n)[2]>> ELSE LineAt(n)

ReadChunk(size) ==
  /\ reading # NONE /\ reading.pos < FeedEnd
  /\ LET to == IF reading.pos + size > FeedEnd THEN FeedEnd ELSE reading.pos + size
         last == to \div 2 + 1
         whole == [n \in 1..(to \div 2 - reading.pos \div 2) |-> Decoded(reading.pos \div 2 + n)]
         cuts == IF to % 2 = 1 /\ LineAt(last)[1] = "SUMMARY" THEN {{}, {last}} ELSE {{}}
     IN \E new \in cuts :
          reading' = [reading EXCEPT !.pos = to, !.slimmer = FoldLeft(FeedLine, @, whole), !.cut = @ \cup new]
  /\ UNCHANGED <<feed, now, configured, slim, lastFetch, shown, ticks>>

FetchDone ==
  /\ reading # NONE /\ reading.pos = FeedEnd
  /\ slim' = [on |-> DayOf(reading.at), events |-> reading.slimmer.out,
              cut |-> {LineAt(n)[2] : n \in reading.cut}]
  /\ lastFetch' = reading.at /\ reading' = NONE
  /\ Recompute(reading.slimmer.out)
  /\ UNCHANGED <<feed, now, configured, ticks>>

(* Opening or reading fails: what was read is thrown away. *)
FetchFails ==
  /\ reading # NONE
  /\ reading' = NONE /\ Recompute(Kept)
  /\ UNCHANGED <<feed, now, configured, slim, lastFetch, ticks>>

(* The world: time passes, the url file is written. *)
Advance ==
  /\ now < MaxNow /\ reading = NONE /\ shown # NONE /\ now' = now + 1
  /\ UNCHANGED <<feed, configured, slim, lastFetch, reading, shown, ticks>>
WriteUrl ==
  /\ ~configured /\ configured' = TRUE
  /\ UNCHANGED <<feed, now, slim, lastFetch, reading, shown, ticks>>

Next ==
  \/ TimerIdle \/ TimerFetch \/ FetchDone \/ FetchFails \/ Advance \/ WriteUrl
  \/ \E size \in 1..MaxChunk : ReadChunk(size)

Spec == Init /\ [][Next]_vars

-----------------------------------------------------------------------------
(* What the calendar says of a day: the events that are not cancelled, and  *)
(* the occurrences of series that no other event of the series replaces.    *)
(* A series of whole days is left out, as expand_rrule says ("not expanded, *)
(* rare; unchanged limitation").                                            *)
Rank(l) == CASE l[1] = "zoom+pwd" -> 2 [] l[1] = "meet" -> 1 [] OTHER -> 0
Best(text) ==
  IF text = <<>> THEN NONE
  ELSE CHOOSE l \in ToSet(text) : \A k \in ToSet(text) : Rank(k) <= Rank(l)

Held(f, d) ==
  LET evs == ToSet(f)
      takes(e) ==
        IF e.every = 0 THEN {e.wall}
        ELSE {w \in e.wall..(DayStart(d) + 4) :
                /\ ~e.allDay /\ (w - e.wall) % e.every = 0 /\ w \notin e.ex
                /\ e.until # NONE => w <= e.until
                /\ \A o \in evs : o.uid = e.uid /\ o.rid # NONE => o.rid - o.zone # w - e.zone}
  IN {m \in UNION {{[Meeting(e, w - e.zone) EXCEPT !.link = Best(e.text)] : w \in takes(e)} : e \in {x \in evs : ~x.cancelled}} :
        Today(m, DayStart(d))}

(* The feed as it was read: with the titles that a chunk cut in a character *)
(* garbled, and nothing else changed.                                       *)
AsRead == [n \in DOMAIN feed |-> IF feed[n] \in slim.cut THEN [feed[n] EXCEPT !.title = Garbled] ELSE feed[n]]

(* A feed's agenda is right on the day it was fetched and the day after     *)
(* ("the chip rolls over at midnight without a refetch"), however the feed  *)
(* was cut into chunks, but for titles cut within a character, and whatever *)
(* fetches failed: each meeting of the day once, with the best link of a    *)
(* copy that has one, in order of time; the chip has the meeting that runs, *)
(* or else the next: the first to begin of those that are not over; and the *)
(* "now" line parts what has begun from what has not.                       *)
Agenda ==
  shown # NONE /\ slim # NONE /\ DayOf(shown.at) \in slim.on..(slim.on + 1) =>
    LET held == Held(AsRead, DayOf(shown.at))
        rows == shown.rows
        timed == SelectSeq(rows, LAMBDA m : ~m.allDay)
        open == {m \in held : ~m.allDay /\ m.end > shown.at}
    IN /\ \A m \in held : Cardinality({n \in DOMAIN rows : Same(m, rows[n])}) = 1
       /\ \A n \in DOMAIN rows :
            /\ \E m \in held : Same(m, rows[n])
            /\ rows[n].link = NONE => \A m \in held : Same(m, rows[n]) => m.link = NONE
            /\ rows[n].link # NONE =>
                 \E m \in held : Same(m, rows[n]) /\ m.link = rows[n].link
       /\ \A a, b \in DOMAIN timed : a < b => timed[a].start <= timed[b].start
       /\ (shown.next = NONE) <=> open = {}
       /\ shown.next # NONE =>
            /\ \E m \in open : Same(m, shown.next)
            /\ \A m \in open : shown.next.start <= m.start
            /\ shown.overdue <=> shown.next.start < shown.at
       /\ \A n \in DOMAIN rows :
            ~rows[n].allDay => ((rows[n].start > shown.at) <=> (shown.marker > 0 /\ n >= shown.marker))

(* "chunking is transparent" (calendar-logic, lib.rs:632): the code breaks  *)
(* it where a chunk ends within a character (lib.rs:175).                   *)
Transparent == slim # NONE => slim.cut = {}
=============================================================================
