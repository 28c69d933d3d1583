----------------------------- MODULE MCContents -----------------------------
(* What there is to show is worked out, in one run: a theme resolved, a     *)
(* plugin's frame lowered and drawn, a calendar's agenda, a format's text,  *)
(* the month and the clock, and the agents' sessions with their tokens,     *)
(* once for what is counted and once for who is matched; and what a plugin  *)
(* may do is worked out from the consent on record.  A behaviour is one of  *)
(* these parts, and the others rest.                                        *)
EXTENDS Consent, MonthGrid, ClockStream, Resolve, Agents, TLC

CONSTANTS log1, log2

VARIABLES part,
  tree, arena, seen, size,
  feed, now, configured, slim, lastFetch, reading, agenda, ticks,
  format, i, segs, buf, bold, colors, window, max

(* A scalar that is a colour, one that names a colour of the palette, or    *)
(* neither; palettes with that colour, and with one that names itself.      *)
MCLeaves == {<<"colour", 1>>, <<"ref", "p">>, <<"bad", 0>>}
MCPalettes == {[k \in {"p"} |-> <<"colour", 2>>], [k \in {"p"} |-> <<"ref", "p">>]}

(* Two looks at a theme: any layers with one palette (the preset file is    *)
(* silent on the text), and any palettes under layers of one key, set to a  *)
(* colour or a reference.                                                   *)
Sole == {[k \in {"text"} |-> v] : v \in {<<"colour", 1>>, <<"ref", "p">>}}
  \cup {[k \in {"background"} |-> Table([b \in {"base"} |-> <<"ref", "p">>])]}
OnePalette ==
  /\ palettes \in {[n \in 1..4 |-> IF n = m THEN p ELSE Absent] : m \in 1..4, p \in MCPalettes \cup {Absent}}
  /\ layers \in [1..3 -> Themes \cup {Absent}] /\ (layers[1] # Absent => "text" \notin DOMAIN layers[1])
AnyPalettes == palettes \in [1..4 -> MCPalettes \cup {Absent}] /\ layers \in [1..3 -> Sole \cup {Absent}]

(* Every token once, and every widget around every other to a depth of two; *)
(* arenas with children that follow, that are shared, or that are missing.  *)
Texts == {<<"text", c>> : c \in {"Ok", "Bg"}}
Around(S, L) ==
  L \cup {<<k, c>> : k \in {"row", "column"}, c \in {<<>>} \cup {<<w>> : w \in S} \cup (S \X S)}
    \cup {<<k, w>> : k \in {"box", "area"}, w \in S}
Shapes ==
  Around(Texts \cup {<<"row", <<>>>>, <<"column", <<<<"text", "Ok">>, <<"text", "Fg">>>>>>,
                     <<"box", <<"text", "Urgent">>>>, <<"area", <<"text", "Accent">>>>}, {})
Colours == {"Fg", "FgDim", "Accent", "Ok", "Warn", "Urgent", "Bg"}
MCTrees ==
  {<<"text", c>> : c \in Colours} \cup Around(Texts, {<<"text", "Warn">>}) \cup Shapes \cup Around(Shapes, {})
Node ==
  {<<"text", "Fg">>} \cup {<<"row", c>> : c \in {<<>>} \cup {<<n>> : n \in 1..3}} \cup {<<"box", n>> : n \in 1..3}

Wid == INSTANCE Widgets
  WITH Trees <- MCTrees, Arenas <- [nodes : UNION {[1..n -> Node] : n \in 0..3}, root : 1..3],
       MaxNodes <- 7, MaxDepth <- 2

(* Meetings with one link, two or none, of one time zone or another, a day  *)
(* long, with titles that a chunk may cut in a character; a series with an  *)
(* end, an exception, an occurrence that is moved, by an hour or to another *)
(* day, or cancelled; and one of whole days.                                *)
Ev(uid, at, z, dur) ==
  [uid |-> uid, wall |-> at, zone |-> z, dur |-> dur, every |-> 0, until |-> NONE, ex |-> {},
   rid |-> NONE, cancelled |-> FALSE, allDay |-> FALSE, title |-> "a", text |-> <<>>]
Zoom == <<"zoom", 1>>
ZoomPwd == <<"zoom+pwd", 2>>
Meet == <<"meet", 3>>
Singles ==
  {[Ev("x2", 3, 0, 2) EXCEPT !.text = <<Zoom, Meet>>, !.title = "b"], Ev("w", 8, 1, 1),
   [Ev("x", 3, 0, 2) EXCEPT !.title = "b"],
   [Ev("y", 6, 1, 2) EXCEPT !.text = <<Zoom, Meet>>],
   [Ev("z", 4, 0, 2) EXCEPT !.allDay = TRUE, !.title = "c"]}
Series ==
  {[Ev("s", 1, 0, 1) EXCEPT !.every = 2, !.until = e, !.ex = x, !.text = <<Zoom, Meet, ZoomPwd>>] :
     e \in {NONE, 5}, x \in {{}, {7}}}
    \cup {[Ev("d", 1, 0, 2) EXCEPT !.every = 2, !.allDay = TRUE]}
Changes ==
  {[Ev("s", w, 0, 1) EXCEPT !.rid = r, !.cancelled = c] : w \in {2, 6}, r \in {5, 7}, c \in BOOLEAN}
    \cup {[Ev("s", 14, 0, 1) EXCEPT !.rid = 5], [Ev("s", 6, 0, 1) EXCEPT !.rid = 13]}
Some == Singles \cup Series \cup Changes
MCFeeds ==
  {<<>>} \cup {<<ev>> : ev \in Some} \cup {f \in Some \X Some : f[1] # f[2]} \cup (Series \X Changes \X Singles)

Cal == INSTANCE Calendar
  WITH Feeds <- MCFeeds, MaxNow <- 8, MaxTicks <- 2, MaxChunk <- 3, shown <- agenda

Plain == [is |-> "text", token |-> NONE]
Marks == <<[is |-> "bold", token |-> NONE], Plain, [is |-> "endcolor", token |-> NONE]>>

(* A title that is plain, and one with what would be marks in a format.     *)
Mark == INSTANCE Markup
  WITH Tokens <- {"x", "y"}, MaxPieces <- 4, Titles <- {<<Plain>>, Marks}, title <- window

\* Four months, one of them short.
Spring == <<31, 28, 31, 30>>

(* A clock of minutes, hours and days that are short but nested as they     *)
(* are, in zones that shift by an hour or half of one, or do not.           *)
MCZones ==
  {[from |-> 0, by |-> 0]} \cup [from : {h * 8 : h \in 6..10}, by : {-8, 8}] \cup [from : {64, 72}, by : {4}]

(* Counting is looked at with one process and one transcript of three       *)
(* lines, matching with two of each, of one line.                           *)
OfOne == up' \subseteq {1} /\ Cardinality({s \in Sessions : place'[s] > 0}) <= 1
OfOneLine ==
  \A s \in Sessions : logs'[s] \in {<<>>, <<NoUsage>>, <<<<1, 1>>>>} /\ (half'[s] => logs'[s] = <<>>)

(* The second version of a plugin wants a program run. *)
Wants == [v \in {1, 2} |-> IF v = 1 THEN {"net"} ELSE {"net", "exec"}]

ASSUME WholeHours == ShiftsOnTheHour

(* Which of the two sessions is which makes no difference. *)
Alike == Permutations({log1, log2})

widVars == <<tree, arena, seen, size>>
calVars == <<feed, now, configured, slim, lastFetch, reading, agenda, ticks>>
markVars == <<format, i, segs, buf, bold, colors, window, max>>

Parts == {"theme", "frame", "calendar", "markup", "month", "clock", "count", "match", "consent"}

(* The one state in which a part rests. *)
Pinned ==
  /\ part = "theme" => OnePalette \/ AnyPalettes
  /\ part # "theme" =>
       /\ layers = [n \in 1..3 |-> Absent] /\ palettes = [n \in 1..4 |-> Absent]
       /\ named = FALSE
  /\ part # "frame" => tree = <<"text", "Fg">>
  /\ part # "calendar" => feed = <<>> /\ configured = FALSE
  /\ part # "markup" => format = <<>> /\ max = 0
  /\ part # "month" =>
       trigger = "off" /\ sunday_first = FALSE /\ weekday = 0 /\ today = FirstDay[2]
  /\ part # "clock" => fields = {"minute"} /\ zone = [from |-> 0, by |-> 0] /\ wall = 48
  /\ part \notin {"count", "match"} => meter = "native"
  /\ part # "consent" => file = [id \in Ids |-> 1]

Starts(p) ==
  /\ p = "theme" => ThemeInit
  /\ p = "frame" => Wid!Init
  /\ p = "calendar" => Cal!Init
  /\ p = "markup" => Mark!Init
  /\ p = "month" => MonthInit
  /\ p = "clock" => ClockInit
  /\ p \in {"count", "match"} => AgentsInit
  /\ p = "consent" => Init

(* The parts that rest come first, which is much faster. *)
MCInit ==
  /\ part \in Parts
  /\ Pinned
  /\ \A p \in Parts \ {part, "count", "match"} : Starts(p)
  /\ part \notin {"count", "match"} => Starts("count")
  /\ Starts(part)

MCNext ==
  /\ UNCHANGED part
  /\ \/ /\ part = "theme" /\ ThemeNext
        /\ UNCHANGED <<widVars, calVars, markVars, monthVars, clockVars, agentVars, vars>>
     \/ /\ part = "frame" /\ Wid!Next
        /\ UNCHANGED <<themeVars, calVars, markVars, monthVars, clockVars, agentVars, vars>>
     \/ /\ part = "calendar" /\ Cal!Next
        /\ UNCHANGED <<themeVars, widVars, markVars, monthVars, clockVars, agentVars, vars>>
     \/ /\ part = "markup" /\ Mark!Next
        /\ UNCHANGED <<themeVars, widVars, calVars, monthVars, clockVars, agentVars, vars>>
     \/ /\ part = "month" /\ MonthNext
        /\ UNCHANGED <<themeVars, widVars, calVars, markVars, clockVars, agentVars, vars>>
     \/ /\ part = "clock" /\ ClockNext
        /\ UNCHANGED <<themeVars, widVars, calVars, markVars, monthVars, agentVars, vars>>
     \/ /\ part = "count" /\ AgentsNext /\ OfOne
        /\ UNCHANGED <<themeVars, widVars, calVars, markVars, monthVars, clockVars, vars>>
     \/ /\ part = "match" /\ AgentsNext /\ OfOneLine
        /\ UNCHANGED <<themeVars, widVars, calVars, markVars, monthVars, clockVars, vars>>
     \/ /\ part = "consent" /\ Next
        /\ UNCHANGED <<themeVars, widVars, calVars, markVars, monthVars, clockVars, agentVars>>

mcVars == <<part, themeVars, widVars, calVars, markVars, monthVars, clockVars, agentVars, vars>>
MCSpec == MCInit /\ [][MCNext]_mcVars
ConsentSpec == part = "consent" /\ MCSpec

(* What the bar shows of a plugin is what the plugin drew. *)
ShownAsDrawn == part = "frame" => Wid!ShownAsDrawn

(* The agenda is the calendar's, in order. *)
Agenda == part = "calendar" => Cal!Agenda

(* A title is shown as the format says. *)
MarkupTells == part = "markup" => Mark!MarkupTells
=============================================================================
