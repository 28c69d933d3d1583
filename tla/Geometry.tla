------------------------------ MODULE Geometry ------------------------------
(***************************************************************************)
(* The geometry of the live bars and docks (src/main.rs, RFC 0004 and      *)
(* 0022): worked out from the configuration when a surface is made, and    *)
(* changed in place, attribute by attribute, when the configuration or the *)
(* bar's position changes.                                                 *)
(*                                                                         *)
(* update() only hands messages to the layer-shell runtime.  The tasks of  *)
(* one update come in batches whose messages the runtime takes in turns;   *)
(* one for a surface that does not exist is lost.  Which surfaces there    *)
(* are, and the ways they go, are the matter of module Surfaces.           *)
(***************************************************************************)
EXTENDS Integers, SequencesExt

CONSTANTS
  Outputs,     \* the monitors
  Configs,     \* configurations: bar, dock and the wanted outputs
  MaxUpdates   \* bound: updates of the bar

VARIABLES
  config,   \* Bar.config
  bar_pos,  \* Bar.bar_pos: the position, which IPC may override
  live,     \* the monitors that are there
  surf,     \* Bar.bars and Bar.docks
  docked,   \* Bar.dock_visible
  queue,    \* messages on their way to the layer-shell runtime
  screen,   \* the surfaces there are, with their geometry
  asked,    \* history: the position asked for last, by a reload or by IPC
  updates   \* counts the updates

vars == <<config, bar_pos, live, surf, docked, queue, screen, asked, updates>>

Positions == {"top", "bottom", "left", "right"}
Horizontal(pos) == pos \in {"top", "bottom"}
Positive(n) == IF n > 0 THEN n ELSE 0

\* The geometry of a bar at pos: its thickness and the gap at its edge are reserved.
BarGeom(b, pos) ==
  [anchor |-> pos, size |-> b.height, margin |-> b.margin, layer |-> b.layer,
   zone |-> b.height + Positive(b.margin[pos])]

\* The geometry of a dock: on the right or, for any other position, on the left.
DockGeom(d) ==
  [anchor |-> IF d.position = "right" THEN "right" ELSE "left", size |-> d.width,
   margin |-> [p \in Positions |-> 0], layer |-> d.layer, zone |-> d.width]

\* The edge a popup hangs from and how far: clear of the bar's height and gap, and a hair.
PopupGeom ==
  LET edge == IF bar_pos = "bottom" THEN "bottom" ELSE "top" IN
  [edge |-> edge, clear |-> config.bar.height + Positive(config.bar.margin[edge]) + 6]

Init ==
  /\ config \in Configs
  /\ bar_pos = config.bar.position
  /\ live = Outputs
  /\ surf = {} /\ docked = FALSE /\ queue = << >> /\ screen = << >>
  /\ asked = config.bar.position /\ updates = 0

-----------------------------------------------------------------------------
\* Messages that two batches of one update give, taken in turns.
InTurns(a, b) ==
  LET n == IF Len(a) < Len(b) THEN Len(a) ELSE Len(b) IN
  [i \in 1 .. 2 * n |-> IF i % 2 = 1 THEN a[(i + 1) \div 2] ELSE b[i \div 2]]
    \o SubSeq(a, n + 1, Len(a)) \o SubSeq(b, n + 1, Len(b))


(***************************************************************************)
(* What an update hands to the runtime.                                    *)
(***************************************************************************)
\* The kinds and outputs that monitors l, configuration c and the dock's state call for.
Wanted(l, c, dock) ==
  [kind : {"bar"} \cup (IF dock THEN {"dock"} ELSE {}), output : l \cap c.outputs]
Place(s) == [kind |-> s.kind, output |-> s.output]

\* The windows a reconcile keeps and those it makes; born tells windows of a place apart.
Kept(W)  == {s \in surf : Place(s) \in W}
Fresh(W) == {[kind |-> w.kind, output |-> w.output, born |-> updates] : w \in W \ {Place(s) : s \in surf}}

\* Faulty variant: new bars are made for the configured position.
Settings_ByConfig(s, c) == IF s.kind = "bar" THEN BarGeom(c.bar, c.bar.position) ELSE DockGeom(c.dock)

\* bar_settings and dock_settings: new bars are made for bar_pos as it is.
Settings(s, c) == IF s.kind = "bar" THEN BarGeom(c.bar, bar_pos) ELSE DockGeom(c.dock)

\* Windows of a kind, the oldest first, as Bar.bars and Bar.docks have them.
Listed(S, k) == SetToSortSeq({s \in S : s.kind = k}, LAMBDA s, t : s.born < t.born)

\* reconcile_surfaces: closes what is not wanted and makes what is, bars before docks.
Reconciles(W, c) ==
  LET Closed(k) == Listed(surf \ Kept(W), k)
      Made(k) == Listed(Fresh(W), k)
      Of(k) ==
        [i \in DOMAIN Closed(k) |-> [do |-> "close", win |-> Closed(k)[i], geom |-> << >>]]
        \o [i \in DOMAIN Made(k) |->
              [do |-> "new", win |-> Made(k)[i], geom |-> Settings(Made(k)[i], c)]]
  IN Of("bar") \o Of("dock")

\* reconcile_bar_geometry: four messages for each bar of S, the anchor with the size last.
Changes(S, b, pos) ==
  LET bars == Listed(S, "bar")
      sets == << {"layer"}, {"margin"}, {"zone"}, {"anchor", "size"} >>
  IN [i \in 1 .. 4 * Len(bars) |->
        [do |-> "change", win |-> bars[(i + 3) \div 4],
         geom |-> [a \in sets[((i - 1) % 4) + 1] |-> BarGeom(b, pos)[a]]]]

\* Faulty variant: a position set over IPC is forgotten.
GeomChanged_ByConfig(c) == c.bar # config.bar

\* Is what the bars' geometry depends on not what it was, an override by IPC included?
GeomChanged(c) ==
  \/ c.bar.position # bar_pos
  \/ c.bar.height # config.bar.height
  \/ c.bar.margin # config.bar.margin
  \/ c.bar.layer # config.bar.layer


\* One more update of the bar.
Update == updates < MaxUpdates /\ updates' = updates + 1

\* A reload, a preset, or the reload command of IPC.
ApplyConfig(c) ==
  LET W == Wanted(live, c, docked)  S == Kept(W) \cup Fresh(W) IN
  /\ Update
  /\ config' = c /\ surf' = S /\ asked' = c.bar.position
  /\ IF GeomChanged(c)
       THEN /\ bar_pos' = c.bar.position
            /\ queue' = queue \o InTurns(Reconciles(W, c), Changes(S, c.bar, c.bar.position))
       ELSE /\ bar_pos' = bar_pos
            /\ queue' = queue \o Reconciles(W, c)
  /\ UNCHANGED <<live, docked, screen>>

\* The position command of IPC.
IpcPosition(p) ==
  LET next == IF p # "toggle" THEN p ELSE IF bar_pos = "bottom" THEN "top" ELSE "bottom" IN
  /\ Update
  /\ bar_pos' = next /\ asked' = next
  /\ queue' = queue \o Changes(surf, config.bar, next)
  /\ UNCHANGED <<config, live, surf, docked, screen>>

\* A reconcile alone: after monitors came or went, taking their surfaces along, and when a
\* click on a chip shows or hides the dock.
Monitors(l) ==
  LET W == Wanted(l, config, docked) IN
  /\ Update /\ l # live
  /\ live' = l
  /\ surf' = Kept(W) \cup Fresh(W)
  /\ queue' = queue \o Reconciles(W, config)
  /\ screen' = [s \in {t \in DOMAIN screen : t.output \in l} |-> screen[s]]
  /\ UNCHANGED <<config, bar_pos, docked, asked>>

ToggleDock ==
  LET W == Wanted(live, config, ~docked) IN
  /\ Update
  /\ docked' = ~docked
  /\ surf' = Kept(W) \cup Fresh(W)
  /\ queue' = queue \o Reconciles(W, config)
  /\ UNCHANGED <<config, bar_pos, live, screen, asked>>

-----------------------------------------------------------------------------
\* The runtime carries out the next message; what is for no surface there is is lost.
Deliver ==
  /\ queue # << >>
  /\ queue' = Tail(queue)
  /\ LET m == Head(queue) IN
       screen' =
         CASE m.do = "new" /\ m.win.output \in live ->
                [s \in DOMAIN screen \cup {m.win} |-> IF s = m.win THEN m.geom ELSE screen[s]]
           [] m.do = "close" -> [s \in DOMAIN screen \ {m.win} |-> screen[s]]
           [] m.do = "change" /\ m.win \in DOMAIN screen ->
                [screen EXCEPT ![m.win] = [a \in DOMAIN @ |-> IF a \in DOMAIN m.geom THEN m.geom[a] ELSE @[a]]]
           [] OTHER -> screen
  /\ UNCHANGED <<config, bar_pos, live, surf, docked, asked, updates>>

Next ==
  \/ \E c \in Configs : ApplyConfig(c)
  \/ \E p \in {"top", "bottom", "toggle"} : IpcPosition(p)
  \/ \E l \in SUBSET Outputs : Monitors(l)
  \/ ToggleDock
  \/ Deliver

Spec == Init /\ [][Next]_vars /\ WF_vars(Deliver)

-----------------------------------------------------------------------------
TypeOK ==
  /\ config \in Configs /\ bar_pos \in Positions /\ asked \in Positions
  /\ live \subseteq Outputs /\ docked \in BOOLEAN /\ updates \in 0 .. MaxUpdates
  /\ \A s \in surf : s.kind \in {"bar", "dock"} /\ s.output \in live

\* Once the runtime has done what it was told, every bar has the geometry of the
\* configuration at the position that was asked for last, by a reload or over IPC, whether
\* it was made before or after that was said, and popups open clear of it (apply_config,
\* reconcile_bar_geometry, bar_settings, popup_settings).
BarsAgree ==
  queue = << >> =>
    /\ DOMAIN screen = surf
    /\ \A s \in surf : s.kind = "bar" =>
         /\ screen[s] = BarGeom(config.bar, asked)
         /\ PopupGeom.edge = screen[s].anchor => PopupGeom.clear > screen[s].zone
         /\ Horizontal(asked) => PopupGeom.edge = screen[s].anchor

\* The same of the docks: they have the geometry the configuration gives them.
DocksFollow ==
  queue = << >> => \A s \in surf : s.kind = "dock" => screen[s] = DockGeom(config.dock)
=============================================================================
