----------------------------- MODULE MCSurfaces -----------------------------
(* Bars and docks, in one run.  A behaviour is Surfaces where everything    *)
(* may fail, with a cursor of its own; or Surfaces where the output stays   *)
(* on the bar and queries fail only while one is up, which is when the      *)
(* cursor's output has a bar and things come to be so; or the geometry of   *)
(* Geometry.  The others rest.                                              *)
EXTENDS Surfaces

VARIABLES part, pointer, config, bar_pos, monitors, bars, docked, queue, drawn, asked, updates

(* A monitor that is replugged under its name, or a second one that         *)
(* announces the same name.                                                 *)
ReplugGlobals == {"g1", "g2"}
ReplugNameOf == [g \in ReplugGlobals |-> "DP"]

(* The output is taken off the bar and put back, the docks start shown or   *)
(* hidden.                                                                  *)
ReplugConfigs ==
  {[outputs |-> {"DP"}, dock |-> TRUE], [outputs |-> {}, dock |-> FALSE]}

(* The output stays on the bar. *)
WantedConfigs == [outputs : {{"DP"}}, dock : BOOLEAN]

Any == INSTANCE Surfaces
  WITH Configs <- ReplugConfigs, Serials <- {0, 1, 2}, HasChip <- TRUE, Failures <- "any",
       cursor <- pointer

Margin(top, bottom) ==
  [p \in {"top", "bottom", "left", "right"} |->
     CASE p = "top" -> top [] p = "bottom" -> bottom [] OTHER -> 0]
Config(pos, height, margin, width, outs) ==
  [bar |-> [position |-> pos, height |-> height, margin |-> margin, layer |-> "top"],
   dock |-> [position |-> "right", width |-> width, layer |-> "top"], outputs |-> outs]

(* Edits of the dock's width and of the outputs, of the bar's edge with its *)
(* height and margins, and a bar that is upright.                           *)
EditedConfigs == {
  Config("top", 30, Margin(4, 0 - 2), 300, {"a", "b"}),
  Config("top", 30, Margin(4, 0 - 2), 400, {"a"}),
  Config("bottom", 24, Margin(0, 6), 300, {"a", "b"}),
  Config("left", 30, Margin(4, 0 - 2), 300, {"b"}) }

Geo == INSTANCE Geometry
  WITH Outputs <- {"a", "b"}, Configs <- EditedConfigs, MaxUpdates <- 3,
       live <- monitors, surf <- bars, screen <- drawn

geoVars == <<config, bar_pos, monitors, bars, docked, queue, drawn, asked, updates>>
shared == <<hw, events, cache, sub, note, cfg, dockVisible, surf, mapped, closed, job>>

MCInit ==
  /\ part \in {"any", "steady", "geometry"}
  /\ part # "geometry" => config = Config("left", 30, Margin(4, 0 - 2), 300, {"b"})
  /\ part = "geometry" => hw = [g \in Globals |-> "new"] /\ cfg = [outputs |-> {}, dock |-> FALSE] /\ job = NULL
  /\ Geo!Init
  /\ \/ part # "steady" /\ Any!Init /\ cursor = NULL
     \/ part = "steady" /\ Init /\ pointer = NULL

MCNext ==
  /\ UNCHANGED part
  /\ \/ part = "any" /\ Any!Next /\ UNCHANGED <<cursor, geoVars>>
     \/ part = "steady" /\ Next /\ UNCHANGED <<pointer, geoVars>>
     \/ part = "geometry" /\ Geo!Next /\ UNCHANGED <<shared, cursor, pointer>>

(* The fairness of FairSpec, asked of the steady part. *)
MCSpec ==
  /\ MCInit /\ [][MCNext]_<<part, shared, cursor, pointer, geoVars>>
  /\ WF_vars(part = "steady" /\ \E g \in Globals : Dispatch(g))
  /\ WF_vars(part = "steady" /\ Resubscribe)
  /\ WF_vars(part = "steady" /\ (ReconcileBars \/ ReconcileDocks))
  /\ SF_vars(part = "steady" /\ OutputsChanged)
  /\ SF_vars(part = "steady" /\ NoteTaken /\ Idle /\ QueryAnswered(FALSE))
  /\ \A k \in Kinds, n \in Names :
       SF_vars(part = "steady" /\ \E s \in closed :
                 s.kind = k /\ s.output = n /\ WindowClosed(s))

(* Bars and docks come to be on the monitors there are, and on no others.   *)
SurfacesSettle == part = "steady" => Converges /\ DeadSurfacesGo

(* Bars are where they were last asked to be, whichever came first.         *)
BarsAgree == Geo!BarsAgree
=============================================================================
