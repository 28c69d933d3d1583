---------------------------- MODULE ClockStream ----------------------------
(* The clock module's stream (modules/clock.rs): it sleeps to the next       *)
(* boundary of the finest field of its format, and never longer than         *)
(* MAX_IDLE, because sleeps do not count while the machine is suspended and  *)
(* the wall clock may be set.  Time is counted in seconds of a short         *)
(* calendar; a zone shifts once, by hours (or by half of one).               *)
EXTENDS Integers, FiniteSets, FiniteSetsExt

CONSTANTS
  Minute, Hour, Day,   \* in seconds
  MAX_IDLE,            \* in seconds; less than a minute
  Zones,               \* the zones: [from |-> instant, by |-> seconds]
  End,                 \* bound: the last instant
  MaxJumps             \* bound: suspends and clock steps

ASSUME ClockAssumption ==
  /\ Minute \in Nat \ {0} /\ Hour \in Nat \ {0} /\ Day \in Nat \ {0}
  /\ Hour % Minute = 0 /\ Day % Hour = 0
  /\ MAX_IDLE \in 1..Minute-1
  /\ Zones \subseteq [from : Int, by : Int]

Fields == {"second", "minute", "hour", "day"}

VARIABLES
  fields,      \* those the format shows
  zone,
  wall,        \* the wall clock
  wake,        \* how long the sleep still takes
  shown,       \* what the module shows, and the stream's last
  jumps,
  behind,      \* history: seconds the label has been wrong
  steady       \* history: no jump since the stream woke last

clockVars == <<fields, zone, wall, wake, shown, jumps, behind, steady>>

-----------------------------------------------------------------------------
Local(t) == t + IF t >= zone.from THEN zone.by ELSE 0

(* now.format(&fmt), field by field. *)
Render(t) ==
  [f \in fields |-> CASE f = "second" -> Local(t) % Minute
                      [] f = "minute" -> (Local(t) \div Minute) % (Hour \div Minute)
                      [] f = "hour"   -> (Local(t) \div Hour) % (Day \div Hour)
                      [] f = "day"    -> Local(t) \div Day]

(* granularity: the finest field. *)
Granularity ==
  IF "second" \in fields THEN 1 ELSE IF "minute" \in fields THEN Minute
  ELSE IF "hour" \in fields THEN Hour ELSE Day

(* resolve_local: the first instant with that local time; in a gap, that of  *)
(* the first of the next six hours there is one.                             *)
Instants(local) == {t \in {local, local - zone.by} : Local(t) = local}
(* Faulty variant: a local time that does not exist is looked for no further. *)
ResolveLocal_Once(local, after) ==
  IF Instants(local) # {} THEN Min(Instants(local)) ELSE after + Day
ResolveLocal(local, after) ==
  LET there == {h \in 0..6 : Instants(local + h * Hour) # {}} IN
  IF there # {} THEN Min(Instants(local + Min(there) * Hour)) ELSE after + Day

(* until_next_boundary: seconds and minutes are those of UTC, hours and days *)
(* are local; a boundary already past counts as MAX_IDLE.                    *)
UntilNextBoundary(t) ==
  IF Granularity <= Minute THEN Granularity - (t % Granularity)
  ELSE LET at == ResolveLocal((Local(t) \div Granularity + 1) * Granularity, t)
       IN IF at >= t THEN at - t ELSE MAX_IDLE

(* Faulty variant: the sleep is as long as the field allows. *)
Sleep_Long(t) == UntilNextBoundary(t)
Sleep(t) == Min({UntilNextBoundary(t), MAX_IDLE})

-----------------------------------------------------------------------------
ClockInit ==
  /\ fields \in (SUBSET Fields) \ {{}} /\ zone \in Zones
  /\ wall \in 2*Day..2*Day+1 /\ wake = 0 /\ shown = Render(wall)
  /\ jumps = 0 /\ behind = 0 /\ steady = TRUE

(* A second passes, for the sleep too. *)
Second ==
  /\ wake > 0 /\ wall < End
  /\ wall' = wall + 1 /\ wake' = wake - 1
  /\ behind' = IF shown = Render(wall) THEN 0 ELSE behind + 1
  /\ UNCHANGED <<fields, zone, shown, jumps, steady>>

(* Suspend and resume, or a step of the clock: the sleep stands still. *)
Jump ==
  /\ wake > 0 /\ jumps < MaxJumps /\ jumps' = jumps + 1
  /\ \E by \in {-Minute, 1, Minute + 1, Hour, Day} : wall + by \in Day..End /\ wall' = wall + by
  /\ steady' = FALSE
  /\ UNCHANGED <<fields, zone, wake, shown, behind>>

(* clock_stream: the label goes out when it differs from the last. *)
Wake ==
  /\ wake = 0 /\ wall < End
  /\ shown' = Render(wall) /\ wake' = Sleep(wall)
  /\ behind' = 0 /\ steady' = TRUE
  /\ UNCHANGED <<fields, zone, wall, jumps>>

ClockNext == Second \/ Jump \/ Wake
ClockSpec == ClockInit /\ [][ClockNext]_clockVars

-----------------------------------------------------------------------------
(* The zones the clock is always right in: a shift by whole hours comes at a *)
(* whole hour, and is by one hour back at most, or forward by no more than   *)
(* resolve_local looks for.                                                  *)
ShiftsOnTheHour ==
  \A z \in Zones : z.by % Hour = 0 => z.from % Hour = 0 /\ -Hour <= z.by /\ z.by <= 6 * Hour

(* Asleep, the label is right as long as nobody touched the clock, in every  *)
(* zone that shifts by whole hours; and whatever happens to the clock, it is *)
(* never wrong for more than MAX_IDLE.                                       *)
ClockTells ==
  /\ wake > 0 /\ steady /\ zone.by % Hour = 0 => shown = Render(wall)
  /\ behind <= MAX_IDLE
=============================================================================
