------------------------------- MODULE Gauges -------------------------------
(* The modules that only read: cpu, memory, temperature, ping, gpu, net,    *)
(* battery, disk, ip, updates, a polled custom command, and stock.  Each    *)
(* has a stream that reads its source on a blocking thread, sends what it   *)
(* read, sleeps, and reads again; four keep a graph.  Sources are three     *)
(* numbers each, FAILED when they cannot be read, whose meaning is the      *)
(* kind's own.                                                              *)
EXTENDS Integers, Sequences

CONSTANTS
  Kinds,         \* which of the modules are looked at
  MaxChanges,    \* bound: changes of the sources
  Samples        \* the length of a graph

FAILED == -1
MISSING == -2   \* gpu: no card has a file for the load
KEEP == -3      \* stock: not part of this message
Places == {"main", "other", "third"}
Values == -1..2

VARIABLES
  kind,
  source,        \* place -> value
  changes,
  at,            \* where the stream is: "read", "again", "send"
  first,         \* the sources as the first half of the reading found them
  prev,          \* net_stream: the counter of the reading before, or FAILED
  read,          \* what the stream is about to send
  pipe,          \* channel(1), and the sender's own slot
  shown,         \* what the module shows
  ring, pos,     \* History: values and pos, counted from 0
  sent           \* history: the samples so far, as many as a graph holds

vars == <<kind, source, changes, at, first, prev, read, pipe, shown, ring, pos, sent>>

(* A reading: text is what the label says of it, more what stands beside it. *)
Reading(text, more) == [text |-> text, more |-> more]
Unknown == Reading(FAILED, FAILED)

-----------------------------------------------------------------------------
(* Counters only grow, but for an interface that goes away. *)
Counters == {"cpu", "net"}

(* get_cpu_usage: busy and idle time in two samples of /proc/stat; percents  *)
(* of the time between them, none when the counters stood still.             *)
CpuUsage(a, b) ==
  LET idle == b["other"] - a["other"]
      total == idle + b["main"] - a["main"]
  IN IF FAILED \in {a["main"], b["main"]} THEN Unknown
     ELSE IF total = 0 THEN Reading(0, FAILED) ELSE Reading(100 - (idle * 100) \div total, FAILED)

(* get_memory_usage: MemTotal and MemAvailable (0 when unreadable). *)
MemoryUsage(b) ==
  LET free == IF b["other"] = FAILED THEN 0 ELSE b["other"] IN
  IF b["main"] \in {FAILED, 0} THEN Unknown ELSE Reading(b["main"] - free, b["main"])

(* read_cpu_temp_millic: the package's own sensor, else the driver's first,  *)
(* else a thermal zone of the processor.                                     *)
PickCpuTemp(b) == IF b["main"] # FAILED THEN b["main"] ELSE b["other"]
CpuTemperature(b) ==
  Reading(IF PickCpuTemp(b) # FAILED THEN PickCpuTemp(b) ELSE b["third"], FAILED)

(* perform_ping: DOWN, or ERROR when the answer has no time. *)
PerformPing(b) == Reading(b["main"], IF b["main"] = FAILED /\ b["other"] # FAILED THEN 0 ELSE FAILED)

(* read_gpu takes the first card with a file for the load, reads that and    *)
(* then the temperature: the sensor with the label "edge", else temp1 of the *)
(* first monitor that has one; 0 is no temperature.  (Of a card that is      *)
(* named, a missing file and one that cannot be read are the same.)          *)
ReadTemperature(b) ==
  IF b["other"] \notin {FAILED, 0} THEN b["other"] ELSE IF b["third"] # 0 THEN b["third"] ELSE FAILED
ReadGpu(a, b) == IF a["main"] = MISSING THEN Unknown ELSE Reading(a["main"], ReadTemperature(b))

(* get_battery_status: capacity and status, then the time; without a power   *)
(* draw there is no time.                                                    *)
BatteryStatus(a, b) ==
  IF FAILED \in {a["main"], a["other"]} THEN Unknown
  ELSE Reading(a["main"], IF b["third"] = 0 THEN FAILED ELSE b["third"])

(* disk_usage, primary_ip ("no-ip" is 0), count_updates and run_command,     *)
(* whose failures look like nothing to report.                               *)
DiskUsage(b) == Reading(b["main"], FAILED)
PrimaryIp(b) == Reading(IF b["main"] = FAILED /\ b["other"] # FAILED THEN 0 ELSE b["main"], FAILED)
CountUpdates(b) == Reading(IF b["main"] = FAILED THEN 0 ELSE b["main"], FAILED)
RunCommand(b) == Reading(IF b["main"] = FAILED THEN 0 ELSE b["main"], FAILED)

(* net_stream: what came in since the reading before, nothing without one.   *)
ReadNet(b) == b["main"]
Rate(was, is) == IF FAILED \in {was, is} THEN FAILED ELSE IF is > was THEN is - was ELSE 0

(* stock::fetch: Yahoo, then with a key Finnhub and Alpha Vantage; a price   *)
(* of 0 is none at the first two.  The chart is Yahoo's alone.               *)
Fetch(a) ==
  IF a["main"] \notin {FAILED, 0} THEN a["main"]
  ELSE IF a["other"] \notin {FAILED, 0} THEN a["other"] ELSE a["third"]
Quote(a) == Reading(IF Fetch(a) = 0 THEN FAILED ELSE Fetch(a), KEEP)
FetchChart(b) == Reading(KEEP, b["main"])
With(r, n) ==
  Reading(IF n.text = KEEP THEN r.text ELSE n.text, IF n.more = KEEP THEN r.more ELSE n.more)

Reads(k, a, b, was) ==
  CASE k = "cpu" -> CpuUsage(a, b)          [] k = "memory" -> MemoryUsage(b)
    [] k = "temperature" -> CpuTemperature(b) [] k = "ping" -> PerformPing(b)
    [] k = "gpu" -> ReadGpu(a, b)           [] k = "battery" -> BatteryStatus(a, b)
    [] k = "disk" -> DiskUsage(b)           [] k = "ip" -> PrimaryIp(b)
    [] k = "updates" -> CountUpdates(b)     [] k = "custom" -> RunCommand(b)
    [] k = "net" -> Reading(Rate(was, ReadNet(b)), FAILED)
    [] k = "stock" -> FetchChart(b)

Halves == {"cpu", "gpu", "battery", "stock"}
-----------------------------------------------------------------------------
(* What update puts into the graph: cpu, memory and temperature take it from *)
(* the label's text, where no number is 0; ping leaves failures out; the     *)
(* load graph of gpu has them as -1, which is not drawn.                     *)
OrZero(n) == IF n = FAILED THEN 0 ELSE n
CpuSample(r) == <<OrZero(r.text)>>
MemorySample(r) == <<IF r.text <= 0 THEN 0 ELSE (r.text * 100) \div r.more>>
TemperatureSample(r) == <<OrZero(r.text)>>
PingSample(r) == IF r.text = FAILED THEN <<>> ELSE <<r.text>>
GpuSample(r) == <<r.text>>

Sample(k, r) ==
  CASE k = "cpu" -> CpuSample(r)                 [] k = "memory" -> MemorySample(r)
    [] k = "temperature" -> TemperatureSample(r) [] k = "ping" -> PingSample(r)
    [] k = "gpu" -> GpuSample(r)                 [] OTHER -> <<>>

Add(v) ==
  /\ ring' = [ring EXCEPT ![pos] = v]
  /\ pos' = (pos + 1) % Samples

(* History::ordered, oldest first. *)
Ordered == [i \in 1..Samples |-> ring[(pos + i - 1) % Samples]]

-----------------------------------------------------------------------------
Steady(v) == [p \in Places |-> v]

(* Cpu::new, Gpu::new and the others: no reading yet; the load graph of gpu  *)
(* starts without values, the others at 0.                                   *)
Init ==
  /\ kind \in Kinds
  /\ source \in {Steady(0), Steady(1), [Steady(1) EXCEPT !["main"] = FAILED]}
  /\ (kind = "cpu") => source = Steady(1)
  /\ changes = 0 /\ at = "read" /\ first = source /\ prev = FAILED
  /\ read = Unknown /\ pipe = <<>> /\ shown = Unknown
  /\ ring = [i \in 0..Samples-1 |-> IF kind = "gpu" THEN FAILED ELSE 0] /\ pos = 0
  /\ sent = [i \in 1..Samples |-> IF kind = "gpu" THEN FAILED ELSE 0]

(* The machine: a file, a tool, a host or a service says something else, or  *)
(* nothing any more.                                                         *)
Change ==
  /\ changes < MaxChanges /\ changes' = changes + 1
  /\ \E p \in Places, v \in Values \cup {MISSING} :
       /\ v # source[p] /\ source' = [source EXCEPT ![p] = v]
       /\ v = MISSING => kind = "gpu" /\ p = "main"
       /\ kind = "cpu" => (p # "third" /\ v > source[p])
       /\ kind \in {"net", "disk", "updates", "custom"} => p = "main"
  /\ UNCHANGED <<kind, at, first, prev, read, pipe, shown, ring, pos, sent>>

(* The first half of a reading, where the source is read twice; the price    *)
(* of a stock is a message of its own.                                       *)
ReadFirst ==
  /\ at = "read" /\ kind \in Halves
  /\ first' = source
  /\ at' = (IF kind = "stock" THEN "quote" ELSE "again")
  /\ read' = (IF kind = "stock" THEN Quote(source) ELSE read)
  /\ UNCHANGED <<kind, source, changes, prev, pipe, shown, ring, pos, sent>>

ReadLast ==
  /\ IF kind \in Halves THEN at = "again" ELSE at = "read"
  /\ read' = Reads(kind, first, source, prev)
  /\ prev' = IF kind = "net" THEN ReadNet(source) ELSE prev
  /\ at' = "send"
  /\ UNCHANGED <<kind, source, changes, first, pipe, shown, ring, pos, sent>>

(* The stream hands over what it read and sleeps until the next reading. *)
Send ==
  /\ at \in {"send", "quote"} /\ Len(pipe) < 2 /\ pipe' = Append(pipe, read)
  /\ at' = (IF at = "quote" THEN "again" ELSE "read")
  /\ UNCHANGED <<kind, source, changes, first, prev, read, shown, ring, pos, sent>>

(* update: Msg::Data, or Msg::Chart. *)
Data ==
  /\ pipe # <<>>
  /\ shown' = With(shown, Head(pipe)) /\ pipe' = Tail(pipe)
  /\ LET sample == Sample(kind, Head(pipe)) IN
       IF sample = <<>> THEN UNCHANGED <<ring, pos, sent>>
       ELSE Add(sample[1]) /\ sent' = Tail(sent) \o sample
  /\ UNCHANGED <<kind, source, changes, at, first, prev, read>>

Next == Change \/ ReadFirst \/ ReadLast \/ Send \/ Data

Spec == /\ Init /\ [][Next]_vars
        /\ WF_vars(ReadFirst) /\ WF_vars(ReadLast) /\ WF_vars(Send) /\ WF_vars(Data)

-----------------------------------------------------------------------------
(* What the module says of sources that stand still. *)
Truth ==
  LET now == Reads(kind, source, source, IF kind = "net" THEN ReadNet(source) ELSE FAILED)
  IN IF kind = "stock" THEN With(Quote(source), now) ELSE now

(* The graph shows the last samples, oldest first.                          *)
GraphInOrder == Ordered = sent

(* Whatever fails on the way and however late the window takes the readings, *)
(* each of the modules comes to say what its sources say.                    *)
GaugesFollow == <>[](shown = Truth)
=============================================================================
