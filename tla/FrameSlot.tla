------------------------------ MODULE FrameSlot ------------------------------
(***************************************************************************)
(* How a plugin's frames reach the screen (crates/ezbar-wasm/src/lib.rs).  *)
(* The drive task writes the lifted view into the slot and bumps the       *)
(* slot's version; the module's subscription polls the version and sends   *)
(* the GUI a tick when it moved; the GUI renders what the slot holds then. *)
(* iced may drop and start the subscription anew at any time the host      *)
(* re-keys it.                                                             *)
(***************************************************************************)
EXTENDS Naturals

CONSTANTS
  MaxFrames,   \* bound: frames the guest produces
  MaxStreams   \* bound: subscriptions started

VARIABLES
  slot,        \* Slots.view: the number of the frame it holds
  version,     \* Shared.version
  writing,     \* the drive task is between the slot and the version
  stream,      \* where the subscription is
  seen,        \* the version it saw last
  ticks,       \* ticks in its channel
  started,     \* subscriptions started
  sent,        \* history: ticks sent
  dirty,       \* a message the GUI handled asks for a redraw
  shown        \* the frame on the screen

drive == <<slot, version, writing>>
sub   == <<stream, seen, ticks, started, sent>>
gui   == <<dirty, shown>>
frameVars  == <<drive, sub, gui>>

FrameTypeOK ==
  /\ slot \in 0 .. MaxFrames /\ version \in 0 .. MaxFrames
  /\ writing \in BOOLEAN
  /\ stream \in {"none", "greets", "sleeps", "sends"}
  /\ seen \in 0 .. MaxFrames
  /\ ticks \in 0 .. 2
  /\ started \in 0 .. MaxStreams
  /\ sent \in 0 .. MaxFrames + MaxStreams
  /\ dirty \in BOOLEAN
  /\ shown \in 0 .. MaxFrames

FrameInit ==
  /\ slot = 0 /\ version = 0 /\ writing = FALSE
  /\ stream = "none" /\ seen = 0 /\ ticks = 0 /\ started = 0 /\ sent = 0
  /\ dirty = FALSE /\ shown = 0

-----------------------------------------------------------------------------
(* The end of step(): the slot first, then the version, which moves also    *)
(* when the view was rejected and the slot kept the one before.  Faulty     *)
(* variant: the version first.                                              *)
Publish_VersionFirst ==
  \/ /\ ~writing /\ version < MaxFrames
     /\ version' = version + 1 /\ writing' = TRUE /\ UNCHANGED slot
  \/ /\ writing
     /\ slot' = slot + 1 /\ writing' = FALSE /\ UNCHANGED version

Publish ==
  \/ /\ ~writing /\ version < MaxFrames
     /\ slot' \in {slot, slot + 1} /\ writing' = TRUE /\ UNCHANGED version
  \/ /\ writing
     /\ version' = version + 1 /\ writing' = FALSE /\ UNCHANGED slot

Drive == Publish /\ UNCHANGED <<sub, gui>>

(* The subscription starts with the version of that moment, then ticks.     *)
StartStream ==
  /\ started < MaxStreams
  /\ started' = started + 1
  /\ stream' = "greets" /\ seen' = version /\ ticks' = 0
  /\ UNCHANGED <<drive, sent, gui>>

(* A channel of one place takes a tick more and holds its sender until only *)
(* one is left.                                                             *)
Room == ticks <= 1
Send == Room /\ ticks' = ticks + 1 /\ sent' = sent + 1

Greet ==
  /\ stream = "greets" /\ Send
  /\ stream' = "sleeps"
  /\ UNCHANGED <<drive, seen, started, gui>>

(* One look at the version every 150 ms.                                    *)
PollVersion ==
  /\ stream = "sleeps" /\ Room /\ version # seen
  /\ seen' = version /\ stream' = "sends"
  /\ UNCHANGED <<drive, ticks, started, sent, gui>>

SendTick ==
  /\ stream = "sends" /\ Send
  /\ stream' = "sleeps"
  /\ UNCHANGED <<drive, seen, started, gui>>

(* The GUI handles a tick, or any other message, and draws afterwards. *)
HandleTick ==
  /\ ticks > 0 /\ ticks' = ticks - 1
  /\ dirty' = TRUE
  /\ UNCHANGED <<drive, stream, seen, started, sent, shown>>

HandleOther == dirty' = TRUE /\ UNCHANGED <<drive, sub, shown>>

Render ==
  /\ dirty /\ dirty' = FALSE
  /\ shown' = slot
  /\ UNCHANGED <<drive, sub>>

TickStream == Greet \/ PollVersion \/ SendTick
FrameNext == Drive \/ StartStream \/ TickStream \/ HandleTick \/ HandleOther \/ Render

FrameSpec == FrameInit /\ [][FrameNext]_frameVars
FrameFairness ==
  /\ WF_frameVars(writing /\ Drive) /\ WF_frameVars(started = 0 /\ StartStream)
  /\ WF_frameVars(TickStream) /\ WF_frameVars(HandleTick) /\ WF_frameVars(Render)

-----------------------------------------------------------------------------
(* Properties *)

(* The last frame of a guest that went quiet is drawn, whichever of slot,   *)
(* version, first tick and restart came first (lib.rs 2237-2242).           *)
FrameDrawn == []<>(slot = shown)

(* A frame is never forgotten on the way: as long as the screen does not    *)
(* show what the slot holds, something is under way that makes the GUI draw *)
(* it (lib.rs 2237-2242).                                                   *)
NoneForgotten ==
  slot # shown =>
    writing \/ seen # version \/ stream # "sleeps" \/ ticks > 0 \/ dirty

(* An idle plugin causes no ticks: at most one per frame and one per        *)
(* subscription (lib.rs 2241-2242).                                         *)
IdleIsFree == sent <= version + started

(* Both of them. *)
FramesSound == NoneForgotten /\ IdleIsFree
=============================================================================
