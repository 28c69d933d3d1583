------------------------------ MODULE Controls ------------------------------
(* The two modules that show a device and act on it: volume                 *)
(* (modules/volume.rs, sources/volume.rs) and media (modules/media.rs,      *)
(* sources/media.rs).  A stream polls; a click or scroll starts a task that *)
(* acts and, but for media's skip, reads the device at once.                *)
EXTENDS Integers, Sequences, FiniteSets

CONSTANTS
  Tasks,         \* bound: clicks and scrolls under way at once
  MaxEvents,     \* bound: changes made elsewhere, clicks, and failures
  MaxLevel       \* bound: steps of five percent, or songs

VARIABLES
  kind,          \* "volume" or "media"
  pulse, alsa,   \* which sound server answers (volume); a player runs (media: pulse)
  level, on,     \* the device: volume and not muted; or song and playing
  events,
  work,          \* "poll" and the tasks -> [at, does, got]
  last,          \* media_stream: what it sent last
  pipe,          \* channel(1), and the sender's own slot
  data,          \* what the module shows
  clicked        \* history: a click's answer reached the module

device == <<pulse, alsa, level, on>>
vars == <<kind, device, events, work, last, pipe, data, clicked>>

Workers == {"poll"} \cup Tasks
Nothing == [level |-> 0, on |-> kind = "volume", up |-> kind = "volume"]
Idle == [at |-> "idle", does |-> "read", got |-> Nothing]

Init ==
  /\ kind \in {"volume", "media"}
  /\ pulse \in BOOLEAN /\ alsa \in {kind = "volume", FALSE} /\ level = 1 /\ on = TRUE
  /\ events = 0 /\ last = Nothing /\ pipe = <<>> /\ data = Nothing /\ clicked = FALSE
  /\ work = [w \in Workers |-> IF w = "poll" THEN [Idle EXCEPT !.at = "read"] ELSE Idle]

Event == events < MaxEvents /\ events' = events + 1
At(w, at) == work[w].at = at

-----------------------------------------------------------------------------
(* The device changes by itself, its server stops or starts. *)
Elsewhere ==
  /\ Event
  /\ \/ level' \in (0..MaxLevel) \ {level} /\ UNCHANGED <<pulse, alsa, on>>
     \/ on' = ~on /\ UNCHANGED <<pulse, alsa, level>>
     \/ pulse' = ~pulse /\ UNCHANGED <<alsa, level, on>>
     \/ kind = "volume" /\ alsa' = ~alsa /\ UNCHANGED <<pulse, level, on>>
  /\ UNCHANGED <<kind, work, last, pipe, data, clicked>>

(* pactl, else amixer.  What neither can do is left undone. *)
Reachable == IF kind = "volume" THEN pulse \/ alsa ELSE pulse

(* toggle_mute, change_volume; play_pause, next and previous. *)
Step(does) ==
  CASE does = "up" /\ level < MaxLevel -> 1 [] does = "down" /\ level > 0 -> -1 [] OTHER -> 0

Act(w) ==
  /\ At(w, "act")
  /\ level' = IF Reachable THEN level + Step(work[w].does) ELSE level
  /\ on' = IF Reachable /\ work[w].does = "toggle" THEN ~on ELSE on
  /\ work' = [work EXCEPT ![w] = IF kind = "media" /\ @.does # "toggle" THEN Idle ELSE [@ EXCEPT !.at = "read"]]
  /\ UNCHANGED <<kind, pulse, alsa, events, last, pipe, data, clicked>>

(* get_pulseaudio_volume asks for the volume and then for the mute, which    *)
(* reads as not muted when the server is gone by then; amixer tells both.    *)
ReadLevel(w) ==
  /\ At(w, "read") /\ kind = "volume"
  /\ work' = [work EXCEPT ![w] =
       IF pulse THEN [@ EXCEPT !.at = "mute", !.got = [level |-> level, on |-> TRUE, up |-> TRUE]]
       ELSE [@ EXCEPT !.at = "send",
                      !.got = IF alsa THEN [level |-> level, on |-> on, up |-> TRUE] ELSE Nothing]]
  /\ UNCHANGED <<kind, device, events, last, pipe, data, clicked>>

ReadMute(w) ==
  /\ At(w, "mute")
  /\ work' = [work EXCEPT ![w].at = "send", ![w].got.on = IF pulse THEN on ELSE TRUE]
  /\ UNCHANGED <<kind, device, events, last, pipe, data, clicked>>

(* playerctl metadata, one line, or the default: no player, no chip. *)
MediaGet == IF pulse THEN [level |-> level, on |-> on, up |-> TRUE] ELSE Nothing
ReadPlayer(w) ==
  /\ At(w, "read") /\ kind = "media"
  /\ work' = [work EXCEPT ![w].at = "send", ![w].got = MediaGet]
  /\ UNCHANGED <<kind, device, events, last, pipe, data, clicked>>

-----------------------------------------------------------------------------
(* volume_stream sends every reading, media_stream one that is not the last  *)
(* it sent; the sleep is the time to the next read.                          *)
(* Faulty variant: what was sent last is forgotten to be noted. *)
News_Once(got) == kind = "volume" \/ (got # Nothing /\ last = Nothing)
News(got) == kind = "volume" \/ got # last

Send ==
  LET got == work["poll"].got IN
  /\ At("poll", "send")
  /\ IF News(got)
       THEN /\ Len(pipe) < 2 /\ pipe' = Append(pipe, got)
            /\ last' = IF kind = "media" THEN got ELSE last
       ELSE UNCHANGED <<pipe, last>>
  /\ work' = [work EXCEPT !["poll"] = [Idle EXCEPT !.at = "read"]]
  /\ UNCHANGED <<kind, device, events, data, clicked>>

(* update: Msg::Data from the stream, and from a task. *)
Receive ==
  /\ pipe # <<>> /\ data' = Head(pipe) /\ pipe' = Tail(pipe)
  /\ UNCHANGED <<kind, device, events, work, last, clicked>>

Answer(w) ==
  /\ At(w, "send") /\ w \in Tasks
  /\ data' = work[w].got /\ clicked' = TRUE
  /\ work' = [work EXCEPT ![w] = Idle]
  /\ UNCHANGED <<kind, device, events, last, pipe>>

(* view: a chip without a player cannot be clicked.  update: Click, Scroll,  *)
(* PlayPause and Skip each start a task.                                     *)
Shown == kind = "volume" \/ data.up
Press(w) ==
  /\ At(w, "idle") /\ Shown /\ Event
  /\ \E does \in {"toggle", "up", "down"} :
       work' = [work EXCEPT ![w] = [Idle EXCEPT !.at = "act", !.does = does]]
  /\ UNCHANGED <<kind, device, last, pipe, data, clicked>>

Work(w) == Act(w) \/ ReadLevel(w) \/ ReadMute(w) \/ ReadPlayer(w) \/ (w \in Tasks /\ Answer(w))

Next ==
  \/ Elsewhere \/ Send \/ Receive
  \/ \E w \in Workers : Work(w)
  \/ \E w \in Tasks : Press(w)

Spec == /\ Init /\ [][Next]_vars
        /\ WF_vars(Send) /\ WF_vars(Receive) /\ \A w \in Workers : WF_vars(Work(w))

-----------------------------------------------------------------------------
Truth == IF Reachable THEN [level |-> level, on |-> on, up |-> TRUE] ELSE Nothing

(* However clicks, their answers and the polls overlap, the volume module    *)
(* comes to show the device as it is; and so does media, as long as no       *)
(* click's answer went past its stream.                                      *)
ControlsFollow == <>[](data = Truth \/ (kind = "media" /\ clicked))

(* "a pause glyph while playing, a play glyph while paused"                  *)
(* (modules/media.rs:85).                                                    *)
GlyphTells == <>[](kind = "media" /\ data.up /\ pulse => data.on = on)
=============================================================================
