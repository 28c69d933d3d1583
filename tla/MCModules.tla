------------------------------ MODULE MCModules ------------------------------
(* The modules of the bar that follow a world outside it, in one run: the   *)
(* two trays and their menu, sway's bus and the chips of its workspaces,    *)
(* the inbox, the player, the controls, the gauges, a command that is       *)
(* listened to; and the reconcile that keeps, makes and ends modules.  A    *)
(* behaviour is one of these parts, and the others rest.                    *)
EXTENDS Modules, XTray, TrayMenu

CONSTANT TORN

VARIABLES part,
  alive, toldTo, watcher, others, conns, faults, conn, items, calls, refused,
  hostAt, stage, current, registeredWith, doomed, names, published,
  sway, changes, losses, service, asked, events, slices, version, tasks, bar, missed,
  inbox, closed, mine, edits, setUp, failures, fetch, last_modified, page, all, fetched,
  token, threads, notif_error, prs, prs_error, display_text, marks, lost,
  playing, song, granted, valid, issued, env, configured, file, clicks, refusals, work, player, excused,
  control, pulse, alsa, level, on, uses, task, last, pipe, data, clicked,
  kind, source, turns, at, first, prev, read, gaugePipe, gauge, ring, pos, samples,
  animate, list, anim, blink_on, scroll_accum, armed, drawn, went, news,
  value, child, printed, stream, listenPipe, text, ends

Sni == INSTANCE SniTray WITH Apps <- {"a", "b"}, MaxItems <- 1, MaxConns <- 4, MaxFaults <- 1
Sway == INSTANCE SwayBus
  WITH MaxChanges <- 2, MaxLosses <- 1, MaxQueue <- 2, stage <- service, published <- slices, streams <- tasks,
       shown <- bar
Git == INSTANCE GitHub
  WITH Threads <- {"a", "b"}, Reviews <- {"a"}, Muted <- {}, MaxChanges <- 3, MaxFaults <- 1,
       changes <- edits, faults <- failures, stage <- fetch, data <- threads
Spot == INSTANCE Spotify
  WITH Tasks <- {"t"}, MaxEvents <- 2, MaxFaults <- 1,
       events <- clicks, faults <- refusals, data <- player
Con == INSTANCE Controls
  WITH Tasks <- {"t"}, MaxEvents <- 2, MaxLevel <- 2, kind <- control, events <- uses, work <- task
Gau == INSTANCE Gauges
  WITH Kinds <- {"cpu", "memory", "temperature", "ping", "gpu", "battery", "disk", "ip", "updates",
                 "custom", "net", "stock"},
       MaxChanges <- 2, Samples <- 2,
       changes <- turns, pipe <- gaugePipe, shown <- gauge, sent <- samples
Chips == INSTANCE Workspaces
  WITH Names <- {"a", "b"}, FADE <- 2, STEP <- 2, MaxEvents <- 3, events <- news
ASSUME FadeUnits == Chips!FadeAssumption
Lis == INSTANCE Listen WITH MaxLines <- 3, MaxEnds <- 3, at <- stream, pipe <- listenPipe

P(k, t, c, z) == [key |-> k, type |-> t, cfg |-> c, zone |-> z]

(* A built-in placed, configured, placed twice under one key, or dropped;   *)
(* a plugin placed left, right, under a key of its own, or not at all.      *)
MCConfigs == {
  <<P("a", "clock", "e", "left"), P("w", "w", "e", "right"),
    P("s", "switcher", "e", "right")>>,
  <<P("a", "clock", "x", "left")>>,
  <<P("a", "clock", "e", "left"), P("a", "clock", "x", "right"), P("b", "w", "x", "right")>>,
  <<P("w", "w", "e", "left")>> }

sniVars == <<alive, toldTo, watcher, others, conns, faults, conn, items, calls, refused,
             hostAt, stage, current, registeredWith, doomed, names, published>>
swayVars == <<sway, changes, losses, service, asked, events, slices, version, tasks, bar, missed>>
gitVars == <<inbox, closed, mine, edits, setUp, failures, fetch, last_modified, page, all, fetched,
             token, threads, notif_error, prs, prs_error, display_text, marks, lost>>
spotVars == <<playing, song, granted, valid, issued, env, configured, file, clicks, refusals, work, player, excused>>
conVars == <<control, pulse, alsa, level, on, uses, task, last, pipe, data, clicked>>
gauVars == <<kind, source, turns, at, first, prev, read, gaugePipe, gauge, ring, pos, samples>>
chipVars == <<animate, list, anim, blink_on, scroll_accum, armed, drawn, went, news>>
lisVars == <<value, child, printed, stream, listenPipe, text, ends>>

Parts == {"reconcile", "sni", "xtray", "menu", "sway", "github", "spotify", "controls", "gauges", "chips", "listen"}

(* A part that rests does so in one state. *)
MCInit ==
  /\ part \in Parts
  /\ part # "sni" => watcher = NONE
  /\ part # "xtray" => owner = NOBODY
  /\ part # "github" => setUp = FALSE
  /\ part # "spotify" => file = NONE /\ configured = TRUE /\ song = 0
  /\ part # "controls" => control = "media" /\ pulse = FALSE /\ alsa = FALSE
  /\ part # "gauges" => kind = "cpu"
  /\ part # "chips" => animate = FALSE
  /\ Init
  /\ part # "reconcile" => config = <<P("a", "clock", "x", "left")>> /\ ~disk["w"].there
  /\ Sni!Init /\ XTrayInit /\ MenuInit /\ Sway!Init /\ Git!Init /\ Spot!Init /\ Con!Init
  /\ Gau!Init /\ Chips!Init /\ Lis!Init

Resting ==
  /\ part # "reconcile" => UNCHANGED vars
  /\ part # "sni" => UNCHANGED sniVars
  /\ part # "xtray" => UNCHANGED xtrayVars
  /\ part # "menu" => UNCHANGED menuVars
  /\ part # "sway" => UNCHANGED swayVars
  /\ part # "github" => UNCHANGED gitVars
  /\ part # "spotify" => UNCHANGED spotVars
  /\ part # "controls" => UNCHANGED conVars
  /\ part # "gauges" => UNCHANGED gauVars
  /\ part # "chips" => UNCHANGED chipVars
  /\ part # "listen" => UNCHANGED lisVars

MCNext ==
  /\ UNCHANGED part /\ Resting
  /\ \/ part = "reconcile" /\ Next
     \/ part = "sni" /\ Sni!Next
     \/ part = "xtray" /\ XTrayNext
     \/ part = "menu" /\ MenuNext
     \/ part = "sway" /\ Sway!Next
     \/ part = "github" /\ Git!Next
     \/ part = "spotify" /\ Spot!Next
     \/ part = "controls" /\ Con!Next
     \/ part = "gauges" /\ Gau!Next
     \/ part = "chips" /\ Chips!Next
     \/ part = "listen" /\ Lis!Next

(* The fairness of each part, asked of it while it is the one that runs. *)
Fairness ==
  /\ WF_sniVars(part = "sni" /\ Sni!Discovery)
  /\ WF_sniVars(part = "sni" /\ Sni!Connect)
  /\ \A a \in {"a", "b"} :
       /\ WF_sniVars(part = "sni" /\ Sni!Register(a))
       /\ WF_sniVars(part = "sni" /\ Sni!OwnerLookup(a))
       /\ WF_sniVars(part = "sni" /\ Sni!Push(a))
  /\ \A w \in Workers : WF_xtrayVars(part = "xtray" /\ Work(w))
  /\ WF_swayVars(part = "sway" /\ Sway!Service)
  /\ \A m \in Sway!Modules : WF_swayVars(part = "sway" /\ Sway!Deliver(m))
  /\ WF_gitVars(part = "github" /\ Git!Stream)
  /\ WF_gitVars(part = "github" /\ Git!SetUp)
  /\ \A m \in {"a", "b", "all"} : WF_gitVars(part = "github" /\ Git!Marked(m))
  /\ \A w \in {"poll", "t"} : WF_spotVars(part = "spotify" /\ Spot!Worker(w))
  /\ WF_spotVars(part = "spotify" /\ Spot!Exchange("t"))
  /\ WF_conVars(part = "controls" /\ Con!Send)
  /\ WF_conVars(part = "controls" /\ Con!Receive)
  /\ \A w \in {"poll", "t"} : WF_conVars(part = "controls" /\ Con!Work(w))
  /\ WF_gauVars(part = "gauges" /\ Gau!ReadFirst)
  /\ WF_gauVars(part = "gauges" /\ Gau!ReadLast)
  /\ WF_gauVars(part = "gauges" /\ Gau!Send)
  /\ WF_gauVars(part = "gauges" /\ Gau!Data)
  /\ WF_chipVars(part = "chips" /\ Chips!Tick)
  /\ WF_chipVars(part = "chips" /\ Chips!Blink)
  /\ WF_lisVars(part = "listen" /\ Lis!Spawn)
  /\ WF_lisVars(part = "listen" /\ Lis!NextLine)
  /\ WF_lisVars(part = "listen" /\ Lis!Eof)
  /\ WF_lisVars(part = "listen" /\ Lis!Reap)
  /\ WF_lisVars(part = "listen" /\ Lis!Slept)
  /\ WF_lisVars(part = "listen" /\ Lis!Data)

mcVars == <<part, vars, sniVars, xtrayVars, menuVars, swayVars, gitVars, spotVars, conVars, gauVars,
          chipVars, lisVars>>
MCSpec == MCInit /\ [][MCNext]_mcVars /\ Fairness

(* A part is asked for what it promises unless it rests for good, which is  *)
(* said in the form of the promises, for TLC to look at them all at once.   *)
Rests(p) == <>[](part # p)

(* The tray shows the items of the applications there are, and the          *)
(* selection of the old protocol goes on to the service that is to have it. *)
TraySound ==
  /\ SelectionFree
  /\ Rests("sni") \/ Sni!TrayComplete
  /\ Rests("xtray") \/ SelectionHanded

(* What sway says arrives in the bar, and the chips of the workspaces come  *)
(* to rest as it says.                                                      *)
WorkspacesFollow ==
  /\ Rests("sway") \/ Sway!BarFollows
  /\ Rests("chips") \/ Chips!ChipsSettle

(* The bar shows GitHub's inbox, what Spotify plays, or that it is to be set *)
(* up, and the volume and the player as they are.                            *)
SourcesFollow ==
  /\ Rests("github") \/ Git!InboxFollows
  /\ Rests("spotify") \/ Spot!PlayerFollows
  /\ Rests("controls") \/ Con!ControlsFollow

(* Gauges and commands show the last value there was, graphs the last ones  *)
(* in order.                                                                *)
ReadingsFollow ==
  /\ []Gau!GraphInOrder
  /\ Rests("gauges") \/ Gau!GaugesFollow
  /\ Rests("listen") \/ Lis!LinesFollow
=============================================================================
