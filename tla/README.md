# ezbar in TLA+

ezbar is a status bar for the sway compositor, written in Rust: an
[iced](https://iced.rs) application on wlr-layer-shell surfaces, with built-in
modules and WebAssembly plugins hosted by a wasmtime reactor. This directory
holds TLA+ models of the parts of it that are hard to test, configurations that
check them with TLC, and proofs for TLAPS. Paths below are relative to the
repository's root.

## 1. Inventory

The bar is one process with an iced message loop (`update()` runs every handler
to completion on one thread), one thread that dispatches Wayland registry
events, a tokio runtime on which every plugin has a *drive task* and every
metric a *sampler task*, and subscriptions (streams) that iced starts and stops
by the identity of their recipe. A supervisor process restarts it.

| Component | Source | State | Operations | Talks to |
|---|---|---|---|---|
| Launcher | `src/launcher.rs`, `main()` | two abstract sockets used as locks; the processes and their children | launch, foreground launch, take or miss a guard, spawn, reap, back off, crash, kill | sway (`exec_always`), the kernel |
| Control socket | `src/ipc.rs`, `ipc_stream` | the socket file shared by all bars of a user | probe, remove, bind, accept | `ezbar msg`, other bars |
| Outputs and surfaces | `src/outputs.rs`, `reconcile_surfaces` | `OutputCache`, `bars`, `docks`, `dock_visible`, `cursor_output` | registry events, sway events, reconcile, toggle, compositor close | sway IPC, Wayland |
| Popups and picker | `src/main.rs` | `popup`, `module_popup`, `picker`, `PENDING_PICKS` | open, toggle, dismiss, answer, place, panic, reconfigure | drive tasks (a pick parks a fiber), compositor |
| Module reconcile | `reconcile_modules`, `src/modules/mod.rs` | `modules`, `generation`, file signatures | reload, build, reconfigure in place, rebuild, remove, panic | config stream, plugin directory, iced's subscriptions |
| WASM drive loop | `crates/ezbar-wasm/src/lib.rs` | input channel, carried tap, pending scroll, timer, wall limit | send, merge, coalesce, step, park, fold timer, trap, abort | the GUI thread, the guest, feeds |
| Frame slot | same file | `Slots`, `Shared.version`, the tick stream | publish, poll, tick, view | iced's renderer |
| Metric feeds | same file | hubs, subscriptions, sampler tasks | subscribe, sample, retain, fan out, end | drive tasks |
| Artifact cache | same file | `*.cwasm` files shared by all loads | hash, map, compile, publish by rename, sweep | the blocking pool, other bars |
| Host services | same file | the call that waits, HTTP streams, the program's pipes, the suspended wall limit | `http-get`, `http-open/read/close`, `exec`, `pick` | grants, network, programs |
| View lifting, painting | same file, `crates/ezbar-plugin-wasm` | none (a bounded walk) | `lower`, `lift`, `check_fwd`, measure, build | guests |
| Configuration | `src/config.rs`, `config_stream` | the last good config, the preset | merge, resolve palette, select a preset, debounce, reload | files, inotify |
| Bar geometry | `src/main.rs` | `bar_pos`, the geometry of live surfaces | `bar_geom`, `dock_geom`, position over IPC, change in place | the layer-shell runtime |
| Grants | `src/grants.rs`, `build` in `src/modules/mod.rs` | `grants.toml`, its temporary file, the capabilities of each instance | decide, record, forget, grant, remove | the bar's reload, the command line |
| Registry | `src/registry.rs` | the plugin files, `publishers.toml`, `installed.toml` | add, update, remove | an index in a directory or a git repository |
| Packaging, installation | `src/install.rs`, `src/package.rs`, `manifest.rs` | the sway config | package, install | files |
| Sway's bus | `src/sources/sway.rs` | one connection, the last state, a version per subscriber | ask, subscribe, ask again, publish, reconnect | sway; workspaces, title and keyboard modules |
| Workspaces | `src/modules/workspaces.rs` | chips, a fade, a pulse, scroll | event, tick, blink, scroll, draw | Sway's bus |
| GitHub, Spotify | `src/sources/`, `src/modules/` | token, list, date of the last answer; token file, player | poll page by page, dismiss, renew, act | HTTP |
| Volume, media, gauges | same | the last reading, rings of samples | poll, click, scroll | PulseAudio, ALSA, MPRIS, `/proc`, `/sys`, commands |
| Listened-to commands | `src/modules/custom.rs` | a child and its line | spawn, read, end, respawn | `sh` |
| Agents | `src/modules/agents.rs`, `wasm/claude` | processes, their transcripts, counters | scan, match, read what was appended | `/proc`, transcripts |
| Clock and month | `src/modules/clock.rs` | the wake-up, the month that is open | sleep, resolve a zone, page | the system's clock and zones |
| Titles, markup | `src/modules/markup.rs`, `window_title.rs` | none | parse, truncate | Sway's bus |
| Calendar | `wasm/calendar`, `crates/calendar-logic` | the slimmed feed, the agenda | fetch by chunks, slim, parse, expand, merge | host services |
| Tray | `src/sources/tray/`, `src/modules/tray.rs` | watcher and host names, items, X11 containers, the menu asked for | register, discover, claim, dock, release, click | D-Bus, X11 |

### What is hard here, and what must hold

* **Locks and crashes** (Launcher). Supervisors and renderers are killed in any
  order and a renderer outlives its supervisor. *At most one bar per session; no
  lock outlives its owner; a session with a supervisor gets its bar back.*
* **Two channels that nothing orders** (Surfaces). Sway announces a monitor
  before or after its `wl_output` has a name; a monitor is replugged under its
  old name while the close events of its surfaces are lost. *One surface per
  output; none on screen that is not tracked; bars converge on the monitors.*
* **One discipline, many closers** (Popups). Nine handlers close popups through
  three helpers, with layout queries and parked fibers in flight. *Fields and
  surfaces agree; a module popup is alone; no parked pick is lost.*
* **Identities that outlive their holder** (Feeds, Modules). An instance id
  survives a rebuild, a drive task, a channel and a stream do not.
  *One sampler per metric, one subscription per instance, every guest is fed;
  each module has its own stream; an unchanged reload changes nothing.*
* **A full channel, a timer in a race** (Reactor). *Events stay in order, scrolls
  merge, a tap that was accepted is handled, a deadline fires, a guest that hangs
  is ended.*
* **Files as shared memory** (artifact cache, control socket). *An artifact is
  whole and filed under the code it holds; the cache keeps its cap; a listening
  bar keeps the socket.*
* **A file read while it is written** (Configuration). Events are coalesced, reads retried, messages queued, and
  the GUI thread loads on its own account. *The last edit that parses is the one that runs, with the preset
  selected last.*
* **Commands that stop halfway** (Registry, Grants). Four files change one after
  another, in commands that may be interrupted and a bar that may crash. *One
  publisher per installed plugin; no version on record that was not written;
  capabilities only for the bytes of the last consent; no consent is lost.*
* **Worlds that change under the question** (sources, trays, agents). A list is read page by page, a menu
  comes after its icon has changed, a watcher quits between two calls, two workers renew one token.
  *What is shown comes to be what is so; a menu is of the icon it was asked for; each agent has a session of
  its own; every token is counted once.*
* **Clocks that jump** (clock, network rate). A machine is suspended, the wall clock set, a zone shifts, a counter
  starts again. *The clock tells the time; no rate that was not there.*
* **Calls that must end** (host services). A service suspends the limit of a call on every way in and has to
  restore it on every way out. *Every call ends; what was read is what was sent.*
* **Text in pieces** (calendar, agents, lifting). A feed or a transcript ends within a line, a guest's tree is any
  tree. *The agenda is the feed's; what is shown is what the plugin drew.*

`PROJECT.json` lists every hazard at its line with the properties that cover it, or a note on why none does.

## 2. Modules

| Module | Models | Composition |
|---|---|---|
| `Popups` | switcher, module popup, picker, pick queue | |
| `Singleton` | abstract: a session has at most one bar | refined by `Launcher`, instantiated by `IpcSocket` |
| `Launcher` | supervisor and renderer processes, their locks | implements `Singleton` |
| `IpcSocket` | `ipc_stream` from the probe to the accept loop | bars come and go by the actions of `Singleton` |
| `Surfaces` | output cache, reconcile of bars and docks | |
| `FeedHub` | hubs, subscriptions, samplers, the drive tasks beside them | |
| `Reactor` | one plugin's input, timer, guest calls and limits | |
| `FrameSlot` | slot, version, tick stream, view | |
| `Modules` | placement to specs, reconcile, recipes, deploys | |
| `CompileCache` | `load_component` and `sweep_cache`, step by step | |
| `Registry` | `add`, `update`, `remove`: plugin file, pin, record, step by step | |
| `Consent` | `grants.toml` between the bar's reload and a command | |
| `ConfigReload` | from a save of `config.toml` to the bar: editor, watcher, stream, GUI thread; preset selection | |
| `Geometry` | geometry of new and live bars and docks, the batches of an update | beside `Surfaces`, in the same run |
| `HostServices` | one plugin's calls to the host | |
| `NetRate` | the sampler of the network's rate | |
| `Widgets` | lowering, lifting and building a guest's view | |
| `Resolve` | merge and references of a theme | |
| `Calendar` | the slimmer, the parser, the agenda | |
| `Markup` | inline markup and window titles | |
| `ClockStream`, `MonthGrid` | the clock's sleeps and zones; its month | |
| `Agents` | scan, match and count, for the built-in and the guest | |
| `SniTray`, `XTray`, `TrayMenu` | both tray protocols; clicks and menus | |
| `SwayBus`, `Workspaces` | sway's events to the modules; the chips | |
| `GitHub`, `Spotify`, `Controls`, `Gauges`, `Listen` | a source each, from the world to what is shown | |
| `Popups_proofs`, `Surfaces_proofs` | theorems | extend the modules of their names |
| `Contents_proofs` | theorems | extends `Consent`, `MonthGrid`, `ClockStream`, `Resolve`, `Agents` |
| `Launcher_proofs` | theorems | extends `Launcher`, `IpcSocket`, `FrameSlot` |
| `Plugins_proofs` | theorems | extends `Registry`, `CompileCache` |
| `Tasks_proofs` | theorems | extends `FeedHub`, `Reactor`, `NetRate`, `HostServices` |
| `Modules_proofs` | theorems | extends `Modules`, `XTray`, `TrayMenu` |
| `MC*` | small instances, below | |

An MC module puts components that share nothing into one run: a variable `part` says which of them a behaviour
moves, the others rest in one state, and a promise of a component that rests holds or is not asked. So a run
costs the sum of its parts' states, not their product. Components that do interact are modelled together in
their module (`FeedHub` has the drive tasks, `SwayBus` its subscribers, `IpcSocket` the bars of `Singleton`).
An MC module extends the components that there are theorems about, so that a run and a proof speak of the same
definition, and instantiates the others.

How state and actions correspond to the code: an action is a whole handler, up
to the point where something else may come between (an await, a call to the
compositor or to sway, a system call on a shared file, a lock). So a handler of
`update()` is one action of `Popups`, `reconcile_surfaces` is three steps of
`Surfaces` (the sway query, the plan of the bars, the plan of the docks: each
reads the cache that the dispatch thread writes), a sampler pass is two steps of
`FeedHub` (the value is read outside the lock), and `load_component` is ten
steps of `CompileCache`, one per system call on a shared name.

In `ConfigReload` the number of a save stands for what the editor meant by it, and a file is such a number,
empty, broken or gone; the pauses of the watcher are the gaps between its steps. It says nothing of time, so
"the burst is over" is one of the interleavings.

In `Popups` the fields that handlers pass on through `&mut self` are one record,
`ui`, and every helper (`close_any_popup`, `open_next_picker`, ...) is an operator
from `ui` to `ui`, so that a handler which calls several is their composition. The switcher's and the picker's surface is mapped by the handler that asks for it (section 5). `Reactor` keeps
the sum of a scroll as the set of wheel events in it, which makes "lost",
"merged" and "in order" say something. `FeedHub` counts a period in samples,
since the sampler's pace is the only clock there. In `CompileCache` a file is an
inode with a content, and a name maps to an inode, so that a rename, a truncating
open and a reader that holds the old file differ as they do on disk. `Consent`
keeps less of that: one temporary name, and for each writer whether its open file
is still the temporary one or has been renamed to `grants.toml` under it. There a
plugin's bytes, their hash and their version are one value, and `trusted` is
recorded when the bar decides: whether the bytes it read are those of the last
consent that reached the disk.

The sources of `SwayBus` and the like are two-sided: the world (sway, GitHub, the X server) changes in steps of
its own, and a request is split where the world may change before its answer is used. Texts, titles and
pixels are values; a number shown is the number, not its digits, except in `GitHub`, whose label is a text. Positions in a transcript and in a feed
count half lines, so that a read may end within one. Time is counted in units just small enough to tell the cases
apart: half days in `Calendar`, a short calendar of nested units in `ClockStream`.

Beside some definitions stands a *faulty variant*, named after it with a suffix
(`Coalesce_PastTaps`): a plausible mistake in that code, which a property of the
run must detect. Nothing else uses them.

## 3. Runs

| Run | Question | Bounds, and why they are enough |
|---|---|---|
| `popups` | surfaces and fields agree; a module popup is alone and its owner works; no pick is lost; each pick that is sent is shown, answered, or stranded as in finding 1 | two plugins with one pick each: a picker to replace and a second pick to strand; four window ids: switcher, module popup, picker and a layout query still in flight; a message channel of one `PickReady`, so that it is full |
| `popups_stranded` | finding 1 | as above with a second pick of one plugin |
| `launcher` | one bar, refinement of `Singleton`, bars return; the control socket; frames; edits of the configuration | four processes: a supervisor and its renderer, an orphan, a rival; one session under two spellings, the case in which the two locks differ; four bars of three sessions that start, end and crash in any order: a live owner, a crashed one, and two newcomers that race each other for the file; three frames and two subscriptions; two saves (a second one while the first is read), one selection or reload, one message in the channel |
| `config_preset` | finding 3 | one save, one selection, one message in the channel |
| `surfaces` | one surface of a kind per output and no others on screen; what is on screen settles; geometry | two globals of one name (a replug, or two monitors announcing one name), three surfaces of a kind in turn, queries that fail at any time, outputs and docks edited; for what settles, the output stays wanted and queries fail only while a bar is up (a cold failure is an observed limit, below); for the geometry, two monitors, four configurations that differ in the dock's width, the outputs, the bar's edge, height and margins, three updates: a kept bar, a changed one, and one made in between |
| `contents` | what is worked out is right, against reference definitions; what may run is consented to | three layers of a theme, each with or without every form of value, with one palette of the four (the preset's file is silent on `text` there, which saves states); then any palettes at once, under layers of one key; all trees of two levels over every kind, and arenas of three nodes, sound or not; feeds of up to three events with every feature that tells two lines of the parser apart, chunks of up to three half lines, a title that a cut garbles, two days; formats of four pieces; four months of which one is short, on any weekday; a clock in zones that shift either way at any hour, or by half of one, set or suspended once; one session of three lines for the counting, two of one line with two processes for the matching, where as many transcripts are looked at as there are agents (the code looks at eight more); consent for two plugins of which the commands name one, two versions of which the second asks for a dangerous capability |
| `tasks` | order, merging, arrival, deadlines, runaway guests; feeds; host services; rates | three pointer events over a channel of one: one in hand, one queued, one that finds it full; the heartbeat, one deadline, one pick per step; one metric (hubs do not interact), a plugin rebuilt once, a second plugin, two periods, two task ids; four calls, two versions of the interface, bodies of two chunks or none, a pipe of one unit and an input of four; two interfaces, counters of two units, five units of time |
| `feedhub_once` | finding 2 | a rebuilt plugin whose guest asks once |
| `plugins` | artifact cache; install and update | two loads of one file, or of two files that may be equal, two contents that are deployed at any time, one artifact allowed, four artifact files (three where the files are two); two plugins, an index that grows, changes its publisher, loses its signature and ends in an artifact that does not verify; a pin may fail each time |
| `consent_lost` | finding 4 | as the consent part of `contents`, the command and the bar may save at the same time |
| `modules` | reconcile builds what the files say and nothing twice; what the modules show comes to be so; nothing of the tray is left behind | four configs (a zone moved, a key placed twice, a key re-used, nothing), one plugin, two builds of a key; two applications, two watchers and four connections (each comes back once); one window, two modules and two workers of the old tray; two icons and four menus; two changes in sway, one lost connection or question that fails, a queue of two events; two threads, one of them a review, three changes, one failure; one task beside the poll of player, volume and media; two changes and rings of two for every gauge; two workspaces and three events; three lines and three ends |
| `github_stale` | finding 5 | two threads, one failing request |

`CHECK_DEADLOCK FALSE` is said where a bound on the world (saves, deploys, changes, lines, calls) or the end of
a pure computation lets the system come to rest: `launcher`, `surfaces`, `contents`, `tasks`, `plugins`,
`modules` and the findings. `popups` has no such bound and is checked for deadlock.

`contents` declares two transcripts interchangeable (`SYMMETRY`): nothing in `Agents` orders them, and the run
checks no liveness.

### Fairness

Fairness is asked only of what the program's own schedulers give. *Popups*: iced
polls `pick_stream`, handles messages, and a person answers a picker that is open. *Launcher*: a running process takes its
next step; taking a free name or spawning may fail now and then, hence strong
fairness on success. No fairness on launches, kills, crashes. *Surfaces*: the dispatch thread
runs, `outputs_stream` resubscribes, messages are handled; sway answers a query
that is repeated for ever (strong fairness: the cold/warm failures are otherwise
unrestricted). *FeedHub*: drive tasks poll, aborted tasks end, samplers run; a
metric has a value now and again. `GuestsReassert` adds guests that ask for their
feed with every call, which is a property of the guest, and `feedhub_once` shows
what happens without it. *Reactor*: the task is polled, time passes, a person
answers a pick; nothing is asked of the guest, which may hang for ever. *FrameSlot*,
*IpcSocket*: a started subscription is polled. *ConfigReload*: the watcher's thread, its stream and
the GUI thread run; nothing is asked of the editor. *HostServices*: a request to the network is answered or refused,
threads run and time passes; nobody has to answer a pick, and no program has to end. *SwayBus*, *GitHub*, *Spotify*,
*Controls*, *Gauges*, *Listen*, *Workspaces*, *SniTray*, *XTray*: the stream, worker or thread of the component takes its next
step, its tasks are answered or fail, messages are handled; nothing is asked of the world but that a set-up is
completed some day (GitHub) and that failures are as many as the bound says. The other modules have no fairness.

In the runs of several parts the fairness of a component is asked while it is the part that moves.

## 4. What is proved

The proofs are for every value of the constants, from the assumption each module names (`PopupsAssumption`,
`LauncherAssumption`, ...): types of the parameters, bounds that are positive, values that stand for "nothing"
and are none of the values they stand beside. TLC evaluates them in every run that extends the module. Four
assumptions say more. `ThemeAssumption`: an entry of a palette is a scalar (a table there is an error wherever it is named).
`ClockAssumption`: the units of time nest, and `MAX_IDLE` is less than a minute. `NetAssumption`: a counter stays below the width (2^64) in which
differences are taken. `ModulesAssumption`: built-ins, plugins and the chrome have
names of their own. Sets may be infinite but where an argument counts (the loads of `CompileCache`, the
interfaces of `NetRate`). A theorem with a hypothesis beside the assumption names it, and so does this section.

A property in this table is the definition that the named run checks; the run shows it on a small instance.

| Theorem | Property | Run | Hypotheses |
|---|---|---|---|
| `PopupsSurfaces`, `PopupsModulePopup`, `PopupsPickNotLost` | `SurfacesAgree`, `ModulePopupSound`, `PickNotLost` | `popups` | |
| `LauncherOneBar`, `LauncherRefines` | `OneBar`, `ImplementsSingleton` | `launcher` | |
| `IpcNoHijack` | `NoHijack` | `launcher` | |
| `FrameSlotSound` | `FramesSound` | `launcher` | |
| `SurfacesOneEach` | `OneSurfaceEach` | `surfaces` | |
| `SurfacesCursorFollows` | `CursorFollows` | `surfaces` | |
| `ConsentBoundToBytes` | `BoundToBytes` | `contents` | command and bar do not save at the same time |
| `FeedHubOneSampler` | `OneSampler` | `tasks` | |
| `ReactorInputInOrder` | `InputInOrder` | `tasks` | |
| `HostStreamsWhole` | `StreamsWhole` | `tasks` | |
| `NetNoSpike` | `NoSpike` | `tasks` | |
| `CacheArtifactsSound` | `ArtifactsSound` | `plugins` | |
| `RegistryOnePublisher`, `RegistryRecordBehind` | `OnePublisher`, `RecordBehind` | `plugins` | |
| `ModulesInstancesSound` | `InstancesSound` | `modules` | no key is given from one plugin to another |
| `ModulesIdempotent` | `Idempotent` | `modules` | |
| `TrayNoneLeftBehind` | `NoneLeftBehind` | `modules` | |
| `MonthCalendarTells` | `CalendarTells` | `contents` | three months at least, of 28 to 31 days |
| `ClockStreamTells` | `ClockTells` | `contents` | a zone that shifts by whole hours does so at a whole hour, by one back at most and six forward |
| `ThemePrecedence` | `Precedence` | `contents` | |
| `AgentsOneSessionEach` | `OneSessionEach` | `contents` | |
| `AgentsTotalsExact` | `TotalsExact` | `contents` | |
| `TrayMenuCurrent` | `MenuCurrent` | `modules` | |

**Popups.** `PopupInv` is `TypeOK` and `UIInv`: surfaces are tracked, popup and
picker are mapped, the module popup is alone, mapped or about to be, and owned
by a working module, waiting picks are in the channel, the queue or the picker. These
are the invariants of the run and its types; together they lack one fact to be inductive:
*the switcher and the picker never share a window id*. Without it the
compositor closing one of them (`WindowClosed`) would unmap the other. Handlers
are compositions of helpers, so the work is one lemma per helper: `Keeps(u, v)`
says the helper's result satisfies `UIInv` for whatever channel, layout queries and working
modules `u` did; `KeepsTrans` composes them. Theorems: `PopupsTyping`, `PopupsSurfaces`,
`PopupsModulePopup`, `PopupsPickNotLost`.

**Launcher.** `IInv` is `TypeOK`, `NoStaleLock` and its converse `Held`: who is past a
guard holds its name. `OneBar` alone is not inductive, since nothing in it says that the
name is taken while a bar lives. Theorems: `LauncherTyping`, `LauncherOneBar`,
`LauncherOneSupervisor`, `LauncherNoStaleLock`, and `LauncherRefines`: every
step of the launcher starts a bar where there is none, ends one, or changes
nothing a session sees.

**Registry.** `RegistryInv` ties the history to the disk: a signed plugin is from whom
its id is pinned to, or its pin was missed (`FromPinned`), so is what a command is about to write
(`WritesPinned`), a pin is dropped after its plugin (`UnpinsGone`), and what is
about to be recorded was written (`NotesWhole`). The write of a pin may fail, which `add` ignores (`let _ = pin(...)`, `src/registry.rs:122`): the
history `missed` names the ids for which it did, and `OnePublisher` says that a publisher stays where no pin was
missed, and that from a pin on nobody else's is installed, whatever was missed before. `OnePublisher` is a property of
steps, and the invariant gives it for the one step that signs, `Write`. The order
of the code is what the proof uses: the pin precedes the fetch, the record follows
the write, the file goes before the pin. Theorems:
`RegistryOnePublisher`, `RegistryRecordBehind`.

**Surfaces** (from `SurfacesAssumption` and `SerialsAssumption`: there are two serials at least, which is enough
to find an unused identity for a new surface). `SurfacesOneEach` is the invariant of the run for any monitors and
configurations. It is not inductive by itself: handling `WindowClosed` forgets a surface, so the closings that are on
their way must be of surfaces no longer on screen (`ClosedGone`), and a new surface is told from a
closing one only because one closing of a kind and output is on its way at a time (`ClosingOne`). The proof
splits a plan into what is kept and what is made (`PlanSound`) and shows that replacing the tracked surfaces by such a
plan keeps the invariant (`ReplaceKeeps`).

**FeedHub** (from no assumption). `FeedHubOneSampler`: a hub has one sampler task, no task is without a hub, an
instance id has one subscription to a metric. The invariant says the same of two tasks and two subscriptions at a time
(`Served`); what carries it is that the test for subscribers and the removal of the hub are in the critical section of the
fan-out (`PassKeeps`), and that subscribing looks for its instance id under the same lock (`SubscribeKeeps`).

**Consent** (from `ConsentAssumption`, and that the command and the bar do not save at the same time, without which
finding 4 refutes it). `ConsentBoundToBytes`: no capabilities but for the bytes of the last consent. `BoundToBytes` holds
because the record is the consent (`SavedStays`, theorem `ConsentStays`), which in turn needs what a save that is under way will
write (`SavesOne`): `grants.toml` with one entry changed, and all of it before the rename. A command or a bar that is
interrupted at any of the steps leaves that intact.

**Control socket** (from no assumption). `IpcNoHijack`: a bar that listens on the socket file keeps it as long as it runs,
whichever bars of whichever sessions start, probe and end meanwhile, from the moment at which no start-up that found the file dead is still to remove it
(`Kept`). `KeptStays` is the step: of the four calls of a start-up only the removal takes a file away, it is made only after a probe
that failed, and a probe of a file that answers does not. Before that moment the file can be taken: a bar that
probed before the listener bound removes its file afterwards (section 5). That is why `Kept` says more than "it answers", and the model
takes that step.

**Frame slot** (from no assumption). `FrameSlotSound`: no frame is forgotten and no tick is sent for nothing. A tick that is
still to be sent is counted beforehand (`ToSend`), so that ticks are bounded by frames and starts of the stream at every
moment, not only between two.

**Cursor** (the output that popups open on). `SurfacesCursorFollows` adds to the invariant of the surfaces that the
cursor's output has a bar, is about to be forgotten, that an answer of sway is being worked on, or that no bar is up and queries
fail there too. A query that fails leaves the old bars up and is repeated; one that fails while no bar is up, before the first or after the
last, is not (`src/main.rs:2719-2721`): then nothing forgets the cursor's output until the next event, but there is no bar either, and the
reconcile that makes one forgets it. The theorem has no hypothesis: the failures of sway are a constant, and the case is a part of the statement.

**Modules.** `ModulesStreamsOwn` and `ModulesIdempotent` need `StreamsBehind` (the generation in a running stream's recipe is
never ahead of its key's, and a stream of today's generation is of today's instance) and `Reconcile` (after a reload every placement has an
instance of its configuration and of the file's signature). That instances are of the *bytes* on disk needs
`FilesInv`, and with it `OnePluginAKey`: `reconcile_modules` compares the times of files and not whose they are (section 5).
A deploy always moves the time forward; that is in the model, and the code's comparison relies on it.

**Artifact cache.** `CacheBounded` holds without any hypothesis. The bound of the run, "over the cap by the sweeps still to come",
is not inductive, because two sweeps may have listed the same victims; `Within` says it for every set of sweeps that
might finish first. `CacheArtifactsSound` adds that artifacts are whole and what they are filed as. It has no hypothesis either: files are deployed at any time
and a file may be loaded by any number of tasks at once, in the run as in the proof. The code then does make artifacts that are wrong: a deploy between the
hash and the compiler's own read (`crates/ezbar-wasm/src/lib.rs:1912`) files new code under an old hash, and two loads of one path write one temporary file
(1915). The history `crossed` has exactly the files whose making met one of these, found where the file is opened (`Crossing`), and the statement is about all others:
such a load had to do with one version of its file (`OneVersion`), whoever joins it at its temporary file crosses it (`Joined`), and an inode has one name (`OneName`).

**Reactor.** `ReactorInputInOrder`: what the guest is given is in the order in which the user did it, and an event is lost only
where the code says so. The invariant puts everything that is on its way into one line (what the guest got, the step under way, the
carried tap, the channel, the pending scroll) and says that the line is ordered; each action takes from the front, puts at the
end or merges neighbours.

**Network rate.** `NetNoSpike`: a rate is over a short while, never above what the interfaces moved in it, and is that when
nothing started again. A total is a sum over a set, by recursion on its subsets. That this recursion has a solution, and that it follows when one term
changes, is shown at a smallest subset for which it would not be so: well-foundedness of finite subsets is a theorem of the library that can be used
as it is, unlike the induction theorems, which take an operator.

**Host services.** `HostStreamsWhole`: what a guest has read of a body, what the host buffers and what the wire still has are
that body, and a stream that came to its end was read to the last byte. `Flat`, the concatenation of chunks, is a recursive function from the front to the
back, and a read takes from the front, so the proof needs that it unfolds at either end (`FlatCons`); `UpTo` is induction
on an interval by the same argument as above. The invariant adds that who waits for the wire has used up what was buffered (`WaitsFor`).

**Old tray protocol.** `TrayNoneLeftBehind`: a window is in a worker's container only while the worker has it as an icon or is taking it out, and a worker
that is over holds none. In `XTrayInv` the worker's own view and the server's differ only by events that are on their way
(`Held`, `Told`), and a worker without its window has no view at all (`Shut`). A worker also hears of its own reparenting, as of the container it knows; when it has
forgotten the container meanwhile that event is of another (`Outdated`), and `Told` counts only those that make it look.

**Calendar popup** (from `MonthAssumption`). `MonthCalendarTells`: every day of the month shown is in one cell, under its weekday
and in its week's row. The invariant is only that the month shown exists; the work is arithmetic. `FirstDay` is a recursive
function, so that it is defined at all, and adds up the lengths, comes by `UpTo` (`FirstDayIs`), and then that every day is in
some month (`MonthExists`). `DayCells` is the grid: a month of 31 days that begins on the last day of a week still ends in row six.

**Clock** (from `ClockAssumption`). `ClockNeverLong`: the label is never wrong for longer than `MAX_IDLE`, in any zone; the sleep
is at most that, and `behind` and the rest of the sleep add up to no more. `ClockStreamTells`: asleep, and with nobody at the clock, the label is
right to the second. The invariant (`ClockInv`) is that it is right at *every* instant the sleep still has to come, so
that a second passing needs nothing new and waking needs one lemma: until the boundary that `until_next_boundary` finds no field
of the format changes (`AsleepRight`). For fields of an hour and more the boundary is local, and there are three cases: no
shift before it, a shift to it or past it (`GapIs`: the first whole hour that exists), and an hour that comes twice, of which the
first is taken. That is where the hypothesis on zones is used (`ShiftsOnTheHour`); a gap of half an hour is the case section 5 lists.

**Theme** (from `ThemeAssumption`). `ThemePrecedence` sets the merges of `parse_with` against what the layers say one by one. What a
table has after *n* layers (`Tells`) is said without a merge: a key is there if some layer has it, with the value of the last; a
background is a table if the last layer that sets it has one, and then its base is that of the last layer since which
nothing but tables came. `LayerTells` is the step for one more layer, `SourceGiven` the like for one more palette; both start from an empty table,
and a layer that is not there, or a preset that is not selected, adds nothing. The rest (`Accepted`, `EffectIs`) is that a text is refused
for a value in effect only.

**Agents' sessions** (from `AgentsAssumption`). `AgentsOneSessionEach`: whichever processes a scan sees and whatever their titles, no
session is with two agents, an agent goes without only if every transcript is taken, and none is given what another's title
names unless its own title does or the other has one its title names. A scan is three passes over the processes (titles, busy
ones, the rest); `Through` is what a pass has done after *n* of them, `PassIs` that it gets through all, by `UpTo`. That
the last written transcripts suffice (`take(idxs.len() + 8)`) is a count: if one were left out, at least as many were written
later as there are agents, each of these would be with another agent, and one agent is without (`NoneIsLeft`).

**Agents' tokens** (from `AgentsAssumption`). `AgentsTotalsExact`: for any lines and messages, whatever a scan misses, and wherever a
poll finds a line unfinished, what a poll adds to a session's total is what the new lines add to the sum over its messages, each at
its last count; and what a rate is measured from is never more than the total. The invariant is `CountInv`. The messages of a transcript
come in order, each at counts that do not fall (`Ordered`). An offset is that of the lines read, or one half line into the next for a
guest that began there, which then counts from the line after. The last line with usage that was read is what the counter holds
(`LastRead`). And (`Fresh`) either the file is what was read and more, or all it tells of is of messages later than the one the
counter holds: so a compaction, which `read_new_lines` notices only if the file is shorter than its offset, never has a count added to a
message it was not of. `PushedLine` is the step for one line; `PushedIs` puts the lines together by `UpTo`, `CountedDiffers` the sums.

**Tray menu** (from `MenuAssumption`). `TrayMenuCurrent`: an open menu is of an icon that is there, and no menu appears, or is handed on,
but as the answer to what was asked last. The invariant is no more than its first half with the types of the lists on their way: a list
without the icon closes the menu, and an answer shows one only while the icon is in the list. The second half is shown of each step.

Only model-checked:

* every liveness property (fairness and ENABLED are beyond the prover): `BarComesBack`, `StreamsServe`, `SurfacesSettle`, `LoopServes`,
  `FeedsFlow`, `PicksServed` (but for its part on steps), and the "follows" properties of the sources; `TraySound` has one as a part;
* `BarsAgree`: it is not so for every number of monitors (section 5);
* `ShownAsDrawn`, `Agenda`, `MarkupTells`: what nested
  recursions and folds over trees, feeds and formats compute, against reference definitions that are written the same way;
* the modules without a proof module in section 2.

## 5. Findings

Five runs expect a violation; `PROJECT.json` quotes the line that is contradicted.

1. `popups_stranded`: a module popup, a dock toggle, a bar closed by the compositor and a reconcile close the
   picker without opening the next pick (`src/main.rs:1663`): a second plugin hangs parked.
2. `feedhub_once`: a plugin that subscribes once, rebuilt within a sampler pass, is never fed
   (`crates/ezbar-wasm/src/lib.rs:1350`; `TODO.md:201` knows): its request finds the subscription of the aborted task.
3. `config_preset`: a reload that the watcher read before a preset was selected is applied after it, and
   the bar keeps the old preset until the next edit (`src/main.rs:1484`).
4. `consent_lost`: the bar's first sight of a plugin and `ezbar grant` save `grants.toml` at the same time,
   and one consent is lost (`src/grants.rs:106`), where the comment promises an atomic read-modify-write.
5. `github_stale`: a listing that fails after its first page's headers has already moved the date of the next
   conditional request; GitHub then says "not modified", the error goes away, and the threads stay unlisted until
   the inbox changes again (`src/sources/github.rs:255`).

Met while modelling, in the models as the code has it, without a run of its own:

* the switcher opens beside an open picker (`src/main.rs:1429`);
* the picker of a plugin rebuilt in place stays open, with the keyboard (`src/main.rs:2964`);
* the supervisor's lock is named by the spelling of the environment, so two supervisors of one session may
  run, of which one waits (`src/launcher.rs:22`);
* a key re-placed with another built-in and the same config keeps the old module: its type is not compared
  (`src/main.rs:2905`); so does one re-placed with another plugin whose file has the same time, which is why
  `ModulesInstancesSound` asks for one plugin to a key;
* after `ezbar grant` of a plugin whose capabilities were withheld, a reload keeps the withheld instance when
  the config did not change, though the command says to reload (`src/grants.rs:352`; `TODO.md:194` knows);
* a publisher is pinned before its artifact is verified, and a pin that cannot be written is not noticed
  (`src/registry.rs:122`), so that the next publisher is accepted (`Registry.Pin`, `missed`);
* a re-install or a downgrade that is interrupted leaves a torn file and a record that looks up to date
  (`src/registry.rs:140`);
* a first sight taken while `ezbar add` is writing records the hash of a torn file, and withholds the whole
  one (`src/registry.rs:140`);
* probe, remove and bind of the control socket are separate calls: two bars that start together can
  each remove the other's file (`src/main.rs:1290`), which `NoHijack` leaves out of `Kept`;
* a sway query that fails before any bar exists is not retried until the next output event (`src/main.rs:2722`);
* an edit of `[dock] enabled` is not applied on reload (`src/main.rs:2639`);
* the sampler of a metric without values (ping) never ends (`lib.rs:1405`);
* scrolls go to the channel one by one until it is full, and the next tap is dropped (`lib.rs:2162`), which the
  comment at `lib.rs:2134` rules out; a tap that meets a full channel takes the pending scroll with it (`lib.rs:2155`); a summed scroll keeps one
  area (`lib.rs:1664`); samples starve the heartbeat (`lib.rs:1226`); the wall limit counts some parked time
  (`lib.rs:1796`);
* `load` resets to defaults, without the preset, when a preset is selected or `ezbar msg reload` comes while
  `config.toml` does not parse (`src/config.rs:925`); the file may vanish between `exists` and the read, or be empty
  while it is saved in place, and the reload path then flashes to defaults (`src/main.rs:3111`, against 3106-3109);
* the file hashed and the file compiled may differ (`lib.rs:1912`), and loads of one file share a temporary name
  (`lib.rs:1915`): what is made so is in `crossed`, and `ArtifactsSound` is about the rest;
* *host services*: `exec` waits for the program's output until nobody holds its pipes, so a program that leaves a
  process behind (`xdg-open`, as `wasm/calendar/src/lib.rs:186` starts it) is answered only when that ends, and the
  plugin is ended by its wall-clock limit first (`crates/ezbar-wasm/src/lib.rs:444-446`, `475-477`, `ExecAnswers`); a program that answers before
  it has read an input larger than a pipe blocks both sides;
* *geometry*: docks keep their geometry when `[dock]` is edited (`src/main.rs:2640`, `DocksFollow`); `bar_pos` is what IPC said
  until a reload changes the bar; with three bars closed before a new one in one batch, on four monitors or more (the run has two), a message
  for the new bar would come before it is made;
* *network rate*: an interface that goes while others grow past it makes a rate too low, never too high;
* *sway*: a change between the first questions and the subscription is shown with the next one
  (`src/sources/sway.rs:44`, `BarCurrent`); where the tree or the inputs cannot be asked for, the title is empty and the layout is `??` until
  the next event of the kind (260-290);
* *GitHub*: a token that was found is not looked for again; "clear all" marks what the filters hide; a mark that fails is not noticed;
* *Spotify*: two workers that renew at once can lose a refresh token that was rotated, an answer that is lost after Spotify rotated it loses it too, and a
  token file is empty while it is saved; `PlayerFollows` says nothing of what follows (`excused`). "Token expired - click to reauth" (`src/sources/spotify.rs:222`) does not set `needs_auth`, so that a
  click does not sign in again (`ReauthOffered`);
* *media*: the answer to a click goes past the stream's own comparison with what it sent last, so that a player changed
  back meanwhile keeps the wrong glyph (`src/modules/media.rs:85`, `GlyphTells`);
* *tray*: a menu asked for while that of another icon is open closes the popup instead, because the bar takes the
  request of the same module for a toggle (`src/main.rs:1655`, against `docs/tray.md:24`, `MenuOpens`);
* *gauges*: the graphs of the processor and its temperature get zeros for readings that failed; updates show 0 on any failure; with no card that reports how busy it is, no
  other value of the GPU is shown either (`src/sources/gpu.rs:52-55`);
* *custom*: a child that closes its output and runs on is waited for;
* *clock*: a gap of half an hour is noticed late, within `MAX_IDLE`;
* *calendar*: a character that is cut by a chunk is garbled (`crates/calendar-logic/src/lib.rs:175`, against 632, `Transparent`), so that two
  copies of a meeting are not merged; series of whole days are not expanded, as the code says of itself (508-510): `Held`, the feed's agenda in the model,
  has none either, so `Agenda` says nothing of them;
* *agents*: an agent that cannot be read for one scan loses its anchor and its ring.

Met too, and left out of the models:

* a NewLayerShell of the switcher or the picker that a close of the same surface overtakes (`src/main.rs:1542`, 1844, 1879): `Popups` maps the surface in
  the handler that asks for it;
* edits of `presets/*.toml`, which are not watched (`src/main.rs:3231`);
* *host services*: a program outlives the plugin that started it; `http-read` of nothing looks like the end of the stream (the run reads one or two bytes);
* *sway*: each command has a thread of its own, so two quick ones may be swapped; focusing an empty workspace keeps the title; the order of workspaces is not a total one;
* *GitHub*: notifications of other reasons, or past ten of one, are counted and not shown;
* *gauges*: an interface that appears counts as a burst of all it has moved, and the time between readings is taken to be the interval (`src/modules/net.rs:91`);
  the GPU's second graph, of its temperature, which has zeros for readings that failed;
* *custom*: a line that is not UTF-8 ends the reading; only the shell is killed with the module;
* *clock*: an unknown specifier is shown for a day at most, where the comment says a second (`src/modules/clock.rs`);
* *calendar*: a meeting of several days that began more than a day before the fetch is dropped by the slimmer; a day
  ends 24 hours after it starts, also where the zone shifts; a click on a row takes its index in the rows as they are then;
* *agents*: directories whose encoded names are equal share their sessions.

`ExecAnswers`, `DocksFollow`, `BarCurrent`, `ReauthOffered`, `GlyphTells`, `MenuOpens` and `Transparent` stand in their modules with the
words of the code they quote; the code violates them, and no run asks for them.

## 6. Not modelled, and the plan

Not modelled: drawing and layout of iced widgets, the commands `package` and `install`, which run once and write files,
`[plugins] yolo` (consent is not asked), search and the fetch of a git registry, the conversion of
pixels in icons, prices and limits of the agents module, parsing of characters and numbers, time zone rules, generated bindings, and
the guests other than the calendar and Claude ones, which fetch and draw. Partly modelled: the configuration (single fields and
their defaults are values), the plugin logic crates, the SDK.

Planned, in this order:

1. proofs: that a graph keeps its order (`Gauges`);
2. placement and the defaults of the configuration as functions;
3. `Geometry` composed with `Surfaces` on one set of surfaces, with a third and fourth monitor.
