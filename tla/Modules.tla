------------------------------- MODULE Modules -------------------------------
(***************************************************************************)
(* The live module set of the bar (src/main.rs, RFC 0004): a reload        *)
(* reconciles the running modules with the placement in the config and     *)
(* with the plugin files on disk, keyed by the placement's key; iced keeps *)
(* a module's streams while the key of their recipe stays the same.        *)
(*                                                                         *)
(* The stable id is a hash of the key and stands for the key here.         *)
(***************************************************************************)
EXTENDS Naturals, Sequences

CONSTANTS
  Builtins,    \* module types compiled in
  Plugins,     \* ids of WASM plugins; one that nobody placed has its id as key
  Chrome,      \* placeable ids that are no modules (switcher)
  Keys,        \* placement keys
  Cfgs,        \* resolved module configs
  EMPTY,       \* the empty config
  Configs,     \* config files: sequences of placements
  Adopts,      \* types whose Module::reconfigure adopts a config in place
  MaxMtime,    \* bound: versions of a plugin's file
  MaxBuilds,   \* bound: instances built of one key
  NONE

Types == Builtins \cup Plugins
Placed == [key : Keys, type : Types \cup Chrome, cfg : Cfgs, zone : {"left", "right"}]

(* bytes is the file the instance's drive task has loaded; 0 is no file. *)
Entry == [obj : 1 .. MaxBuilds, type : Types, cfg : Cfgs, sig : 0 .. MaxMtime,
          bytes : (0 .. MaxMtime) \cup {NONE}, disabled : BOOLEAN]

ASSUME ModulesAssumption ==
  /\ Builtins \cap Plugins = {} /\ Chrome \cap Types = {}
  /\ Plugins \subseteq Keys
  /\ EMPTY \in Cfgs
  /\ Configs \subseteq Seq(Placed)
  /\ MaxMtime \in Nat \ {0} /\ MaxBuilds \in Nat \ {0}
  /\ NONE \notin (0 .. MaxMtime) \cup Entry

(* The plugins that a key may stand for: the pill of that id, or one that a *)
(* config places under it.                                                  *)
PluginsOf(k) ==
  {w \in Plugins : w = k \/ \E c \in Configs : \E i \in DOMAIN c : c[i].key = k /\ c[i].type = w}

(* No key is given from one plugin to another.  reconcile_modules compares  *)
(* the times of files, not whose they are.                                  *)
OnePluginAKey == \A k \in Keys : \A v, w \in PluginsOf(k) : v = w

VARIABLES
  config,      \* Bar.config
  disk,        \* each plugin's file: its modification time, and if it is there
  live,        \* Bar.modules, by key
  builds,      \* instances built of each key
  generation,  \* Bar.generation
  streams,     \* the streams iced runs
  synced,      \* iced has looked at subscription() since the last message
  fresh        \* history: no file has changed since the last reload

vars == <<config, disk, live, builds, generation, streams, synced, fresh>>

(* The identity of a recipe is its type, the instance and its generation;   *)
(* every plugin has the same type of recipe.                                *)
Recipe == [key : Keys, gen : 0 .. MaxBuilds, kind : Builtins \cup {"tick"}]
Stream == [recipe : Recipe, obj : 1 .. MaxBuilds]

TypeOK ==
  /\ config \in Configs
  /\ disk \in [Plugins -> [mtime : 1 .. MaxMtime, there : BOOLEAN]]
  /\ live \in [Keys -> Entry \cup {NONE}]
  /\ builds \in [Keys -> 0 .. MaxBuilds]
  /\ generation \in [Keys -> 0 .. MaxBuilds]
  /\ streams \subseteq Stream
  /\ synced \in BOOLEAN /\ fresh \in BOOLEAN
  /\ \A k \in Keys : live[k] # NONE => live[k].obj = builds[k]

-----------------------------------------------------------------------------
(* What should run: desired_module_specs *)

(* The plugins dir is read at every reload. *)
Found == {w \in Plugins : disk[w].there}
IsModule(t) == t \in Builtins \cup Found

(* Every plugin found that the right zone does not place gets a pill. *)
Unplaced(c) == {w \in Found : \A i \in DOMAIN c : c[i].zone = "right" => c[i].type # w}

(* Placements of a key that are modules. *)
Places(c, k) == {i \in DOMAIN c : c[i].key = k /\ IsModule(c[i].type)}
First(is) == CHOOSE i \in is : \A j \in is : i <= j

(* One module per key: the first placement of the key that is a module. *)
SpecOf(c, k) ==
  CASE Places(c, k) # {}                      -> c[First(Places(c, k))]
    [] Places(c, k) = {} /\ k \in Unplaced(c) -> [key |-> k, type |-> k, cfg |-> EMPTY, zone |-> "right"]
    [] OTHER                                  -> NONE

(* wasm_plugin_sig: none for a built-in. *)
Sig(t) == IF t \in Plugins /\ disk[t].there THEN disk[t].mtime ELSE 0

NewEntry(k, s) ==
  [obj |-> builds[k] + 1, type |-> s.type, cfg |-> s.cfg, sig |-> Sig(s.type),
   bytes |-> NONE, disabled |-> FALSE]

(* build_modules at start: generation 0, never written down. *)
Init ==
  /\ config \in Configs
  /\ disk \in [Plugins -> [mtime : {1}, there : BOOLEAN]]
  /\ builds = [k \in Keys |-> IF SpecOf(config, k) = NONE THEN 0 ELSE 1]
  /\ live = [k \in Keys |->
       IF SpecOf(config, k) = NONE THEN NONE
       ELSE [obj |-> 1, type |-> SpecOf(config, k).type, cfg |-> SpecOf(config, k).cfg,
             sig |-> Sig(SpecOf(config, k).type), bytes |-> NONE, disabled |-> FALSE]]
  /\ generation = [k \in Keys |-> 0]
  /\ streams = {} /\ synced = FALSE /\ fresh = TRUE

-----------------------------------------------------------------------------
(* reconcile_modules *)

(* An instance is kept when config and bytes are the same.  Faulty          *)
(* variants: the bytes are not looked at; the file that the drive task has  *)
(* loaded is compared with the one on disk.                                 *)
Keeps_AnyBytes(k, s) == live[k] # NONE /\ live[k].cfg = s.cfg
Keeps_Loaded(k, s) == live[k] # NONE /\ live[k].cfg = s.cfg
                      /\ (s.type \in Plugins => live[k].bytes = Sig(s.type))

Keeps(k, s) == live[k] # NONE /\ live[k].cfg = s.cfg /\ live[k].sig = Sig(s.type)

(* A changed config is adopted in place by a module that can, if its bytes  *)
(* are the same; anything else is built anew.                               *)
AdoptsCfg(k, s) ==
  live[k] # NONE /\ ~Keeps(k, s) /\ live[k].sig = Sig(s.type) /\ live[k].type \in Adopts

Builds(k, s) == ~Keeps(k, s) /\ ~AdoptsCfg(k, s)

(* A new instance gets a new generation.  Faulty variant: only when one of  *)
(* its key was written down before.                                         *)
Rekeys_Recorded(k, s, R) ==
  (Builds(k, s) /\ generation[k] > 0) \/ (AdoptsCfg(k, s) /\ k \in R)
Rekeys(k, s, R) == Builds(k, s) \/ (AdoptsCfg(k, s) /\ k \in R)

Reconciled(k, s) ==
  CASE s = NONE                     -> NONE
    [] s # NONE /\ Keeps(k, s)      -> live[k]
    [] s # NONE /\ AdoptsCfg(k, s)  -> [live[k] EXCEPT !.cfg = s.cfg]
    [] s # NONE /\ Builds(k, s)     -> NewEntry(k, s)

(* apply_config: R are the keys whose module asks to be subscribed again.   *)
Reload(c) ==
  LET spec == [k \in Keys |-> SpecOf(c, k)]
  IN  /\ \A k \in Keys : spec[k] # NONE /\ ~Keeps(k, spec[k]) =>
           builds[k] < MaxBuilds /\ generation[k] < MaxBuilds
      /\ \E R \in SUBSET {k \in Keys : spec[k] # NONE /\ AdoptsCfg(k, spec[k])} :
           generation' = [k \in Keys |->
             IF spec[k] # NONE /\ Rekeys(k, spec[k], R) THEN generation[k] + 1 ELSE generation[k]]
      /\ live' = [k \in Keys |-> Reconciled(k, spec[k])]
      /\ builds' = [k \in Keys |->
           IF spec[k] # NONE /\ Builds(k, spec[k]) THEN builds[k] + 1 ELSE builds[k]]
      /\ config' = c /\ synced' = FALSE /\ fresh' = TRUE
      /\ UNCHANGED <<disk, streams>>

Enabled == {k \in Keys : live[k] # NONE /\ ~live[k].disabled}

(* A module panics in update. *)
Panic(k) ==
  /\ k \in Enabled
  /\ live' = [live EXCEPT ![k].disabled = TRUE]
  /\ synced' = FALSE
  /\ UNCHANGED <<config, disk, builds, generation, streams, fresh>>

(* iced compares the recipes with the streams it runs: one whose recipe is  *)
(* still there goes on, with the instance it was started for.               *)
RecipeOf(k) ==
  [key |-> k, gen |-> generation[k],
   kind |-> IF live[k].type \in Plugins THEN "tick" ELSE live[k].type]

Sync ==
  /\ ~synced /\ synced' = TRUE
  /\ streams' = {s \in streams : \E k \in Enabled : s.recipe = RecipeOf(k)}
                \cup {[recipe |-> RecipeOf(k), obj |-> live[k].obj] :
                        k \in {j \in Enabled : \A s \in streams : s.recipe # RecipeOf(j)}}
  /\ UNCHANGED <<config, disk, live, builds, generation, fresh>>

-----------------------------------------------------------------------------
(* Around the bar *)

(* A plugin is deployed over its file, which moves its time on, or removed. *)
Deploy(w) ==
  /\ disk[w].mtime < MaxMtime
  /\ disk' = [disk EXCEPT ![w] = [mtime |-> @.mtime + 1, there |-> TRUE]]
  /\ fresh' = FALSE
  /\ UNCHANGED <<config, live, builds, generation, streams, synced>>

Remove(w) ==
  /\ disk[w].there
  /\ disk' = [disk EXCEPT ![w].there = FALSE]
  /\ fresh' = FALSE
  /\ UNCHANGED <<config, live, builds, generation, streams, synced>>

(* The drive task loads the file, some time after build. *)
LoadBytes(k) ==
  /\ live[k] # NONE /\ live[k].type \in Plugins /\ live[k].bytes = NONE
  /\ live' = [live EXCEPT ![k].bytes = Sig(live[k].type)]
  /\ UNCHANGED <<config, disk, builds, generation, streams, synced, fresh>>

Next ==
  \/ \E c \in Configs : Reload(c)
  \/ \E k \in Keys : Panic(k) \/ LoadBytes(k)
  \/ \E w \in Plugins : Deploy(w) \/ Remove(w)
  \/ Sync

Spec == Init /\ [][Next]_vars

-----------------------------------------------------------------------------
(* Properties *)

(* Every module that runs has its own stream, and no stream outlives its    *)
(* instance: a remove and a re-add, or a rebuild, never meet the stream of  *)
(* an instance that is gone (main.rs 2929-2932, 2941-2942).                 *)
StreamsOwn ==
  synced => /\ \A k \in Enabled : \E s \in streams : s.recipe = RecipeOf(k)
            /\ \A s \in streams : s.recipe.key \in Enabled /\ s.obj = live[s.recipe.key].obj

(* After a reload every plugin runs, or is about to load, the bytes on disk *)
(* (modules/mod.rs 118-123), also when the file changed between the build   *)
(* and the load.                                                            *)
FreshBytes ==
  fresh => \A k \in Keys :
    live[k] # NONE /\ live[k].type \in Plugins => live[k].bytes \in {NONE, Sig(live[k].type)}

(* An instance's streams are its own, and it runs the bytes that are on     *)
(* disk.                                                                    *)
InstancesSound == StreamsOwn /\ FreshBytes

(* A reload of the same config with the same files changes nothing          *)
(* (RFC 0004, "same config in, no-ops out").                                *)
Idempotent == [][fresh /\ fresh' /\ config' = config =>
                   builds' = builds /\ generation' = generation]_vars
=============================================================================
