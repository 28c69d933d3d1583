---------------------------- MODULE CompileCache ----------------------------
(***************************************************************************)
(* The on-disk cache of compiled plugins (load_component and sweep_cache   *)
(* in crates/ezbar-wasm/src/lib.rs, RFC 0008).  Each drive task loads its  *)
(* plugin's file on the blocking pool: it hashes the bytes, maps the       *)
(* artifact of that hash if there is one, and else compiles the file and   *)
(* publishes the artifact by writing a temporary file and renaming it.     *)
(*                                                                         *)
(* A wasm file's bytes, their hash and the code compiled from them are one *)
(* version.  The loads of one process share one temporary name per hash    *)
(* and path.                                                               *)
(***************************************************************************)
EXTENDS Naturals, FiniteSets

CONSTANTS
  Loaders,     \* drive tasks that load
  Path,        \* Path[l] is the plugin file of task l
  Contents,    \* contents a plugin file can have
  MaxArts,     \* MAX_CACHED_ARTIFACTS (24 in the code)
  MaxFiles,    \* bound: artifact files written
  OLD,         \* an artifact of another wasmtime, which does not validate
  NIL

ASSUME CacheAssumption ==
  /\ IsFiniteSet(Loaders)
  /\ MaxArts \in Nat \ {0} /\ MaxFiles \in Nat \ {0} /\ NIL \notin 1 .. MaxFiles

Paths == {Path[l] : l \in Loaders}
Files == 1 .. MaxFiles

VARIABLES
  wasm,        \* the content of each plugin file
  pc,          \* where each load is
  key,         \* the hash it computed
  code,        \* the code it has
  out,         \* the file it writes
  victims,     \* the artifacts it is about to evict
  cache,       \* the artifact file under each hash
  tmp,         \* the temporary file under each hash and path
  held,        \* what each artifact file holds, in the order they were made
  made,        \* artifact files made
  crossed      \* history: files whose making was crossed by a deploy or by another load

load == <<pc, key, code, out, victims>>
cacheVars == <<wasm, load, cache, tmp, held, made, crossed>>

CacheTypeOK ==
  /\ wasm \in [Paths -> Contents]
  /\ pc \in [Loaders -> {"idle", "read", "map", "stale", "compile", "open", "write", "rename", "sweep", "evict"}]
  /\ key \in [Loaders -> Contents \cup {NIL}]
  /\ code \in [Loaders -> Contents \cup {NIL}]
  /\ out \in [Loaders -> Files \cup {NIL}]
  /\ victims \in [Loaders -> SUBSET Contents]
  /\ cache \in [Contents -> Files \cup {NIL}]
  /\ tmp \in [Contents \X Paths -> Files \cup {NIL}]
  /\ held \in [Files -> Contents \cup {OLD, NIL}]
  /\ made \in 0 .. MaxFiles
  /\ crossed \subseteq Files

(* An update of ezbar may have left an artifact that no longer validates. *)
CacheInit ==
  /\ wasm \in [Paths -> Contents]
  /\ pc = [l \in Loaders |-> "idle"]
  /\ key = [l \in Loaders |-> NIL] /\ code = [l \in Loaders |-> NIL]
  /\ out = [l \in Loaders |-> NIL] /\ victims = [l \in Loaders |-> {}]
  /\ \E old \in {{}} \cup {{v} : v \in Contents} :
       /\ cache = [v \in Contents |-> IF v \in old THEN 1 ELSE NIL]
       /\ held = [f \in Files |-> IF f = 1 /\ old # {} THEN OLD ELSE NIL]
       /\ made = Cardinality(old)
  /\ tmp = [k \in Contents \X Paths |-> NIL]
  /\ crossed = {}

-----------------------------------------------------------------------------
(* load_component *)

Goto(l, where) == pc' = [pc EXCEPT ![l] = where]

(* What a load knows goes with it. *)
Knows(l, k, c) == key' = [key EXCEPT ![l] = k] /\ code' = [code EXCEPT ![l] = c]
Forgets(l) == Knows(l, NIL, NIL)

(* A plugin is deployed over its file, whoever loads it. *)
Deploy(p) ==
  /\ \E v \in Contents \ {wasm[p]} : wasm' = [wasm EXCEPT ![p] = v]
  /\ UNCHANGED <<load, cache, tmp, held, made, crossed>>

(* The bytes are read and hashed.                                           *)
ReadBytes(l) ==
  /\ pc[l] = "idle" /\ Goto(l, "read")
  /\ Knows(l, wasm[Path[l]], NIL)
  /\ UNCHANGED <<wasm, out, victims, cache, tmp, held, made, crossed>>

(* Is there an artifact of that hash? *)
Probe(l) ==
  /\ pc[l] = "read" /\ Goto(l, IF cache[key[l]] = NIL THEN "compile" ELSE "map")
  /\ UNCHANGED <<wasm, key, code, out, victims, cache, tmp, held, made, crossed>>

(* The fast path: an artifact that validates is mapped; one that does not,  *)
(* or is gone by now, is stale.                                             *)
Artifact(l) == IF cache[key[l]] = NIL THEN NIL ELSE held[cache[key[l]]]

MapCached(l) ==
  /\ pc[l] = "map"
  /\ IF Artifact(l) \in Contents
       THEN Forgets(l) /\ Goto(l, "idle")
       ELSE UNCHANGED <<key, code>> /\ Goto(l, "stale")
  /\ UNCHANGED <<wasm, out, victims, cache, tmp, held, made, crossed>>

(* What is under the name of a stale artifact by now is removed. *)
RemoveStale(l) ==
  /\ pc[l] = "stale" /\ Goto(l, "compile")
  /\ cache' = [cache EXCEPT ![key[l]] = NIL]
  /\ UNCHANGED <<wasm, key, code, out, victims, tmp, held, made, crossed>>

(* Component::from_file reads the plugin file again. *)
Compile(l) ==
  /\ pc[l] = "compile" /\ Goto(l, "open")
  /\ Knows(l, key[l], wasm[Path[l]])
  /\ UNCHANGED <<wasm, out, victims, cache, tmp, held, made, crossed>>

(* fs::write opens the temporary file, empty; it creates it if it is not    *)
(* there.  It writes.  The I/O may fail.  Faulty variant: the artifact is   *)
(* written under its final name.                                            *)
Name(l) == <<key[l], Path[l]>>

(* The file that is opened will hold something else than it is filed under, *)
(* or another load is at the same file: what was read is not what was       *)
(* compiled, or the temporary name is in use.                               *)
Crossing(l) ==
  \/ code[l] # key[l]
  \/ \E m \in Loaders \ {l} : Name(m) = Name(l) /\ pc[m] \in {"write", "rename"}

Opened(l, f) ==
  /\ out' = [out EXCEPT ![l] = f] /\ UNCHANGED <<key, code>>
  /\ crossed' = IF Crossing(l) THEN crossed \cup {f} ELSE crossed
  /\ Goto(l, "write")

OpenTmp_InPlace(l) ==
  /\ pc[l] = "open" /\ made < MaxFiles
  /\ made' = made + 1
  /\ tmp' = [tmp EXCEPT ![Name(l)] = made + 1]
  /\ cache' = [cache EXCEPT ![key[l]] = made + 1]
  /\ Opened(l, made + 1)
  /\ UNCHANGED <<wasm, victims, held>>

OpenTmp(l) ==
  /\ pc[l] = "open"
  /\ \/ /\ tmp[Name(l)] = NIL /\ made < MaxFiles
        /\ made' = made + 1
        /\ tmp' = [tmp EXCEPT ![Name(l)] = made + 1]
        /\ Opened(l, made + 1) /\ UNCHANGED held
     \/ /\ tmp[Name(l)] # NIL
        /\ held' = [held EXCEPT ![tmp[Name(l)]] = NIL]
        /\ Opened(l, tmp[Name(l)]) /\ UNCHANGED <<tmp, made>>
     \/ Forgets(l) /\ Goto(l, "idle") /\ UNCHANGED <<tmp, out, held, made, crossed>>
  /\ UNCHANGED <<wasm, victims, cache>>

WriteTmp(l) ==
  /\ pc[l] = "write"
  /\ \/ held' = [held EXCEPT ![out[l]] = code[l]] /\ Knows(l, key[l], NIL) /\ Goto(l, "rename")
     \/ UNCHANGED held /\ Forgets(l) /\ Goto(l, "idle")
  /\ out' = [out EXCEPT ![l] = NIL]
  /\ UNCHANGED <<wasm, victims, cache, tmp, made, crossed>>

(* rename moves what is under the temporary name, if anything is. *)
Publish(l) ==
  /\ pc[l] = "rename" /\ Goto(l, "sweep")
  /\ IF tmp[Name(l)] = NIL THEN UNCHANGED <<cache, tmp>>
       ELSE /\ cache' = [cache EXCEPT ![key[l]] = tmp[Name(l)]]
            /\ tmp' = [tmp EXCEPT ![Name(l)] = NIL]
  /\ Forgets(l)
  /\ UNCHANGED <<wasm, out, victims, held, made, crossed>>

-----------------------------------------------------------------------------
(* sweep_cache *)

Cached == {v \in Contents : cache[v] # NIL}
Younger(v) == {u \in Cached : cache[u] > cache[v]}

(* The oldest artifacts beyond the cap; then they are removed by name.      *)
(* Faulty variant: one more stays.                                          *)
Surplus_OffByOne == {v \in Cached : Cardinality(Younger(v)) > MaxArts}
Surplus == {v \in Cached : Cardinality(Younger(v)) >= MaxArts}

List(l) ==
  /\ pc[l] = "sweep" /\ Goto(l, "evict")
  /\ victims' = [victims EXCEPT ![l] = Surplus]
  /\ UNCHANGED <<wasm, key, code, out, cache, tmp, held, made, crossed>>

Evict(l) ==
  /\ pc[l] = "evict" /\ Goto(l, "idle")
  /\ cache' = [v \in Contents |-> IF v \in victims[l] THEN NIL ELSE cache[v]]
  /\ victims' = [victims EXCEPT ![l] = {}]
  /\ UNCHANGED <<wasm, key, code, out, tmp, held, made, crossed>>

Step(l) ==
  \/ ReadBytes(l) \/ Probe(l) \/ MapCached(l) \/ RemoveStale(l) \/ Compile(l)
  \/ OpenTmp(l) \/ WriteTmp(l) \/ Publish(l) \/ List(l) \/ Evict(l)

CacheNext == (\E p \in Paths : Deploy(p)) \/ (\E l \in Loaders : Step(l))
CacheSpec == CacheInit /\ [][CacheNext]_cacheVars

-----------------------------------------------------------------------------
(* Properties *)

(* Readers see whole files (lib.rs 1921), and an artifact is the code of    *)
(* the wasm whose hash it is filed under (lib.rs 1897), if nothing crossed  *)
(* its making: the file is read again to be compiled (lib.rs 1912), and two *)
(* loads of one path share a temporary name (lib.rs 1915).                  *)
TrueArtifacts == \A v \in Cached : cache[v] \notin crossed => held[cache[v]] \in {v, OLD}

(* The cache holds at most the cap once the sweeps of what was published    *)
(* are over (lib.rs 1928-1932).                                             *)
Bounded ==
  Cardinality(Cached) <= MaxArts + Cardinality({l \in Loaders : pc[l] \in {"sweep", "evict"}})

(* An artifact whose making nothing crossed is whole, and the code of the   *)
(* wasm it is filed under; and there are no more artifacts than the cap.    *)
ArtifactsSound == TrueArtifacts /\ Bounded
=============================================================================
