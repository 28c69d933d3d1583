------------------------------ MODULE MCPlugins ------------------------------
(* What becomes of the plugin files, in one run: the commands of Registry   *)
(* and the artifacts of CompileCache, where two tasks load one file or each *)
(* a file of its own.  A behaviour is one of these parts, and the others    *)
(* rest.                                                                    *)
EXTENDS Registry, CompileCache

VARIABLE part

(* Two tasks with one file, and two whose files may have the same content. *)
OneFile == [l \in Loaders |-> "p"]
TwoFiles == [l \in Loaders |-> IF l = "l1" THEN "p" ELSE "q"]

Apart == INSTANCE CompileCache WITH Path <- TwoFiles, MaxFiles <- 3

Signed(v, p) == [version |-> v, wit |-> v < 3, publisher |-> p, good |-> TRUE]

(* A registry offers a version of one publisher; then a newer one of        *)
(* another, under one this host cannot load; then one that nobody signed;   *)
(* at last an artifact that is not what the index says.                     *)
MCIndex == {
  {Signed(1, "alice")},
  {Signed(1, "alice"), Signed(2, "bob"), Signed(3, "bob")},
  {Signed(2, NONE)},
  {[Signed(1, "bob") EXCEPT !.good = FALSE]} }

(* A part that rests does so in one state. *)
MCInit ==
  /\ part \in {"shared", "apart", "registry"}
  /\ Init
  /\ IF part = "apart" THEN Apart!CacheInit ELSE CacheInit
  /\ part = "registry" => wasm = [p \in Paths |-> "v1"] /\ made = 0
  /\ part # "registry" => file = [i \in Ids |-> 1]

MCNext ==
  /\ UNCHANGED part
  /\ \/ part = "shared" /\ CacheNext /\ UNCHANGED vars
     \/ part = "apart" /\ Apart!CacheNext /\ UNCHANGED vars
     \/ part = "registry" /\ Next /\ UNCHANGED cacheVars

MCSpec == MCInit /\ [][MCNext]_<<part, cacheVars, vars>>
=============================================================================
