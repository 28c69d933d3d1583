--------------------------- MODULE Plugins_proofs ---------------------------
(***************************************************************************)
(* What becomes of plugin files.  Registry: one publisher per installed    *)
(* plugin, and no version on record that was not written, for every index  *)
(* and however commands are interrupted.  CompileCache: artifacts that are *)
(* what they are filed as, and no more of them than the cap, for any tasks,*)
(* files and contents.                                                     *)
(***************************************************************************)
EXTENDS Registry, CompileCache, FiniteSetTheorems, WellFoundedInduction, TLAPS

-----------------------------------------------------------------------------
(* Registry *)

(* What the argument needs of the types; it asks nothing of the constants. *)
RegistryShape ==
  /\ pins \in [Ids -> Publishers \cup {NONE}]
  /\ DOMAIN installed = Ids /\ DOMAIN whole = Ids /\ DOMAIN from = Ids
  /\ cmd \in [at : {"idle", "fetch", "write", "note", "unpin", "forget"},
              id : Ids \cup {NONE}, entry : Entries \cup {NONE}]
  /\ cmd.at # "idle" => cmd.id \in Ids
  /\ cmd.at \in {"fetch", "write", "note"} => cmd.entry \in Entries

(* A signed plugin is from whom its id is pinned to, if that was written. *)
FromPinned == \A i \in Ids : from[i] # NONE /\ i \notin missed => pins[i] = from[i]

(* What a command is about to write is from whom the id is pinned to, or    *)
(* the id is not pinned and that was missed.                                *)
WritesPinned ==
  cmd.at \in {"fetch", "write"} /\ cmd.entry.publisher # NONE =>
    \/ pins[cmd.id] = cmd.entry.publisher
    \/ pins[cmd.id] = NONE /\ cmd.id \in missed

(* A pin goes after its plugin. *)
UnpinsGone == cmd.at = "unpin" => from[cmd.id] = NONE

(* What is about to be recorded was written. *)
NotesWhole == cmd.at = "note" => cmd.entry.version \in whole[cmd.id]

RegistryInv == RegistryShape /\ FromPinned /\ WritesPinned /\ UnpinsGone /\ NotesWhole /\ RecordBehind

LEMMA RegistryInit == Init => RegistryInv
BY DEF Init, RegistryInv, RegistryShape, FromPinned, WritesPinned, UnpinsGone, NotesWhole, RecordBehind, Idle

LEMMA ResolveKeeps ==
  ASSUME RegistryInv, NEW i \in Ids, NEW e \in Entries, Resolve(i, e)
  PROVE  RegistryInv'
<1> USE DEF RegistryInv
<1>1. /\ cmd' = [at |-> "fetch", id |-> i, entry |-> e]
      /\ UNCHANGED <<installed, whole, from>>
      /\ e.publisher # NONE => pins[i] \in {NONE, e.publisher}
  BY DEF Resolve, Refused
<1>2. CASE UNCHANGED <<pins, missed>> /\ (e.publisher = NONE \/ pins[i] # NONE)
  BY <1>1, <1>2 DEF RegistryShape, FromPinned, WritesPinned, UnpinsGone, NotesWhole, RecordBehind
<1>3. CASE e.publisher # NONE /\ pins[i] = NONE /\ pins' = [pins EXCEPT ![i] = e.publisher] /\ UNCHANGED missed
  <2>1. e.publisher \in Publishers
    BY <1>3 DEF Publishers
  <2>2. RegistryShape'
    BY <1>1, <1>3, <2>1 DEF RegistryShape
  <2>3. FromPinned'
    BY <1>1, <1>3 DEF RegistryShape, FromPinned
  <2>4. WritesPinned'
    BY <1>1, <1>3 DEF RegistryShape, WritesPinned
  <2> QED
    BY <1>1, <2>2, <2>3, <2>4 DEF UnpinsGone, NotesWhole, RecordBehind
<1>4. CASE e.publisher # NONE /\ pins[i] = NONE /\ missed' = missed \cup {i} /\ UNCHANGED pins
  BY <1>1, <1>4 DEF RegistryShape, FromPinned, WritesPinned, UnpinsGone, NotesWhole, RecordBehind
<1> QED
  BY <1>2, <1>3, <1>4 DEF Resolve, Pin

LEMMA AddKeeps ==
  ASSUME RegistryInv, NEW i \in Ids, Add(i)
  PROVE  RegistryInv'
<1>1. PICK index \in Index : \E e \in Picked(index) : Resolve(i, e)
  BY DEF Add
<1>2. PICK e \in Picked(index) : Resolve(i, e)
  BY <1>1
<1>3. e \in Entries
  BY DEF Picked, InWindow, Entries
<1> QED
  BY <1>2, <1>3, ResolveKeeps

LEMMA FetchKeeps == RegistryInv /\ Fetch => RegistryInv'
BY DEF RegistryInv, Fetch, RegistryShape, FromPinned, WritesPinned, UnpinsGone, NotesWhole, RecordBehind

LEMMA WriteKeeps ==
  ASSUME RegistryInv, Write
  PROVE  RegistryInv'
<1> USE DEF RegistryInv
<1>1. /\ cmd.at = "write" /\ cmd' = [cmd EXCEPT !.at = "note"]
      /\ whole' = [whole EXCEPT ![cmd.id] = @ \cup {cmd.entry.version}]
      /\ from' = IF cmd.entry.publisher = NONE THEN from ELSE [from EXCEPT ![cmd.id] = cmd.entry.publisher]
      /\ UNCHANGED <<pins, installed, missed>>
  BY DEF Write
<1>2. RegistryShape'
  BY <1>1 DEF RegistryShape
<1>3. FromPinned'
  BY <1>1 DEF RegistryShape, FromPinned, WritesPinned
<1>4. NotesWhole'
  BY <1>1 DEF RegistryShape, NotesWhole
<1>5. RecordBehind'
  BY <1>1 DEF RegistryShape, RecordBehind
<1> QED
  BY <1>1, <1>2, <1>3, <1>4, <1>5 DEF RegistryShape, WritesPinned, UnpinsGone

LEMMA NoteKeeps ==
  ASSUME RegistryInv, Note
  PROVE  RegistryInv'
<1> USE DEF RegistryInv
<1>1. /\ cmd.at = "note" /\ cmd' = Idle
      /\ installed' = installed \/ installed' = [installed EXCEPT ![cmd.id] = cmd.entry.version]
      /\ UNCHANGED <<pins, missed, whole, from>>
  BY DEF Note
<1>2. RecordBehind'
  BY <1>1 DEF RegistryShape, NotesWhole, RecordBehind
<1> QED
  BY <1>1, <1>2 DEF RegistryShape, FromPinned, WritesPinned, UnpinsGone, NotesWhole, Idle

LEMMA RemoveKeeps ==
  ASSUME RegistryInv, NEW i \in Ids, Remove(i)
  PROVE  RegistryInv'
BY DEF RegistryInv, Remove, Idle, RegistryShape, FromPinned, WritesPinned, UnpinsGone, NotesWhole, RecordBehind

LEMMA UnpinKeeps == RegistryInv /\ Unpin => RegistryInv'
BY DEF RegistryInv, Unpin, RegistryShape, FromPinned, WritesPinned, UnpinsGone, NotesWhole, RecordBehind

LEMMA ForgetKeeps == RegistryInv /\ Forget => RegistryInv'
BY DEF RegistryInv, Forget, Idle, RegistryShape, FromPinned, WritesPinned, UnpinsGone, NotesWhole, RecordBehind

LEMMA StopKeeps == RegistryInv /\ Stop => RegistryInv'
BY DEF RegistryInv, Stop, Idle, RegistryShape, FromPinned, WritesPinned, UnpinsGone, NotesWhole, RecordBehind

LEMMA RegistryNext == RegistryInv /\ [Next]_vars => RegistryInv'
<1> SUFFICES ASSUME RegistryInv, [Next]_vars PROVE RegistryInv'
  OBVIOUS
<1>1. CASE UNCHANGED vars
  BY <1>1 DEF vars, RegistryInv, RegistryShape, FromPinned, WritesPinned, UnpinsGone, NotesWhole, RecordBehind
<1>2. ASSUME NEW i \in Ids, Add(i) \/ Update(i) \/ Remove(i) PROVE RegistryInv'
  BY <1>2, AddKeeps, RemoveKeeps DEF Update
<1>3. CASE Fetch \/ Write \/ Note
  BY <1>3, FetchKeeps, WriteKeeps, NoteKeeps
<1>4. CASE Unpin \/ Forget \/ Stop
  BY <1>4, UnpinKeeps, ForgetKeeps, StopKeeps
<1> QED
  BY <1>1, <1>2, <1>3, <1>4 DEF Next

(* The version on record was installed as a whole: an upgrade that was      *)
(* interrupted is taken up again by update (registry.rs 206-210).           *)
THEOREM RegistryRecordBehind == Spec => []RecordBehind
<1>1. RegistryInv => RecordBehind
  BY DEF RegistryInv
<1> QED
  BY <1>1, RegistryInit, RegistryNext, PTL DEF Spec

(* Only a write says who signed a plugin, and it says whom the id is pinned *)
(* to: between two removals the publisher stays (registry.rs 118-121),      *)
(* unless a pin could not be written (122), and nothing is installed that   *)
(* is not from whom a pin that is there names.                              *)
THEOREM RegistryOnePublisher == Spec => OnePublisher
<1> DEFINE Same == \A i \in Ids :
       /\ from[i] # NONE /\ i \notin missed => from'[i] \in {from[i], NONE}
       /\ pins[i] # NONE => from'[i] \in {from[i], pins[i], NONE}
<1>1. RegistryInv /\ Next => Same
  <2> SUFFICES ASSUME RegistryInv, Next PROVE Same
    OBVIOUS
  <2>1. ASSUME NEW i \in Ids, Add(i) \/ Update(i) PROVE Same
    BY <2>1 DEF Update, Add, Resolve
  <2>2. ASSUME NEW i \in Ids, Remove(i) PROVE Same
    BY <2>2 DEF Remove, RegistryInv, RegistryShape
  <2>3. CASE Write
    BY <2>3 DEF Write, RegistryInv, RegistryShape, FromPinned, WritesPinned
  <2>4. CASE Fetch \/ Note \/ Unpin \/ Forget \/ Stop
    BY <2>4 DEF Fetch, Note, Unpin, Forget, Stop
  <2> QED
    BY <2>1, <2>2, <2>3, <2>4 DEF Next
<1>2. RegistryInv /\ [Next]_vars => [Same]_vars
  BY <1>1
<1>3. Spec => []RegistryInv
  BY RegistryInit, RegistryNext, PTL DEF Spec
<1> QED
  BY <1>2, <1>3, PTL DEF Spec, OnePublisher

-----------------------------------------------------------------------------
(* CompileCache *)

Pcs == {"idle", "read", "map", "stale", "compile", "open", "write", "rename", "sweep", "evict"}

(* What the argument needs of the types.                                    *)
CacheShape ==
  /\ wasm \in [Paths -> Contents]
  /\ pc \in [Loaders -> Pcs]
  /\ DOMAIN key = Loaders /\ \A l \in Loaders : pc[l] \notin {"idle", "sweep", "evict"} => key[l] \in Contents
  /\ DOMAIN victims = Loaders
  /\ cache \in [Contents -> Files \cup {NIL}]
  /\ tmp \in [Contents \X Paths -> Files \cup {NIL}]
  /\ made \in 0 .. MaxFiles

(* A file has one name. *)
OneName ==
  /\ \A u, v \in Contents : cache[u] = cache[v] /\ cache[u] # NIL => u = v
  /\ \A m, n \in Contents \X Paths : tmp[m] = tmp[n] /\ tmp[m] # NIL => m = n
  /\ \A v \in Contents, n \in Contents \X Paths : cache[v] # NIL => cache[v] # tmp[n]
  /\ \A v \in Contents : cache[v] # NIL => cache[v] <= made
  /\ \A n \in Contents \X Paths : tmp[n] # NIL => tmp[n] <= made

Sweeping == {l \in Loaders : pc[l] \in {"sweep", "evict"}}
Evicting == {l \in Loaders : pc[l] = "evict"}
Doomed(S) == UNION {victims[l] : l \in S}

(* Whichever of the sweeps that have listed their victims are over first,   *)
(* the cache is then within the cap but for the sweeps that are left.       *)
Within ==
  /\ IsFiniteSet(Cached)
  /\ \A S \in SUBSET Evicting : Cardinality(Cached \ Doomed(S)) <= MaxArts + Cardinality(Sweeping \ S)

CacheInv == CacheShape /\ OneName /\ Within

-----------------------------------------------------------------------------
LEMMA NoMore ==
  ASSUME NEW A, NEW B, IsFiniteSet(B), A \subseteq B
  PROVE  IsFiniteSet(A) /\ Cardinality(A) \in Nat /\ Cardinality(B) \in Nat /\ Cardinality(A) <= Cardinality(B)
BY FS_Subset, FS_CardinalityType

LEMMA SweepingFinite ==
  IsFiniteSet(Sweeping) /\ \A S : IsFiniteSet(Sweeping \ S) /\ Cardinality(Sweeping \ S) \in Nat
<1>1. Sweeping \subseteq Loaders
  BY DEF Sweeping
<1>2. \A S : Sweeping \ S \subseteq Loaders
  BY DEF Sweeping
<1> QED
  BY <1>1, <1>2, NoMore, CacheAssumption

(* A set of naturals has a least element. *)
LEMMA Least ==
  ASSUME NEW N \in SUBSET Nat, N # {}
  PROVE  \E n \in N : \A m \in N : n <= m
<1> DEFINE Segments == {0 .. n : n \in N}
<1>1. Segments # {} /\ Segments \subseteq FiniteSubsetsOf(Nat)
  <2>1. \A n \in N : IsFiniteSet(0 .. n) /\ 0 .. n \in SUBSET Nat
    BY FS_Interval
  <2> QED
    BY <2>1 DEF FiniteSubsetsOf
<1>2. PICK s \in Segments : \A r \in Segments : <<r, s>> \notin StrictSubsetOrdering(Nat)
  BY <1>1, FS_StrictSubsetOrderingWellFounded, WFMin
<1>3. PICK n \in N : s = 0 .. n
  OBVIOUS
<1>4. ASSUME NEW m \in N, m < n PROVE FALSE
  <2>1. 0 .. m \in Segments /\ 0 .. m \subseteq 0 .. n /\ 0 .. m # 0 .. n
    BY <1>4
  <2>2. <<0 .. m, s>> \in StrictSubsetOrdering(Nat)
    BY <1>3, <2>1 DEF StrictSubsetOrdering
  <2> QED
    BY <1>2, <2>1, <2>2
<1> QED
  BY <1>4

(* The youngest artifacts that a sweep leaves are at most the cap: all but  *)
(* the oldest of them are younger than that one.                            *)
LEMMA KeptWithin ==
  ASSUME CacheInv
  PROVE  Cardinality(Cached \ Surplus) <= MaxArts
<1> DEFINE Kept == Cached \ Surplus
<1>1. IsFiniteSet(Cached) /\ IsFiniteSet(Kept) /\ Cardinality(Kept) \in Nat
  BY NoMore DEF CacheInv, Within
<1>2. CASE Kept = {}
  BY <1>2, FS_EmptySet, CacheAssumption
<1>3. CASE Kept # {}
  <2> DEFINE N == {cache[v] : v \in Kept}
  <2>1. \A v \in Cached : v \in Contents /\ cache[v] \in Nat
    BY CacheAssumption DEF Cached, CacheInv, CacheShape, Files
  <2>2. N \in SUBSET Nat /\ N # {}
    BY <1>3, <2>1
  <2>3. PICK n \in N : \A m \in N : n <= m
    BY <2>2, Least
  <2>4. PICK v \in Kept : n = cache[v]
    BY <2>3
  <2>5. \A u \in Kept \ {v} : cache[u] > cache[v]
    <3> SUFFICES ASSUME NEW u \in Kept \ {v} PROVE cache[u] > cache[v]
      OBVIOUS
    <3>1. u \in Cached /\ v \in Cached
      OBVIOUS
    <3>2. cache[u] # cache[v]
      BY <3>1 DEF CacheInv, OneName, Cached
    <3>3. cache[v] <= cache[u]
      BY <2>3, <2>4
    <3> QED
      BY <2>1, <3>1, <3>2, <3>3
  <2>6. Kept \ {v} \subseteq Younger(v) /\ IsFiniteSet(Younger(v))
    BY <1>1, <2>5, FS_Subset DEF Younger
  <2>7. Cardinality(Kept \ {v}) = Cardinality(Kept) - 1
    BY <1>1, FS_RemoveElement
  <2>8. Cardinality(Kept \ {v}) <= Cardinality(Younger(v)) /\ Cardinality(Younger(v)) \in Nat
    BY <2>6, NoMore
  <2>9. ~(Cardinality(Younger(v)) >= MaxArts)
    BY DEF Surplus
  <2> QED
    BY <1>1, <2>7, <2>8, <2>9, CacheAssumption
<1> QED
  BY <1>2, <1>3

-----------------------------------------------------------------------------
(* A step that publishes nothing and is not one of a sweep leaves the cache *)
(* as far within its cap as it was.                                         *)
LEMMA WithinRests ==
  ASSUME CacheInv, Cached' \subseteq Cached, Sweeping' = Sweeping, Evicting' = Evicting, UNCHANGED victims
  PROVE  Within'
<1>1. IsFiniteSet(Cached) /\ IsFiniteSet(Cached')
  BY NoMore DEF CacheInv, Within
<1>2. ASSUME NEW S \in SUBSET Evicting'
      PROVE  Cardinality(Cached' \ Doomed(S)') <= MaxArts + Cardinality(Sweeping' \ S)
  <2>1. Doomed(S)' = Doomed(S)
    BY DEF Doomed
  <2>2. Cached' \ Doomed(S)' \subseteq Cached \ Doomed(S) /\ Cached \ Doomed(S) \subseteq Cached
    BY <2>1
  <2>3. IsFiniteSet(Cached \ Doomed(S))
    BY <1>1, <2>2, NoMore
  <2>4. /\ Cardinality(Cached' \ Doomed(S)') <= Cardinality(Cached \ Doomed(S))
        /\ Cardinality(Cached' \ Doomed(S)') \in Nat /\ Cardinality(Cached \ Doomed(S)) \in Nat
    BY <2>2, <2>3, NoMore
  <2>5. Cardinality(Cached \ Doomed(S)) <= MaxArts + Cardinality(Sweeping \ S)
    BY <1>2 DEF CacheInv, Within
  <2>6. Cardinality(Sweeping \ S) \in Nat
    BY SweepingFinite
  <2> QED
    BY <2>4, <2>5, <2>6, CacheAssumption
<1> QED
  BY <1>1, <1>2 DEF Within

(* Steps before the publication. *)
LEMMA LoadsOn ==
  ASSUME CacheInv, NEW l \in Loaders, NEW where \in Pcs \ {"sweep", "evict"}, Goto(l, where),
         pc[l] \notin {"sweep", "evict"}
  PROVE  Sweeping' = Sweeping /\ Evicting' = Evicting
BY DEF CacheInv, CacheShape, Goto, Sweeping, Evicting

LEMMA QuietKeeps ==
  ASSUME CacheInv, NEW l \in Loaders, ReadBytes(l) \/ Probe(l) \/ MapCached(l) \/ Compile(l) \/ WriteTmp(l)
  PROVE  CacheInv'
<1>1. PICK where \in Pcs \ {"sweep", "evict"} : Goto(l, where)
  BY DEF ReadBytes, Probe, MapCached, Compile, WriteTmp, Pcs
<1>2. pc[l] \notin {"sweep", "evict"} /\ UNCHANGED <<wasm, victims, cache, tmp, made>>
  BY DEF ReadBytes, Probe, MapCached, Compile, WriteTmp
<1>3. \/ key' = key /\ pc[l] # "idle"
      \/ key' = [key EXCEPT ![l] = wasm[Path[l]]]
      \/ key' = [key EXCEPT ![l] = key[l]] /\ pc[l] # "idle"
      \/ key' = [key EXCEPT ![l] = NIL] /\ Goto(l, "idle")
  BY DEF ReadBytes, Probe, MapCached, Compile, WriteTmp, Knows, Forgets
<1>4. CacheShape'
  BY <1>1, <1>2, <1>3 DEF CacheInv, CacheShape, Goto, Paths
<1>5. OneName'
  BY <1>2 DEF CacheInv, OneName
<1>6. Within'
  BY <1>1, <1>2, LoadsOn, WithinRests DEF Cached
<1> QED
  BY <1>4, <1>5, <1>6 DEF CacheInv

LEMMA RemoveStaleKeeps ==
  ASSUME CacheInv, NEW l \in Loaders, RemoveStale(l)
  PROVE  CacheInv'
<1>1. /\ pc[l] = "stale" /\ Goto(l, "compile") /\ cache' = [cache EXCEPT ![key[l]] = NIL]
      /\ UNCHANGED <<wasm, key, victims, tmp, made>>
  BY DEF RemoveStale
<1>2. CacheShape'
  BY <1>1 DEF CacheInv, CacheShape, Goto, Pcs
<1>3. \A v \in Contents : cache'[v] \in {cache[v], NIL}
  BY <1>1 DEF CacheInv, CacheShape
<1>4. OneName'
  BY <1>1, <1>3 DEF CacheInv, OneName
<1>5. Cached' \subseteq Cached
  BY <1>3 DEF Cached
<1>6. Within'
  BY <1>1, <1>5, LoadsOn, WithinRests DEF Pcs
<1> QED
  BY <1>2, <1>4, <1>6 DEF CacheInv

LEMMA OpenTmpKeeps ==
  ASSUME CacheInv, NEW l \in Loaders, OpenTmp(l)
  PROVE  CacheInv'
<1>1. pc[l] = "open" /\ key[l] \in Contents /\ Path[l] \in Paths /\ Name(l) \in Contents \X Paths
  BY DEF OpenTmp, CacheInv, CacheShape, Paths, Name
<1>2. UNCHANGED <<wasm, victims, cache>>
  BY DEF OpenTmp
<1> PICK where \in {"write", "idle"} :
      Goto(l, where) /\ (key' = key \/ (where = "idle" /\ key' = [key EXCEPT ![l] = NIL]))
  BY DEF OpenTmp, Opened, Forgets, Knows
<1>3. CASE made < MaxFiles /\ made' = made + 1 /\ tmp' = [tmp EXCEPT ![Name(l)] = made + 1]
  <2>1. CacheShape'
    BY <1>1, <1>2, <1>3, CacheAssumption DEF CacheInv, CacheShape, Goto, Pcs, Files
  <2>2. OneName'
    BY <1>1, <1>2, <1>3, CacheAssumption DEF CacheInv, CacheShape, OneName, Files
  <2> QED
    BY <1>1, <1>2, <2>1, <2>2, LoadsOn, WithinRests DEF Pcs, CacheInv, Cached
<1>4. CASE UNCHANGED <<tmp, made>>
  <2>1. CacheShape' /\ OneName'
    BY <1>1, <1>2, <1>4 DEF CacheInv, CacheShape, OneName, Goto, Pcs
  <2> QED
    BY <1>1, <1>2, <2>1, LoadsOn, WithinRests DEF Pcs, CacheInv, Cached
<1> QED
  BY <1>3, <1>4 DEF OpenTmp

(* What is published is an artifact more, and a sweep more. *)
LEMMA PublishKeeps ==
  ASSUME CacheInv, NEW l \in Loaders, Publish(l)
  PROVE  CacheInv'
<1>1. pc[l] = "rename" /\ key[l] \in Contents /\ Path[l] \in Paths /\ Name(l) \in Contents \X Paths
  BY DEF Publish, CacheInv, CacheShape, Paths, Name
<1>2. Goto(l, "sweep") /\ key' = [key EXCEPT ![l] = NIL] /\ UNCHANGED <<wasm, victims, made>>
  BY DEF Publish, Forgets, Knows
<1>3. \/ UNCHANGED <<cache, tmp>>
      \/ /\ tmp[Name(l)] # NIL
         /\ cache' = [cache EXCEPT ![key[l]] = tmp[Name(l)]]
         /\ tmp' = [tmp EXCEPT ![Name(l)] = NIL]
  BY DEF Publish
<1>4. CacheShape'
  BY <1>1, <1>2, <1>3 DEF CacheInv, CacheShape, Goto, Pcs
<1>5. OneName'
  BY <1>1, <1>2, <1>3 DEF CacheInv, CacheShape, OneName
<1>6. Cached' \subseteq Cached \cup {key[l]}
  BY <1>1, <1>3 DEF Cached, CacheInv, CacheShape
<1>7. Sweeping' = Sweeping \cup {l} /\ l \notin Sweeping /\ Evicting' = Evicting /\ l \notin Evicting
  BY <1>1, <1>2 DEF Goto, Sweeping, Evicting, CacheInv, CacheShape
<1>8. IsFiniteSet(Cached) /\ IsFiniteSet(Cached')
  <2>1. IsFiniteSet(Cached \cup {key[l]})
    BY FS_AddElement DEF CacheInv, Within
  <2> QED
    BY <1>6, <2>1, NoMore DEF CacheInv, Within
<1>9. ASSUME NEW S \in SUBSET Evicting'
      PROVE  Cardinality(Cached' \ Doomed(S)') <= MaxArts + Cardinality(Sweeping' \ S)
  <2> DEFINE A == Cached \ Doomed(S)
             B == Sweeping \ S
  <2>1. Cached' \ Doomed(S)' \subseteq A \cup {key[l]}
    BY <1>2, <1>6 DEF Doomed
  <2>2. Sweeping' \ S = B \cup {l} /\ l \notin B
    BY <1>7, <1>9
  <2>3. IsFiniteSet(A) /\ IsFiniteSet(B) /\ Cardinality(A) \in Nat /\ Cardinality(B) \in Nat
    BY <1>8, NoMore, SweepingFinite
  <2>4. Cardinality(A) <= MaxArts + Cardinality(B)
    BY <1>7, <1>9 DEF CacheInv, Within
  <2>5. Cardinality(Sweeping' \ S) = Cardinality(B) + 1
    BY <2>2, <2>3, FS_AddElement
  <2>6. IsFiniteSet(A \cup {key[l]}) /\ Cardinality(A \cup {key[l]}) <= Cardinality(A) + 1
    BY <2>3, FS_AddElement
  <2>7. Cardinality(Cached' \ Doomed(S)') <= Cardinality(A \cup {key[l]})
        /\ Cardinality(Cached' \ Doomed(S)') \in Nat /\ Cardinality(A \cup {key[l]}) \in Nat
    BY <2>1, <2>6, NoMore
  <2> HIDE DEF A, B
  <2> QED
    BY <2>3, <2>4, <2>5, <2>6, <2>7, CacheAssumption
<1> QED
  BY <1>4, <1>5, <1>8, <1>9 DEF CacheInv, Within

(* What a sweep lists leaves no more than the cap. *)
LEMMA ListKeeps ==
  ASSUME CacheInv, NEW l \in Loaders, List(l)
  PROVE  CacheInv'
<1>1. /\ pc[l] = "sweep" /\ Goto(l, "evict") /\ victims' = [victims EXCEPT ![l] = Surplus]
      /\ UNCHANGED <<wasm, key, cache, tmp, made>>
  BY DEF List
<1>2. CacheShape' /\ OneName'
  BY <1>1 DEF CacheInv, CacheShape, OneName, Goto, Pcs
<1>3. Sweeping' = Sweeping /\ Evicting' = Evicting \cup {l} /\ Cached' = Cached
  BY <1>1 DEF Goto, Sweeping, Evicting, Cached, CacheInv, CacheShape
<1>4. IsFiniteSet(Cached)
  BY DEF CacheInv, Within
<1>5. ASSUME NEW S \in SUBSET Evicting'
      PROVE  Cardinality(Cached' \ Doomed(S)') <= MaxArts + Cardinality(Sweeping' \ S)
  <2>1. CASE l \in S
    <3>1. Surplus \subseteq Doomed(S)'
      BY <1>1, <2>1 DEF Doomed, CacheInv, CacheShape
    <3>2. Cached' \ Doomed(S)' \subseteq Cached \ Surplus
      BY <1>3, <3>1
    <3>3. IsFiniteSet(Cached \ Surplus)
      BY <1>4, NoMore
    <3>4. /\ Cardinality(Cached' \ Doomed(S)') <= Cardinality(Cached \ Surplus)
          /\ Cardinality(Cached' \ Doomed(S)') \in Nat /\ Cardinality(Cached \ Surplus) \in Nat
      BY <3>2, <3>3, NoMore
    <3>5. Cardinality(Sweeping' \ S) \in Nat
      BY <1>3, SweepingFinite
    <3> QED
      BY <3>4, <3>5, KeptWithin, CacheAssumption
  <2>2. CASE l \notin S
    <3>1. Doomed(S)' = Doomed(S)
      BY <1>1, <1>3, <1>5, <2>2 DEF Doomed, CacheInv, CacheShape, Evicting
    <3> QED
      BY <1>3, <1>5, <2>2, <3>1 DEF CacheInv, Within
  <2> QED
    BY <2>1, <2>2
<1> QED
  BY <1>2, <1>3, <1>4, <1>5 DEF CacheInv, Within

(* A sweep that is over was one of those that might be over first. *)
LEMMA EvictKeeps ==
  ASSUME CacheInv, NEW l \in Loaders, Evict(l)
  PROVE  CacheInv'
<1>1. /\ pc[l] = "evict" /\ Goto(l, "idle") /\ victims' = [victims EXCEPT ![l] = {}]
      /\ cache' = [v \in Contents |-> IF v \in victims[l] THEN NIL ELSE cache[v]]
      /\ UNCHANGED <<wasm, key, tmp, made>>
  BY DEF Evict
<1>2. CacheShape'
  BY <1>1 DEF CacheInv, CacheShape, Goto, Pcs
<1>3. OneName'
  BY <1>1 DEF CacheInv, OneName
<1>4. Sweeping' = Sweeping \ {l} /\ Evicting' = Evicting \ {l} /\ l \in Evicting
  BY <1>1 DEF Goto, Sweeping, Evicting, CacheInv, CacheShape
<1>5. Cached' = Cached \ victims[l]
  BY <1>1 DEF Cached
<1>6. IsFiniteSet(Cached')
  BY <1>5, NoMore DEF CacheInv, Within
<1>7. ASSUME NEW S \in SUBSET Evicting'
      PROVE  Cardinality(Cached' \ Doomed(S)') <= MaxArts + Cardinality(Sweeping' \ S)
  <2>1. Doomed(S)' = Doomed(S)
    BY <1>1, <1>4, <1>7 DEF Doomed, Evicting, CacheInv, CacheShape
  <2>2. Doomed(S \cup {l}) = Doomed(S) \cup victims[l]
    BY DEF Doomed
  <2>3. Cached' \ Doomed(S)' = Cached \ Doomed(S \cup {l}) /\ Sweeping' \ S = Sweeping \ (S \cup {l})
    BY <1>4, <1>5, <2>1, <2>2
  <2>4. S \cup {l} \in SUBSET Evicting
    BY <1>4, <1>7
  <2> QED
    BY <2>3, <2>4 DEF CacheInv, Within
<1> QED
  BY <1>2, <1>3, <1>6, <1>7 DEF CacheInv, Within

-----------------------------------------------------------------------------
LEMMA CacheInitInv == CacheInit => CacheInv
<1> SUFFICES ASSUME CacheInit PROVE CacheInv
  OBVIOUS
<1>1. PICK old \in {{}} \cup {{v} : v \in Contents} :
        cache = [v \in Contents |-> IF v \in old THEN 1 ELSE NIL] /\ made = Cardinality(old)
  BY DEF CacheInit
<1>2. Cached \subseteq old
  BY <1>1 DEF Cached
<1>3. IsFiniteSet(old) /\ Cardinality(old) \in 0 .. 1 /\ (old = {} \/ Cardinality(old) = 1)
  <2>1. CASE old = {}
    BY <2>1, FS_EmptySet
  <2>2. ASSUME NEW v \in Contents, old = {v} PROVE IsFiniteSet(old) /\ Cardinality(old) = 1
    BY <2>2, FS_Singleton
  <2> QED
    BY <2>1, <2>2
<1>4. CacheShape
  BY <1>1, <1>3, CacheAssumption DEF CacheInit, CacheShape, Pcs, Files
<1>5. OneName
  BY <1>1, <1>3, CacheAssumption DEF CacheInit, OneName, Files
<1>6. Within
  <2>1. IsFiniteSet(Cached)
    BY <1>2, <1>3, NoMore
  <2>2. ASSUME NEW S \in SUBSET Evicting
        PROVE  Cardinality(Cached \ Doomed(S)) <= MaxArts + Cardinality(Sweeping \ S)
    <3>1. /\ Cardinality(Cached \ Doomed(S)) <= Cardinality(old) /\ Cardinality(Cached \ Doomed(S)) \in Nat
      BY <1>2, <1>3, NoMore
    <3>2. Cardinality(Sweeping \ S) \in Nat
      BY SweepingFinite
    <3> QED
      BY <1>3, <3>1, <3>2, CacheAssumption
  <2> QED
    BY <2>1, <2>2 DEF Within
<1> QED
  BY <1>4, <1>5, <1>6 DEF CacheInv

LEMMA CacheNextInv == CacheInv /\ [CacheNext]_cacheVars => CacheInv'
<1> SUFFICES ASSUME CacheInv, [CacheNext]_cacheVars PROVE CacheInv'
  OBVIOUS
<1>1. ASSUME UNCHANGED <<pc, key, victims, cache, tmp, made>>, wasm' \in [Paths -> Contents] PROVE CacheInv'
  <2>1. CacheShape' /\ OneName'
    BY <1>1 DEF CacheInv, CacheShape, OneName
  <2>2. Within'
    BY <1>1, WithinRests DEF Cached, Sweeping, Evicting
  <2> QED
    BY <2>1, <2>2 DEF CacheInv
<1>2. CASE UNCHANGED cacheVars
  BY <1>1, <1>2 DEF cacheVars, load, CacheInv, CacheShape
<1>3. ASSUME NEW p \in Paths, Deploy(p) PROVE CacheInv'
  BY <1>1, <1>3 DEF Deploy, load, CacheInv, CacheShape
<1>4. ASSUME NEW l \in Loaders, Step(l) PROVE CacheInv'
  BY <1>4, QuietKeeps, RemoveStaleKeeps, OpenTmpKeeps, PublishKeeps, ListKeeps, EvictKeeps DEF Step
<1> QED
  BY <1>2, <1>3, <1>4 DEF CacheNext

LEMMA WithinBounds == CacheInv => Bounded
<1> SUFFICES ASSUME CacheInv PROVE Bounded
  OBVIOUS
<1>1. Cached \ Doomed({}) = Cached /\ Sweeping \ {} = Sweeping /\ {} \in SUBSET Evicting
  BY DEF Doomed
<1>2. Cardinality(Cached \ Doomed({})) <= MaxArts + Cardinality(Sweeping \ {})
  BY <1>1 DEF CacheInv, Within
<1> QED
  BY <1>1, <1>2 DEF Bounded, Sweeping

-----------------------------------------------------------------------------
(* A load whose file nothing crosses has compiled what it hashed, and has   *)
(* its temporary file for itself until it renames it: whoever joins it      *)
(* there crosses it.                                                        *)
Writing == {"write", "rename"}

OneVersion(l) ==
  /\ pc[l] = "write" /\ out[l] \notin crossed =>
       code[l] = key[l] /\ tmp[Name(l)] # NIL /\ out[l] = tmp[Name(l)]
  /\ pc[l] = "write" /\ tmp[Name(l)] # NIL /\ tmp[Name(l)] \notin crossed => out[l] = tmp[Name(l)]
  /\ pc[l] = "rename" /\ tmp[Name(l)] # NIL /\ tmp[Name(l)] \notin crossed =>
       held[tmp[Name(l)]] = key[l]

Joined(l, m) ==
  pc[l] \in Writing /\ pc[m] \in Writing /\ Name(l) = Name(m) =>
    /\ tmp[Name(l)] # NIL => tmp[Name(l)] \in crossed
    /\ pc[l] = "write" => out[l] \in crossed

TrueInv ==
  /\ CacheInv
  /\ DOMAIN held = Files /\ DOMAIN code = Loaders /\ DOMAIN out = Loaders
  /\ \A l \in Loaders : OneVersion(l)
  /\ \A l \in Loaders, m \in Loaders : l # m => Joined(l, m)
  /\ TrueArtifacts

LEMMA TrueInit == CacheInit => TrueInv
<1> SUFFICES ASSUME CacheInit PROVE TrueInv
  OBVIOUS
<1>1. PICK old \in {{}} \cup {{v} : v \in Contents} :
        /\ cache = [v \in Contents |-> IF v \in old THEN 1 ELSE NIL]
        /\ held = [f \in Files |-> IF f = 1 /\ old # {} THEN OLD ELSE NIL]
  BY DEF CacheInit
<1>2. TrueArtifacts
  BY <1>1, CacheAssumption DEF TrueArtifacts, Cached, Files
<1>3. \A l \in Loaders : OneVersion(l)
  BY DEF CacheInit, OneVersion
<1>4. \A l \in Loaders, m \in Loaders : Joined(l, m)
  BY DEF CacheInit, Joined, Writing
<1> QED
  BY <1>1, <1>2, <1>3, <1>4, CacheInitInv DEF TrueInv, CacheInit

(* A step that leaves the files that are written and those who write alone, *)
(* adds no artifact, and at most ends such a load.                          *)
LEMMA FilesRest ==
  ASSUME TrueInv, CacheInv', UNCHANGED <<tmp, held, out, crossed>>,
         \A v \in Contents : cache'[v] \in {cache[v], NIL},
         DOMAIN code' = Loaders,
         \A m \in Loaders : pc'[m] \in Writing => pc'[m] = pc[m] /\ key'[m] = key[m] /\ code'[m] = code[m]
  PROVE  TrueInv'
<1>1. TrueArtifacts'
  BY DEF TrueArtifacts, Cached, TrueInv
<1>2. \A m \in Loaders : OneVersion(m)'
  BY DEF OneVersion, Name, TrueInv, Writing
<1>3. \A l \in Loaders, m \in Loaders : l # m => Joined(l, m)'
  BY DEF Joined, Name, TrueInv, Writing
<1> QED
  BY <1>1, <1>2, <1>3 DEF TrueInv

LEMMA QuietTrue ==
  ASSUME TrueInv, CacheInv', NEW l \in Loaders,
         ReadBytes(l) \/ Probe(l) \/ MapCached(l) \/ RemoveStale(l) \/ Compile(l) \/ List(l) \/ Evict(l)
  PROVE  TrueInv'
<1>1. UNCHANGED <<tmp, held, out, crossed>> /\ \E where \in Pcs \ Writing : Goto(l, where)
  BY DEF ReadBytes, Probe, MapCached, RemoveStale, Compile, List, Evict, Pcs, Writing
<1>2. \A v \in Contents : cache'[v] \in {cache[v], NIL}
  BY DEF ReadBytes, Probe, MapCached, RemoveStale, Compile, List, Evict, TrueInv, CacheInv, CacheShape
<1>3. DOMAIN code' = Loaders /\ \A m \in Loaders \ {l} : key'[m] = key[m] /\ code'[m] = code[m]
  BY DEF ReadBytes, Probe, MapCached, RemoveStale, Compile, List, Evict, Knows, Forgets, TrueInv, CacheInv, CacheShape
<1>4. \A m \in Loaders : pc'[m] \in Writing => m # l /\ pc'[m] = pc[m]
  BY <1>1 DEF Goto, TrueInv, CacheInv, CacheShape
<1> QED
  BY <1>1, <1>2, <1>3, <1>4, FilesRest

(* Whoever opens a file that another load is at crosses it.                 *)
LEMMA OpenTrue ==
  ASSUME TrueInv, CacheInv', NEW l \in Loaders, OpenTmp(l)
  PROVE  TrueInv'
<1>1. key[l] \in Contents /\ Name(l) \in Contents \X Paths /\ pc[l] = "open" /\ UNCHANGED cache
  BY DEF OpenTmp, TrueInv, CacheInv, CacheShape, Name, Paths
<1>2. CASE Forgets(l) /\ Goto(l, "idle") /\ UNCHANGED <<tmp, out, held, made, crossed>>
  <2>1. /\ DOMAIN code' = Loaders
        /\ \A m \in Loaders : pc'[m] \in Writing => pc'[m] = pc[m] /\ key'[m] = key[m] /\ code'[m] = code[m]
    BY <1>2 DEF Forgets, Knows, Goto, TrueInv, CacheInv, CacheShape, Writing
  <2> QED
    BY <1>1, <1>2, <2>1, FilesRest
<1>3. ASSUME NEW f \in Files, Opened(l, f), tmp' = [tmp EXCEPT ![Name(l)] = f],
             tmp[Name(l)] \in {f, NIL}, \A v \in Contents : cache[v] # f,
             \A n \in Contents \X Paths : n # Name(l) => tmp[n] # f,
             DOMAIN held' = Files, \A g \in Files \ {f} : held'[g] = held[g]
      PROVE  TrueInv'
  <2>1. /\ UNCHANGED <<key, code>> /\ out' = [out EXCEPT ![l] = f] /\ pc' = [pc EXCEPT ![l] = "write"]
        /\ crossed \subseteq crossed' /\ crossed' \subseteq crossed \cup {f} /\ (Crossing(l) => f \in crossed')
    BY <1>3 DEF Opened, Goto
  <2>2. Name(l)' = Name(l) /\ \A m \in Loaders : Name(m)' = Name(m)
    BY <2>1 DEF Name
  <2>3. \A m \in Loaders : pc[m] \in Writing => Name(m) \in Contents \X Paths
    BY DEF Name, Paths, Writing, TrueInv, CacheInv, CacheShape
  <2>4. \A m \in Loaders \ {l} : pc'[m] = pc[m] /\ out'[m] = out[m]
    BY <2>1 DEF TrueInv, CacheInv, CacheShape
  <2>5. pc'[l] = "write" /\ out'[l] = f /\ tmp'[Name(l)] = f
    BY <1>1, <1>3, <2>1 DEF TrueInv, CacheInv, CacheShape
  <2>6. \A n \in Contents \X Paths : n # Name(l) => tmp'[n] = tmp[n]
    BY <1>3 DEF TrueInv, CacheInv, CacheShape
  <2>7. \A m \in Loaders \ {l} : pc[m] \in Writing /\ Name(m) = Name(l) => f \in crossed'
    BY <2>1 DEF Crossing, Writing
  <2>8. TrueArtifacts'
    BY <1>1, <1>3, <2>1 DEF TrueArtifacts, Cached, TrueInv, CacheInv, CacheShape
  <2>9. OneVersion(l)'
    <3>1. f \notin crossed' => code[l] = key[l]
      BY <2>1 DEF Crossing
    <3>2. f # NIL
      BY <1>3, CacheAssumption DEF Files
    <3> QED
      BY <2>1, <2>2, <2>5, <3>1, <3>2 DEF OneVersion
  <2>10. ASSUME NEW m \in Loaders \ {l} PROVE OneVersion(m)'
    <3>1. CASE pc[m] \in Writing /\ Name(m) = Name(l)
      <4>1. f \in crossed'
        BY <2>7, <3>1
      <4>2. pc[m] = "write" /\ out[m] \notin crossed' => out[m] = f
        BY <1>3, <2>1, <3>1 DEF OneVersion, TrueInv
      <4> QED
        BY <2>2, <2>4, <2>5, <3>1, <4>1, <4>2 DEF OneVersion
    <3>2. CASE pc[m] \in Writing /\ Name(m) # Name(l)
      <4>1. tmp'[Name(m)] = tmp[Name(m)] /\ tmp[Name(m)] # f
        BY <1>3, <2>3, <2>6, <3>2
      <4>2. tmp[Name(m)] # NIL => tmp[Name(m)] \in Files \ {f}
        BY <2>3, <3>2, <4>1 DEF TrueInv, CacheInv, CacheShape
      <4> QED
        BY <1>3, <2>1, <2>2, <2>4, <3>2, <4>1, <4>2 DEF OneVersion, TrueInv
    <3>3. CASE pc[m] \notin Writing
      BY <2>4, <3>3 DEF OneVersion, Writing
    <3> QED
      BY <3>1, <3>2, <3>3
  <2>11. ASSUME NEW m \in Loaders \ {l} PROVE Joined(l, m)' /\ Joined(m, l)'
    <3> SUFFICES ASSUME pc[m] \in Writing, Name(m) = Name(l) PROVE Joined(l, m)' /\ Joined(m, l)'
      BY <2>2, <2>4 DEF Joined
    <3>1. f \in crossed'
      BY <2>7
    <3>2. pc[m] = "write" => out[m] \in crossed'
      <4>1. pc[m] = "write" /\ out[m] \notin crossed => out[m] = f
        BY <1>3 DEF OneVersion, TrueInv
      <4> QED
        BY <2>1, <3>1, <4>1
    <3> QED
      BY <2>2, <2>4, <2>5, <3>1, <3>2 DEF Joined
  <2>12. ASSUME NEW m \in Loaders \ {l}, NEW n \in Loaders \ {l}, m # n PROVE Joined(m, n)'
    <3> SUFFICES ASSUME pc[m] \in Writing, pc[n] \in Writing, Name(m) = Name(n) PROVE Joined(m, n)'
      BY <2>2, <2>4 DEF Joined
    <3>1. Joined(m, n)
      BY <2>12 DEF TrueInv
    <3>2. tmp'[Name(m)] = tmp[Name(m)] \/ (Name(m) = Name(l) /\ tmp'[Name(m)] = f /\ f \in crossed')
      BY <2>3, <2>5, <2>6, <2>7
    <3> QED
      BY <2>1, <2>2, <2>4, <3>1, <3>2 DEF Joined
  <2>13. DOMAIN code' = Loaders /\ DOMAIN out' = Loaders
    BY <2>1 DEF TrueInv
  <2> QED
    BY <1>3, <2>8, <2>9, <2>10, <2>11, <2>12, <2>13 DEF TrueInv
<1>4. CASE tmp[Name(l)] = NIL /\ made < MaxFiles /\ tmp' = [tmp EXCEPT ![Name(l)] = made + 1] /\ Opened(l, made + 1) /\ UNCHANGED held
  <2>1. made + 1 \in Files
    BY <1>4, CacheAssumption DEF TrueInv, CacheInv, CacheShape, Files
  <2>2. (\A v \in Contents : cache[v] # made + 1) /\ \A n \in Contents \X Paths : tmp[n] # made + 1
    <3>1. made + 1 # NIL /\ made \in Nat /\ ~(made + 1 <= made)
      BY <2>1, CacheAssumption DEF TrueInv, CacheInv, CacheShape, Files
    <3>2. \A v \in Contents : cache[v] # NIL => cache[v] <= made
      BY DEF TrueInv, CacheInv, OneName
    <3>3. \A n \in Contents \X Paths : tmp[n] # NIL => tmp[n] <= made
      BY DEF TrueInv, CacheInv, OneName
    <3> QED
      BY <3>1, <3>2, <3>3
  <2> QED
    BY <1>3, <1>4, <2>1, <2>2 DEF TrueInv
<1>5. CASE /\ tmp[Name(l)] # NIL /\ held' = [held EXCEPT ![tmp[Name(l)]] = NIL]
           /\ Opened(l, tmp[Name(l)]) /\ UNCHANGED tmp
  <2>1. tmp[Name(l)] \in Files
    BY <1>1, <1>5 DEF TrueInv, CacheInv, CacheShape
  <2>2. tmp' = [tmp EXCEPT ![Name(l)] = tmp[Name(l)]]
    BY <1>5 DEF TrueInv, CacheInv, CacheShape
  <2>3. \A v \in Contents : cache[v] # tmp[Name(l)]
    BY <1>1, <1>5 DEF TrueInv, CacheInv, OneName
  <2>4. \A n \in Contents \X Paths : n # Name(l) => tmp[n] # tmp[Name(l)]
    BY <1>1, <1>5 DEF TrueInv, CacheInv, OneName
  <2>5. DOMAIN held' = Files /\ \A g \in Files \ {tmp[Name(l)]} : held'[g] = held[g]
    BY <1>5 DEF TrueInv
  <2> QED
    BY <1>3, <1>5, <2>1, <2>2, <2>3, <2>4, <2>5
<1> QED
  BY <1>2, <1>4, <1>5 DEF OpenTmp

(* What is written under nobody's eyes is what is filed.                    *)
LEMMA WriteTrue ==
  ASSUME TrueInv, CacheInv', NEW l \in Loaders, WriteTmp(l)
  PROVE  TrueInv'
<1>1. /\ key[l] \in Contents /\ Name(l) \in Contents \X Paths /\ pc[l] = "write"
      /\ UNCHANGED <<cache, tmp, crossed>> /\ out' = [out EXCEPT ![l] = NIL]
  BY DEF WriteTmp, TrueInv, CacheInv, CacheShape, Name, Paths
<1>2. \/ held' = held /\ pc' = [pc EXCEPT ![l] = "idle"]
      \/ /\ held' = [held EXCEPT ![out[l]] = code[l]] /\ pc' = [pc EXCEPT ![l] = "rename"]
         /\ key'[l] = key[l]
  BY DEF WriteTmp, Goto, Knows, TrueInv, CacheInv, CacheShape
<1>3. \A m \in Loaders \ {l} : pc'[m] = pc[m] /\ key'[m] = key[m] /\ code'[m] = code[m] /\ out'[m] = out[m]
  BY <1>1, <1>2 DEF WriteTmp, Forgets, Knows, TrueInv, CacheInv, CacheShape
<1>4. out[l] \notin crossed => code[l] = key[l] /\ tmp[Name(l)] # NIL /\ out[l] = tmp[Name(l)]
  BY <1>1 DEF TrueInv, OneVersion
<1>5. \A f \in Files : f # out[l] => held'[f] = held[f]
  BY <1>2 DEF TrueInv
<1>6. TrueArtifacts'
  <2> SUFFICES ASSUME NEW v \in Contents, cache[v] # NIL, cache[v] \notin crossed
               PROVE  held'[cache[v]] = held[cache[v]]
    BY <1>1 DEF TrueArtifacts, Cached, TrueInv
  <2>1. cache[v] \in Files
    BY DEF TrueInv, CacheInv, CacheShape
  <2>2. cache[v] # out[l]
    BY <1>1, <1>4 DEF TrueInv, CacheInv, OneName
  <2> QED
    BY <1>5, <2>1, <2>2
<1>7. OneVersion(l)'
  <2>1. CASE pc' = [pc EXCEPT ![l] = "idle"]
    BY <2>1 DEF OneVersion, TrueInv, CacheInv, CacheShape
  <2>2. CASE /\ held' = [held EXCEPT ![out[l]] = code[l]] /\ pc' = [pc EXCEPT ![l] = "rename"]
             /\ key'[l] = key[l]
    <3>1. Name(l)' = Name(l) /\ pc'[l] = "rename"
      BY <2>2 DEF Name, TrueInv, CacheInv, CacheShape
    <3> SUFFICES ASSUME tmp[Name(l)] # NIL, tmp[Name(l)] \notin crossed PROVE held'[tmp[Name(l)]] = key[l]
      BY <1>1, <2>2, <3>1 DEF OneVersion
    <3>2. tmp[Name(l)] \in Files
      BY <1>1 DEF TrueInv, CacheInv, CacheShape
    <3>3. out[l] = tmp[Name(l)] /\ code[l] = key[l]
      BY <1>1, <1>4 DEF TrueInv, OneVersion
    <3> QED
      BY <2>2, <3>2, <3>3 DEF TrueInv
  <2> QED
    BY <1>2, <2>1, <2>2
<1>8. ASSUME NEW m \in Loaders \ {l} PROVE OneVersion(m)'
  <2>1. Name(m)' = Name(m)
    BY <1>3 DEF Name
  <2> SUFFICES ASSUME pc[m] = "rename", tmp[Name(m)] # NIL, tmp[Name(m)] \notin crossed
               PROVE  held'[tmp[Name(m)]] = held[tmp[Name(m)]]
    BY <1>1, <1>3, <2>1 DEF OneVersion, TrueInv
  <2>2. Name(m) \in Contents \X Paths
    BY DEF Name, Paths, TrueInv, CacheInv, CacheShape
  <2>3. tmp[Name(m)] \in Files
    BY <2>2 DEF TrueInv, CacheInv, CacheShape
  <2>4. ASSUME out[l] = tmp[Name(m)] PROVE FALSE
    <3>1. Name(l) = Name(m)
      BY <1>1, <1>4, <2>2, <2>4 DEF TrueInv, CacheInv, OneName
    <3>2. Joined(m, l)
      BY DEF TrueInv
    <3> QED
      BY <1>1, <3>1, <3>2 DEF Joined, Writing
  <2> QED
    BY <1>5, <2>3, <2>4
<1>9. ASSUME NEW m \in Loaders, NEW n \in Loaders, m # n PROVE Joined(m, n)'
  <2> SUFFICES ASSUME pc'[m] \in Writing, pc'[n] \in Writing PROVE Joined(m, n)'
    BY DEF Joined
  <2>1. Joined(m, n)
    BY <1>9 DEF TrueInv
  <2>2. \A k \in Loaders : pc'[k] \in Writing =>
          pc[k] \in Writing /\ key'[k] = key[k] /\ (pc'[k] = "write" => pc[k] = "write" /\ out'[k] = out[k])
    BY <1>1, <1>2, <1>3 DEF Writing, TrueInv, CacheInv, CacheShape
  <2>3. Name(m)' = Name(m) /\ Name(n)' = Name(n)
    BY <2>2 DEF Name
  <2> QED
    BY <1>1, <2>1, <2>2, <2>3 DEF Joined
<1>10. DOMAIN held' = Files /\ DOMAIN code' = Loaders /\ DOMAIN out' = Loaders
  BY DEF WriteTmp, Knows, Forgets, TrueInv
<1> QED
  BY <1>6, <1>7, <1>8, <1>9, <1>10 DEF TrueInv

(* What is published is the file that this load wrote, if nothing crossed   *)
(* it.                                                                      *)
LEMMA PublishTrue ==
  ASSUME TrueInv, CacheInv', NEW l \in Loaders, Publish(l)
  PROVE  TrueInv'
<1>1. /\ key[l] \in Contents /\ Name(l) \in Contents \X Paths /\ pc[l] = "rename"
      /\ pc' = [pc EXCEPT ![l] = "sweep"] /\ UNCHANGED <<out, held, crossed>>
  BY DEF Publish, Goto, TrueInv, CacheInv, CacheShape, Name, Paths
<1>2. \A m \in Loaders \ {l} : pc'[m] = pc[m] /\ key'[m] = key[m] /\ code'[m] = code[m]
  BY <1>1 DEF Publish, Forgets, Knows, TrueInv, CacheInv, CacheShape
<1>3. \A m \in Loaders \ {l} : Name(m)' = Name(m)
  BY <1>2 DEF Name
<1>4. \A m \in Loaders : pc'[m] \in Writing => m # l
  BY <1>1 DEF Writing, TrueInv, CacheInv, CacheShape
<1>5. tmp[Name(l)] # NIL /\ tmp[Name(l)] \notin crossed => held[tmp[Name(l)]] = key[l]
  BY <1>1 DEF TrueInv, OneVersion
<1>6. TrueArtifacts'
  <2>1. cache' = cache \/ (tmp[Name(l)] # NIL /\ cache' = [cache EXCEPT ![key[l]] = tmp[Name(l)]])
    BY DEF Publish
  <2> QED
    BY <1>1, <1>5, <2>1 DEF TrueArtifacts, Cached, TrueInv, CacheInv, CacheShape
<1>7. tmp' = tmp \/ tmp' = [tmp EXCEPT ![Name(l)] = NIL]
  BY DEF Publish
<1>8. \A n \in Contents \X Paths : tmp'[n] = tmp[n] \/ (n = Name(l) /\ tmp'[n] = NIL)
  BY <1>1, <1>7 DEF TrueInv, CacheInv, CacheShape
<1>9. \A m \in Loaders : pc[m] \in Writing => Name(m) \in Contents \X Paths
  BY DEF Name, Paths, Writing, TrueInv, CacheInv, CacheShape
<1>10. OneVersion(l)'
  BY <1>1 DEF OneVersion, TrueInv, CacheInv, CacheShape
<1>11. ASSUME NEW m \in Loaders \ {l} PROVE OneVersion(m)'
  <2> SUFFICES ASSUME pc[m] \in Writing PROVE OneVersion(m)'
    BY <1>2 DEF OneVersion, Writing
  <2>1. Joined(m, l) /\ OneVersion(m)
    BY DEF TrueInv
  <2>2. CASE tmp'[Name(m)] = tmp[Name(m)]
    BY <1>1, <1>2, <1>3, <2>1, <2>2 DEF OneVersion
  <2>3. CASE Name(m) = Name(l) /\ tmp'[Name(m)] = NIL
    <3>1. pc[m] = "write" => out[m] \in crossed
      BY <1>1, <2>1, <2>3 DEF Joined, Writing
    <3> QED
      BY <1>1, <1>2, <1>3, <2>3, <3>1 DEF OneVersion
  <2> QED
    BY <1>8, <1>9, <2>2, <2>3
<1>12. ASSUME NEW m \in Loaders, NEW n \in Loaders, m # n PROVE Joined(m, n)'
  <2> SUFFICES ASSUME m # l, n # l, pc[m] \in Writing, pc[n] \in Writing PROVE Joined(m, n)'
    BY <1>2, <1>4 DEF Joined
  <2>1. Joined(m, n)
    BY <1>12 DEF TrueInv
  <2>2. tmp'[Name(m)] \in {tmp[Name(m)], NIL}
    BY <1>8, <1>9
  <2> QED
    BY <1>1, <1>2, <1>3, <2>1, <2>2 DEF Joined
<1>13. DOMAIN held' = Files /\ DOMAIN code' = Loaders /\ DOMAIN out' = Loaders
  BY <1>1 DEF Publish, Forgets, Knows, TrueInv
<1> QED
  BY <1>6, <1>10, <1>11, <1>12, <1>13 DEF TrueInv

LEMMA TrueNext ==
  ASSUME TrueInv, [CacheNext]_cacheVars
  PROVE  TrueInv'
<1>1. CacheInv'
  BY CacheNextInv DEF TrueInv
<1>2. ASSUME UNCHANGED <<load, cache, tmp, held, crossed>> PROVE TrueInv'
  BY <1>1, <1>2 DEF load, TrueInv, OneVersion, Joined, Name, TrueArtifacts, Cached
<1>3. CASE UNCHANGED cacheVars
  BY <1>2, <1>3 DEF cacheVars
<1>4. ASSUME NEW p \in Paths, Deploy(p) PROVE TrueInv'
  BY <1>2, <1>4 DEF Deploy
<1>5. ASSUME NEW l \in Loaders, Step(l) PROVE TrueInv'
  BY <1>1, <1>5, QuietTrue, OpenTrue, WriteTrue, PublishTrue DEF Step
<1> QED
  BY <1>3, <1>4, <1>5 DEF CacheNext

(* The cache never holds more than the cap and the sweeps that are still to *)
(* be over, whoever loads what while files change (sweep_cache).            *)
THEOREM CacheBounded == CacheSpec => []Bounded
BY CacheInitInv, CacheNextInv, WithinBounds, PTL DEF CacheSpec

(* And whatever is deployed while it is loaded, and however many tasks load *)
(* it: an artifact that is not of the bytes whose hash it is filed under,   *)
(* or not whole, is one whose file was changed between the hash and the     *)
(* compilation, or which two loads of one path wrote (load_component,       *)
(* lib.rs 1912 and 1915).                                                   *)
THEOREM CacheArtifactsSound == CacheSpec => []ArtifactsSound
<1>1. TrueInv /\ [CacheNext]_cacheVars => TrueInv'
  BY TrueNext
<1>2. TrueInv => ArtifactsSound
  BY WithinBounds DEF TrueInv, ArtifactsSound
<1> QED
  BY <1>1, <1>2, TrueInit, PTL DEF CacheSpec
=============================================================================
