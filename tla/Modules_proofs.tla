---------------------------- MODULE Modules_proofs ----------------------------
(***************************************************************************)
(* Proofs about module Modules, for any placements, files and bounds.      *)
(* ReconcileInv is the inductive invariant: a stream of the generation its *)
(* key has now is that of the instance there is now, and after a reload    *)
(* every placement has an instance of its config and its bytes.  FilesInv  *)
(* adds what an instance may have loaded.  Then about module XTray, for    *)
(* any windows, tray modules and services, with its invariant XTrayInv;    *)
(* and about module TrayMenu, for any icons, with MenuInv.                 *)
(***************************************************************************)
EXTENDS Modules, XTray, TrayMenu, TLAPS, FiniteSetTheorems, WellFoundedInduction

(* A recipe's generation is never ahead of its key's; a stream of the       *)
(* generation of now is that of the instance of now.                        *)
StreamsBehind ==
  \A s \in streams :
    /\ s.recipe.gen <= generation[s.recipe.key]
    /\ live[s.recipe.key] # NONE /\ s.recipe.gen = generation[s.recipe.key]
         => s.obj = live[s.recipe.key].obj

(* What a reload leaves for the placement s of key k: an instance of its    *)
(* config and of the bytes on disk.                                         *)
Matches(k, s) == live[k] # NONE /\ live[k].cfg = s.cfg /\ live[k].sig = Sig(s.type)

Reconcile ==
  fresh => \A k \in Keys : SpecOf(config, k) # NONE => Matches(k, SpecOf(config, k))

ReconcileInv == TypeOK /\ StreamsBehind /\ StreamsOwn /\ Reconcile

(* A plugin's instance is of the plugin of its key, was built from a file   *)
(* that was there, and while that file is the one on disk it has loaded no  *)
(* other.                                                                   *)
FileOf(k) ==
  LET e == live[k]
  IN  e # NONE /\ e.type \in Plugins =>
        /\ e.type \in PluginsOf(k)
        /\ e.sig \in Nat \ {0} /\ e.sig <= disk[e.type].mtime
        /\ Sig(e.type) = e.sig => e.bytes \in {NONE, e.sig}
        /\ fresh => Sig(e.type) = e.sig

FilesInv == \A k \in Keys : FileOf(k)

-----------------------------------------------------------------------------
(* Lemmas about the operators *)

(* A function on S with values in T. *)
LEMMA FunctionType ==
  ASSUME NEW S, NEW T, NEW f, f = [x \in S |-> f[x]], \A x \in S : f[x] \in T
  PROVE  f \in [S -> T]
  OBVIOUS

(* A set of positions has a first one: that whose initial segment holds no  *)
(* other of them.                                                           *)
LEMMA FirstIn ==
  ASSUME NEW is \in SUBSET Nat, is # {}
  PROVE  First(is) \in is
<1> DEFINE Segments == {0 .. i : i \in is}
<1>1. Segments # {} /\ Segments \subseteq FiniteSubsetsOf(Nat)
  <2>1. \A i \in is : IsFiniteSet(0 .. i) /\ 0 .. i \in SUBSET Nat
    BY FS_Interval
  <2>2. QED
    BY <2>1 DEF FiniteSubsetsOf
<1>2. PICK m \in Segments : \A l \in Segments : <<l, m>> \notin StrictSubsetOrdering(Nat)
  BY <1>1, FS_StrictSubsetOrderingWellFounded, WFMin
<1>3. PICK i \in is : m = 0 .. i
  OBVIOUS
<1>4. ASSUME NEW j \in is, j < i PROVE FALSE
  <2>1. 0 .. j \in Segments /\ 0 .. j \subseteq 0 .. i /\ 0 .. j # 0 .. i
    BY <1>4
  <2>2. <<0 .. j, m>> \in StrictSubsetOrdering(Nat)
    BY <1>3, <2>1 DEF StrictSubsetOrdering
  <2>3. QED
    BY <1>2, <2>1, <2>2
<1>5. \A j \in is : i <= j
  BY <1>4
<1>6. QED
  BY <1>5 DEF First

(* A placement is of a module, with a config; a plugin that is placed is    *)
(* one the key may stand for.                                               *)
LEMMA SpecSound ==
  ASSUME NEW c \in Configs, NEW k \in Keys, SpecOf(c, k) # NONE
  PROVE  /\ SpecOf(c, k).type \in Builtins \cup Found
         /\ SpecOf(c, k).type \in Types
         /\ SpecOf(c, k).cfg \in Cfgs
         /\ SpecOf(c, k).type \in Plugins => SpecOf(c, k).type \in PluginsOf(k)
<1>1. c \in Seq(Placed) /\ DOMAIN c \subseteq Nat
  BY ModulesAssumption
<1>2. Found \subseteq Plugins
  BY DEF Found
<1>3. CASE Places(c, k) # {}
  <2> DEFINE i == First(Places(c, k))
  <2>1. i \in Places(c, k)
    BY <1>1, <1>3, FirstIn DEF Places
  <2>2. SpecOf(c, k) = c[i]
    BY <1>3 DEF SpecOf
  <2>3. i \in DOMAIN c /\ c[i].key = k /\ c[i].type \in Builtins \cup Found
    BY <2>1 DEF Places, IsModule
  <2>4. c[i] \in Placed
    BY <1>1, <2>3
  <2>5. c[i].cfg \in Cfgs
    BY <2>4 DEF Placed
  <2> HIDE DEF i
  <2>6. QED
    BY <1>2, <2>2, <2>3, <2>5 DEF PluginsOf, Types
<1>4. CASE Places(c, k) = {} /\ k \in Unplaced(c)
  <2>1. SpecOf(c, k) = [key |-> k, type |-> k, cfg |-> EMPTY, zone |-> "right"]
    BY <1>4 DEF SpecOf
  <2>2. k \in Found
    BY <1>4 DEF Unplaced
  <2>3. QED
    BY <1>2, <2>1, <2>2, ModulesAssumption DEF PluginsOf, Types
<1>5. CASE Places(c, k) = {} /\ k \notin Unplaced(c)
  BY <1>5 DEF SpecOf
<1>6. QED
  BY <1>3, <1>4, <1>5

(* A signature is a time of the file, none for a built-in. *)
LEMMA SigType ==
  ASSUME disk \in [Plugins -> [mtime : 1 .. MaxMtime, there : BOOLEAN]], NEW t
  PROVE  /\ Sig(t) \in 0 .. MaxMtime
         /\ t \in Found => Sig(t) = disk[t].mtime /\ Sig(t) # 0
         /\ t \notin Found => Sig(t) = 0
  BY ModulesAssumption DEF Sig, Found

(* What a reload makes of the placement s of key k: nothing, the instance   *)
(* there was with that config, or a new one; either way it matches s.       *)
LEMMA ReconciledSound ==
  ASSUME TypeOK, NEW c \in Configs, NEW k \in Keys,
         SpecOf(c, k) # NONE /\ ~Keeps(k, SpecOf(c, k)) => builds[k] < MaxBuilds
  PROVE  LET s == SpecOf(c, k)
             e == Reconciled(k, s)
         IN  /\ e \in Entry \cup {NONE}
             /\ s = NONE => e = NONE
             /\ s # NONE => e # NONE /\ e.cfg = s.cfg /\ e.sig = Sig(s.type)
             /\ s # NONE /\ Builds(k, s) => e = NewEntry(k, s)
             /\ s # NONE /\ ~Builds(k, s) =>
                  /\ live[k] # NONE
                  /\ e.obj = live[k].obj /\ e.type = live[k].type
                  /\ e.sig = live[k].sig /\ e.bytes = live[k].bytes
<1> DEFINE s == SpecOf(c, k)
           e == Reconciled(k, s)
<1>1. live[k] \in Entry \cup {NONE} /\ builds[k] \in 0 .. MaxBuilds
  BY DEF TypeOK
<1>2. CASE s = NONE
  BY <1>2 DEF Reconciled
<1>3. CASE s # NONE /\ Keeps(k, s)
  <2>1. e = live[k]
    BY <1>3 DEF Reconciled, AdoptsCfg, Builds
  <2>2. QED
    BY <1>1, <1>3, <2>1 DEF Keeps, Builds
<1>4. CASE s # NONE /\ AdoptsCfg(k, s)
  <2>1. e = [live[k] EXCEPT !.cfg = s.cfg] /\ ~Builds(k, s)
    BY <1>4 DEF Reconciled, AdoptsCfg, Builds
  <2>2. live[k] \in Entry /\ live[k].sig = Sig(s.type) /\ live[k] # NONE
    BY <1>1, <1>4 DEF AdoptsCfg
  <2>3. s.cfg \in Cfgs
    BY <1>4, SpecSound
  <2> HIDE DEF s
  <2>4. e \in Entry
    BY <2>1, <2>2, <2>3 DEF Entry
  <2>5. /\ e.cfg = s.cfg /\ e.sig = live[k].sig /\ e.obj = live[k].obj
        /\ e.type = live[k].type /\ e.bytes = live[k].bytes
    BY <2>1, <2>2 DEF Entry
  <2>6. e # NONE
    BY <2>4, ModulesAssumption
  <2>7. QED
    BY <1>4, <2>1, <2>2, <2>4, <2>5, <2>6 DEF s
<1>5. CASE s # NONE /\ Builds(k, s)
  <2>1. e = NewEntry(k, s)
    BY <1>5 DEF Reconciled, Builds
  <2>2. builds[k] + 1 \in 1 .. MaxBuilds
    BY <1>1, <1>5, ModulesAssumption DEF Builds
  <2>3. s.cfg \in Cfgs /\ s.type \in Types
    BY <1>5, SpecSound
  <2>4. Sig(s.type) \in 0 .. MaxMtime
    BY SigType DEF TypeOK
  <2> HIDE DEF s
  <2>5. e \in Entry
    BY <2>1, <2>2, <2>3, <2>4 DEF NewEntry, Entry
  <2>6. e # NONE
    BY <2>5, ModulesAssumption
  <2>7. e.cfg = s.cfg /\ e.sig = Sig(s.type)
    BY <2>1 DEF NewEntry
  <2>8. QED
    BY <1>5, <2>1, <2>5, <2>6, <2>7 DEF s
<1>6. QED
  BY <1>2, <1>3, <1>4, <1>5 DEF Builds

-----------------------------------------------------------------------------
(* The steps *)

(* What a reload with config c does to one key. *)
LEMMA ReloadKey ==
  ASSUME TypeOK, NEW c \in Configs, Reload(c), NEW k \in Keys
  PROVE  LET s == SpecOf(c, k)
         IN  /\ live'[k] = Reconciled(k, s)
             /\ live'[k] \in Entry \cup {NONE}
             /\ s = NONE => live'[k] = NONE
             /\ s # NONE => live'[k] # NONE /\ live'[k].cfg = s.cfg /\ live'[k].sig = Sig(s.type)
             /\ builds'[k] \in 0 .. MaxBuilds /\ generation'[k] \in 0 .. MaxBuilds
             /\ live'[k] # NONE => live'[k].obj = builds'[k]
             /\ \/ generation'[k] = generation[k] /\ (live'[k] # NONE => live[k] # NONE /\ live'[k].obj = live[k].obj)
                \/ generation'[k] = generation[k] + 1
             /\ s # NONE /\ Builds(k, s) => live'[k] = NewEntry(k, s)
             /\ s # NONE /\ ~Builds(k, s) =>
                  /\ live[k] # NONE
                  /\ live'[k].type = live[k].type /\ live'[k].sig = live[k].sig /\ live'[k].bytes = live[k].bytes
<1> DEFINE s == SpecOf(c, k)
<1>1. live'[k] = Reconciled(k, s)
  BY DEF Reload
<1>2. s # NONE /\ ~Keeps(k, s) => builds[k] < MaxBuilds /\ generation[k] < MaxBuilds
  BY DEF Reload
<1>3. builds'[k] = IF s # NONE /\ Builds(k, s) THEN builds[k] + 1 ELSE builds[k]
  BY DEF Reload
<1>4. PICK R : generation'[k] = IF s # NONE /\ Rekeys(k, s, R) THEN generation[k] + 1 ELSE generation[k]
  BY DEF Reload
<1>5. builds[k] \in 0 .. MaxBuilds /\ generation[k] \in 0 .. MaxBuilds /\ MaxBuilds \in Nat
  BY ModulesAssumption DEF TypeOK
<1>6. live[k] # NONE => live[k].obj = builds[k]
  BY DEF TypeOK
<1>7. Rekeys(k, s, R) => ~Keeps(k, s)
  BY DEF Rekeys, Builds, AdoptsCfg
<1>8. Builds(k, s) => Rekeys(k, s, R) /\ ~Keeps(k, s)
  BY DEF Rekeys, Builds
<1>9. LET e == Reconciled(k, s)
      IN  /\ e \in Entry \cup {NONE}
          /\ s = NONE => e = NONE
          /\ s # NONE => e # NONE /\ e.cfg = s.cfg /\ e.sig = Sig(s.type)
          /\ s # NONE /\ Builds(k, s) => e = NewEntry(k, s)
          /\ s # NONE /\ ~Builds(k, s) =>
               /\ live[k] # NONE
               /\ e.obj = live[k].obj /\ e.type = live[k].type
               /\ e.sig = live[k].sig /\ e.bytes = live[k].bytes
  BY <1>2, ReconciledSound
<1>10. NewEntry(k, s).obj = builds[k] + 1
  BY DEF NewEntry
<1> HIDE DEF s
<1>11. QED
  BY <1>1, <1>2, <1>3, <1>4, <1>5, <1>6, <1>7, <1>8, <1>9, <1>10 DEF s

LEMMA InitInv == Init => ReconcileInv /\ FilesInv
<1> SUFFICES ASSUME Init PROVE ReconcileInv /\ FilesInv
  OBVIOUS
<1>1. /\ config \in Configs /\ streams = {} /\ synced = FALSE /\ fresh = TRUE
      /\ disk \in [Plugins -> [mtime : 1 .. MaxMtime, there : BOOLEAN]]
  BY ModulesAssumption DEF Init
<1>2. builds \in [Keys -> 0 .. MaxBuilds] /\ generation \in [Keys -> 0 .. MaxBuilds]
  BY ModulesAssumption DEF Init
<1>3. ASSUME NEW k \in Keys
      PROVE  /\ live[k] \in Entry \cup {NONE}
             /\ live[k] # NONE => live[k].obj = builds[k]
             /\ SpecOf(config, k) # NONE => Matches(k, SpecOf(config, k))
             /\ FileOf(k)
  <2> DEFINE s == SpecOf(config, k)
  <2>1. CASE s = NONE
    BY <2>1 DEF Init, FileOf
  <2>2. CASE s # NONE
    <3>1. live[k] = [obj |-> 1, type |-> s.type, cfg |-> s.cfg, sig |-> Sig(s.type),
                     bytes |-> NONE, disabled |-> FALSE]
          /\ builds[k] = 1
      BY <2>2 DEF Init
    <3>2. /\ s.type \in Builtins \cup Found /\ s.type \in Types /\ s.cfg \in Cfgs
          /\ s.type \in Plugins => s.type \in PluginsOf(k)
      BY <1>1, <2>2, SpecSound
    <3>3. /\ Sig(s.type) \in 0 .. MaxMtime
          /\ s.type \in Found => Sig(s.type) = disk[s.type].mtime /\ Sig(s.type) # 0
      BY <1>1, SigType
    <3>4. 1 \in 1 .. MaxBuilds /\ MaxMtime \in Nat
      BY ModulesAssumption
    <3>5. s.type \in Plugins => s.type \in Found
      BY <3>2, ModulesAssumption
    <3> HIDE DEF s
    <3>6. live[k] \in Entry
      BY <3>1, <3>2, <3>3, <3>4 DEF Entry
    <3>7. live[k] # NONE
      BY <3>6, ModulesAssumption
    <3>8. FileOf(k)
      BY <3>1, <3>2, <3>3, <3>4, <3>5 DEF FileOf
    <3>9. Matches(k, s)
      BY <3>1, <3>7 DEF Matches
    <3>10. QED
      BY <3>1, <3>6, <3>8, <3>9 DEF s
  <2>3. QED
    BY <2>1, <2>2
<1>4. live \in [Keys -> Entry \cup {NONE}]
  BY <1>3 DEF Init
<1>5. QED
  BY <1>1, <1>2, <1>3, <1>4
     DEF ReconcileInv, FilesInv, TypeOK, StreamsBehind, StreamsOwn, Reconcile

LEMMA ReloadKeeps ==
  ASSUME ReconcileInv, NEW c \in Configs, Reload(c)
  PROVE  ReconcileInv'
<1>1. /\ config' = c /\ disk' = disk /\ streams' = streams /\ synced' = FALSE /\ fresh' = TRUE
      /\ DOMAIN live' = Keys /\ live' = [k \in Keys |-> live'[k]]
      /\ builds' = [k \in Keys |-> builds'[k]] /\ generation' = [k \in Keys |-> generation'[k]]
  BY DEF Reload
<1>2. TypeOK
  BY DEF ReconcileInv
<1>3. TypeOK'
  <2>1. ASSUME NEW k \in Keys
        PROVE  /\ live'[k] \in Entry \cup {NONE}
               /\ builds'[k] \in 0 .. MaxBuilds /\ generation'[k] \in 0 .. MaxBuilds
               /\ live'[k] # NONE => live'[k].obj = builds'[k]
    BY <1>2, ReloadKey
  <2>2. live' \in [Keys -> Entry \cup {NONE}]
    <3>1. \A k \in Keys : live'[k] \in Entry \cup {NONE}
      BY <2>1
    <3>2. QED
      BY <1>1, <3>1, FunctionType, Zenon
  <2>3. builds' \in [Keys -> 0 .. MaxBuilds] /\ generation' \in [Keys -> 0 .. MaxBuilds]
    <3>1. \A k \in Keys : builds'[k] \in 0 .. MaxBuilds
      BY <2>1
    <3>2. \A k \in Keys : generation'[k] \in 0 .. MaxBuilds
      BY <2>1
    <3>3. QED
      BY <1>1, <3>1, <3>2, FunctionType, Zenon
  <2>4. QED
    BY <1>1, <1>2, <2>1, <2>2, <2>3 DEF TypeOK
<1>4. StreamsBehind'
  <2> SUFFICES ASSUME NEW st \in streams
               PROVE  /\ st.recipe.gen <= generation'[st.recipe.key]
                      /\ live'[st.recipe.key] # NONE /\ st.recipe.gen = generation'[st.recipe.key]
                           => st.obj = live'[st.recipe.key].obj
    BY <1>1 DEF StreamsBehind
  <2> DEFINE k == st.recipe.key
  <2>1. k \in Keys /\ st.recipe.gen \in Nat /\ generation[k] \in Nat
    BY <1>2, ModulesAssumption DEF TypeOK, Stream, Recipe
  <2>2. /\ st.recipe.gen <= generation[k]
        /\ live[k] # NONE /\ st.recipe.gen = generation[k] => st.obj = live[k].obj
    BY DEF ReconcileInv, StreamsBehind
  <2>3. \/ generation'[k] = generation[k] /\ (live'[k] # NONE => live[k] # NONE /\ live'[k].obj = live[k].obj)
        \/ generation'[k] = generation[k] + 1
    BY <1>2, <2>1, ReloadKey
  <2> HIDE DEF k
  <2>4. QED
    BY <2>1, <2>2, <2>3 DEF k
<1>5. Reconcile'
  <2>1. ASSUME NEW k \in Keys, SpecOf(c, k) # NONE
        PROVE  /\ live'[k] # NONE /\ live'[k].cfg = SpecOf(c, k).cfg
               /\ live'[k].sig = Sig(SpecOf(c, k).type)
    BY <1>2, <2>1, ReloadKey
  <2>2. \A k \in Keys : SpecOf(c, k)' = SpecOf(c, k)
    BY <1>1 DEF SpecOf, Places, IsModule, Unplaced, Found, First
  <2>3. \A t : Sig(t)' = Sig(t)
    BY <1>1 DEF Sig
  <2>4. QED
    BY <1>1, <2>1, <2>2, <2>3 DEF Reconcile, Matches
<1>6. StreamsOwn'
  BY <1>1 DEF StreamsOwn
<1>7. QED
  BY <1>3, <1>4, <1>5, <1>6 DEF ReconcileInv

(* A module that panics or that has loaded its file is still the instance   *)
(* it was.                                                                  *)
LEMMA EntryKeeps ==
  ASSUME ReconcileInv, NEW k \in Keys, Panic(k) \/ LoadBytes(k)
  PROVE  /\ ReconcileInv'
         /\ \A j \in Keys : j # k => live'[j] = live[j]
         /\ live[k] # NONE /\ live'[k].type = live[k].type /\ live'[k].sig = live[k].sig
<1>1. /\ config' = config /\ disk' = disk /\ streams' = streams /\ fresh' = fresh
      /\ builds' = builds /\ generation' = generation
  BY DEF Panic, LoadBytes
<1>2. TypeOK /\ live[k] \in Entry /\ live[k] # NONE
  BY DEF ReconcileInv, TypeOK, Panic, LoadBytes, Enabled
<1>3. /\ live'[k] \in Entry /\ live'[k].obj = live[k].obj /\ live'[k].type = live[k].type
      /\ live'[k].cfg = live[k].cfg /\ live'[k].sig = live[k].sig
      /\ \A j \in Keys : j # k => live'[j] = live[j]
      /\ live' \in [Keys -> Entry \cup {NONE}]
  <2>1. CASE Panic(k)
    <3>1. live' = [live EXCEPT ![k] = [live[k] EXCEPT !.disabled = TRUE]]
      BY <2>1 DEF Panic
    <3>2. [live[k] EXCEPT !.disabled = TRUE] \in Entry
      BY <1>2 DEF Entry
    <3>3. live'[k] = [live[k] EXCEPT !.disabled = TRUE]
      BY <1>2, <3>1 DEF TypeOK
    <3>4. live' \in [Keys -> Entry \cup {NONE}]
      BY <1>2, <3>1, <3>2 DEF TypeOK
    <3>5. /\ live'[k].obj = live[k].obj /\ live'[k].type = live[k].type
          /\ live'[k].cfg = live[k].cfg /\ live'[k].sig = live[k].sig
      BY <1>2, <3>3 DEF Entry
    <3>6. QED
      BY <1>2, <3>1, <3>2, <3>3, <3>4, <3>5 DEF TypeOK
  <2>2. CASE LoadBytes(k)
    <3>1. live' = [live EXCEPT ![k] = [live[k] EXCEPT !.bytes = Sig(live[k].type)]]
      BY <2>2 DEF LoadBytes
    <3>2. Sig(live[k].type) \in 0 .. MaxMtime
      BY <1>2, SigType DEF TypeOK
    <3>3. [live[k] EXCEPT !.bytes = Sig(live[k].type)] \in Entry
      BY <1>2, <3>2 DEF Entry
    <3>4. live'[k] = [live[k] EXCEPT !.bytes = Sig(live[k].type)]
      BY <1>2, <3>1 DEF TypeOK
    <3>5. live' \in [Keys -> Entry \cup {NONE}]
      BY <1>2, <3>1, <3>3 DEF TypeOK
    <3>6. /\ live'[k].obj = live[k].obj /\ live'[k].type = live[k].type
          /\ live'[k].cfg = live[k].cfg /\ live'[k].sig = live[k].sig
      BY <1>2, <3>4 DEF Entry
    <3>7. QED
      BY <1>2, <3>1, <3>3, <3>4, <3>5, <3>6 DEF TypeOK
  <2>3. QED
    BY <2>1, <2>2
<1>4. \A j \in Keys : /\ live'[j] # NONE <=> live[j] # NONE
                      /\ live[j] # NONE =>
                           /\ live'[j].obj = live[j].obj /\ live'[j].type = live[j].type
                           /\ live'[j].cfg = live[j].cfg /\ live'[j].sig = live[j].sig
  BY <1>2, <1>3, ModulesAssumption
<1>5. synced' \in BOOLEAN /\ (synced' => synced /\ \A j \in Keys : live'[j] # NONE => live'[j].disabled = live[j].disabled)
  <2>1. CASE Panic(k)
    BY <2>1 DEF Panic
  <2>2. CASE LoadBytes(k)
    <3>1. synced' = synced /\ live' = [live EXCEPT ![k] = [live[k] EXCEPT !.bytes = Sig(live[k].type)]]
      BY <2>2 DEF LoadBytes
    <3>2. [live[k] EXCEPT !.bytes = Sig(live[k].type)].disabled = live[k].disabled
      BY <1>2 DEF Entry
    <3>3. QED
      BY <1>2, <3>1, <3>2 DEF TypeOK
  <2>3. QED
    BY <2>1, <2>2
<1>6. TypeOK'
  BY <1>1, <1>2, <1>3, <1>4, <1>5 DEF TypeOK
<1>7. \A st \in streams : st.recipe.key \in Keys
  BY <1>2 DEF TypeOK, Stream, Recipe
<1>8. StreamsBehind'
  BY <1>1, <1>4, <1>7 DEF StreamsBehind, ReconcileInv
<1>9. Reconcile'
  <2>1. \A j \in Keys : SpecOf(config, j)' = SpecOf(config, j)
    BY <1>1 DEF SpecOf, Places, IsModule, Unplaced, Found, First
  <2>2. \A t : Sig(t)' = Sig(t)
    BY <1>1 DEF Sig
  <2>3. Reconcile
    BY DEF ReconcileInv
  <2>4. QED
    BY <1>1, <1>4, <2>1, <2>2, <2>3 DEF Reconcile, Matches
<1>10. StreamsOwn'
  <2>1. CASE ~synced'
    BY <2>1 DEF StreamsOwn
  <2>2. CASE synced'
    <3>1. \A j \in Keys : j \in Enabled' <=> j \in Enabled
      BY <1>4, <1>5, <2>2 DEF Enabled
    <3>2. \A j \in Enabled : RecipeOf(j)' = RecipeOf(j)
      BY <1>1, <1>4 DEF RecipeOf, Enabled
    <3>3. Enabled \subseteq Keys /\ Enabled' \subseteq Keys
      BY DEF Enabled
    <3>4. synced /\ StreamsOwn
      BY <1>5, <2>2 DEF ReconcileInv
    <3>5. \A j \in Enabled' : \E st \in streams' : st.recipe = RecipeOf(j)'
      BY <1>1, <3>1, <3>2, <3>3, <3>4 DEF StreamsOwn
    <3>6. \A st \in streams' : st.recipe.key \in Enabled' /\ st.obj = live'[st.recipe.key].obj
      BY <1>1, <1>4, <3>1, <3>3, <3>4 DEF StreamsOwn, Enabled
    <3>7. QED
      BY <3>5, <3>6 DEF StreamsOwn
  <2>3. QED
    BY <2>1, <2>2
<1>11. QED
  BY <1>2, <1>3, <1>6, <1>8, <1>9, <1>10 DEF ReconcileInv

LEMMA SyncKeeps ==
  ASSUME ReconcileInv, Sync
  PROVE  ReconcileInv' /\ UNCHANGED <<config, disk, live, builds, generation, fresh>>
<1> DEFINE old == {s \in streams : \E k \in Enabled : s.recipe = RecipeOf(k)}
           missing == {j \in Enabled : \A s \in streams : s.recipe # RecipeOf(j)}
           new == {[recipe |-> RecipeOf(k), obj |-> live[k].obj] : k \in missing}
<1>1. /\ synced' = TRUE /\ streams' = old \cup new
      /\ UNCHANGED <<config, disk, live, builds, generation, fresh>>
  BY DEF Sync
<1>2. TypeOK /\ StreamsBehind /\ Reconcile
  BY DEF ReconcileInv
<1>3. ASSUME NEW k \in Enabled
      PROVE  /\ k \in Keys /\ live[k] \in Entry /\ live[k] # NONE
             /\ RecipeOf(k) \in Recipe /\ RecipeOf(k).key = k /\ RecipeOf(k).gen = generation[k]
  BY <1>2 DEF TypeOK, Enabled, RecipeOf, Recipe, Entry, Types
<1>4. \A st \in new : \E k \in missing : st.recipe = RecipeOf(k) /\ st.obj = live[k].obj
  OBVIOUS
<1>5. \A st \in old \cup new :
        \E k \in Enabled : st.recipe = RecipeOf(k) /\ st.obj = live[k].obj
  <2>1. ASSUME NEW st \in old
        PROVE  \E k \in Enabled : st.recipe = RecipeOf(k) /\ st.obj = live[k].obj
    <3>1. PICK k \in Enabled : st.recipe = RecipeOf(k)
      OBVIOUS
    <3>2. st \in streams
      OBVIOUS
    <3>3. st.obj = live[k].obj
      BY <1>2, <1>3, <3>1, <3>2 DEF StreamsBehind
    <3>4. QED
      BY <3>1, <3>3
  <2>2. missing \subseteq Enabled
    OBVIOUS
  <2> HIDE DEF old, new, missing
  <2>3. QED
    BY <1>4, <2>1, <2>2
<1>6. \A k \in Enabled : \E st \in old \cup new : st.recipe = RecipeOf(k)
  <2> TAKE k \in Enabled
  <2>1. CASE k \in missing
    <3>1. [recipe |-> RecipeOf(k), obj |-> live[k].obj] \in new
      BY <2>1
    <3>2. [recipe |-> RecipeOf(k), obj |-> live[k].obj].recipe = RecipeOf(k)
      OBVIOUS
    <3> HIDE DEF old, new
    <3>3. QED
      BY <3>1, <3>2
  <2>2. CASE k \notin missing
    BY <2>2
  <2>3. QED
    BY <2>1, <2>2
<1>7. new \subseteq Stream
  <2>1. ASSUME NEW k \in missing
        PROVE  [recipe |-> RecipeOf(k), obj |-> live[k].obj] \in Stream
    BY <1>3 DEF Stream, Entry
  <2>2. QED
    BY <2>1
<1> HIDE DEF old, new, missing
<1>8. streams' \subseteq Stream
  BY <1>1, <1>2, <1>7 DEF TypeOK, old
<1>9. TypeOK'
  BY <1>1, <1>2, <1>8 DEF TypeOK
<1>10. StreamsBehind'
  <2>1. ASSUME NEW st \in streams'
        PROVE  st.recipe.gen <= generation[st.recipe.key] /\ st.obj = live[st.recipe.key].obj
    <3>1. PICK k \in Enabled : st.recipe = RecipeOf(k) /\ st.obj = live[k].obj
      BY <1>1, <1>5
    <3>2. generation[k] \in Nat
      BY <1>2, <1>3, ModulesAssumption DEF TypeOK
    <3>3. QED
      BY <1>3, <3>1, <3>2
  <2>2. QED
    BY <1>1, <2>1 DEF StreamsBehind
<1>11. Enabled' = Enabled /\ \A k \in Enabled : RecipeOf(k)' = RecipeOf(k)
  BY <1>1 DEF Enabled, RecipeOf
<1>12. StreamsOwn'
  <2>1. \A k \in Enabled' : \E st \in streams' : st.recipe = RecipeOf(k)'
    BY <1>1, <1>6, <1>11
  <2>2. \A st \in streams' : st.recipe.key \in Enabled' /\ st.obj = live'[st.recipe.key].obj
    BY <1>1, <1>3, <1>5, <1>11
  <2>3. QED
    BY <2>1, <2>2 DEF StreamsOwn
<1>13. Reconcile'
  <2>1. \A j \in Keys : SpecOf(config, j)' = SpecOf(config, j)
    BY <1>1 DEF SpecOf, Places, IsModule, Unplaced, Found, First
  <2>2. \A t : Sig(t)' = Sig(t)
    BY <1>1 DEF Sig
  <2>3. QED
    BY <1>1, <1>2, <2>1, <2>2 DEF Reconcile, Matches
<1>14. QED
  BY <1>1, <1>9, <1>10, <1>12, <1>13 DEF ReconcileInv

(* A file is written over or removed: what the bar runs stays as it is. *)
LEMMA DiskKeeps ==
  ASSUME ReconcileInv, NEW w \in Plugins, Deploy(w) \/ Remove(w)
  PROVE  /\ ReconcileInv'
         /\ fresh' = FALSE /\ UNCHANGED <<config, live, builds, generation, streams, synced>>
         /\ \A v \in Plugins : v # w => disk'[v] = disk[v]
         /\ \/ disk'[w].mtime = disk[w].mtime + 1
            \/ disk'[w].mtime = disk[w].mtime /\ ~disk'[w].there
<1>1. fresh' = FALSE /\ UNCHANGED <<config, live, builds, generation, streams, synced>>
  BY DEF Deploy, Remove
<1>2. TypeOK /\ StreamsBehind /\ StreamsOwn
  BY DEF ReconcileInv
<1>3. disk[w] \in [mtime : 1 .. MaxMtime, there : BOOLEAN]
  BY <1>2 DEF TypeOK
<1>4. /\ disk' \in [Plugins -> [mtime : 1 .. MaxMtime, there : BOOLEAN]]
      /\ \A v \in Plugins : v # w => disk'[v] = disk[v]
      /\ \/ disk'[w].mtime = disk[w].mtime + 1
         \/ disk'[w].mtime = disk[w].mtime /\ ~disk'[w].there
  <2>1. CASE Deploy(w)
    <3>1. disk' = [disk EXCEPT ![w] = [mtime |-> disk[w].mtime + 1, there |-> TRUE]]
      BY <2>1 DEF Deploy
    <3>2. disk[w].mtime + 1 \in 1 .. MaxMtime
      BY <1>3, <2>1, ModulesAssumption DEF Deploy
    <3>3. QED
      BY <1>2, <3>1, <3>2 DEF TypeOK
  <2>2. CASE Remove(w)
    <3>1. disk' = [disk EXCEPT ![w] = [disk[w] EXCEPT !.there = FALSE]]
      BY <2>2 DEF Remove
    <3>2. /\ [disk[w] EXCEPT !.there = FALSE] \in [mtime : 1 .. MaxMtime, there : BOOLEAN]
          /\ [disk[w] EXCEPT !.there = FALSE].mtime = disk[w].mtime
          /\ [disk[w] EXCEPT !.there = FALSE].there = FALSE
      BY <1>3
    <3>3. QED
      BY <1>2, <3>1, <3>2 DEF TypeOK
  <2>3. QED
    BY <2>1, <2>2
<1>5. TypeOK'
  BY <1>1, <1>2, <1>4 DEF TypeOK
<1>6. StreamsBehind'
  BY <1>1, <1>2 DEF StreamsBehind
<1>7. StreamsOwn'
  BY <1>1, <1>2 DEF StreamsOwn, Enabled, RecipeOf
<1>8. Reconcile'
  BY <1>1 DEF Reconcile
<1>9. QED
  BY <1>1, <1>4, <1>5, <1>6, <1>7, <1>8 DEF ReconcileInv

(* What an instance may have loaded, over a step.  Where the time of the    *)
(* file is that of the build, the placement and the instance are of one     *)
(* plugin, because the key is.                                              *)
LEMMA FilesKeep ==
  ASSUME OnePluginAKey, ReconcileInv, FilesInv, Next
  PROVE  FilesInv'
<1>1. TypeOK
  BY DEF ReconcileInv
<1>2. ASSUME NEW c \in Configs, Reload(c), NEW k \in Keys
      PROVE  FileOf(k)'
  <2> DEFINE s == SpecOf(c, k)
  <2>1. disk' = disk
    BY <1>2 DEF Reload
  <2> SUFFICES ASSUME live'[k] # NONE, live'[k].type \in Plugins
               PROVE  /\ live'[k].type \in PluginsOf(k)
                      /\ live'[k].sig \in Nat \ {0} /\ live'[k].sig <= disk[live'[k].type].mtime
                      /\ Sig(live'[k].type) = live'[k].sig
                      /\ live'[k].bytes \in {NONE, live'[k].sig}
    BY <2>1 DEF FileOf, Sig
  <2>2. /\ s # NONE /\ live'[k].sig = Sig(s.type)
        /\ Builds(k, s) => live'[k] = NewEntry(k, s)
        /\ ~Builds(k, s) =>
             /\ live[k] # NONE
             /\ live'[k].type = live[k].type /\ live'[k].sig = live[k].sig /\ live'[k].bytes = live[k].bytes
    BY <1>1, <1>2, ReloadKey
  <2>3. /\ s.type \in Builtins \cup Found
        /\ s.type \in Plugins => s.type \in PluginsOf(k)
    BY <1>2, <2>2, SpecSound
  <2>4. /\ Sig(s.type) \in 0 .. MaxMtime
        /\ s.type \in Found => Sig(s.type) = disk[s.type].mtime /\ Sig(s.type) # 0
        /\ s.type \notin Found => Sig(s.type) = 0
    BY <1>1, SigType DEF TypeOK
  <2>5. Found \subseteq Plugins
    BY DEF Found
  <2>6. CASE Builds(k, s)
    <3>1. live'[k].type = s.type /\ live'[k].bytes = NONE
      BY <2>2, <2>6 DEF NewEntry
    <3>2. s.type \in Found
      BY <2>3, <3>1, ModulesAssumption
    <3>3. disk[s.type].mtime \in Nat
      BY <1>1, <2>5, <3>2, ModulesAssumption DEF TypeOK
    <3> HIDE DEF s
    <3>4. QED
      BY <2>2, <2>3, <2>4, <2>5, <3>1, <3>2, <3>3
  <2>7. CASE ~Builds(k, s)
    <3>1. /\ live[k].type \in PluginsOf(k)
          /\ live[k].sig \in Nat \ {0} /\ live[k].sig <= disk[live[k].type].mtime
          /\ Sig(live[k].type) = live[k].sig => live[k].bytes \in {NONE, live[k].sig}
      BY <1>2, <2>2, <2>7 DEF FilesInv, FileOf
    <3>2. s.type \in Found
      BY <2>2, <2>4, <2>7, <3>1
    <3>3. s.type = live[k].type
      BY <2>3, <2>5, <3>1, <3>2 DEF OnePluginAKey
    <3> HIDE DEF s
    <3>4. QED
      BY <2>2, <2>7, <3>1, <3>3
  <2>8. QED
    BY <2>6, <2>7
<1>3. ASSUME NEW k \in Keys, Panic(k) \/ LoadBytes(k), NEW j \in Keys
      PROVE  FileOf(j)'
  <2>1. /\ \A i \in Keys : i # k => live'[i] = live[i]
        /\ live[k] # NONE /\ live'[k].type = live[k].type /\ live'[k].sig = live[k].sig
    BY <1>3, EntryKeeps
  <2>2. disk' = disk /\ fresh' = fresh
    BY <1>3 DEF Panic, LoadBytes
  <2>3. FileOf(j)
    BY DEF FilesInv
  <2>4. CASE j # k
    BY <2>1, <2>2, <2>3, <2>4 DEF FileOf, Sig
  <2>5. CASE j = k
    <3>1. live[k] \in Entry
      BY <1>1, <2>1 DEF TypeOK
    <3>2. live'[k].bytes \in {live[k].bytes, Sig(live[k].type)}
      <4>1. CASE Panic(k)
        <5>1. live'[k] = [live[k] EXCEPT !.disabled = TRUE]
          BY <1>1, <4>1 DEF Panic, TypeOK
        <5>2. QED
          BY <3>1, <5>1 DEF Entry
      <4>2. CASE LoadBytes(k)
        <5>1. live'[k] = [live[k] EXCEPT !.bytes = Sig(live[k].type)]
          BY <1>1, <4>2 DEF LoadBytes, TypeOK
        <5>2. QED
          BY <3>1, <5>1 DEF Entry
      <4>3. QED
        BY <1>3, <4>1, <4>2
    <3>3. QED
      BY <2>1, <2>2, <2>3, <2>5, <3>2 DEF FileOf, Sig
  <2>6. QED
    BY <2>4, <2>5
<1>4. ASSUME NEW w \in Plugins, Deploy(w) \/ Remove(w), NEW k \in Keys
      PROVE  FileOf(k)'
  <2>1. /\ fresh' = FALSE /\ live' = live
        /\ \A v \in Plugins : v # w => disk'[v] = disk[v]
        /\ \/ disk'[w].mtime = disk[w].mtime + 1
           \/ disk'[w].mtime = disk[w].mtime /\ ~disk'[w].there
    BY <1>4, DiskKeeps
  <2>2. FileOf(k) /\ disk[w].mtime \in Nat
    BY <1>1, ModulesAssumption DEF FilesInv, TypeOK
  <2>3. CASE live[k] # NONE /\ live[k].type = w
    <3>1. Sig(w)' \in {disk[w].mtime + 1, 0} \/ (Sig(w)' = 0)
      BY <2>1 DEF Sig
    <3>2. live[k].sig \in Nat \ {0} /\ live[k].sig <= disk[w].mtime /\ live[k].type \in PluginsOf(k)
      BY <2>2, <2>3 DEF FileOf
    <3>3. Sig(w)' # live[k].sig /\ live[k].sig <= disk'[w].mtime
      BY <2>1, <2>2, <3>1, <3>2
    <3>4. QED
      BY <2>1, <2>3, <3>2, <3>3 DEF FileOf
  <2>4. CASE ~(live[k] # NONE /\ live[k].type = w)
    BY <2>1, <2>2, <2>4 DEF FileOf, Sig
  <2>5. QED
    BY <2>3, <2>4
<1>5. ASSUME Sync PROVE FilesInv'
  BY <1>5, SyncKeeps DEF FilesInv, FileOf, Sig
<1>6. QED
  BY <1>2, <1>3, <1>4, <1>5 DEF Next, FilesInv

-----------------------------------------------------------------------------
(* The theorems *)

LEMMA NextKeeps == ReconcileInv /\ [Next]_vars => ReconcileInv'
<1> SUFFICES ASSUME ReconcileInv, [Next]_vars PROVE ReconcileInv'
  OBVIOUS
<1>1. ASSUME NEW c \in Configs, Reload(c) PROVE ReconcileInv'
  BY <1>1, ReloadKeeps
<1>2. ASSUME NEW k \in Keys, Panic(k) \/ LoadBytes(k) PROVE ReconcileInv'
  BY <1>2, EntryKeeps
<1>3. ASSUME NEW w \in Plugins, Deploy(w) \/ Remove(w) PROVE ReconcileInv'
  BY <1>3, DiskKeeps
<1>4. ASSUME Sync PROVE ReconcileInv'
  BY <1>4, SyncKeeps
<1>5. CASE UNCHANGED vars
  <2>1. UNCHANGED <<config, disk, live, builds, generation, streams, synced, fresh>>
    BY <1>5 DEF vars
  <2>2. /\ \A k \in Keys : SpecOf(config, k)' = SpecOf(config, k)
        /\ \A t : Sig(t)' = Sig(t)
    BY <2>1 DEF SpecOf, Places, IsModule, Unplaced, Found, First, Sig
  <2>3. Reconcile'
    BY <2>1, <2>2 DEF ReconcileInv, Reconcile, Matches
  <2>4. TypeOK' /\ StreamsBehind' /\ StreamsOwn'
    BY <2>1 DEF ReconcileInv, TypeOK, StreamsBehind, StreamsOwn, Enabled, RecipeOf
  <2>5. QED
    BY <2>3, <2>4 DEF ReconcileInv
<1>6. QED
  BY <1>1, <1>2, <1>3, <1>4, <1>5 DEF Next

LEMMA Reconciles == Spec => []ReconcileInv
<1>1. Init => ReconcileInv
  BY InitInv
<1>2. QED
  BY <1>1, NextKeeps, PTL DEF Spec

(* Whatever is reloaded, deployed, removed, panics or loads late: once iced *)
(* has looked, every module that runs has a stream of its own and no stream *)
(* outlives its instance.                                                   *)
THEOREM ModulesStreamsOwn == Spec => []StreamsOwn
<1>1. ReconcileInv => StreamsOwn
  BY DEF ReconcileInv
<1>2. QED
  BY <1>1, Reconciles, PTL

(* And where no key goes from one plugin to another, every plugin runs, or  *)
(* is about to load, the bytes on disk after a reload.                      *)
THEOREM ModulesInstancesSound ==
  ASSUME OnePluginAKey
  PROVE  Spec => []InstancesSound
<1>1. Init => ReconcileInv /\ FilesInv
  BY InitInv
<1>2. ReconcileInv /\ FilesInv /\ [Next]_vars => ReconcileInv' /\ FilesInv'
  <2>1. ReconcileInv /\ FilesInv /\ Next => FilesInv'
    BY FilesKeep
  <2>2. FilesInv /\ UNCHANGED vars => FilesInv'
    BY DEF FilesInv, FileOf, Sig, vars
  <2>3. QED
    BY <2>1, <2>2, NextKeeps
<1>3. ReconcileInv /\ FilesInv => InstancesSound
  <2>1. FilesInv => FreshBytes
    BY DEF FilesInv, FileOf, FreshBytes
  <2>2. QED
    BY <2>1 DEF ReconcileInv, InstancesSound
<1>4. QED
  BY <1>1, <1>2, <1>3, PTL DEF Spec

(* A reload of what has not changed builds nothing and subscribes nothing   *)
(* anew.                                                                    *)
THEOREM ModulesIdempotent == Spec => Idempotent
<1>1. ReconcileInv /\ [Next]_vars =>
        [fresh /\ fresh' /\ config' = config => builds' = builds /\ generation' = generation]_vars
  <2> SUFFICES ASSUME ReconcileInv, Next, fresh, config' = config
               PROVE  builds' = builds /\ generation' = generation
    OBVIOUS
  <2>1. ASSUME NEW c \in Configs, Reload(c)
        PROVE  builds' = builds /\ generation' = generation
    <3>1. c = config
      BY <2>1 DEF Reload
    <3>2. \A k \in Keys : SpecOf(c, k) # NONE => Keeps(k, SpecOf(c, k))
      BY <3>1 DEF ReconcileInv, Reconcile, Matches, Keeps
    <3>3. \A k \in Keys : SpecOf(c, k) # NONE =>
            ~Builds(k, SpecOf(c, k)) /\ \A R : ~Rekeys(k, SpecOf(c, k), R)
      BY <3>2 DEF Builds, AdoptsCfg, Rekeys
    <3>4. builds \in [Keys -> 0 .. MaxBuilds] /\ generation \in [Keys -> 0 .. MaxBuilds]
      BY DEF ReconcileInv, TypeOK
    <3>5. builds' = [k \in Keys |-> builds[k]]
      BY <2>1, <3>3 DEF Reload
    <3>6. generation' = [k \in Keys |-> generation[k]]
      BY <2>1, <3>3 DEF Reload
    <3>7. QED
      BY <3>4, <3>5, <3>6
  <2>2. QED
    BY <2>1 DEF Next, Panic, LoadBytes, Deploy, Remove, Sync
<1>2. QED
  BY <1>1, Reconciles, PTL DEF Spec, Idempotent

-----------------------------------------------------------------------------
(* The old tray protocol *)

Steps == {"reparent", "redirect", "letgo", "takeout", "gone"}
XEvents == ({"dock", "here", "destroy", "reparent"} \X Clients) \cup {<<"clear", NOBODY>>}

(* An event tells that window c is no longer in the container. *)
News(c) == {<<"destroy", c>>, <<"reparent", c>>}
Has(q, c) == \E i \in DOMAIN q : q[i] \in News(c)

(* The types of XTray. *)
XTypes ==
  /\ parent \in [Clients -> Workers \cup {Root, Other, Dead}]
  /\ host \in [Workers -> {"none", "checked", "open", "closing", "over"}]
  /\ icons \in [Workers -> SUBSET Clients]
  /\ job \in [Workers -> (Steps \X Clients) \cup {Idle}]
  /\ xevents \in [Workers -> Seq(XEvents)]

(* A worker without a window on the server has no icons; what it takes in   *)
(* is an icon from the start; a window in its container is an icon or being *)
(* taken out; and of an icon that is not in it the worker is at work on it, *)
(* or will read.                                                            *)
Shut(w) == host[w] \notin {"open", "closing"} => icons[w] = {} /\ job[w] = Idle
Entered(w) ==
  \A c \in Clients :
    /\ job[w] \in {<<"reparent", c>>, <<"redirect", c>>} => c \in icons[w]
    /\ job[w] = <<"takeout", c>> => c \notin icons[w]
Held(w, c) == parent[c] = w => c \in icons[w] \/ job[w] = <<"takeout", c>>
Told(w, c) ==
  host[w] = "open" /\ c \in icons[w] /\ parent[c] # w =>
    job[w] \in {<<"reparent", c>>, <<"letgo", c>>} \/ Has(xevents[w], c)

XTrayInv ==
  /\ XTypes
  /\ \A w \in Workers : Shut(w) /\ Entered(w) /\ \A c \in Clients : Held(w, c) /\ Told(w, c)

-----------------------------------------------------------------------------
(* News stays news when more comes in, and until it is read. *)
LEMMA HasAppend ==
  ASSUME NEW q \in Seq(XEvents), NEW x \in XEvents, NEW c \in Clients,
         Has(q, c) \/ x \in News(c)
  PROVE  Has(Append(q, x), c)
  BY DEF Has

(* Reading what is no news of c leaves the news of c. *)
LEMMA HasTail ==
  ASSUME NEW q \in Seq(XEvents), q # <<>>, NEW c \in Clients, Has(q, c), Head(q) \notin News(c)
  PROVE  Has(Tail(q), c)
<1>1. PICK i \in DOMAIN q : q[i] \in News(c)
  BY DEF Has
<1>2. i \in 1 .. Len(q) /\ i # 1
  BY <1>1
<1>3. i - 1 \in DOMAIN Tail(q) /\ Tail(q)[i - 1] = q[i]
  BY <1>2
<1>4. QED
  BY <1>1, <1>3 DEF Has

(* What is outdated stays read in order, and news stays news. *)
LEMMA HasOutdated ==
  ASSUME NEW q \in Seq(XEvents), NEW c \in Clients
  PROVE  /\ Outdated(q, c) \in Seq(XEvents)
         /\ \A d \in Clients : Has(q, d) => Has(Outdated(q, c), d)
<1>1. <<"reparent", c>> \in XEvents /\ \A d : <<"here", c>> \notin News(d)
  BY DEF XEvents, News
<1>2. DOMAIN q = 1 .. Len(q) /\ Len(q) \in Nat /\ \A i \in DOMAIN q : q[i] \in XEvents
  OBVIOUS
<1>3. /\ DOMAIN Outdated(q, c) = DOMAIN q
      /\ \A i \in DOMAIN q :
           Outdated(q, c)[i] = IF q[i] = <<"here", c>> THEN <<"reparent", c>> ELSE q[i]
  BY DEF Outdated
<1>4. Outdated(q, c) \in [1 .. Len(q) -> XEvents]
  BY <1>1, <1>2 DEF Outdated
<1>5. Outdated(q, c) \in Seq(XEvents)
  BY <1>2, <1>4
<1>6. ASSUME NEW d \in Clients, Has(q, d) PROVE Has(Outdated(q, c), d)
  <2>1. PICK i \in DOMAIN q : q[i] \in News(d)
    BY <1>6 DEF Has
  <2>2. Outdated(q, c)[i] = q[i]
    BY <1>1, <1>3, <2>1
  <2>3. QED
    BY <1>3, <2>1, <2>2 DEF Has
<1>7. QED
  BY <1>5, <1>6

(* What the server tells of window c reaches the workers that hear of it,   *)
(* and takes nothing from what they are to read.                            *)
LEMMA Telling ==
  ASSUME XTypes, NEW c \in Clients, NEW e \in {"destroy", "reparent"}, NEW taker, Tell(c, e, taker)
  PROVE  /\ xevents' \in [Workers -> Seq(XEvents)]
         /\ \A w \in Workers, d \in Clients : Has(xevents[w], d) => Has(xevents'[w], d)
         /\ \A w \in Hearing(c) : w # taker => Has(xevents'[w], c)
<1>1. <<e, c>> \in XEvents /\ <<"here", c>> \in XEvents /\ <<e, c>> \in News(c)
  BY DEF News, XEvents
<1>2. \A w \in Workers :
        xevents'[w] = IF w = taker THEN Append(xevents[w], <<"here", c>>)
                      ELSE IF w \in Hearing(c) THEN Append(xevents[w], <<e, c>>) ELSE xevents[w]
  BY DEF Tell
<1>3. xevents' \in [Workers -> Seq(XEvents)]
  BY <1>1 DEF Tell, XTypes
<1>4. ASSUME NEW w \in Workers, NEW d \in Clients,
             Has(xevents[w], d) \/ (w \in Hearing(c) /\ w # taker /\ d = c)
      PROVE  Has(xevents'[w], d)
  <2>1. xevents[w] \in Seq(XEvents)
    BY DEF XTypes
  <2>2. CASE w = taker
    <3>1. Has(Append(xevents[w], <<"here", c>>), d)
      BY <1>1, <1>4, <2>1, <2>2, HasAppend
    <3>2. QED
      BY <1>2, <2>2, <3>1
  <2>3. CASE w # taker /\ w \in Hearing(c)
    <3>1. Has(Append(xevents[w], <<e, c>>), d)
      BY <1>1, <1>4, <2>1, HasAppend
    <3>2. QED
      BY <1>2, <2>3, <3>1
  <2>4. CASE w # taker /\ w \notin Hearing(c)
    BY <1>2, <1>4, <2>4
  <2>5. QED
    BY <2>2, <2>3, <2>4
<1>5. Hearing(c) \subseteq Workers
  BY DEF Hearing
<1>6. QED
  BY <1>3, <1>4, <1>5

(* It holds at first. *)
LEMMA XTrayInitInv == XTrayInit => XTrayInv
  BY XTrayAssumption DEF XTrayInit, XTrayInv, XTypes, Shut, Entered, Held, Told, Idle, Steps, XEvents

(* When window c changes place and the server tells of it, the invariant is *)
(* kept for every other window, and for c with every worker but the one     *)
(* that gets it.                                                            *)
LEMMA Stirs ==
  ASSUME XTrayInv, NEW c \in Clients, NEW e \in {"destroy", "reparent"}, NEW taker, Tell(c, e, taker),
         NEW t \in Workers \cup {Root, Other, Dead}, parent' = [parent EXCEPT ![c] = t],
         NEW w \in Workers, NEW d \in Clients, (w # t /\ w # taker) \/ d # c,
         host'[w] = host[w], icons'[w] = icons[w], job'[w] = job[w]
  PROVE  Held(w, d)' /\ Told(w, d)'
<1>1. Held(w, d) /\ Told(w, d) /\ Shut(w)
  BY DEF XTrayInv
<1>2. parent'[d] = IF d = c THEN t ELSE parent[d]
  BY DEF XTrayInv, XTypes
<1>3. Held(w, d)'
  BY <1>1, <1>2 DEF Held
<1>4. Told(w, d)'
  <2>1. Has(xevents[w], d) => Has(xevents'[w], d)
    BY Telling DEF XTrayInv
  <2>2. CASE d = c
    <3>1. ASSUME host[w] = "open", parent[c] = w PROVE Has(xevents'[w], c)
      BY <2>2, <3>1, Telling DEF XTrayInv, Hearing
    <3>2. QED
      BY <2>2, <3>1, <1>1, <1>2, <2>1 DEF Told
  <2>3. CASE d # c
    BY <1>1, <1>2, <2>1, <2>3 DEF Told
  <2>4. QED
    BY <2>2, <2>3
<1>5. QED
  BY <1>3, <1>4

-----------------------------------------------------------------------------
(* The steps *)

(* What clients and the other tray do to a window. *)
LEMMA ClientKeeps ==
  ASSUME XTrayInv, NEW c \in Clients, AskDock(c) \/ Destroy(c) \/ Leave(c, Other) \/ Leave(c, Root)
  PROVE  XTrayInv'
<1>1. CASE AskDock(c)
  <2>1. /\ XTypes'
        /\ \A w \in Workers, d \in Clients : Has(xevents[w], d) => Has(xevents'[w], d)
    <3>1. <<"dock", c>> \in XEvents
      BY DEF XEvents
    <3>2. \A w \in Workers : xevents[w] \in Seq(XEvents)
      BY DEF XTrayInv, XTypes
    <3>3. \A w \in Workers : xevents'[w] = IF w = owner THEN Append(xevents[w], <<"dock", c>>) ELSE xevents[w]
      BY <1>1 DEF AskDock, XTrayInv, XTypes
    <3>4. XTypes'
      BY <1>1, <3>1, <3>2 DEF AskDock, Move, server, XTrayInv, XTypes
    <3>5. ASSUME NEW w \in Workers, NEW d \in Clients, Has(xevents[w], d)
          PROVE  Has(xevents'[w], d)
      <4>1. Has(Append(xevents[w], <<"dock", c>>), d)
        BY <3>1, <3>2, <3>5, HasAppend
      <4>2. QED
        BY <3>3, <3>5, <4>1
    <3>6. QED
      BY <3>4, <3>5
  <2>2. \A w \in Workers : Shut(w)' /\ Entered(w)' /\ \A d \in Clients : Held(w, d)' /\ Told(w, d)'
    BY <1>1, <2>1 DEF AskDock, Move, server, XTrayInv, Shut, Entered, Held, Told
  <2>3. QED
    BY <2>1, <2>2 DEF XTrayInv
<1>2. ASSUME NEW e \in {"destroy", "reparent"}, NEW t \in {Root, Other, Dead}, Tell(c, e, NOBODY),
             parent' = [parent EXCEPT ![c] = t], UNCHANGED <<host, icons, selected, job>>
      PROVE  XTrayInv'
  <2>1. XTypes'
    BY <1>2, Telling DEF XTrayInv, XTypes
  <2>2. \A w \in Workers : Shut(w)' /\ Entered(w)'
    BY <1>2 DEF XTrayInv, Shut, Entered
  <2>3. \A w \in Workers, d \in Clients : Held(w, d)' /\ Told(w, d)'
    <3>1. t \in Workers \cup {Root, Other, Dead} /\ \A w \in Workers : w # t /\ w # NOBODY
      BY XTrayAssumption DEF XTrayAssumption
    <3>2. \A w \in Workers : host'[w] = host[w] /\ icons'[w] = icons[w] /\ job'[w] = job[w]
      BY <1>2
    <3>3. \A w \in Workers, d \in Clients : (w # t /\ w # NOBODY) \/ d # c
      BY <3>1
    <3>4. QED
      <4>1. TAKE w \in Workers, d \in Clients
      <4>2. QED
        BY <1>2, <3>1, <3>2, <3>3, Stirs
  <2>4. QED
    BY <2>1, <2>2, <2>3 DEF XTrayInv
<1>3. CASE Destroy(c)
  BY <1>2, <1>3 DEF Destroy, Move
<1>4. CASE Leave(c, Other) \/ Leave(c, Root)
  BY <1>2, <1>4 DEF Leave, Move
<1>5. QED
  BY <1>1, <1>3, <1>4

(* The modules, and the selection, which may be lost. *)
LEMMA SelectionKeeps ==
  ASSUME XTrayInv,
         (\E m \in TrayModules : Acquire(m) \/ Release(m)) \/ OtherTray \/ OtherSteals
  PROVE  XTrayInv'
<1>1. CASE \E m \in TrayModules : Acquire(m) \/ Release(m)
  BY <1>1 DEF Acquire, Release, server, worker, XTrayInv, XTypes, Shut, Entered, Held, Told
<1>2. CASE OtherTray
  BY <1>2 DEF OtherTray, Move, XTrayInv, XTypes, Shut, Entered, Held, Told
<1>3. CASE OtherSteals
  <2>1. <<"clear", NOBODY>> \in XEvents
    BY DEF XEvents
  <2>2. \A w \in Workers : xevents[w] \in Seq(XEvents)
    BY DEF XTrayInv, XTypes
  <2>3. \A w \in Workers :
          xevents'[w] = IF w = owner THEN Append(xevents[w], <<"clear", NOBODY>>) ELSE xevents[w]
    BY <1>3 DEF OtherSteals, XTrayInv, XTypes
  <2>4. XTypes'
    BY <1>3, <2>1, <2>2 DEF OtherSteals, Move, XTrayInv, XTypes
  <2>5. \A w \in Workers, d \in Clients : Has(xevents[w], d) => Has(xevents'[w], d)
    BY <2>1, <2>2, <2>3, HasAppend
  <2>6. QED
    BY <1>3, <2>4, <2>5 DEF OtherSteals, Move, XTrayInv, Shut, Entered, Held, Told
<1>4. QED
  BY <1>1, <1>2, <1>3

(* A worker claims the selection, or gives up. *)
LEMMA OpenKeeps ==
  ASSUME XTrayInv, NEW w \in Workers, OpenLooks(w) \/ OpenClaims(w) \/ Ends(w)
  PROVE  XTrayInv'
<1>1. /\ UNCHANGED <<parent, icons, job>>
      /\ \A v \in Workers \ {w} : host'[v] = host[v] /\ xevents'[v] = xevents[v]
      /\ icons[w] = {} /\ job[w] = Idle
  <2>1. CASE OpenLooks(w)
    BY <2>1 DEF OpenLooks, XTrayInv, XTypes, Shut, server
  <2>2. CASE OpenClaims(w)
    BY <2>2 DEF OpenClaims, XTrayInv, XTypes, Shut
  <2>3. CASE Ends(w)
    BY <2>3 DEF Ends, XTrayInv, XTypes
  <2>4. QED
    BY <2>1, <2>2, <2>3
<1>2. icons'[w] = {} /\ job'[w] = Idle
  BY <1>1
<1>3. XTypes'
  <2>1. CASE OpenLooks(w)
    BY <2>1 DEF OpenLooks, XTrayInv, XTypes, server
  <2>2. CASE OpenClaims(w)
    BY <2>2 DEF OpenClaims, XTrayInv, XTypes
  <2>3. CASE Ends(w)
    <3>1. <<>> \in Seq(XEvents)
      OBVIOUS
    <3>2. QED
      BY <2>3, <3>1 DEF Ends, XTrayInv, XTypes
  <2>4. QED
    BY <2>1, <2>2, <2>3
<1>4. \A v \in Workers : Shut(v)' /\ Entered(v)'
  BY <1>1, <1>2 DEF XTrayInv, Shut, Entered
<1>5. \A v \in Workers, d \in Clients : Held(v, d)' /\ Told(v, d)'
  <2>1. TAKE v \in Workers, d \in Clients
  <2>2. Held(v, d)'
    BY <1>1 DEF XTrayInv, Held
  <2>3. CASE v = w
    BY <1>2, <2>2, <2>3 DEF Told
  <2>4. CASE v # w
    BY <1>1, <2>2, <2>4 DEF Told, XTrayInv
  <2>5. QED
    BY <2>3, <2>4, <2>2
<1>6. QED
  BY <1>3, <1>4, <1>5 DEF XTrayInv

(* A worker takes a window in. *)
LEMMA EmbedKeeps ==
  ASSUME XTrayInv, NEW w \in Workers, EmbedReparents(w) \/ EmbedRedirects(w)
  PROVE  XTrayInv'
<1> DEFINE c == Icon(w)
<1>1. /\ c \in Clients /\ c \in icons[w]
      /\ job[w] \in {<<"reparent", c>>, <<"redirect", c>>}
      /\ host[w] \in {"open", "closing"}
  BY DEF EmbedReparents, EmbedRedirects, Doing, Icon, Steps, Idle, XTrayInv, XTypes, Entered
<1>2. \A v \in Workers \ {w} : job'[v] = job[v]
  BY DEF EmbedReparents, EmbedRedirects, EmbedFails, XTrayInv, XTypes
<1>3. UNCHANGED <<host, icons>>
  BY DEF EmbedReparents, EmbedRedirects
<1>4. CASE EmbedReparents(w) /\ parent[c] # Dead
  <2>1. /\ parent' = [parent EXCEPT ![c] = w] /\ Tell(c, "reparent", w)
        /\ job' = [job EXCEPT ![w] = <<"redirect", c>>]
    BY <1>4 DEF EmbedReparents
  <2>2. w \in Workers \cup {Root, Other, Dead}
    OBVIOUS
  <2>3. XTypes'
    <3>1. <<"redirect", c>> \in Steps \X Clients
      BY <1>1 DEF Steps
    <3>2. xevents' \in [Workers -> Seq(XEvents)]
      BY <1>1, <2>1, Telling DEF XTrayInv
    <3>3. QED
      BY <1>3, <2>1, <2>2, <3>1, <3>2 DEF XTrayInv, XTypes
  <2>4. job'[w] = <<"redirect", c>> /\ parent'[c] = w
    BY <1>1, <2>1 DEF XTrayInv, XTypes
  <2>5. \A v \in Workers : Shut(v)' /\ Entered(v)'
    BY <1>1, <1>2, <1>3, <2>4 DEF XTrayInv, Shut, Entered
  <2>6. \A v \in Workers \ {w}, d \in Clients : Held(v, d)' /\ Told(v, d)'
    <3>1. TAKE v \in Workers \ {w}, d \in Clients
    <3>2. host'[v] = host[v] /\ icons'[v] = icons[v] /\ job'[v] = job[v]
      BY <1>2, <1>3
    <3>3. ((v # w /\ v # w) \/ d # c) /\ "reparent" \in {"destroy", "reparent"} /\ v \in Workers
      OBVIOUS
    <3>4. QED
      BY <1>1, <2>1, <2>2, <3>2, <3>3, Stirs
  <2>7. \A d \in Clients : Held(w, d)' /\ Told(w, d)'
    <3>1. TAKE d \in Clients
    <3>2. CASE d = c
      BY <1>1, <1>3, <2>4, <3>2 DEF Held, Told
    <3>3. CASE d # c
      <4>1. parent'[d] = parent[d] /\ (Has(xevents[w], d) => Has(xevents'[w], d))
        BY <1>1, <2>1, <3>3, Telling DEF XTrayInv, XTypes
      <4>2. job[w] \notin {<<"reparent", d>>, <<"letgo", d>>, <<"takeout", d>>}
        BY <1>1, <3>3
      <4>3. Held(w, d) /\ Told(w, d)
        BY DEF XTrayInv
      <4>4. QED
        BY <1>3, <4>1, <4>2, <4>3 DEF Held, Told
    <3>4. QED
      BY <3>2, <3>3
  <2>8. QED
    BY <2>3, <2>5, <2>6, <2>7 DEF XTrayInv
<1>5. CASE ~(EmbedReparents(w) /\ parent[c] # Dead)
  <2>1. /\ UNCHANGED <<parent, xevents>>
        /\ \/ job' = [job EXCEPT ![w] = <<"letgo", c>>]
           \/ job[w] = <<"redirect", c>> /\ job' = [job EXCEPT ![w] = Idle]
    BY <1>1, <1>5 DEF EmbedReparents, EmbedRedirects, EmbedFails, Doing, server
  <2>2. XTypes'
    <3>1. <<"letgo", c>> \in Steps \X Clients
      BY <1>1 DEF Steps
    <3>2. job' \in [Workers -> (Steps \X Clients) \cup {Idle}]
      BY <2>1, <3>1 DEF XTrayInv, XTypes
    <3>3. QED
      BY <1>3, <2>1, <3>2 DEF XTrayInv, XTypes
  <2>3. \/ job'[w] = <<"letgo", c>>
        \/ job[w] = <<"redirect", c>> /\ job'[w] = Idle
    BY <2>1 DEF XTrayInv, XTypes
  <2>4. \A v \in Workers : Shut(v)' /\ Entered(v)'
    BY <1>1, <1>2, <1>3, <2>3 DEF XTrayInv, Shut, Entered, Idle
  <2>5. \A v \in Workers \ {w}, d \in Clients : Held(v, d)' /\ Told(v, d)'
    BY <1>2, <1>3, <2>1 DEF XTrayInv, Held, Told
  <2>6. \A d \in Clients : Held(w, d)' /\ Told(w, d)'
    <3>1. TAKE d \in Clients
    <3>2. Held(w, d) /\ Told(w, d)
      BY DEF XTrayInv
    <3>3. /\ job[w] \notin {<<"letgo", d>>, <<"takeout", d>>}
          /\ job[w] = <<"reparent", d>> => job'[w] = <<"letgo", d>>
      BY <1>1, <2>3
    <3>4. QED
      BY <1>3, <2>1, <3>2, <3>3 DEF Held, Told
  <2>7. QED
    BY <2>2, <2>4, <2>5, <2>6 DEF XTrayInv
<1>6. QED
  BY <1>4, <1>5

(* A worker lets a window go. *)
LEMMA RemoveKeeps ==
  ASSUME XTrayInv, NEW w \in Workers, RemoveLooks(w) \/ RemoveEnds(w)
  PROVE  XTrayInv'
<1> DEFINE c == Icon(w)
<1>1. /\ c \in Clients /\ host[w] \in {"open", "closing"}
      /\ RemoveLooks(w) => job[w] = <<"letgo", c>>
      /\ RemoveEnds(w) => job[w] \in {<<"takeout", c>>, <<"gone", c>>}
  BY DEF RemoveLooks, RemoveEnds, Doing, Icon, Steps, Idle, XTrayInv, XTypes
<1>2. \A v \in Workers \ {w} : job'[v] = job[v] /\ icons'[v] = icons[v]
  BY DEF RemoveLooks, RemoveEnds, XTrayInv, XTypes
<1>3. UNCHANGED host
  BY DEF RemoveLooks, RemoveEnds
<1>4. CASE RemoveLooks(w)
  <2>1. /\ icons'[w] = icons[w] \ {c}
        /\ job'[w] \in {<<"takeout", c>>, <<"gone", c>>}
        /\ parent[c] = w => job'[w] = <<"takeout", c>>
        /\ UNCHANGED parent /\ xevents' = [xevents EXCEPT ![w] = Outdated(@, c)]
    BY <1>4 DEF RemoveLooks, PutsBack, server, XTrayInv, XTypes
  <2> /\ xevents' \in [Workers -> Seq(XEvents)]
      /\ \A v \in Workers, d \in Clients : Has(xevents[v], d) => Has(xevents'[v], d)
    <3>1. xevents[w] \in Seq(XEvents)
      BY DEF XTrayInv, XTypes
    <3>2. /\ Outdated(xevents[w], c) \in Seq(XEvents)
          /\ \A d \in Clients : Has(xevents[w], d) => Has(Outdated(xevents[w], c), d)
      BY <1>1, <3>1, HasOutdated
    <3>3. \A v \in Workers : xevents'[v] = IF v = w THEN Outdated(xevents[w], c) ELSE xevents[v]
      BY <2>1 DEF XTrayInv, XTypes
    <3>4. xevents' \in [Workers -> Seq(XEvents)]
      BY <2>1, <3>2 DEF XTrayInv, XTypes
    <3>5. QED
      BY <3>2, <3>3, <3>4
  <2>2. XTypes'
    BY <1>1, <1>4, <1>3 DEF RemoveLooks, server, XTrayInv, XTypes, Steps
  <2>3. \A v \in Workers : Shut(v)' /\ Entered(v)'
    BY <1>1, <1>2, <1>3, <2>1 DEF XTrayInv, Shut, Entered
  <2>4. \A v \in Workers \ {w}, d \in Clients : Held(v, d)' /\ Told(v, d)'
    BY <1>2, <1>3, <2>1 DEF XTrayInv, Held, Told
  <2>5. \A d \in Clients : Held(w, d)' /\ Told(w, d)'
    BY <1>1, <1>3, <1>4, <2>1 DEF XTrayInv, Held, Told
  <2>6. QED
    BY <2>2, <2>3, <2>4, <2>5 DEF XTrayInv
<1>5. CASE RemoveEnds(w)
  <2>1. /\ job'[w] = Idle /\ UNCHANGED icons
        /\ job' \in [Workers -> (Steps \X Clients) \cup {Idle}]
    BY <1>5 DEF RemoveEnds, XTrayInv, XTypes
  <2>2. \A v \in Workers : Shut(v)' /\ Entered(v)'
    BY <1>1, <1>2, <1>3, <2>1 DEF XTrayInv, Shut, Entered, Idle
  <2>3. CASE job[w][1] = "takeout" /\ parent[c] # Dead
    <3>1. parent' = [parent EXCEPT ![c] = Root] /\ Tell(c, "reparent", NOBODY)
      BY <1>5, <2>3 DEF RemoveEnds
    <3>2. Root \notin Workers /\ NOBODY \notin Workers
      BY XTrayAssumption DEF XTrayAssumption
    <3>3. XTypes'
      BY <1>1, <1>3, <2>1, <3>1, <3>2, Telling DEF XTrayInv, XTypes
    <3>4. \A v \in Workers \ {w}, d \in Clients : Held(v, d)' /\ Told(v, d)'
      <4>1. TAKE v \in Workers \ {w}, d \in Clients
      <4>2. /\ (v # Root /\ v # NOBODY) \/ d # c
            /\ Root \in Workers \cup {Root, Other, Dead} /\ "reparent" \in {"destroy", "reparent"}
            /\ v \in Workers
        BY <3>2
      <4>3. host'[v] = host[v] /\ icons'[v] = icons[v] /\ job'[v] = job[v]
        BY <1>2, <1>3
      <4>4. QED
        BY <1>1, <3>1, <4>2, <4>3, Stirs
    <3>5. \A d \in Clients : Held(w, d)' /\ Told(w, d)'
      <4>1. TAKE d \in Clients
      <4>2. Held(w, d) /\ Told(w, d) /\ Held(w, c)
        BY <1>1 DEF XTrayInv
      <4>3. job[w] = <<"takeout", c>>
        BY <1>1, <1>5, <2>3
      <4>4. job[w] \notin {<<"reparent", d>>, <<"letgo", d>>} /\ parent'[c] # w
        BY <1>1, <3>1, <3>2, <4>3 DEF XTrayInv, XTypes
      <4>5. CASE d = c
        <5>1. c \notin icons[w]
          BY <1>1, <4>3 DEF XTrayInv, Entered
        <5>2. QED
          BY <2>1, <4>4, <4>5, <5>1 DEF Held, Told
      <4>6. CASE d # c
        <5>1. parent'[d] = parent[d] /\ (Has(xevents[w], d) => Has(xevents'[w], d))
          BY <1>1, <3>1, <3>2, <4>6, Telling DEF XTrayInv, XTypes
        <5>2. job[w] # <<"takeout", d>>
          BY <4>3, <4>6
        <5>3. QED
          BY <1>3, <2>1, <4>2, <4>4, <5>1, <5>2 DEF Held, Told
      <4>7. QED
        BY <4>5, <4>6
    <3>6. QED
      BY <2>2, <3>3, <3>4, <3>5 DEF XTrayInv
  <2>4. CASE ~(job[w][1] = "takeout" /\ parent[c] # Dead)
    <3>1. UNCHANGED <<parent, xevents>>
      BY <1>5, <2>4 DEF RemoveEnds
    <3>2. XTypes'
      BY <1>3, <2>1, <3>1 DEF XTrayInv, XTypes
    <3>3. \A v \in Workers \ {w}, d \in Clients : Held(v, d)' /\ Told(v, d)'
      BY <1>2, <1>3, <2>1, <3>1 DEF XTrayInv, Held, Told
    <3>4. \A d \in Clients : Held(w, d)' /\ Told(w, d)'
      <4>1. TAKE d \in Clients
      <4>2. Held(w, d) /\ Told(w, d)
        BY DEF XTrayInv
      <4>3. job[w] = <<"takeout", d>> => parent[d] # w
        BY <1>1, <1>5, <2>4, XTrayAssumption DEF XTrayAssumption
      <4>4. job[w] \notin {<<"reparent", d>>, <<"letgo", d>>}
        BY <1>1, <1>5
      <4>5. QED
        BY <1>3, <2>1, <3>1, <4>2, <4>3, <4>4 DEF Held, Told
    <3>5. QED
      BY <2>2, <3>2, <3>3, <3>4 DEF XTrayInv
  <2>5. QED
    BY <2>3, <2>4
<1>6. QED
  BY <1>4, <1>5

(* A worker that rests reads an event, or begins to let its windows go. *)
LEMMA ReadKeeps ==
  ASSUME XTrayInv, NEW w \in Workers, ReadEvent(w) \/ Stops(w)
  PROVE  XTrayInv'
<1>1. job[w] = Idle /\ host[w] \in {"open", "closing"}
  BY DEF ReadEvent, Stops, Doing, Idle, Steps, XTrayInv, XTypes
<1>2. UNCHANGED parent
  BY DEF ReadEvent, Stops, server
<1>3. CASE Stops(w)
  <2>1. PICK c \in icons[w] : job' = [job EXCEPT ![w] = <<"letgo", c>>]
    BY <1>3 DEF Stops
  <2>2. UNCHANGED <<host, icons, xevents>> /\ c \in Clients
    BY <1>3 DEF Stops, XTrayInv, XTypes
  <2>3. job' \in [Workers -> (Steps \X Clients) \cup {Idle}]
    <3>1. <<"letgo", c>> \in Steps \X Clients
      BY <2>2 DEF Steps
    <3>2. QED
      BY <2>1, <3>1 DEF XTrayInv, XTypes
  <2>4. XTypes'
    BY <1>2, <2>2, <2>3 DEF XTrayInv, XTypes
  <2>5. job'[w] = <<"letgo", c>> /\ \A v \in Workers \ {w} : job'[v] = job[v]
    BY <2>1 DEF XTrayInv, XTypes
  <2>6. QED
    BY <1>1, <1>2, <2>2, <2>4, <2>5 DEF XTrayInv, Shut, Entered, Held, Told, Idle
<1>4. CASE ReadEvent(w)
  <2> DEFINE e == Head(xevents[w])
  <2>1. /\ xevents[w] \in Seq(XEvents) /\ xevents[w] # <<>>
        /\ xevents' = [xevents EXCEPT ![w] = Tail(@)]
    BY <1>4 DEF ReadEvent, XTrayInv, XTypes
  <2>2. e \in XEvents /\ Tail(xevents[w]) \in Seq(XEvents)
    BY <2>1
  <2>3. /\ xevents' \in [Workers -> Seq(XEvents)]
        /\ xevents'[w] = Tail(xevents[w])
        /\ \A v \in Workers \ {w} : xevents'[v] = xevents[v]
    BY <2>1, <2>2 DEF XTrayInv, XTypes
  <2>4. ASSUME NEW c \in Clients, e \notin News(c), Has(xevents[w], c)
        PROVE  Has(xevents'[w], c)
    BY <2>1, <2>3, <2>4, HasTail
  <2>5. CASE e[1] = "clear"
    <3>1. /\ UNCHANGED <<job, icons>> /\ host' = [host EXCEPT ![w] = "closing"]
      BY <1>4, <2>5 DEF ReadEvent
    <3>2. XTypes'
      BY <1>2, <2>3, <3>1 DEF XTrayInv, XTypes
    <3>3. QED
      BY <1>1, <1>2, <2>3, <3>1, <3>2 DEF XTrayInv, XTypes, Shut, Entered, Held, Told
  <2>6. CASE e[1] = "dock"
    <3>1. e[2] \in Clients /\ \A c \in Clients : e \notin News(c)
      BY <2>2, <2>6 DEF XEvents, News
    <3>2. UNCHANGED host /\ EmbedBegins(w, e[2])
      BY <1>4, <2>6 DEF ReadEvent
    <3>3. CASE UNCHANGED <<job, icons>>
      <4>1. XTypes'
        BY <1>2, <2>3, <3>2, <3>3 DEF XTrayInv, XTypes
      <4>2. QED
        BY <1>2, <2>3, <2>4, <3>1, <3>2, <3>3, <4>1 DEF XTrayInv, Shut, Entered, Held, Told
    <3>4. CASE /\ icons' = Tracked(w, e[2])
               /\ job' = [job EXCEPT ![w] = <<"reparent", e[2]>>]
      <4>1. icons' \in [Workers -> SUBSET Clients] /\ icons'[w] = icons[w] \cup {e[2]}
        BY <3>1, <3>4 DEF Tracked, XTrayInv, XTypes
      <4>2. /\ job' \in [Workers -> (Steps \X Clients) \cup {Idle}]
            /\ job'[w] = <<"reparent", e[2]>>
        <5>1. <<"reparent", e[2]>> \in Steps \X Clients
          BY <3>1 DEF Steps
        <5>2. QED
          BY <3>4, <5>1 DEF XTrayInv, XTypes
      <4>3. \A v \in Workers \ {w} : icons'[v] = icons[v] /\ job'[v] = job[v]
        BY <3>4 DEF Tracked, XTrayInv, XTypes
      <4>4. XTypes'
        BY <1>2, <2>3, <3>2, <4>1, <4>2 DEF XTrayInv, XTypes
      <4>5. \A v \in Workers \ {w} : Shut(v)' /\ Entered(v)' /\ \A c \in Clients : Held(v, c)' /\ Told(v, c)'
        <5>1. TAKE v \in Workers \ {w}
        <5>2. Shut(v) /\ Entered(v) /\ \A c \in Clients : Held(v, c) /\ Told(v, c)
          BY DEF XTrayInv
        <5>3. Shut(v)' /\ Entered(v)'
          BY <3>2, <4>3, <5>2 DEF Shut, Entered
        <5>4. \A c \in Clients : Held(v, c)' /\ Told(v, c)'
          BY <1>2, <2>3, <3>2, <4>3, <5>2 DEF Held, Told
        <5>5. QED
          BY <5>3, <5>4
      <4>6. Shut(w)' /\ Entered(w)'
        BY <1>1, <3>2, <4>1, <4>2 DEF Shut, Entered
      <4>7. \A c \in Clients : Held(w, c)' /\ Told(w, c)'
        <5>1. TAKE c \in Clients
        <5>2. Held(w, c) /\ Told(w, c) /\ job[w] \notin {<<"takeout", c>>, <<"reparent", c>>, <<"letgo", c>>}
          BY <1>1 DEF XTrayInv, Idle
        <5>3. Has(xevents[w], c) => Has(xevents'[w], c)
          BY <2>4, <3>1
        <5>4. QED
          BY <1>2, <3>2, <4>1, <4>2, <5>2, <5>3 DEF Held, Told
      <4>8. QED
        BY <4>4, <4>5, <4>6, <4>7 DEF XTrayInv
    <3>5. QED
      BY <3>2, <3>3, <3>4 DEF EmbedBegins
  <2>7. CASE e[1] = "here"
    <3>1. \A c \in Clients : e \notin News(c)
      BY <2>7 DEF News
    <3>2. UNCHANGED <<host, job, icons>>
      BY <1>4, <2>7 DEF ReadEvent
    <3>3. XTypes'
      BY <1>2, <2>3, <3>2 DEF XTrayInv, XTypes
    <3>4. \A v \in Workers, c \in Clients : Has(xevents[v], c) => Has(xevents'[v], c)
      BY <2>3, <2>4, <3>1
    <3>5. \A v \in Workers : Shut(v)' /\ Entered(v)'
      BY <3>2 DEF XTrayInv, Shut, Entered
    <3>6. \A v \in Workers, c \in Clients : Held(v, c)' /\ Told(v, c)'
      BY <1>2, <3>2, <3>4 DEF XTrayInv, Held, Told
    <3>7. QED
      BY <3>3, <3>5, <3>6 DEF XTrayInv
  <2>8. CASE e[1] \notin {"clear", "here", "dock"}
    <3>1. e[2] \in Clients /\ \A c \in Clients : e \in News(c) => c = e[2]
      BY <2>2, <2>8 DEF XEvents, News
    <3>2. UNCHANGED <<host, icons>> /\ job' = [job EXCEPT ![w] = LetGo(w, e[2])]
      BY <1>4, <2>8 DEF ReadEvent
    <3>3. LetGo(w, e[2]) \in (Steps \X Clients) \cup {Idle}
      BY <3>1 DEF LetGo, Steps
    <3>4. /\ job' \in [Workers -> (Steps \X Clients) \cup {Idle}]
          /\ job'[w] = LetGo(w, e[2])
          /\ \A v \in Workers \ {w} : job'[v] = job[v]
      BY <3>2, <3>3 DEF XTrayInv, XTypes
    <3>5. XTypes'
      BY <1>2, <2>3, <3>2, <3>4 DEF XTrayInv, XTypes
    <3>6. \A v \in Workers \ {w} : Shut(v)' /\ Entered(v)' /\ \A c \in Clients : Held(v, c)' /\ Told(v, c)'
      BY <1>2, <2>3, <3>2, <3>4 DEF XTrayInv, Shut, Entered, Held, Told
    <3>7. Shut(w)' /\ Entered(w)'
      BY <1>1, <3>2, <3>4 DEF Shut, Entered, LetGo, Idle
    <3>8. \A c \in Clients : Held(w, c)' /\ Told(w, c)'
      <4>1. TAKE c \in Clients
      <4>2. Held(w, c) /\ Told(w, c) /\ job[w] \notin {<<"takeout", c>>, <<"reparent", c>>, <<"letgo", c>>}
        BY <1>1 DEF XTrayInv, Idle
      <4>3. c # e[2] /\ Has(xevents[w], c) => Has(xevents'[w], c)
        BY <2>4, <3>1
      <4>4. c = e[2] /\ c \in icons[w] => job'[w] = <<"letgo", c>>
        BY <3>4 DEF LetGo
      <4>5. QED
        BY <1>2, <3>2, <4>2, <4>3, <4>4 DEF Held, Told
    <3>9. QED
      BY <3>5, <3>6, <3>7, <3>8 DEF XTrayInv
  <2>9. QED
    BY <2>5, <2>6, <2>7, <2>8
<1>5. QED
  BY <1>3, <1>4

(* Every step of XTray keeps it. *)
LEMMA XTrayNextKeeps == XTrayInv /\ [XTrayNext]_xtrayVars => XTrayInv'
<1> SUFFICES ASSUME XTrayInv, [XTrayNext]_xtrayVars PROVE XTrayInv'
  OBVIOUS
<1>1. CASE UNCHANGED xtrayVars
  BY <1>1 DEF xtrayVars, server, worker, XTrayInv, XTypes, Shut, Entered, Held, Told
<1>2. CASE (\E m \in TrayModules : Acquire(m) \/ Release(m)) \/ OtherTray \/ OtherSteals
  BY <1>2, SelectionKeeps
<1>3. ASSUME NEW c \in Clients, AskDock(c) \/ Destroy(c) \/ Leave(c, Other) \/ Leave(c, Root)
      PROVE  XTrayInv'
  BY <1>3, ClientKeeps
<1>4. ASSUME NEW w \in Workers, Work(w) PROVE XTrayInv'
  BY <1>4, OpenKeeps, EmbedKeeps, RemoveKeeps, ReadKeeps DEF Work
<1>5. QED
  BY <1>1, <1>2, <1>3, <1>4 DEF XTrayNext

(* No window is left in a container its worker has forgotten, and a worker  *)
(* that has read what there was shows exactly what it holds, for any number *)
(* of windows, modules and services (xembed.rs 174-313, 388-411).           *)
THEOREM TrayNoneLeftBehind == XTraySpec => []NoneLeftBehind
<1>1. XTrayInv => NoneLeftBehind
  BY DEF XTrayInv, NoneLeftBehind, Held, Told, Has, Idle
<1>2. QED
  BY <1>1, XTrayInitInv, XTrayNextKeeps, PTL DEF XTraySpec

-----------------------------------------------------------------------------
(* Menus.  The popup's icon is there, and icons are what menus are asked of. *)
MenuInv ==
  /\ tray \in SUBSET Items /\ snapshots \in Seq(SUBSET Items)
  /\ request \in Nat /\ pending \in BOOLEAN /\ popup \in BOOLEAN
  /\ popup => menuItem \in tray

LEMMA MenuStarts == MenuInit => MenuInv
<1> SUFFICES ASSUME MenuInit PROVE MenuInv
  OBVIOUS
<1>1. tray \in SUBSET Items /\ snapshots \in Seq(SUBSET Items) /\ request \in Nat
  BY DEF MenuInit
<1>2. pending \in BOOLEAN /\ popup \in BOOLEAN /\ ~popup
  BY Zenon DEF MenuInit
<1>3. QED
  BY <1>1, <1>2 DEF MenuInv

LEMMA MenuKeeps == MenuInv /\ [MenuNext]_menuVars => MenuInv'
<1> SUFFICES ASSUME MenuInv, [MenuNext]_menuVars PROVE MenuInv'
  OBVIOUS
<1> USE DEF MenuInv
<1>1. CASE UNCHANGED menuVars
  BY <1>1 DEF menuVars
<1>2. ASSUME NEW items \in SUBSET Items, Publish(items) PROVE MenuInv'
  BY <1>2 DEF Publish
<1>3. CASE State
  <2>1. Head(snapshots) \in SUBSET Items /\ Tail(snapshots) \in Seq(SUBSET Items)
    BY <1>3 DEF State
  <2>2. NOITEM \notin Items
    BY MenuAssumption
  <2>3. QED
    BY <1>3, <2>1, <2>2 DEF State
<1>4. CASE Choose \/ Dismiss
  BY <1>4 DEF Choose, Dismiss
<1>5. ASSUME NEW i \in Items, NEW a, AskMenu(i, a) \/ Act(i, a) PROVE MenuInv'
  <2>1. UNCHANGED <<tray, snapshots, menuItem, popup>> /\ request' \in {request, request + 1}
    BY <1>5 DEF AskMenu, Act
  <2>2. pending' \in BOOLEAN
    <3>1. pending' = pending \/ pending' = TRUE \/ pending' = FALSE
      BY <1>5, Zenon DEF AskMenu, Act
    <3>2. QED
      BY <3>1, Zenon
  <2>3. QED
    BY <2>1, <2>2
<1>6. ASSUME NEW r \in replies, NEW nodes \in BOOLEAN, Menu(r, nodes) PROVE MenuInv'
  BY <1>6 DEF Menu
<1>7. QED
  BY <1>1, <1>2, <1>3, <1>4, <1>5, <1>6 DEF MenuNext

(* A menu comes on screen, or is handed on, as the answer to what was asked *)
(* last.                                                                    *)
MenuAnswers ==
  (popup' /\ ~popup) \/ (sent'[1] = "context" /\ request' = request /\ sent' # sent) =>
     \E r \in replies \ replies' : r[1] = request /\ r[2] = sent'[2]

LEMMA MenuSteps == MenuInv /\ [MenuNext]_menuVars => [MenuAnswers]_menuVars
<1> SUFFICES ASSUME MenuInv, MenuNext PROVE MenuAnswers
  OBVIOUS
<1> USE DEF MenuInv, MenuAnswers
<1>1. ASSUME NEW items \in SUBSET Items, Publish(items) PROVE MenuAnswers
  BY <1>1 DEF Publish
<1>2. CASE State \/ Choose \/ Dismiss
  BY <1>2 DEF State, Choose, Dismiss
<1>3. ASSUME NEW i \in Items, NEW a, AskMenu(i, a) \/ Act(i, a) PROVE MenuAnswers
  BY <1>3 DEF AskMenu, Act
<1>4. ASSUME NEW r \in replies, NEW nodes \in BOOLEAN, Menu(r, nodes) PROVE MenuAnswers
  <2>1. r \in replies \ replies'
    BY <1>4 DEF Menu
  <2>2. CASE ~Wanted(r)
    BY <1>4, <2>2 DEF Menu
  <2>3. CASE Wanted(r) /\ r[2] \in tray
    BY <1>4, <2>1, <2>3 DEF Menu, Wanted
  <2>4. CASE Wanted(r) /\ r[2] \notin tray
    BY <1>4, <2>4 DEF Menu
  <2>5. QED
    BY <2>2, <2>3, <2>4
<1>5. QED
  BY <1>1, <1>2, <1>3, <1>4 DEF MenuNext

(* For any icons and menus: an open menu is of an icon that is there, and no *)
(* menu appears, or is handed on to an application, but as the answer to     *)
(* what was asked last (modules/tray.rs, update).                            *)
THEOREM TrayMenuCurrent == MenuSpec => MenuCurrent
<1>1. MenuInv => (popup => menuItem \in tray)
  BY DEF MenuInv
<1>2. MenuSpec => []MenuInv
  BY MenuStarts, MenuKeeps, PTL DEF MenuSpec
<1>3. MenuSpec => [](popup => menuItem \in tray)
  BY <1>1, <1>2, PTL
<1>4. MenuSpec => [][MenuAnswers]_menuVars
  BY <1>2, MenuSteps, PTL DEF MenuSpec
<1>5. QED
  BY <1>3, <1>4, PTL DEF MenuCurrent, MenuAnswers
=============================================================================
