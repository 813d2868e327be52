--------------------------- MODULE DatabaseProofs ---------------------------
(***************************************************************************)
(* Proofs about the way to the database. The metadata cache, for any       *)
(* number of threads, directories, gates and keys and any width of the     *)
(* generations: its gates exclude, and it answers with what the database   *)
(* holds. The pool of connections, for any number of business threads and  *)
(* any InitSize and MaxSize: the counters agree with the connections that  *)
(* exist, and no notification is lost.                                     *)
(***************************************************************************)
EXTENDS MetadataCache, DbPool, FiniteSetTheorems, TLAPS

-----------------------------------------------------------------------------
(* Facts about keys and queries; type correctness of the metadata cache,   *)
(* exclusion by its gates, and what a reader relies on.                    *)

(* Whoever loads, fills, inserts or advances holds the gate. *)
GatesHeld ==
    \A t \in Threads :
        /\ pc[t] \in {"load", "fill"} => holder[Gate(key[t])] = t
        /\ pc[t] \in {"insert", "advance"} => holder[GateOf[dir[t]]] = t

(* What a read must find has not gone away. *)
ReadsRight ==
    \A t \in Threads :
        pc[t] \in {"probe", "miss", "load", "fill", "return"} => since[t] \subseteq Value(key[t])

-----------------------------------------------------------------------------
(* The parts of a key, and the gate of its directory. *)
LEMMA KeyFacts ==
    ASSUME NEW k \in Keys, TypeOK
    PROVE  /\ k.dir \in Dirs /\ k.wants \subseteq Names /\ k.kind \in Kinds
           /\ Gate(k) \in Gates /\ Value(k) \subseteq Names
  BY ZenonT(30), KeysAssumption DEF TypeOK, Gate, Value

(* The keys of an idle loader and a fresh directory are keys and directories. *)
LEMMA NoKeyNoDir == NoKey \in Keys /\ NoDir \in Dirs
  BY ZenonT(30), KeysAssumption DEF NoKey, NoDir

(* What the loader returns is an answer: not only a success is. *)
LEMMA LoadedFacts ==
    ASSUME NEW k \in Keys, TypeOK
    PROVE  /\ Loaded(k) \in StorageContext /\ Failed \in StorageContext
           /\ NotFound \in StorageContext /\ ~Loaded(k).error /\ Failed.error
           /\ Loaded(k).result = Value(k) /\ ~Failed.success
           /\ Loaded(k).success => Found(k, Value(k))
  BY ZenonT(30), KeyFacts DEF Loaded, Success, NotFound, Failed, StorageContext, Found

(* Rows are only inserted: a query finds what it found before. *)
LEMMA DbGrows ==
    ASSUME TypeOK, [Next]_vars, NEW d \in Dirs
    PROVE  db[d] \subseteq db'[d]
<1>1. CASE UNCHANGED db
  BY ZenonT(30), <1>1
<1>2. CASE \E t \in Threads, n \in Names : Insert(t, n)
  BY ZenonT(30), <1>2 DEF Insert, TypeOK
<1>3. QED
  BY ZenonT(30), <1>1, <1>2 DEF Next, Step, Read, ReadThrough, Probe, ProbeAgain, Load, Fill, Return, Write,
     Advance, Expire, Evict, vars

-----------------------------------------------------------------------------
(* Every step keeps the types. *)
LEMMA TypeStep ==
    ASSUME TypeOK, [Next]_vars
    PROVE  TypeOK'
<1> USE DEF Go
<1>1. ASSUME NEW t \in Threads, NEW k \in Keys, Read(t, k) PROVE TypeOK'
  BY ZenonT(30), <1>1, KeyFacts DEF TypeOK, Read, cacheVars
<1>2. ASSUME NEW t \in Threads, ReadThrough(t) PROVE TypeOK'
  <2>1. key[t] \in Keys
    BY ZenonT(30) DEF TypeOK
  <2>2. PICK r \in {Loaded(key[t]), Failed} : Answer(t, r)
    BY ZenonT(30), <1>2 DEF ReadThrough
  <2>3. r \in StorageContext
    BY ZenonT(30), <2>1, <2>2, LoadedFacts
  <2> QED
    BY ZenonT(30), <1>2, <2>2, <2>3 DEF TypeOK, ReadThrough, Answer, cacheVars
<1>3. ASSUME NEW t \in Threads, Probe(t) PROVE TypeOK'
  <2>1. CASE Hits(key[t])
    <3>1. Success(cache[key[t]].value) \in StorageContext
      BY ZenonT(30), <2>1 DEF TypeOK, Hits, Misses, Entry, Success, StorageContext
    <3> QED
      BY ZenonT(30), <1>3, <2>1, <3>1 DEF TypeOK, Probe, Answer, cacheVars
  <2>2. CASE ~Hits(key[t])
    BY ZenonT(30), <1>3, <2>2 DEF TypeOK, Probe, cacheVars
  <2> QED
    BY ZenonT(30), <2>1, <2>2
<1>4. ASSUME NEW t \in Threads, ProbeAgain(t) PROVE TypeOK'
  <2>0. key[t] \in Keys /\ Gate(key[t]) \in Gates
    BY ZenonT(30), KeyFacts DEF TypeOK
  <2>1. CASE Hits(key[t])
    <3>1. Success(cache[key[t]].value) \in StorageContext
      BY ZenonT(30), <2>1 DEF TypeOK, Hits, Misses, Entry, Success, StorageContext
    <3> QED
      BY ZenonT(30), <1>4, <2>1, <3>1 DEF TypeOK, ProbeAgain, Answer
  <2>2. CASE ~Hits(key[t])
    BY ZenonT(30), <1>4, <2>0, <2>2 DEF TypeOK, ProbeAgain
  <2> QED
    BY ZenonT(30), <2>1, <2>2
<1>5. ASSUME NEW t \in Threads, Load(t) PROVE TypeOK'
  <2>0. key[t] \in Keys /\ Gate(key[t]) \in Gates
    BY ZenonT(30), KeyFacts DEF TypeOK
  <2>1. PICK r \in {Loaded(key[t]), Failed} :
          IF r.success
          THEN Go(t, "fill") /\ got' = [got EXCEPT ![t] = r.result] /\ UNCHANGED <<holder, answer>>
          ELSE Answer(t, r) /\ Unlock(t, Gate(key[t])) /\ UNCHANGED got
    BY ZenonT(30), <1>5 DEF Load
  <2>2. r \in StorageContext
    BY ZenonT(30), <2>0, <2>1, LoadedFacts
  <2>3. CASE r.success
    BY ZenonT(30), <1>5, <2>1, <2>2, <2>3 DEF TypeOK, Load, cacheVars, StorageContext
  <2>4. CASE ~r.success
    BY <1>5, <2>0, <2>1, <2>2, <2>4 DEF TypeOK, Load, cacheVars, Answer, Unlock
  <2> QED
    BY ZenonT(30), <2>3, <2>4
<1>6. ASSUME NEW t \in Threads, Fill(t) PROVE TypeOK'
  <2>0. key[t] \in Keys /\ Gate(key[t]) \in Gates
    BY ZenonT(30), KeyFacts DEF TypeOK
  <2>1. /\ Success(got[t]) \in StorageContext
        /\ [value |-> got[t], gen |-> gen[Gate(key[t])], expired |-> FALSE] \in Entry
    BY ZenonT(30), <2>0 DEF TypeOK, Entry, Success, StorageContext
  <2> QED
    BY ZenonT(30), <1>6, <2>0, <2>1 DEF TypeOK, Fill, Answer, Unlock
<1>7. ASSUME NEW t \in Threads, Return(t) PROVE TypeOK'
  BY ZenonT(30), <1>7, NoKeyNoDir DEF TypeOK, Return, cacheVars, NotFound, StorageContext
<1>8. ASSUME NEW t \in Threads, NEW d \in Dirs, Write(t, d) PROVE TypeOK'
  BY ZenonT(30), <1>8, KeysAssumption DEF TypeOK, Write, cacheVars
<1>9. ASSUME NEW t \in Threads, NEW n \in Names, Insert(t, n) PROVE TypeOK'
  <2>1. db' \in [Dirs -> SUBSET Names]
    BY <1>9 DEF TypeOK, Insert
  <2> QED
    BY ZenonT(30), <1>9, <2>1 DEF TypeOK, Insert, cacheVars
<1>10. ASSUME NEW t \in Threads, Advance(t) PROVE TypeOK'
  <2>1. GateOf[dir[t]] \in Gates
    BY ZenonT(30), KeysAssumption DEF TypeOK
  <2>2. gen' \in [Gates -> 0..MaxGen] /\ versioned' \subseteq Gates
    BY <1>10, <2>1, MaxGenAssumption DEF TypeOK, Advance
  <2>3. /\ holder' \in [Gates -> Threads \cup {NoOne}] /\ dir' \in [Threads -> Dirs]
        /\ UNCHANGED <<db, banks, cache, key, got, answer, since>>
        /\ pc' = [pc EXCEPT ![t] = "idle"]
    BY ZenonT(30), <1>10, <2>1, NoKeyNoDir DEF TypeOK, Advance, Unlock
  <2> QED
    BY ZenonT(30), <2>2, <2>3 DEF TypeOK
<1>11. ASSUME NEW k \in Keys, Expire(k) \/ Evict(k) PROVE TypeOK'
  <2>1. CASE Expire(k)
    <3>1. cache' \in [Keys -> Entry \cup {NoEntry}]
      BY ZenonT(30), <2>1 DEF TypeOK, Expire, Entry
    <3> QED
      BY ZenonT(30), <2>1, <3>1 DEF TypeOK, Expire, callVars
  <2>2. CASE Evict(k)
    BY ZenonT(30), <2>2 DEF TypeOK, Evict, callVars
  <2> QED
    BY ZenonT(30), <1>11, <2>1, <2>2
<1>12. CASE UNCHANGED vars
  BY ZenonT(30), <1>12 DEF TypeOK, vars, cacheVars, callVars
<1> QED
  BY ZenonT(30), <1>1, <1>2, <1>3, <1>4, <1>5, <1>6, <1>7, <1>8, <1>9, <1>10, <1>11, <1>12 DEF Next, Step

(* Every variable of the cache has its type at start. *)
LEMMA TypeInit == Init => TypeOK
  BY MaxGenAssumption, NoKeyNoDir DEF Init, TypeOK, NotFound, StorageContext

(* The variables keep their types; the generations stay within their width *)
(* for every width, since advance() disables the gate at the last one.     *)
THEOREM CacheTypes == Spec => []TypeOK
<1>1. TypeOK /\ [Next]_vars => TypeOK'
  BY ZenonT(30), TypeStep
<1> QED
  BY TypeInit, <1>1, PTL DEF Spec
-----------------------------------------------------------------------------
(* A gate is taken only when free and released only by its holder, so      *)
(* nobody loses a gate.                                                    *)
LEMMA GatesStep ==
    ASSUME TypeOK, GatesHeld, [Next]_vars
    PROVE  GatesHeld'
<1> USE NoOneAssumption DEF GatesHeld, TypeOK, Go, Gate
<1>0. \A u \in Threads : /\ key[u] \in Keys /\ Gate(key[u]) \in Gates
                         /\ dir[u] \in Dirs /\ GateOf[dir[u]] \in Gates
  BY ZenonT(30), KeyFacts, KeysAssumption
<1>1. ASSUME NEW t \in Threads, NEW k \in Keys, Read(t, k) PROVE GatesHeld'
  BY ZenonT(30), <1>1 DEF Read
<1>2. ASSUME NEW t \in Threads, ReadThrough(t) \/ Probe(t) PROVE GatesHeld'
  BY <1>2 DEF ReadThrough, Probe, Answer
<1>4. ASSUME NEW t \in Threads, ProbeAgain(t) PROVE GatesHeld'
  BY <1>0, <1>4 DEF ProbeAgain, Answer
<1>5. ASSUME NEW t \in Threads, Load(t) PROVE GatesHeld'
  BY SMTT(30), <1>0, <1>5 DEF Load, Answer, Unlock
<1>6. ASSUME NEW t \in Threads, Fill(t) PROVE GatesHeld'
  BY <1>0, <1>6 DEF Fill, Answer, Unlock
<1>7. ASSUME NEW t \in Threads, Return(t) PROVE GatesHeld'
  BY ZenonT(30), <1>7 DEF Return
<1>8. ASSUME NEW t \in Threads, NEW d \in Dirs, Write(t, d) PROVE GatesHeld'
  BY <1>0, <1>8, KeysAssumption DEF Write
<1>9. ASSUME NEW t \in Threads, NEW n \in Names, Insert(t, n) PROVE GatesHeld'
  BY ZenonT(30), <1>9 DEF Insert
<1>10. ASSUME NEW t \in Threads, Advance(t) PROVE GatesHeld'
  BY <1>0, <1>10 DEF Advance, Unlock
<1>11. ASSUME NEW k \in Keys, Expire(k) \/ Evict(k) PROVE GatesHeld'
  BY ZenonT(30), <1>11 DEF Expire, Evict, callVars
<1>12. CASE UNCHANGED vars
  BY ZenonT(30), <1>12 DEF vars, callVars
<1> QED
  BY ZenonT(30), <1>1, <1>2, <1>4, <1>5, <1>6, <1>7, <1>8, <1>9, <1>10, <1>11, <1>12 DEF Next, Step

(* A reader's key stays while it reads, and rows are only inserted. *)
LEMMA ReadsStep ==
    ASSUME TypeOK, ReadsRight, [Next]_vars
    PROVE  ReadsRight'
<1> SUFFICES ASSUME NEW u \in Threads, pc'[u] \in {"probe", "miss", "load", "fill", "return"}
             PROVE  since'[u] \subseteq Value(key[u])'
  BY ZenonT(30) DEF ReadsRight
<1> USE DEF Go
<1>1. ASSUME NEW t \in Threads, NEW k \in Keys, Read(t, k), t = u PROVE since'[u] \subseteq Value(key[u])'
  BY ZenonT(30), <1>1 DEF Read, TypeOK, Value
<1>2. CASE \E t \in Threads : \/ Return(t) \/ Advance(t)
                               \/ (\E d \in Dirs : Write(t, d)) \/ (\E n \in Names : Insert(t, n))
  <2>1. /\ pc[u] \in {"probe", "miss", "load", "fill", "return"}
        /\ key'[u] = key[u] /\ since'[u] = since[u]
    BY <1>2 DEF Return, Write, Advance, Insert, TypeOK
  <2> QED
    BY ZenonT(30), <2>1, DbGrows, KeyFacts DEF ReadsRight, Value, TypeOK
<1>3. CASE /\ key'[u] = key[u] /\ since'[u] = since[u]
           /\ pc[u] \in {"probe", "miss", "load", "fill", "return"}
  BY ZenonT(30), <1>3, DbGrows, KeyFacts DEF ReadsRight, Value, TypeOK
<1>4. ASSUME NEW t \in Threads,
             ReadThrough(t) \/ Probe(t) \/ ProbeAgain(t) \/ Load(t) \/ Fill(t)
      PROVE  /\ key'[u] = key[u] /\ since'[u] = since[u]
             /\ pc[u] \in {"probe", "miss", "load", "fill", "return"}
  BY ZenonT(30), <1>4 DEF ReadThrough, Probe, ProbeAgain, Load, Fill, Answer, TypeOK
<1>5. ASSUME NEW t \in Threads, NEW k \in Keys, Read(t, k), t # u
      PROVE  /\ key'[u] = key[u] /\ since'[u] = since[u]
             /\ pc[u] \in {"probe", "miss", "load", "fill", "return"}
  BY ZenonT(30), <1>5 DEF Read, TypeOK
<1>6. ASSUME NEW k \in Keys, Expire(k) \/ Evict(k)
      PROVE  /\ key'[u] = key[u] /\ since'[u] = since[u]
             /\ pc[u] \in {"probe", "miss", "load", "fill", "return"}
  BY ZenonT(30), <1>6 DEF Expire, Evict, callVars
<1>7. CASE UNCHANGED vars
  BY ZenonT(30), <1>3, <1>7 DEF vars, callVars
<1> QED
  BY ZenonT(30), <1>1, <1>2, <1>3, <1>4, <1>5, <1>6, <1>7 DEF Next, Step

-----------------------------------------------------------------------------
(* The metadata cache answers with what the database holds, for any number *)
(* of threads, directories, gates and keys and any width of the            *)
(* generations.                                                            *)

(* An entry of the current generation is out of date only while the writer *)
(* that outdated it has yet to advance. Versions are never from the        *)
(* future, and a path that cd() found stays.                               *)
EntryRight(k) ==
    cache[k] # NoEntry =>
        IF Versioned(k)
        THEN /\ cache[k].gen <= gen[Gate(k)]
             /\ \/ Gate(k) \notin versioned \/ cache[k].gen # gen[Gate(k)]
                \/ cache[k].value = Value(k)
                \/ \E t \in Threads : pc[t] = "advance" /\ GateOf[dir[t]] = Gate(k)
        ELSE cache[k].value # {} /\ cache[k].value = Value(k)

EntriesRight == \A k \in Keys : EntryRight(k)

(* What was loaded under the gate is still there when it is filled in. *)
LoadsRight ==
    \A t \in Threads : pc[t] = "fill" => got[t] = Value(key[t]) /\ Found(key[t], got[t])

CacheInv ==
    TypeOK /\ GatesHeld /\ EntriesRight /\ LoadsRight /\ ReadsRight /\ ReadIsCurrent

-----------------------------------------------------------------------------
(* While a thread loads or fills, nobody inserts under its gate. *)
LEMMA LoadsStep ==
    ASSUME TypeOK, GatesHeld, LoadsRight, [Next]_vars
    PROVE  LoadsRight'
<1> SUFFICES ASSUME NEW u \in Threads, pc'[u] = "fill"
             PROVE  got'[u] = Value(key[u])' /\ Found(key'[u], got'[u])
  BY ZenonT(30) DEF LoadsRight
<1> USE DEF Go
<1>0. key[u] \in Keys /\ key[u].dir \in Dirs
  BY ZenonT(30), KeyFacts DEF TypeOK
<1>1. CASE Load(u)
  <2>1. PICK r \in {Loaded(key[u]), Failed} :
          IF r.success
          THEN Go(u, "fill") /\ got' = [got EXCEPT ![u] = r.result] /\ UNCHANGED <<holder, answer>>
          ELSE Answer(u, r) /\ Unlock(u, Gate(key[u])) /\ UNCHANGED got
    BY ZenonT(30), <1>1 DEF Load
  <2>2. r.success /\ r = Loaded(key[u])
    BY ZenonT(30), <1>0, <2>1, LoadedFacts DEF TypeOK, Answer
  <2>3. got'[u] = Value(key[u]) /\ Found(key[u], Value(key[u]))
    BY ZenonT(30), <1>0, <2>1, <2>2, LoadedFacts DEF TypeOK
  <2> QED
    BY ZenonT(30), <1>1, <2>3 DEF Load, Value, cacheVars
<1>2. CASE pc[u] = "fill" /\ key'[u] = key[u] /\ got'[u] = got[u] /\ db'[key[u].dir] = db[key[u].dir]
  BY ZenonT(30), <1>2 DEF LoadsRight, Value
<1>3. ASSUME NEW t \in Threads, NEW n \in Names, Insert(t, n)
      PROVE  pc[u] = "fill" /\ key'[u] = key[u] /\ got'[u] = got[u] /\ db'[key[u].dir] = db[key[u].dir]
  <2>1. pc[u] = "fill" /\ pc[t] = "insert" /\ UNCHANGED <<key, got>>
    BY ZenonT(30), <1>3 DEF Insert, TypeOK
  <2>2. dir[t] # key[u].dir
    BY ZenonT(30), <2>1 DEF GatesHeld, Gate
  <2> QED
    BY ZenonT(30), <1>0, <1>3, <2>1, <2>2 DEF Insert, TypeOK
<1>4. ASSUME NEW t \in Threads,
             \/ ReadThrough(t) \/ Probe(t) \/ ProbeAgain(t) \/ (Load(t) /\ t # u) \/ Fill(t)
             \/ Return(t) \/ Advance(t)
             \/ (\E k \in Keys : Read(t, k)) \/ (\E d \in Dirs : Write(t, d))
      PROVE  pc[u] = "fill" /\ key'[u] = key[u] /\ got'[u] = got[u] /\ db' = db
  BY ZenonT(30), <1>4 DEF TypeOK, ReadThrough, Probe, ProbeAgain, Load, Fill, Return, Advance, Read, Write, Answer
<1>5. CASE UNCHANGED vars \/ \E k \in Keys : Expire(k) \/ Evict(k)
  BY ZenonT(30), <1>2, <1>5 DEF Expire, Evict, vars, callVars
<1> QED
  BY ZenonT(30), <1>1, <1>2, <1>3, <1>4, <1>5 DEF Next, Step

(* What a probe would return is what the database would return. *)
LEMMA HitsRight ==
    ASSUME TypeOK, GatesHeld, EntriesRight, NEW k \in Keys, Hits(k), holder[Gate(k)] = NoOne
    PROVE  cache[k].value = Value(k)
  BY ZenonT(30), NoOneAssumption DEF EntriesRight, EntryRight, Hits, Misses, Stale, GatesHeld

(* An answer is right when it is given, and rows are only inserted. *)
LEMMA AnswersStep ==
    ASSUME TypeOK, GatesHeld, EntriesRight, LoadsRight, ReadsRight, ReadIsCurrent, [Next]_vars
    PROVE  ReadIsCurrent'
<1> SUFFICES ASSUME NEW u \in Threads, pc'[u] = "return", ~answer'[u].error
             PROVE  since'[u] \subseteq answer'[u].result /\ answer'[u].result \subseteq Value(key[u])'
  BY ZenonT(30) DEF ReadIsCurrent
<1> DEFINE Given == /\ UNCHANGED <<db, since, key>> /\ answer'[u].result = Value(key[u])
                    /\ pc[u] \in {"probe", "miss", "load", "fill"}
<1> USE DEF Go
<1>0. key[u] \in Keys /\ key[u].dir \in Dirs
  BY ZenonT(30), KeyFacts DEF TypeOK
<1>1. CASE Given
  BY ZenonT(30), <1>1 DEF ReadsRight, Value
<1>2. CASE pc[u] = "return" /\ key'[u] = key[u] /\ since'[u] = since[u] /\ answer'[u] = answer[u]
  BY ZenonT(30), <1>0, <1>2, DbGrows DEF ReadIsCurrent, Value
<1>3. CASE ReadThrough(u)
  <2>1. PICK r \in {Loaded(key[u]), Failed} : Answer(u, r)
    BY ZenonT(30), <1>3 DEF ReadThrough
  <2>2. answer'[u] = r
    BY ZenonT(30), <2>1 DEF Answer, TypeOK
  <2> QED
    BY ZenonT(30), <1>0, <1>1, <1>3, <2>1, <2>2, LoadedFacts DEF ReadThrough
<1>4. CASE Probe(u) \/ ProbeAgain(u)
  <2>1. /\ Hits(key[u]) /\ holder[Gate(key[u])] = NoOne
        /\ answer'[u] = Success(cache[key[u]].value) /\ UNCHANGED <<db, since, key>>
        /\ pc[u] \in {"probe", "miss"}
    BY ZenonT(30), <1>4 DEF Probe, ProbeAgain, Answer, TypeOK
  <2> QED
    BY <1>0, <1>1, <2>1, HitsRight DEF Success
<1>5. CASE Load(u)
  <2>1. PICK r \in {Loaded(key[u]), Failed} :
          IF r.success
          THEN Go(u, "fill") /\ got' = [got EXCEPT ![u] = r.result] /\ UNCHANGED <<holder, answer>>
          ELSE Answer(u, r) /\ Unlock(u, Gate(key[u])) /\ UNCHANGED got
    BY ZenonT(30), <1>5 DEF Load
  <2>2. answer'[u] = r
    BY ZenonT(30), <2>1 DEF Answer, TypeOK
  <2> QED
    BY ZenonT(30), <1>0, <1>1, <1>5, <2>1, <2>2, LoadedFacts DEF Load
<1>6. CASE Fill(u)
  <2>1. answer'[u] = Success(got[u]) /\ pc[u] = "fill" /\ UNCHANGED <<db, since, key>>
    BY ZenonT(30), <1>6 DEF Fill, Answer, TypeOK
  <2> QED
    BY <1>1, <2>1 DEF LoadsRight, Success
<1>7. ASSUME NEW t \in Threads, t # u, Step(t)
      PROVE  pc[u] = "return" /\ key'[u] = key[u] /\ since'[u] = since[u] /\ answer'[u] = answer[u]
  BY ZenonT(30), <1>7 DEF TypeOK, Step, ReadThrough, Probe, ProbeAgain, Load, Fill, Return, Insert, Advance, Answer
<1>8. ASSUME NEW t \in Threads,
             \/ Return(t) \/ Advance(t) \/ (\E n \in Names : Insert(t, n))
             \/ (\E k \in Keys : Read(t, k)) \/ (\E d \in Dirs : Write(t, d))
      PROVE  pc[u] = "return" /\ key'[u] = key[u] /\ since'[u] = since[u] /\ answer'[u] = answer[u]
  BY <1>8 DEF TypeOK, Return, Advance, Insert, Read, Write
<1>9. CASE UNCHANGED vars \/ \E k \in Keys : Expire(k) \/ Evict(k)
  BY ZenonT(30), <1>2, <1>9 DEF Expire, Evict, vars, callVars
<1> QED
  BY ZenonT(30), <1>2, <1>3, <1>4, <1>5, <1>6, <1>7, <1>8, <1>9 DEF Next, Step

-----------------------------------------------------------------------------
(* Every step keeps every entry right: an insertion is followed by an      *)
(* advance under the same gate, and an advance outdates all entries of the *)
(* gate, by a new generation or by disabling them.                         *)
LEMMA EntriesStep ==
    ASSUME TypeOK, GatesHeld, EntriesRight, LoadsRight, [Next]_vars
    PROVE  EntriesRight'
<1> SUFFICES ASSUME NEW k \in Keys PROVE EntryRight(k)'
  BY ZenonT(30) DEF EntriesRight
<1> DEFINE Advancing == \E t \in Threads : pc[t] = "advance" /\ GateOf[dir[t]] = Gate(k)
<1> USE DEF Go
<1>0. EntryRight(k) /\ k.dir \in Dirs /\ Gate(k) \in Gates
  BY ZenonT(30), KeyFacts DEF EntriesRight
<1>1. CASE /\ cache'[k] # NoEntry => cache[k] # NoEntry /\ cache'[k].value = cache[k].value
                                    /\ cache'[k].gen = cache[k].gen
           /\ UNCHANGED <<gen, versioned>> /\ db'[k.dir] = db[k.dir] /\ (Advancing => Advancing')
  BY ZenonT(30), <1>0, <1>1 DEF EntryRight, Versioned, Value, Gate
<1>2. ASSUME NEW t \in Threads, Step(t), ~Advance(t) PROVE Advancing => Advancing'
  BY ZenonT(30), <1>2 DEF TypeOK, Step, ReadThrough, Probe, ProbeAgain, Load, Fill, Return, Insert, Answer, Gate
<1>3. ASSUME NEW t \in Threads, (\E j \in Keys : Read(t, j)) \/ (\E d \in Dirs : Write(t, d))
      PROVE  EntryRight(k)'
  <2>1. (Advancing => Advancing') /\ UNCHANGED <<db, gen, versioned, cache>>
    BY ZenonT(30), <1>3 DEF TypeOK, Read, Write, Gate, cacheVars
  <2> QED
    BY ZenonT(30), <1>1, <2>1
<1>4. ASSUME NEW t \in Threads, ReadThrough(t) \/ Probe(t) \/ Load(t) \/ Return(t)
      PROVE  EntryRight(k)'
  <2>1. ~Advance(t) /\ UNCHANGED <<db, gen, versioned, cache>>
    BY ZenonT(30), <1>4 DEF ReadThrough, Probe, Load, Return, Advance, cacheVars
  <2> QED
    BY ZenonT(30), <1>1, <1>2, <1>4, <2>1 DEF Step
<1>5. ASSUME NEW t \in Threads, ProbeAgain(t) PROVE EntryRight(k)'
  <2>1. ~Advance(t) /\ UNCHANGED <<db, gen, versioned>> /\ cache'[k] \in {NoEntry, cache[k]}
    BY ZenonT(30), <1>5 DEF TypeOK, ProbeAgain, Advance
  <2> QED
    BY ZenonT(30), <1>1, <1>2, <1>5, <2>1 DEF Step
<1>6. ASSUME NEW t \in Threads, Fill(t) PROVE EntryRight(k)'
  <2>1. ~Advance(t) /\ UNCHANGED <<db, gen, versioned>>
    BY ZenonT(30), <1>6 DEF Fill, Advance
  <2>2. CASE cache'[k] = cache[k]
    BY ZenonT(30), <1>1, <1>2, <1>6, <2>1, <2>2 DEF Step
  <2>3. CASE cache'[k] # cache[k]
    <3>1. k = key[t] /\ cache'[k] = [value |-> got[t], gen |-> gen[Gate(k)], expired |-> FALSE]
      BY ZenonT(30), <1>6, <2>3 DEF Fill, TypeOK
    <3>2. got[t] = Value(k) /\ Found(k, got[t])
      BY ZenonT(30), <1>6, <3>1 DEF Fill, LoadsRight
    <3>3. Value(k)' = Value(k) /\ gen[Gate(k)] \in Int
      BY SMTT(30), <1>0, <2>1, MaxGenAssumption DEF Value, TypeOK
    <3> QED
      BY <1>0, <2>1, <3>1, <3>2, <3>3 DEF EntryRight, Versioned, Gate, Found
  <2> QED
    BY ZenonT(30), <2>2, <2>3
<1>7. ASSUME NEW t \in Threads, NEW n \in Names, Insert(t, n) PROVE EntryRight(k)'
  <2>1. ~Advance(t) /\ UNCHANGED <<gen, versioned, cache>>
    BY ZenonT(30), <1>7 DEF Insert, Advance, cacheVars
  <2>2. CASE k.dir # dir[t]
    <3>1. db'[k.dir] = db[k.dir]
      BY ZenonT(30), <1>0, <1>7, <2>2 DEF Insert, TypeOK
    <3> QED
      BY ZenonT(30), <1>1, <1>2, <1>7, <2>1, <3>1 DEF Step
  <2>3. CASE k.dir = dir[t] /\ Versioned(k)
    <3>1. Advancing'
      BY ZenonT(30), <1>7, <2>3 DEF Insert, TypeOK, Gate
    <3> QED
      BY ZenonT(30), <1>0, <2>1, <2>3, <3>1 DEF EntryRight, Versioned, Gate
  <2>4. CASE k.dir = dir[t] /\ ~Versioned(k)
    <3>1. PICK m \in Names : k.wants = {m}
      BY ZenonT(30), <2>4, KeysAssumption DEF Versioned
    <3>2. db[k.dir] \subseteq db'[k.dir]
      BY ZenonT(30), <1>0, DbGrows
    <3>3. Value(k) # {} => Value(k)' = Value(k)
      BY ZenonT(30), <3>1, <3>2 DEF Value
    <3> QED
      BY ZenonT(30), <1>0, <2>1, <2>4, <3>3 DEF EntryRight, Versioned
  <2> QED
    BY ZenonT(30), <2>2, <2>3, <2>4
<1>8. ASSUME NEW t \in Threads, Advance(t) PROVE EntryRight(k)'
  <2>1. UNCHANGED <<db, cache>> /\ Value(k)' = Value(k)
    BY ZenonT(30), <1>8 DEF Advance, Value
  <2>2. CASE ~Versioned(k) \/ cache[k] = NoEntry
    BY ZenonT(30), <1>0, <2>1, <2>2 DEF EntryRight, Versioned
  <2>3. CASE Versioned(k) /\ cache[k] # NoEntry /\ Gate(k) = GateOf[dir[t]]
    <3>1. cache[k].gen \in Int /\ gen[Gate(k)] \in Int /\ cache[k].gen <= gen[Gate(k)]
      BY <1>0, <2>3, MaxGenAssumption DEF EntryRight, TypeOK, Entry
    <3>2. \/ Gate(k) \notin versioned' /\ gen' = gen
          \/ gen'[Gate(k)] = gen[Gate(k)] + 1
      BY ZenonT(30), <1>0, <1>8, <2>3 DEF Advance, TypeOK
    <3> QED
      BY SMTT(30), <2>1, <2>3, <3>1, <3>2 DEF EntryRight, Versioned, Gate
  <2>4. CASE Versioned(k) /\ cache[k] # NoEntry /\ Gate(k) # GateOf[dir[t]]
    <3>1. gen'[Gate(k)] = gen[Gate(k)] /\ (Gate(k) \in versioned <=> Gate(k) \in versioned')
      BY ZenonT(30), <1>0, <1>8, <2>4 DEF Advance, TypeOK
    <3>2. Advancing => Advancing'
      BY ZenonT(30), <1>8, <2>4 DEF Advance, TypeOK, Gate
    <3> QED
      BY ZenonT(30), <1>0, <2>1, <2>4, <3>1, <3>2 DEF EntryRight, Versioned, Gate
  <2> QED
    BY ZenonT(30), <2>2, <2>3, <2>4
<1>9. ASSUME NEW j \in Keys, Expire(j) \/ Evict(j) PROVE EntryRight(k)'
  <2>1. UNCHANGED <<db, gen, versioned, pc, dir>> /\ (Advancing => Advancing')
    BY ZenonT(30), <1>9 DEF Expire, Evict, callVars, Gate
  <2>2. cache'[k] # NoEntry => /\ cache[k] # NoEntry /\ cache'[k].value = cache[k].value
                              /\ cache'[k].gen = cache[k].gen
    BY <1>9 DEF Expire, Evict, TypeOK, Entry
  <2> QED
    BY ZenonT(30), <1>1, <2>1, <2>2
<1>10. CASE UNCHANGED vars
  BY ZenonT(30), <1>1, <1>10 DEF vars, cacheVars, callVars, Gate
<1> QED
  BY ZenonT(30), <1>3, <1>4, <1>5, <1>6, <1>7, <1>8, <1>9, <1>10 DEF Next, Step

-----------------------------------------------------------------------------
(* The cache is right at start. *)
LEMMA CacheInit == Init => CacheInv
<1> SUFFICES ASSUME Init PROVE CacheInv
  BY ZenonT(30)
<1>1. TypeOK
  BY SMTT(30), MaxGenAssumption, NoKeyNoDir DEF Init, TypeOK, NotFound, StorageContext
<1>2. GatesHeld /\ EntriesRight /\ LoadsRight /\ ReadsRight /\ ReadIsCurrent
  BY ZenonT(30) DEF Init, GatesHeld, EntriesRight, EntryRight, LoadsRight, ReadsRight, ReadIsCurrent
<1> QED
  BY ZenonT(30), <1>1, <1>2 DEF CacheInv

(* The invariant holds in every reachable state. *)
THEOREM CacheInvariant == Spec => []CacheInv
<1>1. CacheInv /\ [Next]_vars => CacheInv'
  BY ZenonT(30), TypeStep, GatesStep, EntriesStep, LoadsStep, ReadsStep, AnswersStep DEF CacheInv
<1> QED
  BY CacheInit, <1>1, PTL DEF Spec

(* read() answers with everything registered before the call and nothing   *)
(* that is not registered, whatever fills, writes, evictions, expiries and *)
(* version overflows happen meanwhile.                                     *)
THEOREM ReadsAreCurrent == Spec => []ReadIsCurrent
  BY CacheInvariant, PTL DEF CacheInv

(* A cached answer that a probe accepts is what the database holds,        *)
(* whenever a probe can be made.                                           *)
THEOREM HitsAreCurrent == Spec => []HitIsCurrent
<1>1. CacheInv => HitIsCurrent
  BY ZenonT(30), HitsRight DEF CacheInv, HitIsCurrent
<1> QED
  BY CacheInvariant, <1>1, PTL

-----------------------------------------------------------------------------
(* The pool of connections *)

DbLabels ==
    {"idle", "waiting", "notify", "ping", "leaving", "return", "holding", "intxn",
     "wait", "connect", "failed", "backoff", "exited", "join", "drain"}

DbTypeOK ==
    /\ connection_queue \in Seq(Conns)
    /\ connection_cnt \in Int /\ borrowed_count \in Int /\ active_getters \in Int
    /\ db_pc \in [DbThreads -> DbLabels] /\ held \in [DbThreads -> Conns \cup {NoConn}]
    /\ db_expired \in [Getters -> BOOLEAN] /\ db_asleep \subseteq DbThreads

(* A getter has a connection from the take to the return of its handle;    *)
(* the producer while it connects one.                                     *)
Hands ==
    /\ \A g \in Getters : held[g] # NoConn <=> db_pc[g] \in {"notify", "ping", "return", "holding", "intxn"}
    /\ held[producer] # NoConn <=> db_pc[producer] = "connect"
    /\ held[scanner] = NoConn /\ held[closer] = NoConn

(* Whoever stops the pool has said so before, and only a running           *)
(* destructor ends.                                                        *)
Life ==
    /\ threads_joined \/ destroyed # "no" \/ db_pc[closer] # "idle" => db_stopping
    /\ destroyed = "yes" => db_pc[closer] = "idle"

(* The producer sleeps in its wait only: the other wait of its loop ends   *)
(* by itself.                                                              *)
ProducerSleeps == producer \in db_asleep => db_pc[producer] = "wait"

DbInv == DbTypeOK /\ Hands /\ Life /\ ProducerSleeps /\ PoolAccounting /\ NoLostWakeup

Borrowers == {g \in Getters : held[g] # NoConn}
ActiveGetters == {g \in Getters : db_pc[g] \in DbCounting}
Reserved == IF db_pc[producer] = "connect" THEN 1 ELSE 0
Coming == \E t \in DbThreads : db_pc[t] \in {"notify", "failed"}

(* The threads of the pool: the three background ones and the clients, all different. *)
LEMMA ThreadsDiffer ==
    /\ producer \in DbThreads /\ scanner \in DbThreads /\ closer \in DbThreads
    /\ Getters \subseteq DbThreads /\ producer # scanner /\ producer # closer /\ scanner # closer
    /\ \A g \in Getters : g # producer /\ g # scanner /\ g # closer
    BY ZenonT(30), DbConfigAssumption DEF DbThreads, producer, scanner, closer

-----------------------------------------------------------------------------
(* Counting: the size of a set of getters when one of them moves. *)
LEMMA OneMoves ==
    ASSUME NEW A \in SUBSET Getters, NEW B \in SUBSET Getters, NEW g, A \ {g} = B \ {g}
    PROVE  /\ Cardinality(A) \in Nat /\ Cardinality(B) \in Nat
           /\ (g \in A <=> g \in B) => Cardinality(B) = Cardinality(A)
           /\ g \in A /\ g \notin B => Cardinality(B) = Cardinality(A) - 1
           /\ g \notin A /\ g \in B => Cardinality(B) = Cardinality(A) + 1
<1>1. IsFiniteSet(A) /\ IsFiniteSet(B)
    BY ZenonT(30), DbConfigAssumption, FS_Subset
<1>2. Cardinality(A) \in Nat /\ Cardinality(B) \in Nat
    BY ZenonT(30), <1>1, FS_CardinalityType
<1>3. Cardinality(A \ {g}) = IF g \in A THEN Cardinality(A) - 1 ELSE Cardinality(A)
    BY ZenonT(30), <1>1, FS_RemoveElement
<1>4. Cardinality(B \ {g}) = IF g \in B THEN Cardinality(B) - 1 ELSE Cardinality(B)
    BY ZenonT(30), <1>1, FS_RemoveElement
<1> QED BY <1>2, <1>3, <1>4

(* What is left of a queue whose first element is taken. *)
LEMMA TakesOne ==
    ASSUME NEW S, NEW q \in Seq(S), q # <<>>
    PROVE  /\ Head(q) \in S /\ Tail(q) \in Seq(S) /\ Len(Tail(q)) = Len(q) - 1
           /\ Len(q) # 1 => Tail(q) # <<>>
<1>1. Len(q) \in Nat /\ Len(q) # 0
    OBVIOUS
<1>2. Head(q) \in S /\ Tail(q) \in Seq(S) /\ Len(Tail(q)) = Len(q) - 1
    BY <1>1
<1>3. Tail(q) = <<>> => Len(Tail(q)) = 0
  <2>1. Len(<<>>) = 0
      BY ZenonT(30)
  <2> QED BY ZenonT(30), <2>1
<1> QED BY <1>1, <1>2, <1>3

(* How a total of three parts follows its parts. *)
LEMMA Sums ==
    ASSUME NEW c \in Int, NEW q \in Int, NEW b \in Int, NEW r \in Int, c = q + b + r
    PROVE  /\ c = (q + 1) + (b - 1) + r
           /\ c - 1 = q + (b - 1) + r
    OBVIOUS

(* What each getter that moves does to the two counts. *)
LEMMA GetterMoves ==
    ASSUME DbTypeOK, NEW g \in Getters,
           db_pc' = db_pc \/ \E l : db_pc' = [db_pc EXCEPT ![g] = l],
           held' = held \/ \E c : held' = [held EXCEPT ![g] = c]
    PROVE  /\ Cardinality(Borrowers) \in Nat /\ Cardinality(ActiveGetters) \in Nat
           /\ Cardinality(Borrowers') =
                Cardinality(Borrowers) + (IF held'[g] # NoConn THEN 1 ELSE 0)
                                       - (IF held[g] # NoConn THEN 1 ELSE 0)
           /\ Cardinality(ActiveGetters') =
                Cardinality(ActiveGetters) + (IF db_pc'[g] \in DbCounting THEN 1 ELSE 0)
                                           - (IF db_pc[g] \in DbCounting THEN 1 ELSE 0)
           /\ \A t \in DbThreads \ {g} : db_pc'[t] = db_pc[t] /\ held'[t] = held[t]
<1>1. \A t \in DbThreads \ {g} : db_pc'[t] = db_pc[t] /\ held'[t] = held[t]
    BY ZenonT(30) DEF DbTypeOK
<1>2. Borrowers \ {g} = Borrowers' \ {g} /\ ActiveGetters \ {g} = ActiveGetters' \ {g}
    BY ZenonT(30), <1>1, ThreadsDiffer DEF Borrowers, ActiveGetters
<1>3. /\ g \in Borrowers <=> held[g] # NoConn
      /\ g \in Borrowers' <=> held'[g] # NoConn
      /\ g \in ActiveGetters <=> db_pc[g] \in DbCounting
      /\ g \in ActiveGetters' <=> db_pc'[g] \in DbCounting
    BY ZenonT(30) DEF Borrowers, ActiveGetters
<1>4. /\ Borrowers \in SUBSET Getters /\ Borrowers' \in SUBSET Getters
      /\ ActiveGetters \in SUBSET Getters /\ ActiveGetters' \in SUBSET Getters
    BY ZenonT(30) DEF Borrowers, ActiveGetters
<1>5. /\ Cardinality(Borrowers) \in Nat
      /\ Cardinality(Borrowers') =
                Cardinality(Borrowers) + (IF held'[g] # NoConn THEN 1 ELSE 0)
                                       - (IF held[g] # NoConn THEN 1 ELSE 0)
    BY <1>2, <1>3, <1>4, OneMoves
<1>6. /\ Cardinality(ActiveGetters) \in Nat
      /\ Cardinality(ActiveGetters') =
                Cardinality(ActiveGetters) + (IF db_pc'[g] \in DbCounting THEN 1 ELSE 0)
                                           - (IF db_pc[g] \in DbCounting THEN 1 ELSE 0)
    BY <1>2, <1>3, <1>4, OneMoves
<1> QED BY ZenonT(30), <1>1, <1>5, <1>6

(* Another thread's move leaves the getters' counts alone. *)
LEMMA OthersMove ==
    ASSUME \A g \in Getters : db_pc'[g] = db_pc[g] /\ held'[g] = held[g]
    PROVE  Borrowers' = Borrowers /\ ActiveGetters' = ActiveGetters
    BY ZenonT(30) DEF Borrowers, ActiveGetters

-----------------------------------------------------------------------------
(* One pass of the loop of get_connection: a thread that takes the last    *)
(* idle connection while more may be made is about to wake the producer.   *)
LEMMA Taking ==
    ASSUME DbInv, NEW g \in Getters, NEW b, NEW c, NEW s, TakeOrWait(g, b, c, s), UNCHANGED <<dbLife, db_expired>>,
           \/ /\ db_pc[g] \in {"idle", "waiting"}
              /\ b = borrowed_count /\ c = connection_cnt /\ s = db_asleep
           \/ /\ db_pc[g] = "ping"
              /\ b = borrowed_count - 1 /\ c = connection_cnt - 1 /\ s = {},
           active_getters' = IF db_pc[g] = "idle" THEN active_getters + 1 ELSE active_getters
    PROVE  DbInv'
<1> USE ThreadsDiffer
<1>0. /\ connection_queue \in Seq(Conns) /\ connection_cnt \in Int /\ borrowed_count \in Int
      /\ db_pc \in [DbThreads -> DbLabels] /\ held \in [DbThreads -> Conns \cup {NoConn}]
      /\ active_getters \in Int /\ g \in DbThreads
    BY ZenonT(30) DEF DbInv, DbTypeOK
<1>1. PICK l, h :
        /\ db_pc' = [db_pc EXCEPT ![g] = l] /\ held' = [held EXCEPT ![g] = h]
        /\ \/ l = "leaving" /\ h = NoConn /\ connection_queue' = connection_queue
              /\ borrowed_count' = b /\ db_asleep' = s \ {g}
           \/ l = "waiting" /\ h = NoConn /\ connection_queue' = connection_queue /\ connection_queue = <<>>
              /\ ~db_stopping /\ borrowed_count' = b /\ db_asleep' = s \cup {g}
           \/ l \in {"notify", "ping"} /\ h = Head(connection_queue) /\ connection_queue # <<>>
              /\ (l = "notify" <=> Len(connection_queue) = 1 /\ c < MaxSize)
              /\ ~db_stopping /\ connection_queue' = Tail(connection_queue)
              /\ borrowed_count' = b + 1 /\ db_asleep' = s \ {g}
        /\ connection_cnt' = c
    BY ZenonT(30) DEF TakeOrWait, Goto
<1>2. connection_queue # <<>> =>
        /\ Head(connection_queue) \in Conns /\ Tail(connection_queue) \in Seq(Conns)
        /\ Len(Tail(connection_queue)) = Len(connection_queue) - 1
        /\ Len(connection_queue) # 1 => Tail(connection_queue) # <<>>
    BY ZenonT(30), <1>0, TakesOne
<1>3. /\ db_pc'[g] = l /\ held'[g] = h /\ NoConn \notin Conns
      /\ \A t \in DbThreads \ {g} : db_pc'[t] = db_pc[t] /\ held'[t] = held[t]
    BY ZenonT(30), <1>0, <1>1, DbConfigAssumption
<1>4. l \in {"leaving", "waiting", "notify", "ping"} /\ (h # NoConn <=> l \in {"notify", "ping"})
    BY ZenonT(30), <1>1, <1>2, <1>3
<1>5. DbTypeOK'
  <2>1. b \in Int /\ c \in Int /\ s \subseteq DbThreads
      BY <1>0 DEF DbInv, DbTypeOK
  <2>2. h \in Conns \cup {NoConn} /\ l \in DbLabels
      BY ZenonT(30), <1>1, <1>2, <1>4 DEF DbLabels
  <2>3. connection_queue' \in Seq(Conns)
      BY ZenonT(30), <1>0, <1>1, <1>2
  <2>4. borrowed_count' \in Int
      BY <1>1, <2>1
  <2>5. db_asleep' \subseteq DbThreads
      BY ZenonT(30), <1>0, <1>1, <2>1
  <2> QED BY <1>0, <1>1, <2>1, <2>2, <2>3, <2>4, <2>5 DEF DbInv, DbTypeOK
<1>6. Hands'
    BY ZenonT(30), <1>3, <1>4 DEF DbInv, Hands
<1>7. Life' /\ ProducerSleeps'
  <2>1. s \subseteq db_asleep
      BY ZenonT(30)
  <2> QED BY ZenonT(30), <1>1, <1>3, <2>1 DEF DbInv, Life, ProducerSleeps, dbLife
<1>8. PoolAccounting'
  <2> SUFFICES ASSUME destroyed # "yes" PROVE PoolAccounting'
      BY ZenonT(30) DEF PoolAccounting, dbLife
  <2>1. /\ borrowed_count = Cardinality(Borrowers) /\ active_getters = Cardinality(ActiveGetters)
        /\ connection_cnt = Len(connection_queue) + borrowed_count + Reserved /\ connection_cnt <= MaxSize
      BY ZenonT(30) DEF DbInv, PoolAccounting, Borrowers, ActiveGetters, Reserved
  <2>2. /\ Cardinality(Borrowers) \in Nat /\ Cardinality(ActiveGetters) \in Nat
        /\ Cardinality(Borrowers') =
             Cardinality(Borrowers) + (IF held'[g] # NoConn THEN 1 ELSE 0) - (IF held[g] # NoConn THEN 1 ELSE 0)
        /\ Cardinality(ActiveGetters') =
             Cardinality(ActiveGetters) + (IF db_pc'[g] \in DbCounting THEN 1 ELSE 0)
                                        - (IF db_pc[g] \in DbCounting THEN 1 ELSE 0)
      BY ZenonT(30), <1>1, GetterMoves DEF DbInv
  <2>3. (held[g] # NoConn <=> db_pc[g] = "ping") /\ (db_pc[g] \in DbCounting <=> db_pc[g] # "idle")
        /\ db_pc'[g] \in DbCounting
      BY ZenonT(30), <1>3, <1>4 DEF DbInv, Hands, DbCounting
  <2>4. active_getters' = Cardinality(ActiveGetters')
      BY <1>0, <2>1, <2>2, <2>3
  <2>5. borrowed_count' = Cardinality(Borrowers')
    <3>1. b = Cardinality(Borrowers) - (IF held[g] # NoConn THEN 1 ELSE 0)
        BY <1>0, <2>1, <2>3
    <3>2. borrowed_count' = b + (IF held'[g] # NoConn THEN 1 ELSE 0)
        BY <1>0, <1>1, <1>3, <1>4
    <3>3. PICK x \in Int, y \in Int : /\ x = (IF held[g] # NoConn THEN 1 ELSE 0)
                                      /\ y = (IF held'[g] # NoConn THEN 1 ELSE 0)
        OBVIOUS
    <3>4. \A m \in Int : (m - x) + y = m + y - x
        OBVIOUS
    <3> QED BY <2>2, <3>1, <3>2, <3>3, <3>4
  <2>6. Reserved' = Reserved
      BY ZenonT(30), <1>3 DEF Reserved
  <2>7. connection_cnt' = Len(connection_queue') + borrowed_count' + Reserved' /\ connection_cnt' <= MaxSize
    <3>1. c = Len(connection_queue) + b + Reserved /\ c <= MaxSize /\ Reserved \in Int /\ Len(connection_queue) \in Nat
        BY SMTT(30), <1>0, <2>1, DbConfigAssumption DEF Reserved
    <3> QED BY SMTT(30), <1>0, <1>1, <1>2, <2>6, <3>1
  <2> QED BY ZenonT(30), <2>4, <2>5, <2>7 DEF PoolAccounting, Borrowers, ActiveGetters, Reserved
<1>9. NoLostWakeup'
  <2>1. Coming => Coming'
      BY ZenonT(30), <1>3 DEF Coming, DbInv, Hands
  <2>2. /\ producer \in db_asleep /\ db_pc[producer] = "wait" =>
             Coming \/ (~db_stopping /\ ~(connection_queue = <<>> /\ connection_cnt < MaxSize))
        /\ \A t \in Getters \cap db_asleep :
             db_pc[t] = "waiting" => Coming \/ (~db_stopping /\ connection_queue = <<>>)
      BY ZenonT(30) DEF DbInv, NoLostWakeup, Coming
  <2>3. l = "notify" => Coming'
      BY ZenonT(30), <1>0, <1>3 DEF Coming
  <2>4. /\ producer \in db_asleep' /\ db_pc'[producer] = "wait" =>
             Coming' \/ (~db_stopping' /\ ~(connection_queue' = <<>> /\ connection_cnt' < MaxSize))
      BY ZenonT(30), <1>1, <1>2, <1>3, <2>1, <2>2, <2>3 DEF dbLife
  <2>5. \A t \in Getters \cap db_asleep' :
             db_pc'[t] = "waiting" => Coming' \/ (~db_stopping' /\ connection_queue' = <<>>)
      BY ZenonT(30), <1>1, <1>2, <1>3, <2>1, <2>2, <2>3 DEF dbLife
  <2> QED BY ZenonT(30), <2>4, <2>5 DEF NoLostWakeup, Coming
<1> QED BY ZenonT(30), <1>5, <1>6, <1>7, <1>8, <1>9 DEF DbInv

(* Only deadlines, and the state of connections, change. *)
LEMMA Quiet ==
    ASSUME DbInv, UNCHANGED <<connection_queue, countVars, dbLife, db_pc, held, db_asleep>>,
           db_expired' \in [Getters -> BOOLEAN]
    PROVE  DbInv'
<1> USE DEF countVars, dbLife
<1>1. DbTypeOK' /\ Hands' /\ Life' /\ ProducerSleeps'
    BY ZenonT(30) DEF DbInv, DbTypeOK, Hands, Life, ProducerSleeps
<1>2. PoolAccounting' /\ NoLostWakeup'
    BY ZenonT(30) DEF DbInv, PoolAccounting, NoLostWakeup
<1> QED BY ZenonT(30), <1>1, <1>2 DEF DbInv

(* A getter goes on with what it has. *)
LEMMA GoesOn ==
    ASSUME DbInv, NEW g \in Getters, NEW l \in DbLabels, db_pc' = [db_pc EXCEPT ![g] = l],
           UNCHANGED <<connection_queue, connection_cnt, borrowed_count, dbLife, held>>,
           db_expired' \in [Getters -> BOOLEAN],
           held[g] # NoConn <=> l \in {"notify", "ping", "return", "holding", "intxn"},
           \/ active_getters' = active_getters /\ (l \in DbCounting <=> db_pc[g] \in DbCounting)
           \/ active_getters' = active_getters - 1 /\ l \notin DbCounting /\ db_pc[g] \in DbCounting,
           db_asleep' = {} \/ (db_asleep' = db_asleep /\ db_pc[g] # "notify" /\ db_pc[g] # "failed" /\ l # "waiting")
    PROVE  DbInv'
<1> USE ThreadsDiffer DEF dbLife
<1>1. db_pc'[g] = l /\ \A t \in DbThreads \ {g} : db_pc'[t] = db_pc[t]
    BY ZenonT(30) DEF DbInv, DbTypeOK
<1>2. DbTypeOK' /\ Hands' /\ Life' /\ ProducerSleeps'
    BY <1>1 DEF DbInv, DbTypeOK, Hands, Life, ProducerSleeps
<1>3. PoolAccounting'
  <2>0. DbTypeOK /\ PoolAccounting /\ held'[g] = held[g] /\ db_pc'[producer] = db_pc[producer]
      BY ZenonT(30), <1>1 DEF DbInv
  <2>1. /\ Cardinality(Borrowers) \in Nat /\ Cardinality(ActiveGetters) \in Nat
        /\ Cardinality(Borrowers') =
             Cardinality(Borrowers) + (IF held'[g] # NoConn THEN 1 ELSE 0) - (IF held[g] # NoConn THEN 1 ELSE 0)
        /\ Cardinality(ActiveGetters') =
             Cardinality(ActiveGetters) + (IF db_pc'[g] \in DbCounting THEN 1 ELSE 0)
                                        - (IF db_pc[g] \in DbCounting THEN 1 ELSE 0)
      BY ZenonT(30), <2>0, GetterMoves
  <2>2. Cardinality(Borrowers') = Cardinality(Borrowers)
      BY <2>0, <2>1
  <2>3. active_getters = Cardinality(ActiveGetters) => active_getters' = Cardinality(ActiveGetters')
      BY <1>1, <2>1
  <2> QED BY ZenonT(30), <2>0, <2>2, <2>3 DEF PoolAccounting, Borrowers, ActiveGetters
<1>4. NoLostWakeup'
  <2>1. CASE db_asleep' = {}
      BY ZenonT(30), <2>1 DEF NoLostWakeup
  <2>2. CASE db_asleep' = db_asleep /\ db_pc[g] # "notify" /\ db_pc[g] # "failed" /\ l # "waiting"
      BY ZenonT(30), <1>1, <2>2 DEF DbInv, NoLostWakeup
  <2> QED BY ZenonT(30), <2>1, <2>2
<1> QED BY ZenonT(30), <1>2, <1>3, <1>4 DEF DbInv

(* A getter gives its connection back, or drops it, and notifies. *)
LEMMA GivesUp ==
    ASSUME DbInv, NEW g \in Getters, NEW l \in DbLabels, db_pc' = [db_pc EXCEPT ![g] = l],
           held' = [held EXCEPT ![g] = NoConn], held[g] # NoConn,
           l \notin {"notify", "ping", "return", "holding", "intxn"}, l \in DbCounting <=> db_pc[g] \in DbCounting,
           borrowed_count' = borrowed_count - 1, UNCHANGED <<active_getters, dbLife, db_expired>>, db_asleep' = {},
           \/ connection_queue' = Append(connection_queue, held[g]) /\ connection_cnt' = connection_cnt
           \/ connection_queue' = connection_queue /\ connection_cnt' = connection_cnt - 1
    PROVE  DbInv'
<1> USE ThreadsDiffer DEF dbLife
<1>1. /\ db_pc'[g] = l /\ held'[g] = NoConn
      /\ \A t \in DbThreads \ {g} : db_pc'[t] = db_pc[t] /\ held'[t] = held[t]
    BY ZenonT(30) DEF DbInv, DbTypeOK
<1>2. /\ connection_queue \in Seq(Conns) /\ held[g] \in Conns
      /\ connection_queue' \in Seq(Conns)
      /\ \/ Len(connection_queue') = Len(connection_queue) + 1 /\ connection_cnt' = connection_cnt
         \/ Len(connection_queue') = Len(connection_queue) /\ connection_cnt' = connection_cnt - 1
  <2>1. /\ connection_queue \in Seq(Conns) /\ held[g] \in Conns
      BY ZenonT(30) DEF DbInv, DbTypeOK
  <2>2. /\ Append(connection_queue, held[g]) \in Seq(Conns)
        /\ Len(Append(connection_queue, held[g])) = Len(connection_queue) + 1
      BY <2>1
  <2> QED BY ZenonT(30), <2>1, <2>2
<1>3. DbTypeOK'
    BY <1>2 DEF DbInv, DbTypeOK
<1>4. Hands' /\ Life' /\ ProducerSleeps' /\ NoLostWakeup'
    BY <1>1 DEF DbInv, Hands, Life, ProducerSleeps, NoLostWakeup
<1>5. PoolAccounting'
  <2> SUFFICES ASSUME destroyed # "yes" PROVE PoolAccounting'
      BY ZenonT(30) DEF PoolAccounting
  <2>0. /\ Cardinality(Borrowers) \in Nat /\ Cardinality(ActiveGetters) \in Nat
        /\ Cardinality(Borrowers') =
             Cardinality(Borrowers) + (IF held'[g] # NoConn THEN 1 ELSE 0) - (IF held[g] # NoConn THEN 1 ELSE 0)
        /\ Cardinality(ActiveGetters') =
             Cardinality(ActiveGetters) + (IF db_pc'[g] \in DbCounting THEN 1 ELSE 0)
                                        - (IF db_pc[g] \in DbCounting THEN 1 ELSE 0)
      BY ZenonT(30), GetterMoves DEF DbInv
  <2>1. /\ Cardinality(Borrowers) \in Nat /\ Cardinality(Borrowers') = Cardinality(Borrowers) - 1
        /\ Cardinality(ActiveGetters') = Cardinality(ActiveGetters) /\ Cardinality(ActiveGetters) \in Nat
      BY <1>1, <2>0
  <2>2. /\ borrowed_count = Cardinality(Borrowers) /\ active_getters = Cardinality(ActiveGetters)
        /\ connection_cnt = Len(connection_queue) + borrowed_count + Reserved /\ connection_cnt <= MaxSize
      BY ZenonT(30) DEF DbInv, PoolAccounting, Borrowers, ActiveGetters, Reserved
  <2>3. Reserved' = Reserved /\ Reserved \in Int /\ Len(connection_queue) \in Nat /\ MaxSize \in Nat
      BY <1>1, <1>2, DbConfigAssumption DEF Reserved
  <2>4. connection_cnt' = Len(connection_queue') + borrowed_count' + Reserved' /\ connection_cnt' <= MaxSize
    <3>1. CASE Len(connection_queue') = Len(connection_queue) + 1 /\ connection_cnt' = connection_cnt
      <4>1. connection_cnt \in Int /\ borrowed_count \in Int /\ Len(connection_queue) \in Int
          BY <2>3 DEF DbInv, DbTypeOK
      <4>2. connection_cnt = (Len(connection_queue) + 1) + (borrowed_count - 1) + Reserved
          BY SMTT(30), <2>2, <2>3, <4>1, Sums
      <4> QED BY ZenonT(30), <2>2, <2>3, <3>1, <4>2
    <3>2. CASE Len(connection_queue') = Len(connection_queue) /\ connection_cnt' = connection_cnt - 1
        BY SMTT(30), <2>1, <2>2, <2>3, <3>2, Sums
    <3> QED BY ZenonT(30), <1>2, <3>1, <3>2
  <2> QED BY ZenonT(30), <2>1, <2>2, <2>4 DEF PoolAccounting, Borrowers, ActiveGetters, Reserved
<1> QED BY ZenonT(30), <1>3, <1>4, <1>5 DEF DbInv

(* The steps of a business thread. *)
LEMMA GetterInv ==
    ASSUME DbInv, NEW g \in Getters,
           \/ get_connection(g) \/ GetterStep(g) \/ DeadlinePasses(g)
           \/ DbTransaction(g) \/ EndTransaction(g) \/ release_connection(g)
    PROVE  DbInv'
<1> USE ThreadsDiffer
<1>0. /\ db_pc \in [DbThreads -> DbLabels] /\ active_getters \in Int /\ db_expired \in [Getters -> BOOLEAN]
      /\ held[g] # NoConn <=> db_pc[g] \in {"notify", "ping", "return", "holding", "intxn"}
    BY ZenonT(30) DEF DbInv, DbTypeOK, Hands
<1>1. CASE get_connection(g)
    BY ZenonT(30), <1>0, <1>1, Taking DEF get_connection
<1>2. CASE WaitEnds(g)
    BY ZenonT(30), <1>0, <1>2, Taking DEF WaitEnds
<1>3. CASE NeedCreate(g)
    BY ZenonT(30), <1>0, <1>3, GoesOn DEF NeedCreate, Goto, countVars, DbLabels, DbCounting
<1>4. CASE PingOk(g)
    BY ZenonT(30), <1>0, <1>4, GoesOn DEF PingOk, Goto, countVars, DbLabels, DbCounting
<1>5. CASE PingBad(g) /\ ~db_expired[g]
    BY ZenonT(30), <1>0, <1>5, Taking DEF PingBad
<1>6. CASE PingBad(g) /\ db_expired[g]
  <2>1. "leaving" \in DbLabels /\ "leaving" \in DbCounting /\ "ping" \in DbCounting
      BY DEF DbLabels, DbCounting
  <2> QED BY ZenonT(30), <1>0, <1>6, <2>1, GivesUp DEF PingBad, Goto
<1>7. CASE FinishGetter(g)
  <2> DEFINE l == IF db_pc[g] = "return" THEN "holding" ELSE "idle"
  <2>1. /\ l \in DbLabels /\ l \notin DbCounting /\ db_pc[g] \in DbCounting
        /\ held[g] # NoConn <=> l \in {"notify", "ping", "return", "holding", "intxn"}
        /\ db_pc' = [db_pc EXCEPT ![g] = l] /\ active_getters' = active_getters - 1
      BY ZenonT(30), <1>0, <1>7 DEF FinishGetter, Goto, DbLabels, DbCounting
  <2>2. /\ UNCHANGED <<connection_queue, connection_cnt, borrowed_count, dbLife, held>> /\ db_asleep' = {}
        /\ db_expired' \in [Getters -> BOOLEAN]
      BY ZenonT(30), <1>0, <1>7 DEF FinishGetter
  <2> HIDE DEF l
  <2> QED BY ZenonT(30), <1>0, <2>1, <2>2, GoesOn
<1>8. CASE DeadlinePasses(g)
  <2>1. db_expired' \in [Getters -> BOOLEAN]
      BY ZenonT(30), <1>0, <1>8 DEF DeadlinePasses
  <2> QED BY ZenonT(30), <1>8, <2>1, Quiet DEF DeadlinePasses
<1>9. CASE DbTransaction(g)
  <2>1. CASE UNCHANGED db_pc
      BY ZenonT(30), <1>0, <1>9, <2>1, Quiet DEF DbTransaction
  <2>2. CASE Goto(g, "intxn")
      BY ZenonT(30), <1>0, <1>9, <2>2, GoesOn DEF DbTransaction, Goto, countVars, DbLabels, DbCounting
  <2> QED BY ZenonT(30), <1>9, <2>1, <2>2 DEF DbTransaction
<1>10. CASE EndTransaction(g)
    BY ZenonT(30), <1>0, <1>10, GoesOn DEF EndTransaction, Goto, countVars, DbLabels, DbCounting
<1>11. CASE release_connection(g)
  <2>1. "idle" \in DbLabels /\ "idle" \notin DbCounting /\ "holding" \notin DbCounting
      BY ZenonT(30) DEF DbLabels, DbCounting
  <2> QED BY ZenonT(30), <1>0, <1>11, <2>1, GivesUp DEF release_connection, Goto
<1> QED BY ZenonT(30), <1>1, <1>2, <1>3, <1>4, <1>5, <1>6, <1>7, <1>8, <1>9, <1>10, <1>11 DEF GetterStep

-----------------------------------------------------------------------------
(* While the total is below MaxSize and nothing is idle, there is a        *)
(* connection to make.                                                     *)
LEMMA CanCreate ==
    ASSUME DbInv, ~db_stopping, connection_queue = <<>>, connection_cnt < MaxSize, db_pc[producer] = "wait"
    PROVE  (CHOOSE c \in Unused : TRUE) \in Conns
<1> USE ThreadsDiffer
<1>1. IsFiniteSet(Borrowers) /\ Borrowers \subseteq Getters
  <2>1. Borrowers \in SUBSET Getters
      BY ZenonT(30) DEF Borrowers
  <2> QED BY ZenonT(30), <2>1, DbConfigAssumption, FS_Subset
<1>2. Cardinality(Borrowers) < MaxSize
  <2>1. Len(connection_queue) = 0 /\ destroyed # "yes" /\ borrowed_count \in Int
      BY ZenonT(30) DEF DbInv, Life, DbTypeOK
  <2>2. connection_cnt = Len(connection_queue) + borrowed_count + 0 /\ borrowed_count = Cardinality(Borrowers)
      BY ZenonT(30), <2>1 DEF DbInv, PoolAccounting, Borrowers
  <2> QED BY <2>1, <2>2
<1> DEFINE S == {held[g] : g \in Borrowers}
           f == [g \in Borrowers |-> held[g]]
<1>3. S \in SUBSET Conns
    BY ZenonT(30) DEF Borrowers, DbInv, DbTypeOK
<1>4. IsFiniteSet(S) /\ Cardinality(S) <= Cardinality(Borrowers)
  <2>1. f \in Surjection(Borrowers, S)
      BY ZenonT(30) DEF Surjection
  <2> HIDE DEF S, f
  <2> QED BY ZenonT(30), <1>1, <2>1, FS_Surjection
<1>5. S # Conns
  <2> HIDE DEF S
  <2>1. Cardinality(S) \in Nat /\ Cardinality(Borrowers) \in Nat /\ MaxSize \in Nat
      BY ZenonT(30), <1>1, <1>4, FS_CardinalityType, DbConfigAssumption
  <2>2. Cardinality(S) < MaxSize
      BY <1>2, <1>4, <2>1
  <2> QED BY ZenonT(30), <1>3, <1>4, <2>2, ConnsAssumption
<1>6. PICK c \in Conns : c \notin S
    BY ZenonT(30), <1>3, <1>5
<1>7. \A t \in DbThreads : held[t] # c
  <2>1. \A g \in Getters : held[g] # c
      BY <1>6, DbConfigAssumption DEF Borrowers
  <2>2. \A t \in {producer, scanner, closer} : held[t] # c
      BY ZenonT(30), DbConfigAssumption DEF DbInv, Hands
  <2> QED BY ZenonT(30), <2>1, <2>2 DEF DbThreads
<1>8. DOMAIN connection_queue = {}
    OBVIOUS
<1>9. c \in Unused
    BY ZenonT(30), <1>7, <1>8 DEF Unused
<1>10. Unused \subseteq Conns
    BY ZenonT(30) DEF Unused
<1> QED BY ZenonT(30), <1>9, <1>10

(* A step of the producer, from which the rest of the pool follows. *)
LEMMA ProducerMoves ==
    ASSUME DbInv, NEW l \in DbLabels, NEW h \in Conns \cup {NoConn},
           db_pc' = [db_pc EXCEPT ![producer] = l], held' = [held EXCEPT ![producer] = h],
           h # NoConn <=> l = "connect", UNCHANGED <<borrowed_count, active_getters, dbLife, db_expired>>,
           connection_queue' \in Seq(Conns), connection_cnt' \in Int, db_asleep' \subseteq db_asleep \cup {producer},
           producer \in db_asleep' => l = "wait",
           destroyed # "yes" =>
               /\ connection_cnt' - Len(connection_queue') - (IF l = "connect" THEN 1 ELSE 0)
                     = connection_cnt - Len(connection_queue) - Reserved
               /\ connection_cnt' <= MaxSize,
           NoLostWakeup'
    PROVE  DbInv'
<1> USE ThreadsDiffer DEF dbLife
<1>1. /\ db_pc'[producer] = l /\ held'[producer] = h
      /\ \A t \in DbThreads \ {producer} : db_pc'[t] = db_pc[t] /\ held'[t] = held[t]
    BY ZenonT(30) DEF DbInv, DbTypeOK
<1>2. DbTypeOK'
    BY ZenonT(30) DEF DbInv, DbTypeOK
<1>3. Hands' /\ Life' /\ ProducerSleeps'
    BY <1>1 DEF DbInv, Hands, Life, ProducerSleeps
<1>4. PoolAccounting'
  <2> SUFFICES ASSUME destroyed # "yes" PROVE PoolAccounting'
      BY ZenonT(30) DEF PoolAccounting
  <2>1. Borrowers' = Borrowers /\ ActiveGetters' = ActiveGetters
      BY ZenonT(30), <1>1, OthersMove
  <2>2. /\ borrowed_count = Cardinality(Borrowers) /\ active_getters = Cardinality(ActiveGetters)
        /\ connection_cnt = Len(connection_queue) + borrowed_count + Reserved
      BY ZenonT(30) DEF DbInv, PoolAccounting, Borrowers, ActiveGetters, Reserved
  <2>3. /\ Reserved \in Int /\ Len(connection_queue) \in Nat /\ Len(connection_queue') \in Nat
        /\ Reserved' = (IF l = "connect" THEN 1 ELSE 0) /\ borrowed_count \in Int /\ connection_cnt \in Int
      BY <1>1 DEF Reserved, DbInv, DbTypeOK
  <2>4. connection_cnt' = Len(connection_queue') + borrowed_count + Reserved'
    <3>1. PICK c, q, b, r, d, p, k :
             /\ c = connection_cnt /\ q = Len(connection_queue) /\ b = borrowed_count /\ r = Reserved
             /\ d = connection_cnt' /\ p = Len(connection_queue') /\ k = (IF l = "connect" THEN 1 ELSE 0)
        BY ZenonT(30)
    <3>2. c \in Int /\ q \in Int /\ b \in Int /\ r \in Int /\ d \in Int /\ p \in Int /\ k \in Int
        BY <2>3, <3>1
    <3>3. c = q + b + r /\ d - p - k = c - q - r
        BY ZenonT(30), <2>2, <3>1
    <3>4. d = p + b + k
        BY <3>2, <3>3
    <3> QED BY ZenonT(30), <2>3, <3>1, <3>4
  <2> QED BY ZenonT(30), <2>1, <2>2, <2>4 DEF PoolAccounting, Borrowers, ActiveGetters, Reserved
<1> QED BY ZenonT(30), <1>2, <1>3, <1>4 DEF DbInv

(* The steps of the producer. *)
LEMMA ProducerInv ==
    ASSUME DbInv, ProducerStep
    PROVE  DbInv'
<1> USE ThreadsDiffer DEF dbLife
<1>0. /\ connection_queue \in Seq(Conns) /\ connection_cnt \in Int /\ MaxSize \in Nat
      /\ db_pc \in [DbThreads -> DbLabels] /\ held \in [DbThreads -> Conns \cup {NoConn}]
      /\ held[producer] # NoConn <=> db_pc[producer] = "connect"
      /\ producer \in db_asleep => db_pc[producer] = "wait"
      /\ destroyed # "yes" => connection_cnt <= MaxSize
      /\ Reserved = IF db_pc[producer] = "connect" THEN 1 ELSE 0
    BY ZenonT(30), DbConfigAssumption DEF DbInv, DbTypeOK, Hands, ProducerSleeps, PoolAccounting, Reserved
<1>1. {"wait", "connect", "failed", "notify", "backoff", "exited"} \subseteq DbLabels
    BY ZenonT(30) DEF DbLabels
<1>2. NoConn \notin Conns /\ Len(connection_queue) \in Nat
    BY <1>0, DbConfigAssumption
<1>3. ASSUME NEW l, db_pc' = [db_pc EXCEPT ![producer] = l]
      PROVE  db_pc'[producer] = l /\ \A t \in DbThreads \ {producer} : db_pc'[t] = db_pc[t]
    BY ZenonT(30), <1>0, <1>3
<1>4. ASSUME held[producer] = NoConn, held' = held PROVE held' = [held EXCEPT ![producer] = NoConn]
    BY ZenonT(30), <1>0, <1>4
<1>5. CASE ProducerWait
  <2>1. CASE db_stopping
    <3>1. /\ db_pc' = [db_pc EXCEPT ![producer] = "exited"] /\ producer \notin db_asleep /\ db_pc[producer] = "wait"
          /\ UNCHANGED <<connection_cnt, held, db_asleep, connection_queue, borrowed_count, active_getters, dbLife, db_expired>>
        BY ZenonT(30), <1>5, <2>1 DEF ProducerWait, Goto
    <3>2. NoLostWakeup'
        BY ZenonT(30), <1>3, <3>1 DEF DbInv, NoLostWakeup
    <3> QED BY ZenonT(30), <1>0, <1>1, <1>2, <1>4, <3>1, <3>2, ProducerMoves
  <2>2. CASE ~db_stopping /\ connection_queue = <<>> /\ connection_cnt < MaxSize
    <3>0. PICK h : h = CHOOSE c \in Unused : TRUE
        BY ZenonT(30)
    <3>1. /\ db_pc' = [db_pc EXCEPT ![producer] = "connect"] /\ producer \notin db_asleep /\ db_pc[producer] = "wait"
          /\ held' = [held EXCEPT ![producer] = h] /\ connection_cnt' = connection_cnt + 1
          /\ UNCHANGED <<db_asleep, connection_queue, borrowed_count, active_getters, dbLife, db_expired>>
        BY ZenonT(30), <1>5, <2>2, <3>0 DEF ProducerWait, Goto
    <3>2. NoLostWakeup'
        BY ZenonT(30), <1>3, <3>1 DEF DbInv, NoLostWakeup
    <3>3. h \in Conns
        BY ZenonT(30), <2>2, <3>0, <3>1, CanCreate
    <3>4. connection_cnt' \in Int /\ connection_cnt' <= MaxSize
          /\ connection_cnt' - Len(connection_queue') - 1 = connection_cnt - Len(connection_queue) - Reserved
        BY SMTT(30), <1>0, <1>2, <2>2, <3>1
    <3> QED BY ZenonT(30), <1>0, <1>1, <1>2, <3>1, <3>2, <3>3, <3>4, ProducerMoves
  <2>3. CASE ~db_stopping /\ ~(connection_queue = <<>> /\ connection_cnt < MaxSize)
    <3>1. /\ db_asleep' = db_asleep \cup {producer} /\ db_pc[producer] = "wait"
          /\ UNCHANGED <<connection_cnt, held, db_pc, connection_queue, borrowed_count, active_getters, dbLife, db_expired>>
        BY ZenonT(30), <1>5, <2>3 DEF ProducerWait
    <3>2. NoLostWakeup'
        BY ZenonT(30), <2>3, <3>1 DEF DbInv, NoLostWakeup
    <3>3. db_pc' = [db_pc EXCEPT ![producer] = "wait"]
        BY ZenonT(30), <1>0, <3>1
    <3> QED BY ZenonT(30), <1>0, <1>1, <1>2, <1>4, <3>1, <3>2, <3>3, ProducerMoves
  <2> QED BY ZenonT(30), <1>5, <2>1, <2>2, <2>3
<1>6. CASE ConnectFails
  <2>1. /\ db_pc' = [db_pc EXCEPT ![producer] = "failed"] /\ db_pc[producer] = "connect"
        /\ held' = [held EXCEPT ![producer] = NoConn] /\ connection_cnt' = connection_cnt - 1
        /\ UNCHANGED <<db_asleep, connection_queue, borrowed_count, active_getters, dbLife, db_expired>>
      BY ZenonT(30), <1>6 DEF ConnectFails, Goto
  <2>2. NoLostWakeup'
      BY ZenonT(30), <1>3, <2>1 DEF NoLostWakeup
  <2>3. connection_cnt' \in Int /\ (destroyed # "yes" => connection_cnt' <= MaxSize)
        /\ connection_cnt' - Len(connection_queue') - 0 = connection_cnt - Len(connection_queue) - Reserved
      BY <1>0, <1>2, <2>1
  <2> QED BY ZenonT(30), <1>0, <1>1, <1>2, <2>1, <2>2, <2>3, ProducerMoves
<1>7. CASE ProducerNotify
  <2> DEFINE l == IF db_pc[producer] = "failed" THEN "backoff" ELSE "wait"
  <2>1. /\ db_pc' = [db_pc EXCEPT ![producer] = l] /\ db_pc[producer] # "connect" /\ l \in {"backoff", "wait"}
        /\ db_asleep' = {}
        /\ UNCHANGED <<connection_cnt, held, connection_queue, borrowed_count, active_getters, dbLife, db_expired>>
      BY ZenonT(30), <1>7 DEF ProducerNotify, Goto, countVars
  <2>2. NoLostWakeup'
      BY ZenonT(30), <2>1 DEF NoLostWakeup
  <2> HIDE DEF l
  <2> QED BY ZenonT(30), <1>0, <1>1, <1>2, <1>4, <2>1, <2>2, ProducerMoves
<1>8. CASE BackoffEnds
  <2> DEFINE l == IF db_stopping THEN "exited" ELSE "wait"
  <2>1. /\ db_pc' = [db_pc EXCEPT ![producer] = l] /\ db_pc[producer] = "backoff" /\ l \in {"exited", "wait"}
        /\ producer \notin db_asleep
        /\ UNCHANGED <<connection_cnt, held, db_asleep, connection_queue, borrowed_count, active_getters, dbLife, db_expired>>
      BY ZenonT(30), <1>0, <1>8 DEF BackoffEnds, Goto, countVars
  <2> HIDE DEF l
  <2>2. NoLostWakeup'
      BY ZenonT(30), <1>3, <2>1 DEF DbInv, NoLostWakeup
  <2> QED BY ZenonT(30), <1>0, <1>1, <1>2, <1>4, <2>1, <2>2, ProducerMoves
<1>9. CASE ConnectSucceeds
  <2>1. CASE db_stopping
    <3>1. /\ db_pc' = [db_pc EXCEPT ![producer] = "exited"] /\ db_pc[producer] = "connect"
          /\ held' = [held EXCEPT ![producer] = NoConn] /\ connection_cnt' = connection_cnt - 1
          /\ UNCHANGED <<db_asleep, connection_queue, borrowed_count, active_getters, dbLife, db_expired>>
        BY ZenonT(30), <1>9, <2>1 DEF ConnectSucceeds, Goto
    <3>2. NoLostWakeup'
        BY ZenonT(30), <1>0, <1>3, <2>1, <3>1 DEF DbInv, NoLostWakeup
    <3>3. connection_cnt' \in Int /\ (destroyed # "yes" => connection_cnt' <= MaxSize)
          /\ connection_cnt' - Len(connection_queue') - 0 = connection_cnt - Len(connection_queue) - Reserved
        BY SMTT(30), <1>0, <1>2, <3>1
    <3> QED BY ZenonT(30), <1>0, <1>1, <1>2, <3>1, <3>2, <3>3, ProducerMoves
  <2>2. CASE ~db_stopping
    <3>1. /\ db_pc' = [db_pc EXCEPT ![producer] = "notify"] /\ db_pc[producer] = "connect"
          /\ held' = [held EXCEPT ![producer] = NoConn]
          /\ connection_queue' = Append(connection_queue, held[producer])
          /\ UNCHANGED <<db_asleep, connection_cnt, borrowed_count, active_getters, dbLife, db_expired>>
        BY ZenonT(30), <1>9, <2>2 DEF ConnectSucceeds, Goto
    <3>2. NoLostWakeup'
        BY ZenonT(30), <1>3, <3>1 DEF NoLostWakeup
    <3>3. held[producer] \in Conns
        BY ZenonT(30), <1>0, <3>1
    <3>4. connection_queue' \in Seq(Conns) /\ Len(connection_queue') = Len(connection_queue) + 1
        BY <1>0, <3>1, <3>3
    <3>5. connection_cnt' \in Int /\ (destroyed # "yes" => connection_cnt' <= MaxSize)
          /\ connection_cnt' - Len(connection_queue') - 0 = connection_cnt - Len(connection_queue) - Reserved
        BY <1>0, <1>2, <3>1, <3>4
    <3> QED BY ZenonT(30), <1>0, <1>1, <1>2, <3>1, <3>2, <3>4, <3>5, ProducerMoves
  <2> QED BY ZenonT(30), <2>1, <2>2
<1> QED BY ZenonT(30), <1>5, <1>6, <1>7, <1>8, <1>9 DEF ProducerStep

-----------------------------------------------------------------------------
(* The scanner takes idle connections out of the queue and the total. *)
LEMMA ScannerInv ==
    ASSUME DbInv, Scan \/ ScannerNotify
    PROVE  DbInv'
<1> USE ThreadsDiffer DEF dbLife
<1>0. /\ connection_queue \in Seq(Conns) /\ connection_cnt \in Int /\ MaxSize \in Nat /\ Len(connection_queue) \in Nat
      /\ db_pc \in [DbThreads -> DbLabels] /\ held' = held /\ borrowed_count \in Int
      /\ db_pc[scanner] \in {"wait", "notify"}
    BY SMTT(30), DbConfigAssumption DEF DbInv, DbTypeOK, Scan, ScannerNotify
<1>1. PICK l \in {"exited", "notify", "wait"} : db_pc' = [db_pc EXCEPT ![scanner] = l]
    BY ZenonT(30) DEF Scan, ScannerNotify, Goto
<1>2. db_pc'[scanner] = l /\ \A t \in DbThreads \ {scanner} : db_pc'[t] = db_pc[t]
    BY ZenonT(30), <1>0, <1>1
<1>3. PICK n \in 0..Len(connection_queue) :
        connection_queue' = SubSeq(connection_queue, n + 1, Len(connection_queue)) /\ connection_cnt' = connection_cnt - n
  <2>1. CASE UNCHANGED <<connection_queue, connection_cnt>>
    <3>1. connection_queue' = SubSeq(connection_queue, 0 + 1, Len(connection_queue)) /\ connection_cnt' = connection_cnt - 0
        BY <1>0, <2>1
    <3> QED BY <1>0, <3>1
  <2>2. CASE \E n \in 1..Len(connection_queue) :
               connection_queue' = SubSeq(connection_queue, n + 1, Len(connection_queue)) /\ connection_cnt' = connection_cnt - n
      BY <1>0, <2>2
  <2> QED BY ZenonT(30), <2>1, <2>2 DEF Scan, ScannerNotify, countVars
<1>4. connection_queue' \in Seq(Conns) /\ Len(connection_queue') = Len(connection_queue) - n
    BY SMTT(30), <1>0, <1>3
<1>5. /\ UNCHANGED <<borrowed_count, active_getters, db_stopping, threads_joined, destroyed, db_expired>>
      /\ db_asleep' = {} \/ db_asleep' = db_asleep
    BY ZenonT(30) DEF Scan, ScannerNotify, countVars
<1>6. DbTypeOK'
    BY SMTT(30), <1>0, <1>1, <1>3, <1>4, <1>5 DEF DbInv, DbTypeOK, DbLabels
<1>7. Hands' /\ Life' /\ ProducerSleeps'
    BY ZenonT(30), <1>0, <1>2, <1>5 DEF DbInv, Hands, Life, ProducerSleeps
<1>8. PoolAccounting'
  <2> SUFFICES ASSUME destroyed # "yes" PROVE PoolAccounting'
      BY ZenonT(30), <1>5 DEF PoolAccounting
  <2>1. Borrowers' = Borrowers /\ ActiveGetters' = ActiveGetters /\ Reserved' = Reserved /\ Reserved \in Int
      BY <1>0, <1>2, OthersMove DEF Reserved
  <2>2. /\ borrowed_count = Cardinality(Borrowers) /\ active_getters = Cardinality(ActiveGetters)
        /\ connection_cnt = Len(connection_queue) + borrowed_count + Reserved /\ connection_cnt <= MaxSize
      BY ZenonT(30) DEF DbInv, PoolAccounting, Borrowers, ActiveGetters, Reserved
  <2>3. connection_cnt' = Len(connection_queue') + borrowed_count' + Reserved' /\ connection_cnt' <= MaxSize
    <3>1. n \in Nat /\ borrowed_count' = borrowed_count
        BY <1>0, <1>3, <1>5
    <3>2. connection_cnt - n = (Len(connection_queue) - n) + borrowed_count + Reserved
      <4>1. PICK c, q, b, r :
               c = connection_cnt /\ q = Len(connection_queue) /\ b = borrowed_count /\ r = Reserved
          BY ZenonT(30)
      <4>2. c \in Int /\ q \in Int /\ b \in Int /\ r \in Int /\ c = q + b + r
          BY <1>0, <2>1, <2>2, <4>1
      <4>3. c - n = (q - n) + b + r
          BY <3>1, <4>2
      <4> QED BY ZenonT(30), <4>1, <4>3
    <3>3. connection_cnt - n <= MaxSize
        BY <1>0, <2>2, <3>1
    <3> QED BY ZenonT(30), <1>3, <1>4, <2>1, <3>1, <3>2, <3>3
  <2> QED BY ZenonT(30), <1>5, <2>1, <2>2, <2>3 DEF PoolAccounting, Borrowers, ActiveGetters, Reserved
<1>9. NoLostWakeup'
  <2>1. CASE Scan /\ db_stopping
    <3>1. db_pc[scanner] = "wait" /\ UNCHANGED <<connection_queue, connection_cnt, db_asleep>>
        BY ZenonT(30), <2>1 DEF Scan
    <3> QED BY ZenonT(30), <1>2, <1>5, <3>1 DEF DbInv, NoLostWakeup
  <2>2. CASE Scan /\ ~db_stopping
    <3>1. db_pc'[scanner] = "notify"
        BY ZenonT(30), <1>0, <2>2 DEF Scan, Goto
    <3> QED BY ZenonT(30), <3>1 DEF NoLostWakeup
  <2>3. CASE ScannerNotify
      BY ZenonT(30), <2>3 DEF ScannerNotify, NoLostWakeup
  <2> QED BY ZenonT(30), <2>1, <2>2, <2>3
<1> QED BY ZenonT(30), <1>6, <1>7, <1>8, <1>9 DEF DbInv

(* Shutdown: _stopping is set before the notification, and the wait for    *)
(* the last handle comes after it.                                         *)
LEMMA CloserInv ==
    ASSUME DbInv, shutdown \/ DestroyPool \/ CloserStep
    PROVE  DbInv'
<1> USE ThreadsDiffer DEF dbLife
<1>0. /\ db_pc \in [DbThreads -> DbLabels] /\ held' = held
      /\ UNCHANGED <<countVars, db_expired>> /\ (db_stopping => db_stopping')
      /\ db_asleep' = {} \/ db_asleep' = db_asleep
    BY SMTT(30) DEF DbInv, DbTypeOK, shutdown, DestroyPool, CloserStep, StopNotify, JoinThreads, DrainEnds, stop_background_threads
<1>1. PICK l \in {"idle", "notify", "join", "drain"} : db_pc' = [db_pc EXCEPT ![closer] = l]
    BY ZenonT(30) DEF shutdown, DestroyPool, CloserStep, StopNotify, JoinThreads, DrainEnds, stop_background_threads, Goto
<1>2. db_pc'[closer] = l /\ \A t \in DbThreads \ {closer} : db_pc'[t] = db_pc[t]
    BY ZenonT(30), <1>0, <1>1
<1>3. connection_queue' = connection_queue \/ (connection_queue' = <<>> /\ destroyed' = "yes")
    BY ZenonT(30) DEF shutdown, DestroyPool, CloserStep, StopNotify, JoinThreads, DrainEnds
<1>4. DbTypeOK'
  <2>1. connection_queue' \in Seq(Conns)
    <3>1. <<>> \in Seq(Conns)
        OBVIOUS
    <3> QED BY ZenonT(30), <1>3, <3>1 DEF DbInv, DbTypeOK
  <2> QED BY ZenonT(30), <1>0, <1>1, <2>1 DEF DbInv, DbTypeOK, DbLabels, countVars
<1>5. Hands' /\ ProducerSleeps'
    BY ZenonT(30), <1>0, <1>2 DEF DbInv, Hands, ProducerSleeps
<1>6. Life'
  <2>1. CASE shutdown \/ DestroyPool
      BY ZenonT(30), <1>2, <2>1 DEF shutdown, DestroyPool, stop_background_threads, Goto, DbInv, DbTypeOK, Life
  <2>2. CASE StopNotify \/ JoinThreads
      BY ZenonT(30), <1>2, <2>2 DEF StopNotify, JoinThreads, DbInv, Life
  <2>3. CASE DrainEnds
      BY ZenonT(30), <1>0, <2>3 DEF DrainEnds, Goto, DbInv, Life
  <2> QED BY ZenonT(30), <2>1, <2>2, <2>3 DEF CloserStep
<1>7. PoolAccounting'
  <2> SUFFICES ASSUME destroyed' # "yes" PROVE PoolAccounting'
      BY ZenonT(30) DEF PoolAccounting
  <2>1. destroyed # "yes"
      BY ZenonT(30) DEF shutdown, DestroyPool, CloserStep, StopNotify, JoinThreads, DrainEnds, DbInv, Life
  <2>2. /\ borrowed_count = Cardinality(Borrowers) /\ active_getters = Cardinality(ActiveGetters)
        /\ connection_cnt = Len(connection_queue) + borrowed_count + Reserved /\ connection_cnt <= MaxSize
      BY ZenonT(30), <2>1 DEF DbInv, PoolAccounting, Borrowers, ActiveGetters, Reserved
  <2>3. Borrowers' = Borrowers /\ ActiveGetters' = ActiveGetters /\ Reserved' = Reserved
      BY ZenonT(30), <1>0, <1>2, OthersMove DEF Reserved
  <2> QED BY ZenonT(30), <1>0, <1>3, <2>2, <2>3 DEF PoolAccounting, Borrowers, ActiveGetters, Reserved, countVars
<1>8. NoLostWakeup'
  <2>1. CASE (shutdown \/ DestroyPool) /\ threads_joined
    <3>1. UNCHANGED <<db_stopping, connection_queue, connection_cnt, db_asleep>> /\ db_pc[closer] = "idle"
        BY ZenonT(30), <2>1 DEF shutdown, DestroyPool, stop_background_threads, countVars
    <3> QED BY ZenonT(30), <1>2, <3>1 DEF DbInv, NoLostWakeup
  <2>2. CASE (shutdown \/ DestroyPool) /\ ~threads_joined
    <3>1. db_pc'[closer] = "notify"
        BY ZenonT(30), <1>0, <2>2 DEF shutdown, DestroyPool, stop_background_threads, Goto
    <3> QED BY ZenonT(30), <3>1 DEF NoLostWakeup
  <2>3. CASE StopNotify
      BY ZenonT(30), <2>3 DEF StopNotify, NoLostWakeup
  <2>4. CASE JoinThreads \/ DrainEnds
    <3>1. UNCHANGED <<db_stopping, db_asleep>> /\ db_pc[closer] \in {"join", "drain"}
        BY ZenonT(30), <2>4 DEF JoinThreads, DrainEnds
    <3>2. db_stopping
        BY ZenonT(30), <3>1 DEF DbInv, Life
    <3> QED BY ZenonT(30), <1>2, <3>1, <3>2 DEF DbInv, NoLostWakeup
  <2> QED BY ZenonT(30), <2>1, <2>2, <2>3, <2>4 DEF CloserStep
<1> QED BY ZenonT(30), <1>4, <1>5, <1>6, <1>7, <1>8 DEF DbInv

-----------------------------------------------------------------------------
(* The pool the constructor fills satisfies the inductive invariant. *)
LEMMA DbInitInv == DbInit => DbInv
<1> SUFFICES ASSUME DbInit PROVE DbInv
    BY ZenonT(30)
<1> USE ThreadsDiffer
<1>1. connection_queue \in InitialQueues
    BY ZenonT(30), ConnsAssumption DEF DbInit
<1>2. connection_queue \in Seq(Conns) /\ Len(connection_queue) = InitSize
    BY SMTT(30), <1>1, DbConfigAssumption DEF InitialQueues
<1>3. DbTypeOK
    BY SMTT(30), <1>2, DbConfigAssumption DEF DbInit, DbTypeOK, DbLabels
<1>4. Hands /\ Life /\ ProducerSleeps /\ NoLostWakeup
    BY ZenonT(30) DEF DbInit, Hands, Life, ProducerSleeps, NoLostWakeup
<1>5. Borrowers = {} /\ ActiveGetters = {} /\ Reserved = 0
    BY ZenonT(30) DEF DbInit, Borrowers, ActiveGetters, Reserved, DbCounting
<1>6. PoolAccounting
  <2>1. Cardinality(Borrowers) = 0 /\ Cardinality(ActiveGetters) = 0
      BY ZenonT(30), <1>5, FS_EmptySet
  <2>2. InitSize = Len(connection_queue) + 0 + Reserved /\ InitSize <= MaxSize
      BY <1>2, <1>5, DbConfigAssumption
  <2> QED BY ZenonT(30), <2>1, <2>2 DEF DbInit, PoolAccounting, Borrowers, ActiveGetters, Reserved
<1> QED BY ZenonT(30), <1>3, <1>4, <1>6 DEF DbInv

(* Every step of every thread keeps the inductive invariant. *)
LEMMA DbStepInv == DbInv /\ [DbNext]_dbVars => DbInv'
<1> SUFFICES ASSUME DbInv, [DbNext]_dbVars PROVE DbInv'
    BY ZenonT(30)
<1>1. CASE UNCHANGED dbVars
  <2>1. db_expired' \in [Getters -> BOOLEAN]
      BY ZenonT(30), <1>1 DEF dbVars, DbInv, DbTypeOK
  <2> QED BY ZenonT(30), <1>1, <2>1, Quiet DEF dbVars
<1>2. CASE DbNext
    BY ZenonT(30), <1>2, GetterInv, ProducerInv, ScannerInv, CloserInv DEF DbNext
<1> QED BY ZenonT(30), <1>1, <1>2

(* The counters of the pool agree with the connections that exist, and the *)
(* total never exceeds MaxSize.                                            *)
THEOREM PoolAccounted == DbSpec => []PoolAccounting
<1>1. DbInv => PoolAccounting
    BY ZenonT(30) DEF DbInv
<1> QED BY <1>1, DbInitInv, DbStepInv, PTL DEF DbSpec

(* No thread sleeps on _cond through the notification it needs, although   *)
(* notifications come after the unlock.                                    *)
THEOREM WakeupsNotLost == DbSpec => []NoLostWakeup
<1>1. DbInv => NoLostWakeup
    BY ZenonT(30) DEF DbInv
<1> QED BY <1>1, DbInitInv, DbStepInv, PTL DEF DbSpec
=============================================================================
