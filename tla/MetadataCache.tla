--------------------------- MODULE MetadataCache ---------------------------
(***************************************************************************)
(* The metadata cache (inc/ftp/metadata_cache.h) between the worker        *)
(* threads and the database, as MetadataService (src/ftp/                  *)
(* metadata_service.cpp) uses it: three banks of cached answers, gates     *)
(* that coordinate fills with writes, generations that outdate answers.    *)
(*                                                                         *)
(* A directory is the set of names registered in it. A key asks for some   *)
(* of them: a listing for all, a download or cd for one. Names are only    *)
(* added: no SQL statement of the service removes or renames one. ARC is a *)
(* map that may forget any entry.                                          *)
(***************************************************************************)
EXTENDS Integers, FiniteSets

CONSTANTS
    Threads,      \* worker threads that call the service
    Dirs, Names,
    Gates, GateOf,   \* directory -> gate: the hash of its namespace key
    Keys,         \* [kind, dir, wants]
    BankChoices,  \* the sets of kinds whose bank may be configured
    MaxGen,       \* the largest generation, 2^64 - 1 in the code
    MaxListed,    \* max_list_bytes, in names
    NoOne, NoEntry

Kinds == {"list", "download", "cd"}

ASSUME KeysAssumption ==
    /\ Keys \subseteq [kind : Kinds, dir : Dirs, wants : SUBSET Names]
    /\ Keys # {} /\ Dirs # {} /\ GateOf \in [Dirs -> Gates]
    /\ \A k \in Keys : k.kind # "list" => \E n \in Names : k.wants = {n}
ASSUME BanksAssumption == BankChoices \subseteq SUBSET Kinds
ASSUME MaxGenAssumption == MaxGen \in Nat /\ MaxListed \in Nat
ASSUME NoOneAssumption == NoOne \notin Threads
ASSUME NoEntryAssumption == NoEntry \notin [value : SUBSET Names, gen : 0..MaxGen, expired : BOOLEAN]

VARIABLES
    db,         \* directory -> names registered in virtual_files
    banks,      \* kinds whose bank is enabled
    gen,        \* gate -> generation
    versioned,  \* gates with versioned_cache_enabled
    holder,     \* gate -> the thread that holds its mutex exclusively
    cache,      \* key -> NoEntry or [value, gen, expired]
    pc, key,    \* thread -> where it is in read() or write(), the key it reads
    dir,        \* thread -> the directory it writes to
    got,        \* thread -> what the loader returned
    answer,     \* thread -> what read() is about to return; error: the query failed
    since       \* history: thread -> what the key asked for held when read() began

cacheVars == <<gen, versioned, cache>>
callVars == <<pc, key, dir, got, answer, since>>
vars == <<db, banks, holder, cacheVars, callVars>>

Entry == [value : SUBSET Names, gen : 0..MaxGen, expired : BOOLEAN]
StorageContext == [success : BOOLEAN, result : SUBSET Names, error : BOOLEAN]

TypeOK ==
    /\ db \in [Dirs -> SUBSET Names] /\ banks \in BankChoices
    /\ gen \in [Gates -> 0..MaxGen] /\ versioned \subseteq Gates
    /\ holder \in [Gates -> Threads \cup {NoOne}]
    /\ cache \in [Keys -> Entry \cup {NoEntry}]
    /\ pc \in [Threads -> {"idle", "probe", "miss", "load", "fill", "return", "insert",
                         "advance"}]
    /\ key \in [Threads -> Keys] /\ dir \in [Threads -> Dirs]
    /\ got \in [Threads -> SUBSET Names] /\ since \in [Threads -> SUBSET Names]
    /\ answer \in [Threads -> StorageContext]

NoKey == CHOOSE k \in Keys : TRUE
NoDir == CHOOSE d \in Dirs : TRUE

Success(v) == [success |-> TRUE, result |-> v, error |-> FALSE]
NotFound == [success |-> FALSE, result |-> {}, error |-> FALSE]
Failed == [success |-> FALSE, result |-> {}, error |-> TRUE]

Init ==
    /\ db = [d \in Dirs |-> {}] /\ banks \in BankChoices
    /\ gen = [g \in Gates |-> 0] /\ versioned = Gates /\ holder = [g \in Gates |-> NoOne]
    /\ cache = [k \in Keys |-> NoEntry]
    /\ pc = [t \in Threads |-> "idle"]
    /\ key = [t \in Threads |-> NoKey] /\ dir = [t \in Threads |-> NoDir]
    /\ got = [t \in Threads |-> {}] /\ since = [t \in Threads |-> {}]
    /\ answer = [t \in Threads |-> NotFound]

-----------------------------------------------------------------------------
Gate(k) == GateOf[k.dir]

(* What a query for the key finds, and whether that is a success. *)
Value(k) == db[k.dir] \cap k.wants
Found(k, v) == k.kind = "list" \/ v # {}
Loaded(k) == IF Found(k, Value(k)) THEN Success(Value(k)) ELSE NotFound

(* cd() reads without versions. *)
Versioned(k) == k.kind # "cd"

(* probe(): miss, stale and hit. *)
Misses(k) == (Versioned(k) /\ Gate(k) \notin versioned) \/ cache[k] = NoEntry
Stale(k) ==
    /\ ~Misses(k)
    /\ cache[k].expired \/ (Versioned(k) /\ cache[k].gen # gen[Gate(k)])
Hits(k) == ~Misses(k) /\ ~Stale(k)

Go(t, to) == pc' = [pc EXCEPT ![t] = to]
Unlock(t, g) == holder' = [holder EXCEPT ![g] = NoOne]
Answer(t, r) == answer' = [answer EXCEPT ![t] = r] /\ Go(t, "return")

(* read() is called, from list(), download() or cd(). *)
Read(t, k) ==
    /\ pc[t] = "idle" /\ Go(t, "probe")
    /\ key' = [key EXCEPT ![t] = k] /\ since' = [since EXCEPT ![t] = Value(k)]
    /\ UNCHANGED <<db, banks, holder, cacheVars, dir, got, answer>>

(* The bank is disabled: the loader alone, without the gate. *)
ReadThrough(t) ==
    /\ pc[t] = "probe" /\ key[t].kind \notin banks
    /\ \E r \in {Loaded(key[t]), Failed} : Answer(t, r)
    /\ UNCHANGED <<db, banks, holder, cacheVars, key, dir, got, since>>

(* The first probe, with the gate's mutex shared. *)
Probe(t) ==
    /\ pc[t] = "probe" /\ key[t].kind \in banks /\ holder[Gate(key[t])] = NoOne
    /\ IF Hits(key[t]) THEN Answer(t, Success(cache[key[t]].value)) ELSE Go(t, "miss") /\ UNCHANGED answer
    /\ UNCHANGED <<db, banks, holder, cacheVars, key, dir, got, since>>

(* Variant: the load and the fill without the mutex. *)
ProbeAgain_NoLock(t) ==
    LET k == key[t] IN
    /\ pc[t] = "miss" /\ holder[Gate(k)] = NoOne
    /\ IF Hits(k)
         THEN Answer(t, Success(cache[k].value)) /\ UNCHANGED cache
         ELSE /\ Go(t, "load") /\ UNCHANGED answer
              /\ cache' = IF Stale(k) THEN [cache EXCEPT ![k] = NoEntry] ELSE cache
    /\ UNCHANGED <<db, banks, holder, gen, versioned, key, dir, got, since>>

(* The second probe, with the mutex exclusive; a stale entry is erased. *)
ProbeAgain(t) ==
    LET k == key[t] IN
    /\ pc[t] = "miss" /\ holder[Gate(k)] = NoOne
    /\ IF Hits(k)
         THEN Answer(t, Success(cache[k].value)) /\ UNCHANGED <<holder, cache>>
         ELSE /\ Go(t, "load") /\ holder' = [holder EXCEPT ![Gate(k)] = t]
              /\ cache' = IF Stale(k) THEN [cache EXCEPT ![k] = NoEntry] ELSE cache
              /\ UNCHANGED answer
    /\ UNCHANGED <<db, banks, gen, versioned, key, dir, got, since>>

(* The loader: the query may fail or find nothing, which is not cached. *)
Load(t) ==
    LET k == key[t] IN
    /\ pc[t] = "load"
    /\ \E r \in {Loaded(k), Failed} :
         IF r.success
         THEN Go(t, "fill") /\ got' = [got EXCEPT ![t] = r.result] /\ UNCHANGED <<holder, answer>>
         ELSE Answer(t, r) /\ Unlock(t, Gate(k)) /\ UNCHANGED got
    /\ UNCHANGED <<db, banks, cacheVars, key, dir, since>>

Admitted(k, v) ==
    /\ Versioned(k) => Gate(k) \in versioned
    /\ k.kind = "list" => Cardinality(v) <= MaxListed

(* The rest of read(), up to the unlock. *)
Fill(t) ==
    LET k == key[t] IN
    /\ pc[t] = "fill" /\ Answer(t, Success(got[t])) /\ Unlock(t, Gate(k))
    /\ cache' = IF Admitted(k, got[t])
                  THEN [cache EXCEPT ![k] = [value |-> got[t], gen |-> gen[Gate(k)], expired |-> FALSE]]
                  ELSE cache
    /\ UNCHANGED <<db, banks, gen, versioned, key, dir, got, since>>

(* read() returns: the value is copied outside the locks. *)
Return(t) ==
    /\ pc[t] = "return" /\ Go(t, "idle")
    /\ key' = [key EXCEPT ![t] = NoKey] /\ got' = [got EXCEPT ![t] = {}]
    /\ since' = [since EXCEPT ![t] = {}] /\ answer' = [answer EXCEPT ![t] = NotFound]
    /\ UNCHANGED <<db, banks, holder, cacheVars, dir>>

-----------------------------------------------------------------------------
(* write(), called by create_dir() and commit_upload(). *)
Write(t, d) ==
    /\ pc[t] = "idle" /\ holder[GateOf[d]] = NoOne
    /\ Go(t, "insert") /\ holder' = [holder EXCEPT ![GateOf[d]] = t]
    /\ dir' = [dir EXCEPT ![t] = d]
    /\ UNCHANGED <<db, banks, cacheVars, key, got, answer, since>>

(* The writer: the row is inserted or not, and what the caller is told may *)
(* be wrong about it; success, failure and exceptions go the same way.     *)
(* Assumed: a statement given up at its timeout (mysql_connection_pool.cpp *)
(* :226) has taken effect by then or never will.                           *)
Insert(t, n) ==
    /\ pc[t] = "insert" /\ Go(t, "advance")
    /\ db' \in {db, [db EXCEPT ![dir[t]] = @ \cup {n}]}
    /\ UNCHANGED <<banks, holder, cacheVars, key, dir, got, answer, since>>

(* ~InvalidateOnExit() with DirectoryGate::advance(), then the unlock. *)
Advance(t) ==
    LET g == GateOf[dir[t]] IN
    /\ pc[t] = "advance" /\ Go(t, "idle") /\ Unlock(t, g)
    /\ IF gen[g] = MaxGen
         THEN versioned' = versioned \ {g} /\ UNCHANGED gen
         ELSE gen' = [gen EXCEPT ![g] = @ + 1] /\ UNCHANGED versioned
    /\ dir' = [dir EXCEPT ![t] = NoDir]
    /\ UNCHANGED <<db, banks, cache, key, got, answer, since>>

(* The clock passes an entry's expires_at; ARC evicts an entry. *)
Expire(k) ==
    /\ cache[k] # NoEntry /\ ~cache[k].expired
    /\ cache' = [cache EXCEPT ![k].expired = TRUE]
    /\ UNCHANGED <<db, banks, holder, gen, versioned, callVars>>

Evict(k) ==
    /\ cache[k] # NoEntry /\ cache' = [cache EXCEPT ![k] = NoEntry]
    /\ UNCHANGED <<db, banks, holder, gen, versioned, callVars>>

(* What a thread does once it has called. *)
Step(t) ==
    \/ ReadThrough(t) \/ Probe(t) \/ ProbeAgain(t) \/ Load(t) \/ Fill(t) \/ Return(t)
    \/ (\E n \in Names : Insert(t, n)) \/ Advance(t)

Next ==
    \/ \E t \in Threads : Step(t) \/ (\E k \in Keys : Read(t, k)) \/ (\E d \in Dirs : Write(t, d))
    \/ \E k \in Keys : Expire(k) \/ Evict(k)

Spec == Init /\ [][Next]_vars

-----------------------------------------------------------------------------
(* A read returns everything that was registered before it was called, in  *)
(* particular what the same user has just created or uploaded, and nothing *)
(* that is not registered, whichever fills, writes, evictions and version  *)
(* overflows come between.                                                 *)
ReadIsCurrent ==
    \A t \in Threads :
        pc[t] = "return" /\ ~answer[t].error =>
            since[t] \subseteq answer[t].result /\ answer[t].result \subseteq Value(key[t])

(* What a probe would return is what the database would: except while a    *)
(* writer holds the gate, and then nobody can probe.                       *)
HitIsCurrent ==
    \A k \in Keys : Hits(k) /\ holder[Gate(k)] = NoOne => cache[k].value = Value(k)
=============================================================================
