------------------------------ MODULE ArcCache -------------------------------
(***************************************************************************)
(* The adaptive replacement cache (inc/common/cache): HashArcCache, whose  *)
(* slices are ArcCaches, each an ArcLru and an ArcLfu with their ghosts.   *)
(* Every operation runs under its slice's mutex and is one step.           *)
(*                                                                         *)
(* A partition is a record: cap, its nodes in order (LRU: most recently    *)
(* used first; LFU: in the order they entered the bucket of their count)   *)
(* and the keys in its ghost list, newest first. The partition operations  *)
(* are functions of the record.                                            *)
(***************************************************************************)
EXTENDS Naturals, Sequences, FiniteSets

CONSTANTS
    CacheKeys,      \* 0..n: keys, equal to their hash
    CacheValues,
    Capacities,     \* capacities to be tried
    SliceNums,      \* slice_num to be tried
    MaxCount        \* bound: accesses counted in a node

Transform == 2      \* _transform_threshold

VARIABLES
    capacity,       \* HashArcCache::_capacity
    slices          \* _arc_slice_caches

arcVars == <<capacity, slices>>

KeysOf(s) == {s[i].key : i \in DOMAIN s}
NodeOf(s, k) == s[CHOOSE i \in DOMAIN s : s[i].key = k]
Drop(s, k) == SelectSeq(s, LAMBDA n : n.key # k)
IsHit(p, k) == k \in KeysOf(p.nodes)
IsGhost(p, k) == \E i \in DOMAIN p.ghosts : p.ghosts[i] = k
Node(k, v, c) == [key |-> k, value |-> v, count |-> c]

erase_ghost(p, k) == [p EXCEPT !.ghosts = SelectSeq(@, LAMBDA x : x # k)]

(* remove_oldest_ghost() when full, then add_to_ghost(); the history of    *)
(* each partition may hold as many keys as the whole slice. *)
AddGhost(p, k) ==
    [p EXCEPT !.ghosts = <<k>> \o (IF Len(@) >= p.history THEN SubSeq(@, 1, Len(@) - 1) ELSE @)]

(***************************************************************************)
(* ArcLru                                                                  *)
(***************************************************************************)

evict_least_recent(p) ==
    IF p.nodes = <<>> THEN p
    ELSE AddGhost([p EXCEPT !.nodes = SubSeq(@, 1, Len(@) - 1)], p.nodes[Len(p.nodes)].key)

LruPut(p, k, v) ==
    IF p.cap = 0 THEN p
    ELSE IF IsHit(p, k)
      THEN [p EXCEPT !.nodes = <<Node(k, v, NodeOf(@, k).count)>> \o Drop(@, k)]
      ELSE LET q == erase_ghost(p, k)
               r == IF Len(q.nodes) >= q.cap THEN evict_least_recent(q) ELSE q
           IN  [r EXCEPT !.nodes = <<Node(k, v, 1)>> \o @]

(* update_node_access() *)
LruTouch(p, k) ==
    LET n == NodeOf(p.nodes, k)
    IN  [p EXCEPT !.nodes = <<Node(k, n.value, n.count + 1)>> \o Drop(@, k)]

LruErase(p, k) == [p EXCEPT !.nodes = Drop(@, k)]

(***************************************************************************)
(* ArcLfu                                                                  *)
(***************************************************************************)

Bucket(s, c) == SelectSeq(s, LAMBDA n : n.count = c)
Counts(s) == {s[i].count : i \in DOMAIN s}
Least(S) == CHOOSE x \in S : \A y \in S : x <= y

(* Variant: the next frequency is taken to be one more. *)
evict_least_frequent_NextCount(p) ==
    LET bucket == Bucket(p.nodes, p.min_freq) IN
    IF bucket = <<>> THEN p
    ELSE LET rest == Drop(p.nodes, bucket[1].key)
         IN  AddGhost([p EXCEPT !.nodes = rest,
                                !.min_freq = IF Len(bucket) > 1 THEN @ ELSE @ + 1],
                      bucket[1].key)

(* The first of the bucket _min_freq goes. An empty bucket leaves all. *)
evict_least_frequent(p) ==
    LET bucket == Bucket(p.nodes, p.min_freq) IN
    IF bucket = <<>> THEN p
    ELSE LET rest == Drop(p.nodes, bucket[1].key)
         IN  AddGhost([p EXCEPT !.nodes = rest,
                                !.min_freq = IF Len(bucket) > 1 \/ rest = <<>> THEN @
                                             ELSE Least(Counts(rest))],
                      bucket[1].key)

(* update_node_frequency(), with the value v *)
LfuTouch(p, k, v) ==
    LET n == NodeOf(p.nodes, k)
    IN  [p EXCEPT !.nodes = Append(Drop(@, k), Node(k, v, n.count + 1)),
                  !.min_freq = IF n.count = @ /\ Len(Bucket(p.nodes, n.count)) = 1
                                 THEN n.count + 1 ELSE @]

LfuPut(p, k, v) ==
    IF p.cap = 0 THEN p
    ELSE IF IsHit(p, k) THEN LfuTouch(p, k, v)
    ELSE LET q == erase_ghost(p, k)
             r == IF Len(q.nodes) >= q.cap THEN evict_least_frequent(q) ELSE q
         IN  [r EXCEPT !.nodes = Append(@, Node(k, v, 1)), !.min_freq = 1]

(* invalidate() *)
LfuInvalidate(p, k) ==
    LET rest == Drop(p.nodes, k)
    IN  erase_ghost(IF IsHit(p, k)
                      THEN [p EXCEPT !.nodes = rest,
                                     !.min_freq = IF rest = <<>> THEN 0 ELSE Least(Counts(rest))]
                      ELSE p, k)

(***************************************************************************)
(* ArcCache: c.lru and c.lfu                                               *)
(***************************************************************************)

(* decrease_capacity(): one slot less, and what is too much is evicted. *)
ShrinkLru(p) ==
    LET q == [p EXCEPT !.cap = @ - 1] IN IF Len(q.nodes) > q.cap THEN evict_least_recent(q) ELSE q

ShrinkLfu(p) ==
    LET q == [p EXCEPT !.cap = @ - 1] IN IF Len(q.nodes) > q.cap THEN evict_least_frequent(q) ELSE q

Grow(p) == [p EXCEPT !.cap = @ + 1]

(* check_ghost_caches(): a hit in a history moves one slot to its side;    *)
(* the LRU keeps one. *)
check_ghost_caches(c, k) ==
    IF IsGhost(c.lru, k)
      THEN LET d == [c EXCEPT !.lru = erase_ghost(@, k)]
           IN  IF d.lfu.cap = 0 THEN d
               ELSE [d EXCEPT !.lfu = ShrinkLfu(@), !.lru = Grow(@)]
    ELSE IF IsGhost(c.lfu, k)
      THEN LET d == [c EXCEPT !.lfu = erase_ghost(@, k)]
           IN  IF d.lru.cap <= 1 THEN d
               ELSE [d EXCEPT !.lru = ShrinkLru(@), !.lfu = Grow(@)]
    ELSE c

(* Variant: a key the LFU holds is put into the LRU. *)
ArcPut_MissesLfu(c, k, v) ==
    IF IsHit(c.lru, k) THEN [c EXCEPT !.lru = LruPut(@, k, v)]
    ELSE LET d == check_ghost_caches(c, k)
         IN  IF IsGhost(c.lfu, k) /\ ~IsGhost(c.lru, k) /\ d.lfu.cap > 0
               THEN [d EXCEPT !.lfu = LfuPut(@, k, v)]
               ELSE [d EXCEPT !.lru = LruPut(@, k, v)]

(* put() *)
ArcPut(c, k, v) ==
    IF IsHit(c.lru, k) THEN [c EXCEPT !.lru = LruPut(@, k, v)]
    ELSE IF IsHit(c.lfu, k) THEN [c EXCEPT !.lfu = LfuPut(@, k, v)]
    ELSE LET d == check_ghost_caches(c, k)
         IN  IF IsGhost(c.lfu, k) /\ ~IsGhost(c.lru, k) /\ d.lfu.cap > 0
               THEN [d EXCEPT !.lfu = LfuPut(@, k, v)]
               ELSE [d EXCEPT !.lru = LruPut(@, k, v)]

(* get(): a node read often enough moves to the LFU, if that has a slot. *)
ArcGet(c, k) ==
    IF IsHit(c.lru, k)
      THEN LET d == [c EXCEPT !.lru = LruTouch(@, k)]
               n == NodeOf(d.lru.nodes, k)
           IN  IF n.count >= Transform /\ d.lfu.cap > 0
                 THEN [d EXCEPT !.lfu = LfuPut(@, k, n.value), !.lru = LruErase(@, k)] ELSE d
    ELSE IF IsHit(c.lfu, k) THEN [c EXCEPT !.lfu = LfuTouch(@, k, NodeOf(@.nodes, k).value)]
    ELSE c

(* erase() *)
ArcErase(c, k) ==
    [c EXCEPT !.lru = erase_ghost(LruErase(@, k), k), !.lfu = LfuInvalidate(@, k)]

(***************************************************************************)
(* HashArcCache                                                            *)
(***************************************************************************)

NewArc(cap) ==
    [lru |-> [cap |-> cap - cap \div 2, history |-> cap, nodes |-> <<>>, ghosts |-> <<>>],
     lfu |-> [cap |-> cap \div 2, history |-> cap, nodes |-> <<>>, ghosts |-> <<>>,
              min_freq |-> 0]]

(* The first cap % n slices get one slot more. *)
SliceSize(cap, n, i) == cap \div n + (IF i < cap % n THEN 1 ELSE 0)

CacheInit ==
    /\ capacity \in Capacities
    /\ \E wanted \in SliceNums :
         LET n == IF wanted < capacity THEN wanted ELSE capacity
         IN  slices = [i \in 0..(n - 1) |-> NewArc(SliceSize(capacity, n, i))]

SliceOf(k) == k % Cardinality(DOMAIN slices)

(* Bound: no node is read more than MaxCount times. *)
MayCount(c, k) ==
    \A p \in {c.lru, c.lfu} : IsHit(p, k) => NodeOf(p.nodes, k).count < MaxCount

put(k, v) ==
    /\ MayCount(slices[SliceOf(k)], k)
    /\ slices' = [slices EXCEPT ![SliceOf(k)] = ArcPut(@, k, v)]
    /\ UNCHANGED capacity

get(k) ==
    /\ MayCount(slices[SliceOf(k)], k)
    /\ slices' = [slices EXCEPT ![SliceOf(k)] = ArcGet(@, k)]
    /\ UNCHANGED capacity

erase(k) ==
    /\ slices' = [slices EXCEPT ![SliceOf(k)] = ArcErase(@, k)]
    /\ UNCHANGED capacity

(* A cache of capacity 0 has no slices, and its operations return at once. *)
CacheNext ==
    IF DOMAIN slices = {} THEN UNCHANGED arcVars
    ELSE \E k \in CacheKeys :
           \/ \E v \in CacheValues : put(k, v)
           \/ get(k)
           \/ erase(k)

CacheSpec == CacheInit /\ [][CacheNext]_arcVars

(***************************************************************************)
(* Properties                                                              *)
(***************************************************************************)

(* "A key lives in one main cache only" (arc_cache.h:19): whatever was     *)
(* put, promoted, evicted, remembered and put again, a key is in at most   *)
(* one of the four lists of a slice.                                       *)
OneHome ==
    \A i \in DOMAIN slices : \A k \in CacheKeys :
        LET c == slices[i]
        IN  Cardinality({l \in {"lru", "lfu"} : IsHit(c[l], k)})
            + Cardinality({l \in {"lru", "lfu"} : IsGhost(c[l], k)}) <= 1

(* The quotas of the two sides add up to the slice's share, the shares to  *)
(* the capacity (arc_cache.h:19, :152); neither side holds more than its   *)
(* quota, and the LRU keeps an entry for new keys (:112).                  *)
QuotaKept ==
    LET Share(c) == c.lru.cap + c.lfu.cap
        Total[n \in 0..Cardinality(DOMAIN slices)] ==
            IF n = 0 THEN 0 ELSE Share(slices[n - 1]) + Total[n - 1]
    IN  /\ Total[Cardinality(DOMAIN slices)] = capacity
        /\ \A i \in DOMAIN slices :
             LET c == slices[i]
             IN  /\ c.lru.cap >= 1 /\ Share(c) = c.lru.history
                 /\ Len(c.lru.nodes) <= c.lru.cap /\ Len(c.lfu.nodes) <= c.lfu.cap

(* _min_freq names the lowest bucket that holds a node. Were it stale,     *)
(* evict_least_frequent() would return without evicting, and the loop of   *)
(* decrease_capacity() (arc_lfu.h:110) would never end, under the locks.   *)
MinFreqExact ==
    \A i \in DOMAIN slices :
        LET p == slices[i].lfu IN p.nodes # <<>> => p.min_freq = Least(Counts(p.nodes))

(* The lists, quotas and frequencies of a slice are consistent, so that no *)
(* operation meets a key in two places, exceeds its share or loops.        *)
CacheConsistent == OneHome /\ QuotaKept /\ MinFreqExact

(* The entries get() finds, in either main cache of a slice. *)
Contents ==
    LET Held(p) == {<<p.nodes[i].key, p.nodes[i].value>> : i \in DOMAIN p.nodes}
    IN  UNION {Held(slices[i].lru) \cup Held(slices[i].lfu) : i \in DOMAIN slices}

Lossy == INSTANCE LossyCache
    WITH Keys <- CacheKeys, Values <- CacheValues, content <- Contents, limit <- capacity

(* The cache is a lossy map of its capacity: a value put is read back      *)
(* until it is overwritten, erased or evicted, no earlier value comes back *)
(* when nodes change sides, and neither a put nor a promoting get evicts   *)
(* its own key.                                                            *)
ActsAsLossyMap == Lossy!LossySpec
==============================================================================
