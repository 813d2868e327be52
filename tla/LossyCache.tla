----------------------------- MODULE LossyCache ------------------------------
(***************************************************************************)
(* What a cache promises its users: a value put is the one read until it   *)
(* is put again, erased or dropped; the key just put or read is never the  *)
(* one dropped; erase() drops its key and no other; there are never more   *)
(* entries than the capacity.                                              *)
(***************************************************************************)
EXTENDS FiniteSets, Naturals

CONSTANTS Keys, Values

VARIABLES
    content,    \* the entries present: pairs of a key and its value
    limit       \* the capacity

LossyInit == content = {} /\ limit \in Nat

(* The entries of c for other keys than k. *)
Others(c, k) == {e \in c : e[1] # k}

(* From the entries c to the entries d: others may be dropped. *)
Put(c, d, k, v) ==
    /\ <<k, v>> \in d /\ d \ {<<k, v>>} \subseteq Others(c, k)
    /\ Cardinality(d) <= limit

Get(c, d, k) == d \subseteq c /\ \E e \in d : e[1] = k

Erase(c, d, k) == d = Others(c, k)

LossyNext ==
    /\ LET c == content
           d == content'
       IN  \E k \in Keys : Get(c, d, k) \/ Erase(c, d, k) \/ \E v \in Values : Put(c, d, k, v)
    /\ UNCHANGED limit

LossySpec == LossyInit /\ [][LossyNext]_<<content, limit>>
==============================================================================
