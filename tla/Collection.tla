----------------------------- MODULE Collection -----------------------------
(***************************************************************************)
(* The hash table of counters (lib/collection.c): chains of keys with      *)
(* their counts, the keys in the order they came, and two counters.  Pure  *)
(* operators: no state.                                                    *)
(***************************************************************************)
EXTENDS NagStatus, Sequences, FiniteSets

CONSTANTS
    Key,        \* the strings there may be
    HASHSIZE,   \* the number of chains
    Hash        \* what hash() makes of each string

Node == [key : Key, count : Nat]
Chain == Seq(Node)

ASSUME HashAssumption ==
    HASHSIZE \in Nat \ {0} /\ Hash \in [Key -> 0 .. HASHSIZE - 1] /\ NULL \notin Node

counter_create == [elements |-> 0, uniq |-> 0, keys |-> <<>>,
                   table |-> [h \in 0 .. HASHSIZE - 1 |-> <<>>]]

\* The places of a key in its chain: counter_lookup() stops at the first.
Places(hashtable, key) ==
    LET chain == hashtable.table[Hash[key]]
    IN {i \in DOMAIN chain : chain[i].key = key}

FirstPlace(hashtable, key) ==
    CHOOSE i \in Places(hashtable, key) : \A j \in Places(hashtable, key) : i <= j

counter_lookup(hashtable, key) ==
    IF Places(hashtable, key) = {} THEN NULL
    ELSE hashtable.table[Hash[key]][FirstPlace(hashtable, key)]

\* A mutant: only a new key is counted as an element.
counter_putUnique(hashtable, key, increment) ==
    IF Places(hashtable, key) = {}
    THEN [elements |-> hashtable.elements + 1, uniq |-> hashtable.uniq + 1,
          keys |-> Append(hashtable.keys, key),
          table |-> [hashtable.table EXCEPT ![Hash[key]] =
                        <<[key |-> key, count |-> increment]>> \o @]]
    ELSE [hashtable EXCEPT
             !.table[Hash[key]][FirstPlace(hashtable, key)].count = @ + increment]

\* A new key goes to the head of its chain.
counter_put(hashtable, key, increment) ==
    IF Places(hashtable, key) = {}
    THEN [elements |-> hashtable.elements + 1, uniq |-> hashtable.uniq + 1,
          keys |-> Append(hashtable.keys, key),
          table |-> [hashtable.table EXCEPT ![Hash[key]] =
                        <<[key |-> key, count |-> increment]>> \o @]]
    ELSE [hashtable EXCEPT
             !.elements = @ + 1,
             !.table[Hash[key]][FirstPlace(hashtable, key)].count = @ + increment]

\* "np ? np->count : 0".
CountOf(hashtable, key) ==
    IF counter_lookup(hashtable, key) = NULL THEN 0
    ELSE counter_lookup(hashtable, key).count

counter_get_elements(hashtable) == hashtable.elements
counter_get_unique_elements(hashtable) == hashtable.uniq

\* What the table promises: it is the bag of the keys put into it, one at each of
\* some indices.
IsBagOf(hashtable, puts) ==
    LET Times(key) == Cardinality({i \in DOMAIN puts : puts[i] = key})
    IN /\ hashtable.elements = Cardinality(DOMAIN puts)
       /\ \A key \in Key : CountOf(hashtable, key) = Times(key)
       /\ hashtable.uniq = Len(hashtable.keys)
       /\ \A i, j \in DOMAIN hashtable.keys :
             hashtable.keys[i] = hashtable.keys[j] => i = j
       /\ {hashtable.keys[i] : i \in DOMAIN hashtable.keys} = {puts[i] : i \in DOMAIN puts}
=============================================================================
