-------------------------- MODULE ContainerProofs --------------------------
(***************************************************************************)
(* Proofs about check_container: for every hash function the table of      *)
(* counters is a bag, and for every set of containers and of labels, and   *)
(* whatever the engine answers, the number judged is that of its list.     *)
(***************************************************************************)
EXTENDS Container, CommonLemmas

\* The tables of counters.
Table == [elements : Nat, uniq : Nat, keys : Seq(Key), table : [0 .. HASHSIZE - 1 -> Chain]]

\* No chain has a key twice, and the keys that have a node are those in the list of keys.
KeyedOnce(h) ==
    /\ \A key \in Key : \A m, n \in Places(h, key) : m = n
    /\ \A key \in Key : Places(h, key) # {} <=> \E n \in DOMAIN h.keys : h.keys[n] = key

-----------------------------------------------------------------------------
(* The hash table *)

\* The places of a key, and the node at one of them.
LEMMA PlaceType ==
    ASSUME NEW h \in Table, NEW key \in Key
    PROVE  /\ Hash[key] \in 0 .. HASHSIZE - 1 /\ h.table[Hash[key]] \in Seq(Node)
           /\ Places(h, key) = {n \in 1 .. Len(h.table[Hash[key]]) : h.table[Hash[key]][n].key = key}
<1>1. Hash[key] \in 0 .. HASHSIZE - 1
  BY HashAssumption
<1>2. h.table[Hash[key]] \in Seq(Node)
  BY <1>1 DEF Table, Chain, Node
<1>3. DOMAIN h.table[Hash[key]] = 1 .. Len(h.table[Hash[key]])
  BY <1>2
<1> QED BY <1>1, <1>2, <1>3 DEF Places

\* The count of a key is that of its node.
LEMMA CountOfNode ==
    ASSUME NEW h \in Table, NEW key \in Key,
           \A m, n \in Places(h, key) : m = n
    PROVE  /\ Places(h, key) = {} => CountOf(h, key) = 0
           /\ \A n \in Places(h, key) : CountOf(h, key) = h.table[Hash[key]][n].count
<1>1. ASSUME NEW n \in Places(h, key) PROVE CountOf(h, key) = h.table[Hash[key]][n].count
  <2>1. FirstPlace(h, key) = n
    <3>1. n \in Nat
      BY PlaceType, <1>1
    <3>2. n \in Places(h, key) /\ \A m \in Places(h, key) : n <= m
      BY <3>1, <1>1
    <3> QED BY <3>2, <1>1 DEF FirstPlace
  <2>2. h.table[Hash[key]][n] \in Node
    BY PlaceType, <1>1
  <2> QED BY <2>1, <2>2, <1>1, HashAssumption DEF CountOf, counter_lookup
<1>2. Places(h, key) = {} => CountOf(h, key) = 0
  BY DEF CountOf, counter_lookup
<1> QED BY <1>1, <1>2

\* A key that has no node gets one, at the head of its chain.
LEMMA PutNew ==
    ASSUME NEW h \in Table, NEW key \in Key, NEW c \in Nat, Places(h, key) = {}
    PROVE  LET r == counter_put(h, key, c)
           IN /\ r \in Table
              /\ r.elements = h.elements + 1 /\ r.uniq = h.uniq + 1
              /\ r.keys = Append(h.keys, key)
              /\ Places(r, key) = {1} /\ r.table[Hash[key]][1].count = c
              /\ \A k \in Key \ {key} :
                    \/ Places(r, k) = Places(h, k) /\ r.table[Hash[k]] = h.table[Hash[k]]
                    \/ /\ \A n \in Nat : n + 1 \in Places(r, k) <=> n \in Places(h, k)
                       /\ \A n \in Places(r, k) : n - 1 \in Nat
                       /\ \A n \in Places(h, k) : r.table[Hash[k]][n + 1] = h.table[Hash[k]][n]
<1> DEFINE r == counter_put(h, key, c)
           new == [key |-> key, count |-> c]
           chain == h.table[Hash[key]]
<1>1. /\ r = [elements |-> h.elements + 1, uniq |-> h.uniq + 1, keys |-> Append(h.keys, key),
              table |-> [h.table EXCEPT ![Hash[key]] = <<new>> \o chain]]
  BY DEF counter_put
<1>2. Hash[key] \in 0 .. HASHSIZE - 1 /\ chain \in Seq(Node) /\ new \in Node
  BY PlaceType DEF Node
<1>3. /\ <<new>> \o chain \in Seq(Node) /\ Len(<<new>> \o chain) = Len(chain) + 1
      /\ (<<new>> \o chain)[1] = new
      /\ \A n \in 1 .. Len(chain) : (<<new>> \o chain)[n + 1] = chain[n]
  BY <1>2
<1>4. h.table \in [0 .. HASHSIZE - 1 -> Seq(Node)]
  BY DEF Table, Chain, Node
<1> DEFINE s == <<new>> \o chain
           t == [h.table EXCEPT ![Hash[key]] = s]
<1> HIDE DEF s
<1>10. /\ t \in [0 .. HASHSIZE - 1 -> Seq(Node)] /\ t[Hash[key]] = s
       /\ \A b \in 0 .. HASHSIZE - 1 : b # Hash[key] => t[b] = h.table[b]
  <2>1. s \in Seq(Node)
    BY <1>3 DEF s
  <2> QED BY <2>1, <1>2, <1>4
<1> HIDE DEF t
<1>11. /\ r = [elements |-> h.elements + 1, uniq |-> h.uniq + 1, keys |-> Append(h.keys, key),
               table |-> t]
  BY <1>1 DEF s, t
<1> HIDE DEF r
<1>5. /\ r.table[Hash[key]] = s
      /\ \A b \in 0 .. HASHSIZE - 1 : b # Hash[key] => r.table[b] = h.table[b]
  BY <1>10, <1>11
<1>6. r \in Table
  <2>1. h.elements + 1 \in Nat /\ h.uniq + 1 \in Nat /\ Append(h.keys, key) \in Seq(Key)
    BY DEF Table
  <2>2. t \in [0 .. HASHSIZE - 1 -> Chain]
    BY <1>10 DEF Chain, Node
  <2> QED BY <1>11, <2>1, <2>2 DEF Table
<1>13. /\ DOMAIN s = 1 .. Len(chain) + 1 /\ Len(chain) \in Nat /\ s[1] = new
       /\ \A n \in 1 .. Len(chain) : s[n + 1] = chain[n]
  BY SMTT(30), <1>2, <1>3 DEF s
<1>7. Places(r, key) = {1}
  <2>1. \A n \in 1 .. Len(chain) : chain[n].key # key
    BY PlaceType
  <2>2. Places(r, key) = {n \in DOMAIN s : s[n].key = key}
    BY <1>5 DEF Places
  <2>3. ASSUME NEW n \in 2 .. Len(chain) + 1 PROVE s[n].key # key
    <3>1. n - 1 \in 1 .. Len(chain) /\ (n - 1) + 1 = n
      BY <1>13
    <3> QED BY <3>1, <2>1, <1>13
  <2> QED BY <2>2, <2>3, <1>13
<1>8. r.table[Hash[key]][1].count = c
  BY <1>5, <1>13
<1>9. ASSUME NEW k \in Key \ {key}
      PROVE  \/ Places(r, k) = Places(h, k) /\ r.table[Hash[k]] = h.table[Hash[k]]
             \/ /\ \A n \in Nat : n + 1 \in Places(r, k) <=> n \in Places(h, k)
                /\ \A n \in Places(r, k) : n - 1 \in Nat
                /\ \A n \in Places(h, k) : r.table[Hash[k]][n + 1] = h.table[Hash[k]][n]
  <2>1. Hash[k] \in 0 .. HASHSIZE - 1
    BY PlaceType
  <2>2. CASE Hash[k] # Hash[key]
    BY <1>5, <2>1, <2>2 DEF Places
  <2>3. CASE Hash[k] = Hash[key]
    <3>1. Places(h, k) = {n \in 1 .. Len(chain) : chain[n].key = k}
      <4>1. DOMAIN chain = 1 .. Len(chain)
        BY <1>2
      <4> QED BY <2>3, <4>1 DEF Places
    <3>2. Places(r, k) = {n \in 1 .. Len(chain) + 1 : s[n].key = k}
      BY <2>3, <1>5, <1>13 DEF Places
    <3>3. ASSUME NEW n \in Nat PROVE n + 1 \in Places(r, k) <=> n \in Places(h, k)
      <4>1. CASE n = 0
        <5>1. s[1].key # k
          BY <1>13
        <5> QED BY <4>1, <5>1, <3>1, <3>2
      <4>2. CASE n \in 1 .. Len(chain)
        <5>1. s[n + 1] = chain[n] /\ n + 1 \in 1 .. Len(chain) + 1
          BY <4>2, <1>13
        <5> QED BY <4>2, <5>1, <3>1, <3>2
      <4>3. CASE n > Len(chain)
        BY <4>3, <3>1, <3>2, <1>13
      <4> QED BY <4>1, <4>2, <4>3, <1>13
    <3>4. \A n \in Places(h, k) : r.table[Hash[k]][n + 1] = h.table[Hash[k]][n]
      BY <3>1, <2>3, <1>13, <1>5
    <3>5. \A n \in Places(r, k) : n - 1 \in Nat
      BY <3>2, <1>13
    <3> QED BY <3>3, <3>4, <3>5
  <2> QED BY <2>2, <2>3
<1>12. r.elements = h.elements + 1 /\ r.uniq = h.uniq + 1 /\ r.keys = Append(h.keys, key)
  BY <1>11
<1> QED BY <1>6, <1>7, <1>8, <1>9, <1>12 DEF r

\* The node of a key that has one is counted up.
LEMMA PutAgain ==
    ASSUME NEW h \in Table, NEW key \in Key, NEW c \in Nat, NEW p \in Places(h, key),
           \A m \in Places(h, key) : m = p
    PROVE  LET r == counter_put(h, key, c)
           IN /\ r \in Table
              /\ r.elements = h.elements + 1 /\ r.uniq = h.uniq /\ r.keys = h.keys
              /\ \A k \in Key : Places(r, k) = Places(h, k)
              /\ r.table[Hash[key]][p].count = h.table[Hash[key]][p].count + c
              /\ \A k \in Key \ {key} : \A n \in Places(h, k) :
                    r.table[Hash[k]][n] = h.table[Hash[k]][n]
<1> DEFINE r == counter_put(h, key, c)
           chain == h.table[Hash[key]]
           s == [chain EXCEPT ![p].count = @ + c]
           t == [h.table EXCEPT ![Hash[key]] = s]
<1>1. Hash[key] \in 0 .. HASHSIZE - 1 /\ chain \in Seq(Node) /\ p \in 1 .. Len(chain)
      /\ chain[p].key = key
  BY PlaceType
<1>2. FirstPlace(h, key) = p
  <2>1. p \in Places(h, key) /\ \A m \in Places(h, key) : p <= m
    BY <1>1
  <2> QED BY <2>1 DEF FirstPlace
<1>3. h.table \in [0 .. HASHSIZE - 1 -> Seq(Node)]
  BY DEF Table, Chain, Node
<1>4. r = [h EXCEPT !.elements = @ + 1, !.table[Hash[key]][p].count = @ + c]
  BY <1>2 DEF counter_put
<1>5. r.elements = h.elements + 1 /\ r.uniq = h.uniq /\ r.keys = h.keys /\ r.table = t
  BY <1>4 DEF Table
<1>6. chain[p] \in Node
  BY <1>1
<1>7. /\ s \in Seq(Node) /\ DOMAIN s = DOMAIN chain
      /\ s[p].key = key /\ s[p].count = chain[p].count + c
      /\ \A n \in DOMAIN chain : n # p => s[n] = chain[n]
  <2> DEFINE m == [chain[p] EXCEPT !.count = @ + c]
  <2>1. m \in Node /\ m.key = key /\ m.count = chain[p].count + c
    BY SMTT(30), <1>1, <1>6 DEF Node
  <2>2. s = [chain EXCEPT ![p] = m] /\ p \in DOMAIN chain
    BY <1>1
  <2> HIDE DEF s, m
  <2>3. s \in Seq(Node)
    BY <1>1, <2>1, <2>2
  <2>4. DOMAIN s = DOMAIN chain /\ s[p] = m /\ \A n \in DOMAIN chain : n # p => s[n] = chain[n]
    BY <2>2
  <2> QED BY <2>1, <2>3, <2>4
<1> HIDE DEF s
<1>8. /\ t \in [0 .. HASHSIZE - 1 -> Seq(Node)] /\ t[Hash[key]] = s
      /\ \A b \in 0 .. HASHSIZE - 1 : b # Hash[key] => t[b] = h.table[b]
  BY <1>1, <1>3, <1>7
<1>9. r \in Table
  <2>1. r = [elements |-> h.elements + 1, uniq |-> h.uniq, keys |-> h.keys, table |-> r.table]
    BY <1>4 DEF Table
  <2>2. t \in [0 .. HASHSIZE - 1 -> Chain]
    BY <1>8 DEF Chain, Node
  <2>3. h.elements + 1 \in Nat /\ h.uniq \in Nat /\ h.keys \in Seq(Key)
    BY DEF Table
  <2> HIDE DEF r, t
  <2> QED BY <1>5, <2>1, <2>2, <2>3 DEF Table
<1> HIDE DEF r, t
<1>10. ASSUME NEW k \in Key
       PROVE  /\ Places(r, k) = Places(h, k)
              /\ k # key => \A n \in Places(h, k) : r.table[Hash[k]][n] = h.table[Hash[k]][n]
  <2>1. Hash[k] \in 0 .. HASHSIZE - 1
    BY PlaceType
  <2>2. CASE Hash[k] # Hash[key]
    BY <1>5, <1>8, <2>1, <2>2 DEF Places
  <2>3. CASE Hash[k] = Hash[key]
    <3>1. Places(h, k) = {n \in DOMAIN chain : chain[n].key = k}
      BY <2>3 DEF Places
    <3>2. Places(r, k) = {n \in DOMAIN chain : s[n].key = k}
      BY <2>3, <1>5, <1>7, <1>8 DEF Places
    <3>3. \A n \in DOMAIN chain : s[n].key = chain[n].key
      BY <1>1, <1>7
    <3>4. p \in Places(h, k) => k = key
      BY <3>1, <1>1
    <3>5. \A n \in Places(h, k) : k # key => s[n] = chain[n]
      BY <3>1, <3>4, <1>7
    <3> QED BY <3>1, <3>2, <3>3, <3>5, <2>3, <1>5, <1>8
  <2> QED BY <2>2, <2>3
<1>11. r.table[Hash[key]][p].count = h.table[Hash[key]][p].count + c
  BY <1>5, <1>7, <1>8
<1> QED BY <1>5, <1>9, <1>10, <1>11 DEF r

-----------------------------------------------------------------------------
(* The bag *)

\* The bag has one more of the key that is put at a new index.
LEMMA PutKeepsBag ==
    ASSUME NEW h \in Table, NEW key \in Key, NEW D, IsFiniteSet(D), NEW d, d \notin D,
           NEW f \in [D -> Key], NEW g \in [D \cup {d} -> Key],
           g[d] = key, \A x \in D : g[x] = f[x],
           KeyedOnce(h), IsBagOf(h, f)
    PROVE  LET r == counter_put(h, key, 1) IN r \in Table /\ KeyedOnce(r) /\ IsBagOf(r, g)
<1> DEFINE r == counter_put(h, key, 1)
           Times(k) == Cardinality({x \in D : f[x] = k})
           Times2(k) == Cardinality({x \in D \cup {d} : g[x] = k})
<1>1. /\ h.elements = Cardinality(D)
      /\ \A k \in Key : CountOf(h, k) = Times(k)
      /\ h.uniq = Len(h.keys)
      /\ \A m, n \in DOMAIN h.keys : h.keys[m] = h.keys[n] => m = n
      /\ {h.keys[n] : n \in DOMAIN h.keys} = {f[x] : x \in D}
  <2>1. DOMAIN f = D
    OBVIOUS
  <2> QED BY <2>1 DEF IsBagOf
<1>2. /\ \A k \in Key : \A m, n \in Places(h, k) : m = n
      /\ \A k \in Key : Places(h, k) # {} <=> \E n \in DOMAIN h.keys : h.keys[n] = k
  BY DEF KeyedOnce
<1>3. Cardinality(D \cup {d}) = Cardinality(D) + 1
  BY FS_AddElement
<1>4. Times2(key) = Times(key) + 1
  <2> DEFINE T == {x \in D : f[x] = key}
  <2>1. IsFiniteSet(T) /\ d \notin T
    BY FS_Subset
  <2>2. {x \in D \cup {d} : g[x] = key} = T \cup {d}
    OBVIOUS
  <2> QED BY <2>1, <2>2, FS_AddElement
<1>5. ASSUME NEW k \in Key \ {key} PROVE Times2(k) = Times(k)
  <2>1. {x \in D \cup {d} : g[x] = k} = {x \in D : f[x] = k}
    BY <1>5
  <2> QED BY <2>1
<1>6. {g[x] : x \in D \cup {d}} = {f[x] : x \in D} \cup {key}
  OBVIOUS
<1>7. h.keys \in Seq(Key)
  BY DEF Table
<1> HIDE DEF Times, Times2
<1>8. /\ r \in Table /\ r.elements = h.elements + 1 /\ r.uniq = Len(r.keys)
      /\ KeyedOnce(r)
      /\ \A m, n \in DOMAIN r.keys : r.keys[m] = r.keys[n] => m = n
      /\ {r.keys[n] : n \in DOMAIN r.keys} = {h.keys[n] : n \in DOMAIN h.keys} \cup {key}
      /\ \A k \in Key : CountOf(r, k) = Times2(k)
  <2>1. CASE Places(h, key) = {}
    <3>1. /\ r \in Table
          /\ r.elements = h.elements + 1 /\ r.uniq = h.uniq + 1
          /\ r.keys = Append(h.keys, key)
          /\ Places(r, key) = {1} /\ r.table[Hash[key]][1].count = 1
      BY <2>1, PutNew
    <3>2. ASSUME NEW k \in Key \ {key}
          PROVE  \/ Places(r, k) = Places(h, k) /\ r.table[Hash[k]] = h.table[Hash[k]]
                 \/ /\ \A n \in Nat : n + 1 \in Places(r, k) <=> n \in Places(h, k)
                    /\ \A n \in Places(r, k) : n - 1 \in Nat
                    /\ \A n \in Places(h, k) : r.table[Hash[k]][n + 1] = h.table[Hash[k]][n]
      BY <2>1, <3>2, PutNew
    <3>3. /\ Len(h.keys) \in Nat /\ DOMAIN h.keys = 1 .. Len(h.keys)
          /\ DOMAIN r.keys = 1 .. Len(h.keys) + 1 /\ Len(r.keys) = Len(h.keys) + 1
          /\ r.keys[Len(h.keys) + 1] = key
          /\ \A n \in 1 .. Len(h.keys) : r.keys[n] = h.keys[n]
      BY <1>7, <3>1
    <3>4. \A n \in DOMAIN h.keys : h.keys[n] # key
      BY <1>2, <2>1
    <3> DEFINE last == Len(h.keys) + 1
    <3> HIDE DEF r
    <3>11. /\ DOMAIN r.keys = DOMAIN h.keys \cup {last} /\ r.keys[last] = key
           /\ \A n \in DOMAIN h.keys : r.keys[n] = h.keys[n]
      BY <3>3
    <3>5. \A m, n \in DOMAIN r.keys : r.keys[m] = r.keys[n] => m = n
      BY <3>4, <3>11, <1>1
    <3>6. {r.keys[n] : n \in DOMAIN r.keys} = {h.keys[n] : n \in DOMAIN h.keys} \cup {key}
      BY <3>11
    <3>7. ASSUME NEW k \in Key \ {key}
          PROVE  /\ \A m, n \in Places(r, k) : m = n
                 /\ Places(r, k) # {} <=> Places(h, k) # {}
                 /\ CountOf(r, k) = CountOf(h, k)
      <4>1. CASE Places(r, k) = Places(h, k) /\ r.table[Hash[k]] = h.table[Hash[k]]
        BY <4>1, <1>2, <3>1, CountOfNode
      <4>2. CASE /\ \A n \in Nat : n + 1 \in Places(r, k) <=> n \in Places(h, k)
                 /\ \A n \in Places(r, k) : n - 1 \in Nat
                 /\ \A n \in Places(h, k) : r.table[Hash[k]][n + 1] = h.table[Hash[k]][n]
        <5>1. Places(r, k) \subseteq Nat /\ Places(h, k) \subseteq Nat
          BY <3>1, PlaceType
        <5>2. \A n \in Places(r, k) : n - 1 \in Places(h, k)
          BY <4>2, <5>1
        <5>3. \A m, n \in Places(r, k) : m = n
          BY <5>1, <5>2, <1>2
        <5>4. Places(r, k) # {} <=> Places(h, k) # {}
          BY <4>2, <5>1, <5>2
        <5>5. CASE Places(h, k) = {}
          BY <5>4, <5>5, <5>3, <1>2, <3>1, CountOfNode
        <5>6. CASE Places(h, k) # {}
          <6>1. PICK n \in Places(h, k) : n + 1 \in Places(r, k)
            BY <5>6, <4>2, <5>1
          <6>2. CountOf(h, k) = h.table[Hash[k]][n].count
            BY <1>2, CountOfNode
          <6>3. CountOf(r, k) = r.table[Hash[k]][n + 1].count
            BY <6>1, <5>3, <3>1, CountOfNode
          <6> QED BY <6>1, <6>2, <6>3, <4>2, <5>3, <5>4
        <5> QED BY <5>3, <5>4, <5>5, <5>6
      <4> QED BY <3>2, <4>1, <4>2
    <3>8. CountOf(r, key) = 1 /\ CountOf(h, key) = 0
      BY <2>1, <3>1, <1>2, CountOfNode
    <3>9. KeyedOnce(r)
      <4>1. \A k \in Key : \A m, n \in Places(r, k) : m = n
        BY <3>1, <3>7
      <4>2. ASSUME NEW k \in Key
            PROVE  Places(r, k) # {} <=> \E n \in DOMAIN r.keys : r.keys[n] = k
        <5>1. CASE k = key
          BY <5>1, <3>1, <3>11
        <5>2. CASE k # key
          BY <5>2, <3>11, <3>7, <1>2
        <5> QED BY <5>1, <5>2
      <4> QED BY <4>1, <4>2 DEF KeyedOnce
    <3>10. \A k \in Key : CountOf(r, k) = Times2(k)
      BY <3>7, <3>8, <1>1, <1>4, <1>5
    <3> QED BY <3>1, <3>3, <3>5, <3>6, <3>9, <3>10, <1>1
  <2>2. CASE Places(h, key) # {}
    <3>1. PICK p \in Places(h, key) : \A m \in Places(h, key) : m = p
      BY <2>2, <1>2
    <3>2. /\ r \in Table
          /\ r.elements = h.elements + 1 /\ r.uniq = h.uniq /\ r.keys = h.keys
          /\ \A k \in Key : Places(r, k) = Places(h, k)
          /\ r.table[Hash[key]][p].count = h.table[Hash[key]][p].count + 1
          /\ \A k \in Key \ {key} : \A n \in Places(h, k) :
                r.table[Hash[k]][n] = h.table[Hash[k]][n]
      BY <3>1, PutAgain
    <3>3. KeyedOnce(r)
      BY <3>2, <1>2 DEF KeyedOnce
    <3>4. \A k \in Key : \A m, n \in Places(r, k) : m = n
      BY <3>2, <1>2
    <3>5. CountOf(r, key) = CountOf(h, key) + 1
      BY <3>1, <3>2, <3>4, <1>2, CountOfNode
    <3>6. ASSUME NEW k \in Key \ {key} PROVE CountOf(r, k) = CountOf(h, k)
      <4>1. CASE Places(h, k) = {}
        BY <4>1, <3>2, <3>4, <1>2, CountOfNode
      <4>2. CASE Places(h, k) # {}
        <5>1. PICK n : n \in Places(h, k)
          BY <4>2
        <5>2. CountOf(h, k) = h.table[Hash[k]][n].count /\ CountOf(r, k) = r.table[Hash[k]][n].count
          BY <5>1, <3>2, <3>4, <1>2, CountOfNode
        <5> QED BY <5>1, <5>2, <3>2
      <4> QED BY <4>1, <4>2
    <3>7. \A k \in Key : CountOf(r, k) = Times2(k)
      BY <3>5, <3>6, <1>1, <1>4, <1>5
    <3>8. {h.keys[n] : n \in DOMAIN h.keys} = {h.keys[n] : n \in DOMAIN h.keys} \cup {key}
      <4>1. key \in {h.keys[n] : n \in DOMAIN h.keys}
        BY <2>2, <1>2
      <4> QED BY <4>1
    <3> HIDE DEF r
    <3>9. r.uniq = Len(r.keys) /\ \A m, n \in DOMAIN r.keys : r.keys[m] = r.keys[n] => m = n
      BY <3>2, <1>1
    <3> QED BY <3>2, <3>3, <3>7, <3>8, <3>9, <1>1
  <2> QED BY <2>1, <2>2
<1>9. IsBagOf(r, g)
  <2>1. DOMAIN g = D \cup {d}
    OBVIOUS
  <2> HIDE DEF r
  <2>2. {r.keys[n] : n \in DOMAIN r.keys} = {g[x] : x \in D \cup {d}}
    BY <1>1, <1>6, <1>8
  <2>3. r.elements = Cardinality(DOMAIN g)
    BY <1>1, <1>3, <1>8, <2>1
  <2>4. \A k \in Key : CountOf(r, k) = Cardinality({x \in DOMAIN g : g[x] = k})
    BY <1>8, <2>1 DEF Times2
  <2> QED BY <1>8, <2>1, <2>2, <2>3, <2>4 DEF IsBagOf
<1> QED BY <1>8, <1>9

-----------------------------------------------------------------------------
(* The list *)

\* The list is the last of a sequence of lists, each of which has one container more.
LEMMA ListByParts ==
    ASSUME NEW ids
    PROVE  \E f : /\ DOMAIN f = 0 .. Len(Containers) /\ f[0] = <<>>
                  /\ \A k \in 1 .. Len(Containers) : f[k] = f[k - 1] \o Part(ids, k)
                  /\ List(ids) = f[Len(Containers)]
<1> DEFINE N == Len(Containers)
           Step(g, k) == IF k = 0 THEN <<>> ELSE g[k - 1] \o Part(ids, k)
           Good(g, n) == DOMAIN g = 0 .. n /\ \A k \in 0 .. n : g[k] = Step(g, k)
           T == {n \in Nat : \E g : Good(g, n)}
<1>1. 0 \in T
  <2> DEFINE g == [k \in 0 .. 0 |-> <<>>]
  <2>1. DOMAIN g = 0 .. 0 /\ \A k \in 0 .. 0 : k = 0 /\ g[k] = <<>>
    OBVIOUS
  <2>2. Good(g, 0)
    BY <2>1
  <2> HIDE DEF Good
  <2> QED BY <2>2
<1>2. ASSUME NEW n \in Nat, n \in T PROVE n + 1 \in T
  <2>1. PICK g : Good(g, n)
    BY <1>2
  <2> DEFINE new == g[n] \o Part(ids, n + 1)
             h == [k \in 0 .. n + 1 |-> IF k = n + 1 THEN new ELSE g[k]]
  <2> HIDE DEF new
  <2>2. DOMAIN h = 0 .. n + 1 /\ h[n + 1] = new /\ \A k \in 0 .. n : h[k] = g[k]
    OBVIOUS
  <2> HIDE DEF h
  <2>3. ASSUME NEW k \in 0 .. n + 1 PROVE h[k] = Step(h, k)
    <3>1. CASE k = n + 1
      <4>1. k # 0 /\ k - 1 = n /\ n \in 0 .. n
        BY <3>1
      <4>2. h[k] = h[n] \o Part(ids, k)
        BY <2>2, <3>1, <4>1 DEF new
      <4> QED BY <4>1, <4>2
    <3>2. CASE k = 0
      <4>1. 0 \in 0 .. n
        OBVIOUS
      <4> QED BY <2>1, <2>2, <3>2, <4>1
    <3>3. CASE k \in 1 .. n
      <4>1. k # 0 /\ k \in 0 .. n /\ k - 1 \in 0 .. n
        BY <3>3
      <4>2. g[k] = g[k - 1] \o Part(ids, k)
        BY <2>1, <4>1
      <4> QED BY <2>2, <4>1, <4>2
    <3> QED BY <3>1, <3>2, <3>3
  <2>4. Good(h, n + 1)
    BY <2>2, <2>3
  <2> HIDE DEF Good
  <2> QED BY <2>4
<1> HIDE DEF T
<1>3. Len(Containers) \in Nat
  BY ContainerAssumption
<1>4. N \in T
  BY <1>1, <1>2, <1>3, Induction
<1>5. PICK g : Good(g, N)
  BY <1>4 DEF T
<1> DEFINE IsF(f) == f = [k \in 0 .. Len(Containers) |->
                             IF k = 0 THEN <<>> ELSE f[k - 1] \o Part(ids, k)]
           F == CHOOSE f : IsF(f)
<1>6. IsF([k \in 0 .. N |-> g[k]])
  <2> DEFINE e == [k \in 0 .. N |-> g[k]]
  <2>1. \A k \in 0 .. N : k # 0 => k - 1 \in 0 .. N
    BY <1>3
  <2>2. \A k \in 0 .. N : e[k] = Step(e, k)
    BY <1>5, <2>1
  <2>3. e = [k \in 0 .. N |-> e[k]]
    OBVIOUS
  <2> HIDE DEF e
  <2> QED BY SMTT(30), <2>2, <2>3
<1>7. IsF(F)
  <2> HIDE DEF IsF
  <2> QED BY <1>6
<1>8. List(ids) = F[N]
  BY Zenon DEF List
<1> HIDE DEF F
<1>9. DOMAIN F = 0 .. N /\ F[0] = <<>> /\ \A k \in 1 .. N : F[k] = F[k - 1] \o Part(ids, k)
  <2>1. DOMAIN F = 0 .. N
    BY <1>7
  <2>2. \A k \in 0 .. N : F[k] = Step(F, k)
    BY <1>7
  <2>3. 0 \in 0 .. N /\ \A k \in 1 .. N : k \in 0 .. N /\ k # 0
    BY <1>3
  <2> QED BY <2>1, <2>2, <2>3
<1> QED BY <1>8, <1>9

\* A container has the entries of a container.
LEMMA PartType ==
    ASSUME NEW ids, ids \subseteq Ids, NEW k \in 1 .. Len(Containers)
    PROVE  Containers[k] \in Ids /\ Containers[k] \in Key /\ Part(ids, k) \in Seq(Pairs)
<1>1. Containers[k] \in Ids /\ Containers[k] \in Key
  BY SMTT(30), ContainerAssumption DEF Ids
<1>2. ImageOf[Containers[k]] \in Key /\ LabelsOf[Containers[k]] \in Seq(Pairs)
  BY <1>1, ContainerAssumption
<1>3. Described(Containers[k]) \in Seq(Pairs)
  <2>1. <<[label |-> "Id", value |-> Containers[k]],
          [label |-> "Image", value |-> ImageOf[Containers[k]]]>> \in Seq(Pairs)
    BY <1>1, <1>2 DEF Pairs
  <2> QED BY <2>1, <1>2 DEF Described
<1>4. <<>> \in Seq(Pairs)
  OBVIOUS
<1> QED BY <1>1, <1>3, <1>4 DEF Part

\* The list of any containers is one of pairs.
LEMMA ListType ==
    ASSUME NEW ids, ids \subseteq Ids
    PROVE  List(ids) \in Seq(Pairs)
<1> DEFINE N == Len(Containers)
<1>1. N \in Nat
  BY ContainerAssumption
<1>2. PICK f : /\ DOMAIN f = 0 .. N /\ f[0] = <<>>
               /\ \A k \in 1 .. N : f[k] = f[k - 1] \o Part(ids, k)
               /\ List(ids) = f[N]
  BY ListByParts
<1> DEFINE T == {n \in Nat : n <= N => f[n] \in Seq(Pairs)}
<1>3. 0 \in T
  <2>1. <<>> \in Seq(Pairs)
    OBVIOUS
  <2>2. f[0] \in Seq(Pairs)
    BY <1>2, <2>1
  <2> QED BY <2>2
<1>4. ASSUME NEW n \in Nat, n \in T PROVE n + 1 \in T
  <2>1. CASE n + 1 <= N
    <3>1. n + 1 \in 1 .. N /\ (n + 1) - 1 = n /\ n <= N
      BY <1>1, <2>1
    <3>2. f[n + 1] = f[n] \o Part(ids, n + 1)
      BY <1>2, <3>1
    <3>3. f[n] \in Seq(Pairs)
      BY <1>4, <3>1
    <3>4. Part(ids, n + 1) \in Seq(Pairs)
      BY <3>1, PartType
    <3>5. f[n] \o Part(ids, n + 1) \in Seq(Pairs)
      BY <3>3, <3>4
    <3>6. f[n + 1] \in Seq(Pairs)
      BY <3>2, <3>5
    <3> QED BY <3>6
  <2>2. CASE ~(n + 1 <= N)
    BY <2>2
  <2> QED BY <2>1, <2>2
<1> HIDE DEF T
<1>5. N \in T
  BY <1>1, <1>3, <1>4, Induction
<1> QED BY <1>1, <1>2, <1>5 DEF T

-----------------------------------------------------------------------------
(* The inductive invariant *)

\* Nothing is listed before the engine answered; what it listed is its list.
OfTheList ==
    /\ pc \in {"options", "list"} => chunk = <<>> /\ i = 1
    /\ answer = "list" => chunk = List(listed)

\* The number judged is what the table says at the end of the list.
FromTheTable ==
    /\ pc # "exited" => judged = NULL
    /\ pc = "stats" => opt.check_memory
    /\ judged # NULL /\ ~opt.check_memory =>
          /\ i > Len(chunk)
          /\ judged = IF opt.image # NULL THEN CountOf(hashtable, opt.image)
                      ELSE counter_get_elements(hashtable)

\* The inductive invariant.
IInv == TypeOK /\ KeyedOnce(hashtable) /\ TableIsBag /\ OfTheList /\ FromTheTable

\* What the types say.
LEMMA TypeFacts ==
    ASSUME TypeOK
    PROVE  /\ hashtable \in Table /\ opt \in CommandLine /\ chunk \in Seq(Pairs)
           /\ Len(chunk) \in Nat /\ DOMAIN chunk = 1 .. Len(chunk)
           /\ Hits(chunk) \subseteq 1 .. Len(chunk) /\ IsFiniteSet(Hits(chunk))
           /\ \A k \in DOMAIN chunk : convert(chunk[k].value) \in Key
<1>1. hashtable \in Table /\ chunk \in Seq(Pairs)
  BY DEF TypeOK, Table
<1>2. opt \in CommandLine
  BY ContainerAssumption DEF TypeOK
<1>3. Len(chunk) \in Nat /\ DOMAIN chunk = 1 .. Len(chunk)
  BY <1>1
<1>4. Hits(chunk) \subseteq 1 .. Len(chunk)
  BY <1>3 DEF Hits
<1>5. IsFiniteSet(Hits(chunk))
  <2>1. IsFiniteSet(1 .. Len(chunk))
    BY <1>3, FS_Interval
  <2> QED BY <1>4, <2>1, FS_Subset
<1>6. ASSUME NEW k \in DOMAIN chunk PROVE convert(chunk[k].value) \in Key
  <2>1. chunk[k] \in Pairs
    BY <1>1, <1>3
  <2>2. chunk[k].value \in Key
    BY <2>1 DEF Pairs
  <2> QED BY <2>2, ContainerAssumption DEF convert
<1> QED BY <1>1, <1>2, <1>3, <1>4, <1>5, <1>6

\* The table is empty at first.
LEMMA CreateIsEmpty ==
    /\ counter_create \in Table /\ KeyedOnce(counter_create)
    /\ \A f : DOMAIN f = {} => IsBagOf(counter_create, f)
<1> DEFINE h == counter_create
<1>1. h \in Table
  BY HashAssumption DEF counter_create, Table, Chain
<1>2. \A key \in Key : Places(h, key) = {}
  BY HashAssumption DEF counter_create, Places
<1>3. h.elements = 0 /\ h.uniq = 0 /\ h.keys = <<>>
  BY DEF counter_create
<1> HIDE DEF h
<1>4. KeyedOnce(h)
  BY <1>2, <1>3 DEF KeyedOnce
<1>5. \A key \in Key : CountOf(h, key) = 0
  BY <1>1, <1>2, CountOfNode
<1>6. ASSUME NEW f, DOMAIN f = {} PROVE IsBagOf(h, f)
  <2>1. Cardinality(DOMAIN f) = 0
    BY <1>6, FS_EmptySet
  <2>2. \A key : {n \in DOMAIN f : f[n] = key} = {}
    BY <1>6
  <2>3. \A key : Cardinality({n \in DOMAIN f : f[n] = key}) = 0
    BY <2>2, FS_EmptySet
  <2>4. DOMAIN h.keys = {} /\ Len(h.keys) = 0
    BY <1>3
  <2>5. {h.keys[n] : n \in DOMAIN h.keys} = {f[n] : n \in DOMAIN f}
    BY <2>4, <1>6
  <2> QED BY <1>3, <1>5, <2>1, <2>3, <2>4, <2>5 DEF IsBagOf
<1> QED BY <1>1, <1>4, <1>6 DEF h

\* The invariant holds at the start.
LEMMA InitInv == Init => IInv
<1> SUFFICES ASSUME Init PROVE IInv
  OBVIOUS
<1>1. chunk = <<>> /\ i = 1 /\ hashtable = counter_create
  BY DEF Init
<1>2. KeyedOnce(hashtable) /\ TableIsBag
  <2>1. DOMAIN Seen = {}
    BY <1>1 DEF Seen
  <2> QED BY <1>1, <2>1, CreateIsEmpty DEF TableIsBag
<1>3. TypeOK
  <2>1. hashtable \in [elements : Nat, uniq : Nat, keys : Seq(Key),
                       table : [0 .. HASHSIZE - 1 -> Chain]]
    BY <1>1, CreateIsEmpty DEF Table
  <2>2. chunk \in Seq(Pairs) /\ Len(chunk) = 0
    BY <1>1
  <2> QED BY <2>1, <2>2, ContainerAssumption DEF Init, TypeOK
<1>4. pc = "options" /\ answer = NULL /\ judged = NULL
  BY DEF Init
<1>5. OfTheList
  BY <1>1, <1>4, ContainerAssumption DEF OfTheList, Answers
<1>6. FromTheTable
  BY <1>4 DEF FromTheTable
<1> QED BY <1>2, <1>3, <1>5, <1>6 DEF IInv

-----------------------------------------------------------------------------
(* The steps *)

LEMMA JudgeType ==
    ASSUME IInv, NEW value \in Nat, Judge(value)
    PROVE  TypeOK'
<1>1. get_status(value, opt.my_threshold) \in Statuses
  BY DEF get_status, Statuses
<1> QED BY <1>1 DEF IInv, TypeOK, Judge, walk, engine

\* A step that leaves the list, the table and the walk alone keeps what relates them.
LEMMA WalkStays ==
    ASSUME IInv, UNCHANGED <<opt, chunk, i, hashtable>>
    PROVE  KeyedOnce(hashtable)' /\ TableIsBag'
<1>1. Seen' = Seen
  BY DEF Seen, Hits, search_key, convert
<1>2. KeyedOnce(hashtable)'
  BY DEF IInv
<1>3. TableIsBag'
  BY <1>1 DEF IInv, TableIsBag
<1> QED BY <1>2, <1>3

\* A failure is the end.
LEMMA FailKeeps ==
    ASSUME IInv, Fail, answer' \in Answers \cup {NULL}, answer' = "list" => answer = "list"
    PROVE  IInv'
<1>1. TypeOK'
  BY DEF IInv, TypeOK, Fail, walk, engine, Statuses
<1>2. OfTheList' /\ FromTheTable'
  BY DEF IInv, OfTheList, FromTheTable, Fail, walk
<1> QED BY <1>1, <1>2, WalkStays DEF IInv, Fail, walk

\* A number is judged.
LEMMA JudgeKeeps ==
    ASSUME IInv, pc # "options", pc # "list", NEW value \in Nat, Judge(value),
           ~opt.check_memory =>
              /\ i > Len(chunk)
              /\ value = IF opt.image # NULL THEN CountOf(hashtable, opt.image)
                         ELSE counter_get_elements(hashtable)
    PROVE  IInv'
<1>1. TypeOK'
  BY JudgeType
<1>2. OfTheList' /\ FromTheTable'
  BY DEF IInv, OfTheList, FromTheTable, Judge, walk
<1> QED BY <1>1, <1>2, WalkStays DEF IInv, Judge, walk

\* What the table counts is a number.
LEMMA CountType ==
    ASSUME IInv
    PROVE  /\ counter_get_elements(hashtable) \in Nat
           /\ \A key \in Key : CountOf(hashtable, key) \in Nat
<1>1. hashtable \in Table
  BY TypeFacts DEF IInv
<1>2. ASSUME NEW key \in Key PROVE CountOf(hashtable, key) \in Nat
  <2>1. \A m, n \in Places(hashtable, key) : m = n
    BY DEF IInv, KeyedOnce
  <2>2. ASSUME NEW n \in Places(hashtable, key) PROVE hashtable.table[Hash[key]][n].count \in Nat
    <3>1. hashtable.table[Hash[key]][n] \in Node
      BY <1>1, PlaceType
    <3> QED BY <3>1 DEF Node
  <2> QED BY <1>1, <2>1, <2>2, CountOfNode
<1> QED BY <1>1, <1>2 DEF Table, counter_get_elements

\* The engine lists its containers.
LEMMA ListStep == IInv /\ ListContainers => IInv'
<1> SUFFICES ASSUME IInv, ListContainers PROVE IInv'
  OBVIOUS
<1>1. Running \subseteq Ids
  BY DEF Running
<1>2. chunk' \in Seq(Pairs) /\ Len(chunk') \in Nat /\ i' = 1 /\ i = 1
  BY <1>1, ListType DEF IInv, OfTheList, ListContainers
<1>3. TypeOK'
  BY <1>1, <1>2 DEF IInv, TypeOK, ListContainers, Answers
<1>4. OfTheList' /\ FromTheTable'
  BY DEF IInv, OfTheList, FromTheTable, ListContainers
<1>5. KeyedOnce(hashtable)'
  BY DEF IInv, ListContainers
<1>6. TableIsBag'
  <2>1. DOMAIN Seen = {} /\ DOMAIN Seen' = {}
    BY <1>2 DEF Seen
  <2>2. Seen = Seen'
    BY <1>2 DEF Seen
  <2>3. hashtable' = hashtable
    BY DEF ListContainers
  <2> QED BY <2>2, <2>3 DEF IInv, TableIsBag
<1> QED BY <1>3, <1>4, <1>5, <1>6 DEF IInv

\* A pair of the list is looked at.
LEMMA SearchStep == IInv /\ Search => IInv'
<1> SUFFICES ASSUME IInv, Search PROVE IInv'
  OBVIOUS
<1>1. /\ hashtable \in Table /\ KeyedOnce(hashtable) /\ IsBagOf(hashtable, Seen)
      /\ i \in DOMAIN chunk /\ i \in Nat /\ i + 1 \in 1 .. Len(chunk) + 1
      /\ Hits(chunk) \subseteq 1 .. Len(chunk) /\ IsFiniteSet(Hits(chunk))
      /\ \A k \in DOMAIN chunk : convert(chunk[k].value) \in Key
  BY TypeFacts DEF IInv, TypeOK, TableIsBag, Search
<1>2. chunk' = chunk /\ i' = i + 1 /\ opt' = opt /\ pc = "search" /\ pc' = pc
  BY DEF Search
<1> DEFINE D == Hits(chunk) \cap 1 .. i - 1
           D2 == Hits(chunk) \cap 1 .. i
           later == [k \in D2 |-> convert(chunk[k].value)]
           r == hashtable'
<1>3. Seen' = later
  BY <1>1, <1>2 DEF Seen, Hits, search_key, convert
<1>4. r \in Table /\ KeyedOnce(r) /\ IsBagOf(r, later)
  <2>1. CASE chunk[i].label = search_key
    <3> DEFINE key == convert(chunk[i].value)
    <3>1. r = counter_put(hashtable, key, 1) /\ key \in Key
      BY <2>1, <1>1 DEF Search
    <3>2. i \in Hits(chunk)
      BY <2>1, <1>1 DEF Hits
    <3>3. D2 = D \cup {i} /\ i \notin D
      BY <1>1, <3>2
    <3>4. IsFiniteSet(D)
      BY <1>1, FS_Subset
    <3>5. Seen \in [D -> Key] /\ later \in [D \cup {i} -> Key]
      <4>1. \A k \in Hits(chunk) : convert(chunk[k].value) \in Key
        BY <1>1 DEF Hits
      <4> QED BY <4>1, <3>3 DEF Seen
    <3>6. later[i] = key /\ \A k \in D : later[k] = Seen[k]
      BY <3>3 DEF Seen
    <3> HIDE DEF later, key, D, r
    <3> QED BY <1>1, <3>1, <3>3, <3>4, <3>5, <3>6, PutKeepsBag
  <2>2. CASE chunk[i].label # search_key
    <3>1. r = hashtable
      BY <2>2 DEF Search
    <3>2. i \notin Hits(chunk)
      BY <2>2 DEF Hits
    <3>3. D2 = D
      BY <1>1, <3>2
    <3>4. later = Seen
      BY <3>3 DEF Seen
    <3> HIDE DEF later, r
    <3> QED BY <1>1, <3>1, <3>4
  <2> QED BY <2>1, <2>2
<1> HIDE DEF later
<1>5. TypeOK'
  BY <1>1, <1>2, <1>4 DEF IInv, TypeOK, Table, Search, engine
<1>6. OfTheList' /\ FromTheTable'
  BY <1>1, <1>2 DEF IInv, OfTheList, FromTheTable, Search
<1>7. KeyedOnce(hashtable)'
  BY <1>4
<1>8. TableIsBag'
  BY <1>3, <1>4 DEF TableIsBag
<1> QED BY <1>5, <1>6, <1>7, <1>8 DEF IInv

\* A container comes or goes.
LEMMA EngineStep == IInv /\ Engine => IInv'
<1> SUFFICES ASSUME IInv, Engine PROVE IInv'
  OBVIOUS
<1>1. UNCHANGED <<pc, opt, answer, chunk, i, hashtable, j, memory, judged, exit, listed>>
  BY DEF Engine, walk
<1>2. /\ usage' \in [Ids -> Usages \cup {NULL}]
      /\ low' \in [Ids -> Usages \cup {NULL}] /\ high' \in [Ids -> Usages \cup {NULL}]
  <2>1. ASSUME NEW id \in Ids, Run(id)
        PROVE  /\ usage' \in [Ids -> Usages \cup {NULL}]
               /\ low' \in [Ids -> Usages \cup {NULL}] /\ high' \in [Ids -> Usages \cup {NULL}]
    BY <2>1 DEF Run, Lower, Higher, IInv, TypeOK
  <2>2. ASSUME NEW id \in Ids, Stop(id)
        PROVE  /\ usage' \in [Ids -> Usages \cup {NULL}]
               /\ low' \in [Ids -> Usages \cup {NULL}] /\ high' \in [Ids -> Usages \cup {NULL}]
    BY <2>2 DEF Stop, IInv, TypeOK
  <2> QED BY <2>1, <2>2 DEF Engine
<1>3. events' \in 0 .. MaxEvents
  BY ContainerAssumption DEF Engine, IInv, TypeOK
<1>4. TypeOK'
  BY <1>1, <1>2, <1>3 DEF IInv, TypeOK
<1>5. OfTheList' /\ FromTheTable'
  BY <1>1 DEF IInv, OfTheList, FromTheTable
<1> QED BY <1>1, <1>4, <1>5, WalkStays DEF IInv

\* The steps that only move on.
LEMMA QuietStep ==
    ASSUME IInv, UNCHANGED <<opt, chunk, i, hashtable, judged, engine, listed>>,
           pc # "exited", pc' \in {"list", "search", "stats"},
           pc' = "list" => pc = "options",
           answer' \in Answers \cup {NULL}, answer' = "list" => answer = "list",
           pc' = "stats" => opt.check_memory,
           j' \in Nat \ {0}, memory' \in Nat, exit' = exit
    PROVE  IInv'
<1>1. TypeOK'
  BY DEF IInv, TypeOK, engine
<1>2. OfTheList' /\ FromTheTable'
  BY DEF IInv, OfTheList, FromTheTable
<1> QED BY <1>1, <1>2, WalkStays DEF IInv

\* The options are parsed.
LEMMA ParseStep == IInv /\ ParseOptions => IInv'
<1> SUFFICES ASSUME IInv, ParseOptions PROVE IInv'
  OBVIOUS
<1>1. answer' = answer /\ answer \in Answers \cup {NULL} /\ j \in Nat \ {0} /\ memory \in Nat
  BY DEF ParseOptions, IInv, TypeOK
<1>2. CASE Fail
  BY <1>1, <1>2, FailKeeps
<1>3. CASE pc' = "list" /\ UNCHANGED <<opt, answer, walk, judged, exit, engine, listed>>
  BY <1>1, <1>3, QuietStep DEF ParseOptions, walk
<1> QED BY <1>2, <1>3 DEF ParseOptions

\* The engine does not answer with a list.
LEMMA AnswerStep == IInv /\ (ListRefused \/ ListFails \/ ListUnparsable) => IInv'
<1> SUFFICES ASSUME IInv PROVE ListRefused \/ ListFails \/ ListUnparsable => IInv'
  OBVIOUS
<1>1. j \in Nat \ {0} /\ memory \in Nat
  BY DEF IInv, TypeOK
<1>2. CASE ListRefused
  BY <1>1, <1>2, QuietStep DEF ListRefused, walk, Answers
<1>3. CASE ListFails
  BY <1>3, FailKeeps DEF ListFails, Answers
<1>4. CASE ListUnparsable /\ pc' = "search" /\ UNCHANGED exit
  BY <1>1, <1>4, QuietStep DEF ListUnparsable, walk, Answers
<1>5. CASE ListUnparsable /\ pc' = "exited" /\ exit' = KILLED_SIGSEGV
  <2>1. TypeOK'
    BY <1>5 DEF ListUnparsable, IInv, TypeOK, walk, engine, Answers
  <2>2. OfTheList' /\ FromTheTable'
    BY <1>5 DEF ListUnparsable, IInv, OfTheList, FromTheTable, walk
  <2> QED BY <1>5, <2>1, <2>2, WalkStays DEF ListUnparsable, IInv, walk
<1> QED BY <1>2, <1>3, <1>4, <1>5 DEF ListUnparsable

\* The list has been counted.
LEMMA CountStep == IInv /\ CountDone => IInv'
<1> SUFFICES ASSUME IInv, CountDone PROVE IInv'
  OBVIOUS
<1> DEFINE value == IF opt.image # NULL THEN CountOf(hashtable, opt.image)
                    ELSE counter_get_elements(hashtable)
<1>1. opt.image \in Key \cup {NULL}
  BY TypeFacts DEF IInv, CommandLine
<1>2. value \in Nat
  BY <1>1, CountType
<1>3. Judge(value) /\ pc = "search" /\ i > Len(chunk) /\ ~opt.check_memory
  BY DEF CountDone
<1> QED BY <1>2, <1>3, JudgeKeeps

\* The memory is read.
LEMMA MemoryStep == IInv /\ (MemoryStart \/ Stats \/ StatsFails \/ MemoryDone) => IInv'
<1> SUFFICES ASSUME IInv PROVE MemoryStart \/ Stats \/ StatsFails \/ MemoryDone => IInv'
  OBVIOUS
<1>1. /\ answer \in Answers \cup {NULL} /\ j \in Nat \ {0} /\ memory \in Nat
      /\ opt.unit \in Nat \ {0} /\ Kilo \in Nat \ {0}
  BY TypeFacts, ContainerAssumption DEF IInv, TypeOK, CommandLine
<1>2. CASE MemoryStart
  BY <1>1, <1>2, QuietStep DEF MemoryStart, walk
<1>3. CASE StatsFails
  BY <1>3, FailKeeps DEF StatsFails, Answers
<1>4. ASSUME Stats PROVE IInv'
  <2> DEFINE value == json_search(hashtable.keys[j])
  <2>1. CASE value = NULL
    BY <1>1, <1>4, <2>1, FailKeeps DEF Stats
  <2>2. CASE value # NULL
    <3>1. value \in Nat
      BY <2>2, ContainerAssumption DEF json_search, Running, IInv, TypeOK
    <3>2. memory + value \div Kilo \in Nat
      BY <3>1, <1>1
    <3>3. /\ pc = "stats" /\ memory' = memory + value \div Kilo /\ j' = j + 1
          /\ UNCHANGED <<pc, opt, answer, chunk, i, hashtable, judged, exit, engine, listed>>
      BY <1>4, <2>2 DEF Stats
    <3> HIDE DEF value
    <3>4. opt.check_memory
      BY <3>3 DEF IInv, FromTheTable
    <3> QED BY <1>1, <3>2, <3>3, <3>4, QuietStep
  <2> QED BY <2>1, <2>2
<1>5. ASSUME MemoryDone PROVE IInv'
  <2>1. memory \div opt.unit \in Nat
    BY <1>1
  <2>2. pc = "stats" /\ Judge(memory \div opt.unit)
    BY <1>5 DEF MemoryDone
  <2>3. opt.check_memory
    BY <2>2 DEF IInv, FromTheTable
  <2> QED BY <2>1, <2>2, <2>3, JudgeKeeps
<1> QED BY <1>2, <1>3, <1>4, <1>5

-----------------------------------------------------------------------------
(* The containers of the list *)

\* No container is listed twice.
LEMMA ListedOnce ==
    \A m, n \in 1 .. Len(Containers) : Containers[m] = Containers[n] => m = n
<1> DEFINE N == Len(Containers)
           S == 1 .. N
<1>1. N \in Nat /\ Containers \in [S -> Ids] /\ Ids = {Containers[k] : k \in S}
  BY ContainerAssumption DEF Ids
<1>2. IsFiniteSet(S) /\ Cardinality(S) = N
  <2>1. IsFiniteSet(1 .. N) /\ Cardinality(1 .. N) = N
    BY <1>1, FS_Interval
  <2> QED BY <2>1
<1>3. Cardinality(S) = Cardinality(Ids)
  BY <1>2, ContainerAssumption
<1>4. Containers \in Surjection(S, Ids)
  BY <1>1 DEF Surjection
<1>5. Containers \in Injection(S, Ids)
  BY <1>2, <1>3, <1>4, FS_SurjSameCardinalityImpliesInj
<1> QED BY <1>1, <1>5 DEF Injection, IsInjective

\* The places of a list where there is a value of some set under the key searched for.
Found(s, V) == {k \in Hits(s) : s[k].value \in V}

\* They are finitely many.
LEMMA FoundType ==
    ASSUME NEW s \in Seq(Pairs), NEW V
    PROVE  Len(s) \in Nat /\ Found(s, V) \subseteq 1 .. Len(s) /\ IsFiniteSet(Found(s, V))
<1>1. Len(s) \in Nat /\ DOMAIN s = 1 .. Len(s)
  OBVIOUS
<1>2. Found(s, V) \subseteq 1 .. Len(s)
  BY <1>1 DEF Found, Hits
<1>3. IsFiniteSet(1 .. Len(s))
  BY <1>1, FS_Interval
<1> QED BY <1>1, <1>2, <1>3, FS_Subset

\* What a concatenation has, and where.
LEMMA Concatenation ==
    ASSUME NEW a \in Seq(Pairs), NEW b \in Seq(Pairs)
    PROVE  /\ Len(a) \in Nat /\ Len(b) \in Nat /\ DOMAIN a = 1 .. Len(a)
           /\ a \o b \in Seq(Pairs) /\ Len(a \o b) = Len(a) + Len(b)
           /\ DOMAIN (a \o b) = 1 .. Len(a) + Len(b)
           /\ \A k \in 1 .. Len(a) : (a \o b)[k] = a[k]
           /\ \A k \in Len(a) + 1 .. Len(a) + Len(b) :
                 (a \o b)[k] = b[k - Len(a)] /\ k - Len(a) \in 1 .. Len(b)
<1>1. Len(a) \in Nat /\ Len(b) \in Nat /\ DOMAIN a = 1 .. Len(a)
  OBVIOUS
<1>2. a \o b \in Seq(Pairs) /\ Len(a \o b) = Len(a) + Len(b)
  OBVIOUS
<1>3. DOMAIN (a \o b) = 1 .. Len(a) + Len(b)
  BY <1>2
<1>4. \A k \in 1 .. Len(a) : (a \o b)[k] = a[k]
  BY <1>1
<1>5. ASSUME NEW k \in Len(a) + 1 .. Len(a) + Len(b)
      PROVE  (a \o b)[k] = b[k - Len(a)] /\ k - Len(a) \in 1 .. Len(b)
  BY <1>1
<1> QED BY <1>1, <1>2, <1>3, <1>4, <1>5

\* What a container is listed with under the key searched for.
Named(id) == IF search_key = "Id" THEN id ELSE ImageOf[id]

\* And at which place among the pairs.
Place == IF search_key = "Id" THEN 1 ELSE 2

\* A container without labels of that key adds the place of its name or image.
LEMMA FoundInPart ==
    ASSUME search_key \in {"Id", "Image"}, NEW s \in Seq(Pairs), NEW V,
           NEW ids, ids \subseteq Ids, NEW c \in 1 .. Len(Containers),
           \A id \in ids : \A k \in DOMAIN LabelsOf[id] : LabelsOf[id][k].label # search_key
    PROVE  Found(s \o Part(ids, c), V) =
              Found(s, V) \cup
                 (IF Containers[c] \in ids /\ Named(Containers[c]) \in V THEN {Len(s) + Place} ELSE {})
<1> DEFINE id == Containers[c]
<1>1. id \in Ids /\ id \in Key /\ Part(ids, c) \in Seq(Pairs)
  BY PartType
<1>2. CASE id \notin ids
  <2>1. Part(ids, c) = <<>>
    BY <1>2 DEF Part
  <2>2. s \o Part(ids, c) = s
    BY <2>1
  <2> QED BY <1>2, <2>2
<1>3. CASE id \in ids
  <2> DEFINE labels == LabelsOf[id]
             two == <<[label |-> "Id", value |-> id], [label |-> "Image", value |-> ImageOf[id]]>>
             t == two \o labels
             u == s \o t
  <2>1. Part(ids, c) = t
    BY <1>3 DEF Part, Described
  <2>2. /\ ImageOf[id] \in Key /\ labels \in Seq(Pairs) /\ Len(labels) \in Nat
        /\ Len(s) \in Nat
    BY <1>1, ContainerAssumption
  <2>3. /\ two \in Seq(Pairs) /\ Len(two) = 2
        /\ two[1].label = "Id" /\ two[2].label = "Image"
        /\ two[1].value = id /\ two[2].value = ImageOf[id]
    BY <1>1, <2>2 DEF Pairs
  <2> HIDE DEF two, labels
  <2>4. /\ t \in Seq(Pairs) /\ Len(t) = Len(labels) + 2 /\ t[1] = two[1] /\ t[2] = two[2]
        /\ \A k \in 3 .. Len(t) : t[k] = labels[k - 2] /\ k - 2 \in 1 .. Len(labels)
    <3>1. two \in Seq(Pairs) /\ labels \in Seq(Pairs)
      BY <2>2, <2>3
    <3>2. /\ t \in Seq(Pairs) /\ Len(t) = Len(two) + Len(labels)
          /\ \A k \in 1 .. Len(two) : t[k] = two[k]
          /\ \A k \in Len(two) + 1 .. Len(two) + Len(labels) :
                t[k] = labels[k - Len(two)] /\ k - Len(two) \in 1 .. Len(labels)
      BY <3>1, Concatenation
    <3> HIDE DEF t
    <3>3. Len(two) = 2 /\ Len(labels) \in Nat
      BY <2>2, <2>3
    <3> QED BY <3>2, <3>3
  <2> HIDE DEF t
  <2>5. \A k \in 1 .. Len(labels) : labels[k].label # search_key
    <3>1. DOMAIN labels = 1 .. Len(labels)
      BY <2>2
    <3> QED BY <1>3, <3>1 DEF labels
  <2>6. \A k \in 1 .. Len(t) : k # Place => t[k].label # search_key
    <3>1. \A k \in 1 .. Len(t) : k = 1 \/ k = 2 \/ k \in 3 .. Len(t)
      BY <2>2, <2>4
    <3> QED BY <3>1, <2>3, <2>4, <2>5 DEF Place
  <2>7. /\ t[Place].label = search_key /\ t[Place].value = Named(id)
        /\ Len(t) \in Nat /\ Place \in 1 .. Len(t)
    BY <2>2, <2>3, <2>4 DEF Place, Named
  <2>8. /\ DOMAIN u = 1 .. Len(s) + Len(t) /\ DOMAIN s = 1 .. Len(s)
        /\ \A k \in 1 .. Len(s) : u[k] = s[k]
        /\ \A k \in Len(s) + 1 .. Len(s) + Len(t) : u[k] = t[k - Len(s)]
    BY SMTT(30), <2>2, <2>4, <2>7, Concatenation
  <2> HIDE DEF u
  <2>9. ASSUME NEW k \in Nat
        PROVE  k \in Found(u, V) <=> k \in Found(s, V) \/ (k = Len(s) + Place /\ Named(id) \in V)
    <3>1. CASE k \in 1 .. Len(s)
      <4>1. k \in DOMAIN u /\ k \in DOMAIN s /\ u[k] = s[k] /\ k # Len(s) + Place
        BY <2>2, <2>7, <2>8, <3>1
      <4> QED BY <4>1 DEF Found, Hits
    <3>2. CASE k \in Len(s) + 1 .. Len(s) + Len(t)
      <4>1. k \in DOMAIN u /\ k \notin DOMAIN s /\ u[k] = t[k - Len(s)]
            /\ k - Len(s) \in 1 .. Len(t) /\ (k = Len(s) + Place <=> k - Len(s) = Place)
        BY <2>2, <2>7, <2>8, <3>2
      <4>2. u[k].label = search_key <=> k - Len(s) = Place
        BY <4>1, <2>6, <2>7
      <4>3. k - Len(s) = Place => u[k].value = Named(id)
        BY <4>1, <2>7
      <4> QED BY <4>1, <4>2, <4>3 DEF Found, Hits
    <3>3. CASE k \notin 1 .. Len(s) /\ k \notin Len(s) + 1 .. Len(s) + Len(t)
      <4>1. k \notin DOMAIN u /\ k \notin DOMAIN s /\ k # Len(s) + Place
        BY <2>2, <2>7, <2>8, <3>3
      <4> QED BY <4>1 DEF Found, Hits
    <3> QED BY <3>1, <3>2, <3>3
  <2>10. Found(u, V) \subseteq Nat /\ Found(s, V) \subseteq Nat /\ Len(s) + Place \in Nat
    BY <2>2, <2>7, <2>8 DEF Found, Hits
  <2>11. Found(u, V) = Found(s, V) \cup (IF Named(id) \in V THEN {Len(s) + Place} ELSE {})
    BY <2>9, <2>10
  <2> QED BY <1>3, <2>1, <2>11 DEF u
<1> QED BY <1>2, <1>3

\* So the list has as many places with a name or image of some set as containers of
\* such a one are listed.
LEMMA NamesOfTheList ==
    ASSUME search_key \in {"Id", "Image"}, NEW V, NEW ids, ids \subseteq Ids,
           \A id \in ids : \A k \in DOMAIN LabelsOf[id] : LabelsOf[id][k].label # search_key
    PROVE  Cardinality(Found(List(ids), V)) = Cardinality({id \in ids : Named(id) \in V})
<1> DEFINE N == Len(Containers)
           Those(n) == {id \in ids : Named(id) \in V /\ \E m \in 1 .. n : Containers[m] = id}
<1>1. N \in Nat
  BY ContainerAssumption
<1>2. PICK f : /\ DOMAIN f = 0 .. N /\ f[0] = <<>>
               /\ \A k \in 1 .. N : f[k] = f[k - 1] \o Part(ids, k)
               /\ List(ids) = f[N]
  BY ListByParts
<1> DEFINE Same(n) == /\ f[n] \in Seq(Pairs) /\ IsFiniteSet(Those(n))
                      /\ Cardinality(Found(f[n], V)) = Cardinality(Those(n))
           T == {n \in Nat : n <= N => Same(n)}
<1>3. Same(0)
  <2>1. <<>> \in Seq(Pairs) /\ DOMAIN <<>> = {}
    OBVIOUS
  <2>2. Found(<<>>, V) = {} /\ Those(0) = {}
    BY <2>1 DEF Found, Hits
  <2> QED BY <1>2, <2>1, <2>2, FS_EmptySet
<1>4. ASSUME NEW n \in Nat, n + 1 <= N, Same(n) PROVE Same(n + 1)
  <2> DEFINE c == Containers[n + 1]
             s == f[n]
  <2>1. n + 1 \in 1 .. N /\ (n + 1) - 1 = n
    BY <1>1, <1>4
  <2>2. f[n + 1] = s \o Part(ids, n + 1)
    BY <1>2, <2>1
  <2>3. s \in Seq(Pairs) /\ Part(ids, n + 1) \in Seq(Pairs)
    BY <1>4, <2>1, PartType
  <2>4. f[n + 1] \in Seq(Pairs)
    <3>1. s \o Part(ids, n + 1) \in Seq(Pairs)
      BY <2>3
    <3> QED BY <2>2, <3>1
  <2>5. /\ Found(f[n + 1], V) = Found(s, V) \cup
              (IF c \in ids /\ Named(c) \in V THEN {Len(s) + Place} ELSE {})
    <3> DEFINE d == n + 1
    <3>1. d \in 1 .. Len(Containers)
      BY <2>1
    <3> HIDE DEF d, s
    <3>2. Found(s \o Part(ids, d), V) = Found(s, V) \cup
             (IF Containers[d] \in ids /\ Named(Containers[d]) \in V THEN {Len(s) + Place} ELSE {})
      BY <2>3, <3>1, FoundInPart
    <3>3. f[n + 1] = s \o Part(ids, d)
      BY <2>2 DEF d
    <3> QED BY <3>2, <3>3 DEF d, s
  <2>6. Those(n + 1) = Those(n) \cup (IF c \in ids /\ Named(c) \in V THEN {c} ELSE {})
    <3>1. \A m \in 1 .. n + 1 : m \in 1 .. n \/ m = n + 1
      OBVIOUS
    <3>2. \A m \in 1 .. n : m \in 1 .. n + 1
      OBVIOUS
    <3>3. n + 1 \in 1 .. n + 1
      OBVIOUS
    <3> QED BY <3>1, <3>2, <3>3
  <2>7. Len(s) + Place \notin Found(s, V) /\ IsFiniteSet(Found(s, V))
    <3>1. Len(s) \in Nat /\ Found(s, V) \subseteq 1 .. Len(s) /\ IsFiniteSet(Found(s, V))
      BY <2>3, FoundType
    <3>2. Place \in 1 .. 2
      BY DEF Place
    <3> HIDE DEF s
    <3> QED BY <3>1, <3>2
  <2>8. c \notin Those(n)
    <3>1. \A m \in 1 .. n : m \in 1 .. N /\ m # n + 1
      BY <1>1, <2>1
    <3> QED BY <2>1, <3>1, ListedOnce
  <2> HIDE DEF Those
  <2>9. IsFiniteSet(Those(n + 1))
    <3>1. IsFiniteSet(Those(n)) /\ IsFiniteSet(Those(n) \cup {c})
      BY <1>4, FS_AddElement
    <3> QED BY <2>6, <3>1
  <2>10. Cardinality(Found(f[n + 1], V)) = Cardinality(Those(n + 1))
    <3>1. CASE c \in ids /\ Named(c) \in V
      <4>1. Cardinality(Found(s, V) \cup {Len(s) + Place}) = Cardinality(Found(s, V)) + 1
        BY <2>7, FS_AddElement
      <4>2. Cardinality(Those(n) \cup {c}) = Cardinality(Those(n)) + 1
        BY <1>4, <2>8, FS_AddElement
      <4> QED BY <3>1, <4>1, <4>2, <1>4, <2>5, <2>6
    <3>2. CASE ~(c \in ids /\ Named(c) \in V)
      <4>1. Found(f[n + 1], V) = Found(s, V) /\ Those(n + 1) = Those(n)
        BY <3>2, <2>5, <2>6
      <4> QED BY <4>1, <1>4
    <3> QED BY <3>1, <3>2
  <2> QED BY <2>4, <2>9, <2>10
<1> HIDE DEF Same
<1>5. 0 \in T
  BY <1>3
<1>6. ASSUME NEW n \in Nat, n \in T PROVE n + 1 \in T
  <2>1. n + 1 <= N => n <= N
    BY <1>1
  <2> QED BY <1>4, <1>6, <2>1
<1> HIDE DEF T
<1>7. N \in T
  BY <1>1, <1>5, <1>6, Induction
<1>8. Same(N)
  BY <1>1, <1>7 DEF T
<1>9. Those(N) = {id \in ids : Named(id) \in V}
  <2>1. \A id \in Ids : \E m \in 1 .. N : Containers[m] = id
    BY ContainerAssumption DEF Ids
  <2> QED BY <2>1
<1> QED BY <1>2, <1>8, <1>9 DEF Same

-----------------------------------------------------------------------------
(* The memory *)

\* What a container listed uses lies between the least and the most it used since.
Enclosed ==
    \A id \in listed :
        /\ low[id] \in Usages /\ high[id] \in Usages
        /\ usage[id] # NULL => low[id] <= usage[id] /\ usage[id] <= high[id]

\* The containers asked so far.
AskedSoFar == {hashtable.keys[k] : k \in 1 .. j - 1}

\* The sum so far lies between those of what they used at least and at most.
SumEnclosed ==
    /\ AskedSoFar \subseteq listed
    /\ SumFunctionOnSet(Kilobytes(low), AskedSoFar) <= memory
    /\ memory <= SumFunctionOnSet(Kilobytes(high), AskedSoFar)

\* What has been asked at each place of the program.
Asking ==
    /\ pc \in {"options", "list", "search"} => j = 1 /\ memory = 0
    /\ pc = "stats" => i > Len(chunk) /\ j <= hashtable.uniq + 1
    /\ pc = "stats" /\ answer = "list" /\ NoLabelClash => SumEnclosed
    /\ Judged /\ opt.check_memory =>
          /\ i > Len(chunk) /\ j = hashtable.uniq + 1 /\ judged = memory \div opt.unit
          /\ answer = "list" /\ NoLabelClash => SumEnclosed

\* The invariant about the memory.
MemoryInv == Enclosed /\ Asking

\* A quotient of more is not less.
LEMMA DivMonotone ==
    ASSUME NEW m \in Nat \ {0}, NEW a \in Nat, NEW b \in Nat, a <= b
    PROVE  a \div m \in Nat /\ b \div m \in Nat /\ a \div m <= b \div m
<1> DEFINE q == a \div m
           r == b \div m
<1>1. /\ q \in Int /\ r \in Int /\ a = q * m + (a % m) /\ b = r * m + (b % m)
      /\ a % m \in 0 .. m - 1 /\ b % m \in 0 .. m - 1
  BY DivMod
<1>2. q \in Nat /\ r \in Nat
  OBVIOUS
<1> DEFINE c == a % m
           d == b % m
<1> HIDE DEF q, r, c, d
<1>3. q * m + c <= r * m + d /\ c \in 0 .. m - 1 /\ d \in 0 .. m - 1
  BY <1>1 DEF c, d
<1>4. q <= r
  <2>1. CASE q >= r + 1
    <3>1. q * m >= r * m + m
      BY <1>2, <2>1
    <3>2. q * m \in Nat /\ r * m \in Nat
      BY <1>2
    <3> QED BY <1>3, <3>1, <3>2
  <2> QED BY <1>2, <2>1
<1> QED BY <1>2, <1>4 DEF q, r

\* The containers are finitely many.
LEMMA FiniteIds == IsFiniteSet(Ids)
<1> DEFINE S == 1 .. Len(Containers)
<1>1. Ids = {Containers[k] : k \in S} /\ Len(Containers) \in Nat
  BY SMTT(30), ContainerAssumption DEF Ids
<1>2. IsFiniteSet(S)
  BY <1>1, FS_Interval
<1>3. IsFiniteSet({Containers[k] : k \in S})
  BY <1>2, FiniteImage
<1> QED BY <1>1, <1>3

\* The sums are of numbers.
LEMMA KilobyteTypes ==
    ASSUME TypeOK, Enclosed
    PROVE  /\ IsFiniteSet(listed) /\ Kilo \in Nat \ {0} /\ NULL \notin Usages
           /\ \A id \in listed :
                 /\ id \in Ids /\ usage[id] \in Usages \cup {NULL}
                 /\ low[id] \in Nat /\ high[id] \in Nat
                 /\ Kilobytes(low)[id] = low[id] \div Kilo /\ Kilobytes(low)[id] \in Nat
                 /\ Kilobytes(high)[id] = high[id] \div Kilo /\ Kilobytes(high)[id] \in Nat
<1>1. listed \subseteq Ids /\ Kilo \in Nat \ {0} /\ Usages \subseteq Nat /\ NULL \notin Usages
  BY ContainerAssumption DEF TypeOK
<1>2. IsFiniteSet(listed)
  BY <1>1, FiniteIds, FS_Subset
<1>3. ASSUME NEW id \in listed
      PROVE  /\ usage[id] \in Usages \cup {NULL} /\ low[id] \in Nat /\ high[id] \in Nat
             /\ low[id] \div Kilo \in Nat /\ high[id] \div Kilo \in Nat
  <2>1. usage[id] \in Usages \cup {NULL} /\ low[id] \in Nat /\ high[id] \in Nat
    BY <1>1 DEF TypeOK, Enclosed
  <2> QED BY <1>1, <2>1, DivMonotone
<1> QED BY <1>1, <1>2, <1>3 DEF Kilobytes

\* When all of the list has been searched, the keys of the table are the containers
\* listed, each once.
LEMMA KeysOfTheList ==
    ASSUME IInv, opt.check_memory, answer = "list", NoLabelClash, i > Len(chunk)
    PROVE  /\ hashtable.uniq \in Nat /\ DOMAIN hashtable.keys = 1 .. hashtable.uniq
           /\ {hashtable.keys[k] : k \in 1 .. hashtable.uniq} = listed
           /\ \A m, n \in 1 .. hashtable.uniq : hashtable.keys[m] = hashtable.keys[n] => m = n
<1>1. search_key = "Id" /\ \A value : convert(value) = value
  BY DEF search_key, convert
<1>2. /\ hashtable \in Table /\ Len(chunk) \in Nat /\ i \in Nat
      /\ Hits(chunk) \subseteq 1 .. Len(chunk) /\ IsFiniteSet(Hits(chunk))
  BY TypeFacts DEF IInv, TypeOK
<1>3. /\ hashtable.uniq = Len(hashtable.keys)
      /\ \A m, n \in DOMAIN hashtable.keys : hashtable.keys[m] = hashtable.keys[n] => m = n
      /\ {hashtable.keys[k] : k \in DOMAIN hashtable.keys} = {Seen[k] : k \in DOMAIN Seen}
  BY DEF IInv, TableIsBag, IsBagOf
<1>4. hashtable.uniq \in Nat /\ DOMAIN hashtable.keys = 1 .. hashtable.uniq
  BY <1>2, <1>3 DEF Table
<1>5. {Seen[k] : k \in DOMAIN Seen} = {chunk[k].value : k \in Hits(chunk)}
  <2>1. Hits(chunk) \cap 1 .. i - 1 = Hits(chunk)
    BY <1>2
  <2> QED BY <1>1, <2>1 DEF Seen
<1>6. ASSUME NEW x PROVE (\E k \in Hits(chunk) : chunk[k].value = x) <=> x \in listed
  <2> DEFINE V == {x}
             those == {id \in listed : Named(id) \in V}
  <2>1. chunk = List(listed) /\ listed \subseteq Ids
    BY DEF IInv, OfTheList, TypeOK
  <2>2. Cardinality(Found(chunk, V)) = Cardinality(those)
    <3>1. \A W : Cardinality(Found(List(listed), W)) = Cardinality({id \in listed : Named(id) \in W})
      BY <1>1, <2>1, NamesOfTheList DEF NoLabelClash
    <3> QED BY <2>1, <3>1
  <2>3. those = {id \in listed : id = x} /\ Found(chunk, V) = {k \in Hits(chunk) : chunk[k].value = x}
    BY <1>1 DEF Named, Found
  <2>4. IsFiniteSet(those) /\ IsFiniteSet(Found(chunk, V))
    BY <1>2, <2>1, <2>3, FiniteIds, FS_Subset
  <2>5. those = {} <=> Found(chunk, V) = {}
    <3> HIDE DEF those, V
    <3> QED BY <2>2, <2>4, FS_EmptySet
  <2> QED BY <2>3, <2>5
<1>7. {chunk[k].value : k \in Hits(chunk)} = listed
  BY <1>6
<1>8. {hashtable.keys[k] : k \in 1 .. hashtable.uniq} = listed
  BY <1>3, <1>4, <1>5, <1>7
<1> QED BY <1>3, <1>4, <1>8

\* Nothing has been listed at first.
LEMMA MemoryInit == Init => MemoryInv
BY DEF Init, MemoryInv, Enclosed, Asking, Judged

\* A step that leaves the containers and what was asked alone.
LEMMA MemoryStays ==
    ASSUME MemoryInv, UNCHANGED <<usage, low, high, listed, hashtable, j, memory>>
    PROVE  /\ Enclosed' /\ (SumEnclosed => SumEnclosed')
BY DEF MemoryInv, Enclosed, SumEnclosed, AskedSoFar, Kilobytes


\* A container that uses more or less is still enclosed, and so is the sum.
LEMMA MemoryEngine ==
    ASSUME IInv, IInv', MemoryInv, Engine
    PROVE  MemoryInv'
<1>1. /\ UNCHANGED <<pc, opt, answer, chunk, i, hashtable, j, memory, judged, exit, listed>>
      /\ pc \in {"list", "search", "stats"}
  BY DEF Engine, walk
<1>2. listed \subseteq Ids /\ Usages \subseteq Nat /\ NULL \notin Usages
  BY ContainerAssumption DEF IInv, TypeOK
<1>3. PICK id \in Ids : Run(id) \/ Stop(id)
  BY DEF Engine
<1>4. ASSUME NEW c \in listed
      PROVE  /\ low'[c] \in Usages /\ high'[c] \in Usages
             /\ usage'[c] # NULL => low'[c] <= usage'[c] /\ usage'[c] <= high'[c]
             /\ low'[c] <= low[c] /\ high[c] <= high'[c]
  <2>1. /\ c \in Ids /\ low[c] \in Usages /\ high[c] \in Usages
        /\ usage[c] # NULL => low[c] <= usage[c] /\ usage[c] <= high[c]
    BY <1>2 DEF MemoryInv, Enclosed
  <2>2. /\ usage \in [Ids -> Usages \cup {NULL}] /\ low \in [Ids -> Usages \cup {NULL}]
        /\ high \in [Ids -> Usages \cup {NULL}]
    BY DEF IInv, TypeOK
  <2>5. low[c] \in Nat /\ high[c] \in Nat /\ low[c] # NULL /\ high[c] # NULL
    BY <1>2, <2>1
  <2>3. CASE Stop(id)
    <3>1. low' = low /\ high' = high /\ usage'[c] \in {usage[c], NULL}
      BY <2>1, <2>2, <2>3 DEF Stop
    <3> QED BY <2>1, <2>5, <3>1
  <2>4. CASE Run(id)
    <3>1. PICK u \in Usages : /\ usage' = [usage EXCEPT ![id] = u]
                              /\ low' = [low EXCEPT ![id] = Lower(@, u)]
                              /\ high' = [high EXCEPT ![id] = Higher(@, u)]
      BY <2>4 DEF Run
    <3>2. CASE c # id
      <4>1. low'[c] = low[c] /\ high'[c] = high[c] /\ usage'[c] = usage[c]
        BY <2>1, <2>2, <3>1, <3>2
      <4> QED BY <2>1, <2>5, <4>1
    <3>3. CASE c = id
      <4>1. /\ usage'[c] = u /\ low'[c] = Lower(low[c], u) /\ high'[c] = Higher(high[c], u)
        BY <2>1, <2>2, <3>1, <3>3
      <4>2. low[c] # NULL /\ high[c] # NULL /\ low[c] \in Nat /\ high[c] \in Nat /\ u \in Nat
        BY <1>2, <2>1, <3>1
      <4> QED BY <2>1, <4>1, <4>2 DEF Lower, Higher
    <3> QED BY <3>2, <3>3
  <2> QED BY <1>3, <2>3, <2>4
<1>5. Enclosed'
  BY <1>1, <1>4 DEF Enclosed
<1>6. SumEnclosed => SumEnclosed'
  <2> SUFFICES ASSUME SumEnclosed PROVE SumEnclosed'
    OBVIOUS
  <2> DEFINE S == AskedSoFar
             f == Kilobytes(low)
             g == Kilobytes(high)
             f2 == Kilobytes(low')
             g2 == Kilobytes(high')
  <2>1. S \subseteq listed /\ SumFunctionOnSet(f, S) <= memory /\ memory <= SumFunctionOnSet(g, S)
    BY DEF SumEnclosed
  <2>2. IsFiniteSet(S)
    BY <2>1, KilobyteTypes, FS_Subset DEF IInv, MemoryInv
  <2>3. ASSUME NEW c \in listed
        PROVE  /\ f[c] \in Nat /\ g[c] \in Nat /\ f2[c] \in Nat /\ g2[c] \in Nat
               /\ f2[c] <= f[c] /\ g[c] <= g2[c]
    <3>1. /\ Kilo \in Nat \ {0} /\ low[c] \in Nat /\ high[c] \in Nat
          /\ low'[c] \in Nat /\ high'[c] \in Nat /\ low'[c] <= low[c] /\ high[c] <= high'[c]
      BY <1>2, <1>4, KilobyteTypes DEF IInv, MemoryInv
    <3>2. /\ low'[c] \div Kilo \in Nat /\ low[c] \div Kilo \in Nat
          /\ low'[c] \div Kilo <= low[c] \div Kilo
      BY <3>1, DivMonotone
    <3>3. /\ high'[c] \div Kilo \in Nat /\ high[c] \div Kilo \in Nat
          /\ high[c] \div Kilo <= high'[c] \div Kilo
      BY <3>1, DivMonotone
    <3> QED BY <3>2, <3>3 DEF Kilobytes
  <2> HIDE DEF f, g, f2, g2
  <2>4. /\ SumFunctionOnSet(f2, S) <= SumFunctionOnSet(f, S)
        /\ SumFunctionOnSet(g, S) <= SumFunctionOnSet(g2, S)
    BY <2>1, <2>2, <2>3, SumMonotone
  <2>5. /\ SumFunctionOnSet(f, S) \in Nat /\ SumFunctionOnSet(g, S) \in Nat
        /\ SumFunctionOnSet(f2, S) \in Nat /\ SumFunctionOnSet(g2, S) \in Nat /\ memory \in Nat
    BY <2>1, <2>2, <2>3, SumType DEF IInv, TypeOK
  <2>6. SumFunctionOnSet(f2, S) <= memory /\ memory <= SumFunctionOnSet(g2, S)
    BY <2>1, <2>4, <2>5
  <2>7. S' = S /\ Kilobytes(low)' = f2 /\ Kilobytes(high)' = g2
    BY <1>1 DEF AskedSoFar, Kilobytes, f2, g2
  <2> QED BY <1>1, <2>1, <2>6, <2>7 DEF SumEnclosed
<1>7. NoLabelClash' <=> NoLabelClash
  BY <1>1 DEF NoLabelClash, search_key
<1>8. Asking'
  BY <1>1, <1>6, <1>7 DEF MemoryInv, Asking, Judged
<1> QED BY <1>5, <1>8 DEF MemoryInv

\* The memory of a container is added once, and lies between its least and its most.
LEMMA MemoryStats ==
    ASSUME IInv, IInv', MemoryInv, Stats
    PROVE  MemoryInv'
<1> DEFINE id == hashtable.keys[j]
           value == json_search(id)
<1>1. CASE value = NULL
  <2>1. pc' = "exited" /\ judged' = judged /\ judged = NULL
        /\ UNCHANGED <<usage, low, high, listed, hashtable, j, memory>>
    BY <1>1 DEF Stats, Fail, IInv, FromTheTable, engine, walk
  <2>2. Enclosed'
    BY <2>1, MemoryStays
  <2> QED BY <2>1, <2>2 DEF MemoryInv, Asking, Judged
<1>2. CASE value # NULL
  <2>1. /\ pc = "stats" /\ j <= hashtable.uniq /\ memory' = memory + value \div Kilo /\ j' = j + 1
        /\ UNCHANGED <<pc, opt, answer, chunk, i, hashtable, judged, exit, listed>>
        /\ UNCHANGED <<usage, low, high>>
    BY <1>2 DEF Stats, engine
  <2>2. opt.check_memory /\ i > Len(chunk) /\ j \in Nat \ {0}
    BY <2>1 DEF MemoryInv, Asking, IInv, FromTheTable, TypeOK
  <2>3. Enclosed'
    BY <2>1 DEF MemoryInv, Enclosed
  <2>4. hashtable.uniq \in Nat
    BY TypeFacts DEF IInv, Table
  <2>5. ASSUME answer = "list", NoLabelClash PROVE SumEnclosed'
    <3> DEFINE S == AskedSoFar
               f == Kilobytes(low)
               g == Kilobytes(high)
    <3>1. S \subseteq listed /\ SumFunctionOnSet(f, S) <= memory /\ memory <= SumFunctionOnSet(g, S)
      BY <2>1, <2>5 DEF MemoryInv, Asking, SumEnclosed
    <3>2. /\ {hashtable.keys[k] : k \in 1 .. hashtable.uniq} = listed
          /\ \A m, n \in 1 .. hashtable.uniq : hashtable.keys[m] = hashtable.keys[n] => m = n
      BY <2>2, <2>5, KeysOfTheList
    <3>3. id \in listed /\ id \notin S
      BY <2>1, <2>2, <2>4, <3>2 DEF AskedSoFar
    <3>4. AskedSoFar' = S \cup {id}
      <4>1. 1 .. (j + 1) - 1 = 1 .. j - 1 \cup {j}
        BY <2>2
      <4> QED BY <2>1, <4>1 DEF AskedSoFar
    <3>5. value = usage[id] /\ value \in Nat /\ low[id] <= value /\ value <= high[id]
      BY <1>2, <3>3, KilobyteTypes, ContainerAssumption
         DEF json_search, MemoryInv, Enclosed, IInv, TypeOK
    <3> DEFINE kb == value \div Kilo
    <3>6. kb \in Nat /\ f[id] \in Nat /\ g[id] \in Nat /\ f[id] <= kb /\ kb <= g[id]
      <4>1. /\ Kilo \in Nat \ {0} /\ low[id] \in Nat /\ high[id] \in Nat
            /\ f[id] = low[id] \div Kilo /\ g[id] = high[id] \div Kilo
        BY <3>3, KilobyteTypes DEF IInv, MemoryInv
      <4> HIDE DEF f, g, value, id
      <4> QED BY <3>5, <4>1, DivMonotone
    <3>7. IsFiniteSet(S) /\ \A c \in S \cup {id} : f[c] \in Nat /\ g[c] \in Nat
      BY <3>1, <3>3, KilobyteTypes, FS_Subset DEF IInv, MemoryInv
    <3> HIDE DEF f, g, S, id
    <3>8. /\ SumFunctionOnSet(f, S \cup {id}) = SumFunctionOnSet(f, S) + f[id]
          /\ SumFunctionOnSet(g, S \cup {id}) = SumFunctionOnSet(g, S) + g[id]
      BY <3>3, <3>7, SumAdd
    <3>9. SumFunctionOnSet(f, S) \in Nat /\ SumFunctionOnSet(g, S) \in Nat /\ memory \in Nat
      BY <3>7, SumType DEF IInv, TypeOK
    <3> HIDE DEF value, kb
    <3>10. /\ SumFunctionOnSet(f, S \cup {id}) <= memory + kb
           /\ memory + kb <= SumFunctionOnSet(g, S \cup {id})
      BY <3>1, <3>6, <3>8, <3>9
    <3>11. memory' = memory + kb /\ Kilobytes(low)' = f /\ Kilobytes(high)' = g /\ listed' = listed
      BY <2>1 DEF kb, value, id, f, g, Kilobytes
    <3>12. S \cup {id} \subseteq listed
      BY <3>1, <3>3
    <3> QED BY <3>4, <3>10, <3>11, <3>12 DEF SumEnclosed
  <2>6. NoLabelClash' <=> NoLabelClash
    BY <2>1 DEF NoLabelClash, search_key
  <2>7. Asking'
    BY <2>1, <2>2, <2>4, <2>5, <2>6 DEF MemoryInv, Asking, Judged
  <2> QED BY <2>3, <2>7 DEF MemoryInv
<1> QED BY <1>1, <1>2

\* Every step keeps the invariant about the memory.
LEMMA MemoryNext ==
    ASSUME IInv, IInv', MemoryInv, [Next]_vars
    PROVE  MemoryInv'
<1>0. pc # "exited" => judged = NULL
  BY DEF IInv, FromTheTable
<1>1. CASE UNCHANGED vars
  <2>1. UNCHANGED <<pc, opt, answer, chunk, i, hashtable, j, memory, judged, exit,
                    usage, low, high, listed>>
    BY <1>1 DEF vars, walk, engine
  <2>2. Enclosed' /\ (SumEnclosed => SumEnclosed')
    BY <2>1, MemoryStays
  <2>3. NoLabelClash' <=> NoLabelClash
    BY <2>1 DEF NoLabelClash, search_key
  <2> QED BY <2>1, <2>2, <2>3 DEF MemoryInv, Asking, Judged
<1>2. CASE ParseOptions \/ ListRefused \/ ListFails \/ ListUnparsable \/ StatsFails
  <2>1. /\ UNCHANGED <<usage, low, high, listed, hashtable, j, memory, judged>>
        /\ pc' = "exited" \/ (pc \in {"options", "list"} /\ pc' \in {"list", "search"})
        /\ pc # "exited"
    BY <1>2 DEF ParseOptions, ListRefused, ListFails, ListUnparsable, StatsFails, Fail, walk, engine
  <2>2. Enclosed'
    BY <2>1, MemoryStays
  <2> QED BY <1>0, <2>1, <2>2 DEF MemoryInv, Asking, Judged
<1>3. CASE ListContainers
  <2>1. /\ pc = "list" /\ pc' = "search" /\ listed' = Running /\ low' = usage /\ high' = usage
        /\ UNCHANGED <<j, memory, usage>>
    BY <1>3 DEF ListContainers
  <2>2. Usages \subseteq Nat /\ NULL \notin Usages /\ usage \in [Ids -> Usages \cup {NULL}]
    BY ContainerAssumption DEF IInv, TypeOK
  <2>3. ASSUME NEW id \in Running PROVE usage[id] \in Usages /\ usage[id] <= usage[id]
    <3>1. usage[id] \in Usages /\ usage[id] \in Nat
      BY <2>2 DEF Running
    <3> QED BY <3>1
  <2>4. Enclosed'
    BY <2>1, <2>3 DEF Enclosed
  <2> QED BY <2>1, <2>4 DEF MemoryInv, Asking, Judged
<1>4. CASE Search
  <2>1. /\ pc = "search" /\ pc' = pc /\ UNCHANGED <<j, memory, usage, low, high, listed>>
    BY <1>4 DEF Search, engine
  <2>2. Enclosed'
    BY <2>1 DEF MemoryInv, Enclosed
  <2> QED BY <2>1, <2>2 DEF MemoryInv, Asking, Judged
<1>5. CASE CountDone
  <2>1. /\ pc' = "exited" /\ ~opt.check_memory /\ opt' = opt
        /\ UNCHANGED <<usage, low, high, listed, hashtable, j, memory>>
    BY <1>5 DEF CountDone, Judge, walk, engine
  <2>2. Enclosed'
    BY <2>1, MemoryStays
  <2> QED BY <2>1, <2>2 DEF MemoryInv, Asking, Judged
<1>6. CASE MemoryStart
  <2>1. /\ pc = "search" /\ pc' = "stats" /\ i > Len(chunk) /\ j = 1 /\ memory = 0
        /\ UNCHANGED <<usage, low, high, listed, hashtable, j, memory, chunk, i>>
    BY <1>6 DEF MemoryStart, walk, engine, MemoryInv, Asking
  <2>2. Enclosed' /\ (SumEnclosed => SumEnclosed')
    BY <2>1, MemoryStays
  <2>3. SumEnclosed
    <3>1. AskedSoFar = {}
      BY <2>1 DEF AskedSoFar
    <3> QED BY <2>1, <3>1, SumEmpty DEF SumEnclosed
  <2>4. hashtable.uniq \in Nat
    BY TypeFacts DEF IInv, Table
  <2> QED BY <2>1, <2>2, <2>3, <2>4 DEF MemoryInv, Asking, Judged
<1>7. CASE MemoryDone
  <2>1. /\ pc = "stats" /\ pc' = "exited" /\ j > hashtable.uniq /\ judged' = memory \div opt.unit
        /\ UNCHANGED <<usage, low, high, listed, hashtable, j, memory, chunk, i, opt, answer>>
    BY <1>7 DEF MemoryDone, Judge, walk, engine
  <2>2. Enclosed' /\ (SumEnclosed => SumEnclosed')
    BY <2>1, MemoryStays
  <2>3. NoLabelClash' <=> NoLabelClash
    BY <2>1 DEF NoLabelClash, search_key
  <2>4. j = hashtable.uniq + 1
    <3>1. hashtable.uniq \in Nat /\ j \in Nat
      BY TypeFacts DEF IInv, Table, TypeOK
    <3> QED BY <2>1, <3>1 DEF MemoryInv, Asking
  <2> QED BY <2>1, <2>2, <2>3, <2>4 DEF MemoryInv, Asking, Judged
<1>8. CASE Engine
  BY <1>8, MemoryEngine
<1>9. CASE Stats
  BY <1>9, MemoryStats
<1> QED BY <1>1, <1>2, <1>3, <1>4, <1>5, <1>6, <1>7, <1>8, <1>9 DEF Next, Plugin

-----------------------------------------------------------------------------
(* The theorems *)

LEMMA NextIInv == IInv /\ [Next]_vars => IInv'
<1> SUFFICES ASSUME IInv, [Next]_vars PROVE IInv'
  OBVIOUS
<1>1. CASE UNCHANGED vars
  <2>1. UNCHANGED <<pc, opt, answer, chunk, i, hashtable, j, memory, judged, exit,
                    usage, events, listed, low, high>>
    BY <1>1 DEF vars, walk, engine
  <2>2. TypeOK' /\ OfTheList' /\ FromTheTable'
    BY <2>1 DEF IInv, TypeOK, OfTheList, FromTheTable
  <2> QED BY <2>1, <2>2, WalkStays DEF IInv
<1> QED BY <1>1, EngineStep, ParseStep, ListStep, AnswerStep, SearchStep, CountStep, MemoryStep
        DEF Next, Plugin

\* The invariant holds always.
LEMMA Inductive == Spec => []IInv
BY InitInv, NextIInv, PTL DEF Spec

\* The types hold, for all containers, labels and hash functions.
THEOREM TypeCorrect == Spec => []TypeOK
<1>1. IInv => TypeOK
  BY DEF IInv
<1> QED BY <1>1, Inductive, PTL

\* For every hash function, however the keys collide, the table is the bag of the
\* values found so far: counter_put() and counter_lookup() lose and confuse none.
THEOREM TableOfTheList == Spec => []TableIsBag
<1>1. IInv => TableIsBag
  BY DEF IInv
<1> QED BY <1>1, Inductive, PTL

\* The number that is judged is that of the containers, of the image asked for, that
\* ran when the engine made its list, whatever they do afterwards.
THEOREM CountOfTheList == Spec => []CountIsOfTheList
<1>1. IInv => CountIsOfTheList
  <2> SUFFICES ASSUME IInv, Judged, ~opt.check_memory, answer = "list", NoLabelClash,
                      opt.image # NULL => opt.image = image_shortname(opt.image)
               PROVE  judged = Cardinality({id \in listed : OfImage(id)})
    BY DEF CountIsOfTheList
  <2>1. search_key = "Image" /\ \A value : convert(value) = image_shortname(value)
    BY DEF search_key, convert
  <2>2. listed \subseteq Ids /\ chunk = List(listed)
    BY DEF IInv, TypeOK, OfTheList
  <2>3. \A V : Cardinality(Found(chunk, V)) = Cardinality({id \in listed : ImageOf[id] \in V})
    <3>1. \A V : Cardinality(Found(chunk, V)) = Cardinality({id \in listed : Named(id) \in V})
      BY <2>1, <2>2, NamesOfTheList DEF NoLabelClash
    <3> QED BY <2>1, <3>1 DEF Named
  <2>4. \A id \in listed : ImageOf[id] \in Key
    BY <2>2, ContainerAssumption
  <2>5. /\ i > Len(chunk) /\ i \in Nat
        /\ Hits(chunk) \subseteq 1 .. Len(chunk) /\ Len(chunk) \in Nat
        /\ \A k \in Hits(chunk) : chunk[k].value \in Key
    <3>1. chunk \in Seq(Pairs) /\ DOMAIN chunk = 1 .. Len(chunk) /\ Len(chunk) \in Nat
          /\ Hits(chunk) \subseteq 1 .. Len(chunk)
      BY TypeFacts DEF IInv
    <3>2. \A k \in 1 .. Len(chunk) : chunk[k] \in Pairs
      BY <3>1
    <3>3. i \in Nat /\ i > Len(chunk)
      BY <3>1 DEF IInv, TypeOK, FromTheTable, Judged
    <3> QED BY <3>1, <3>2, <3>3 DEF Pairs
  <2>6. Seen = [k \in Hits(chunk) |-> image_shortname(chunk[k].value)]
    <3>1. Hits(chunk) \cap 1 .. i - 1 = Hits(chunk)
      BY <2>5
    <3> QED BY <2>1, <3>1 DEF Seen
  <2>7. judged = IF opt.image # NULL THEN CountOf(hashtable, opt.image)
                 ELSE hashtable.elements
    BY DEF IInv, FromTheTable, Judged, counter_get_elements
  <2>8. CASE opt.image = NULL
    <3>1. hashtable.elements = Cardinality(Hits(chunk))
      BY <2>6 DEF IInv, TableIsBag, IsBagOf
    <3>2. Found(chunk, Key) = Hits(chunk)
      BY <2>5 DEF Found
    <3>3. {id \in listed : ImageOf[id] \in Key} = {id \in listed : OfImage(id)}
      BY <2>4, <2>8 DEF OfImage
    <3>4. Cardinality(Found(chunk, Key)) = Cardinality({id \in listed : ImageOf[id] \in Key})
      BY <2>3
    <3> QED BY <2>7, <2>8, <3>1, <3>2, <3>3, <3>4
  <2>9. CASE opt.image # NULL
    <3> DEFINE V == {value \in Key : image_shortname(value) = opt.image}
    <3>1. opt.image \in Key
      BY <2>9, TypeFacts DEF IInv, CommandLine
    <3>2. CountOf(hashtable, opt.image) = Cardinality({k \in DOMAIN Seen : Seen[k] = opt.image})
      BY <3>1 DEF IInv, TableIsBag, IsBagOf
    <3>3. {k \in DOMAIN Seen : Seen[k] = opt.image} = Found(chunk, V)
      BY <2>5, <2>6 DEF Found
    <3>4. {id \in listed : ImageOf[id] \in V} = {id \in listed : OfImage(id)}
      BY <2>4, <2>9 DEF OfImage
    <3>5. Cardinality(Found(chunk, V)) = Cardinality({id \in listed : ImageOf[id] \in V})
      BY <2>3
    <3> QED BY <2>7, <2>9, <3>2, <3>3, <3>4, <3>5
  <2> QED BY <2>8, <2>9
<1> QED BY <1>1, Inductive, PTL

\* The memory that is judged lies between the sums of the least and of the most that the
\* containers of the list used while the plugin asked for one after the other: each is
\* asked once, and none is forgotten, however the hash table collides.
THEOREM MemoryIsOfTheList == Spec => []MemoryBracketed
<1>1. IInv /\ MemoryInv => MemoryBracketed
  <2> SUFFICES ASSUME IInv, MemoryInv, Judged, opt.check_memory, answer = "list", NoLabelClash
               PROVE  /\ SumFunctionOnSet(Kilobytes(low), listed) \div opt.unit <= judged
                      /\ judged <= SumFunctionOnSet(Kilobytes(high), listed) \div opt.unit
    BY DEF MemoryBracketed
  <2>1. i > Len(chunk) /\ j = hashtable.uniq + 1 /\ judged = memory \div opt.unit /\ SumEnclosed
    BY DEF MemoryInv, Asking
  <2>2. AskedSoFar = listed
    <3>1. hashtable.uniq \in Nat /\ {hashtable.keys[k] : k \in 1 .. hashtable.uniq} = listed
      BY <2>1, KeysOfTheList
    <3>2. 1 .. j - 1 = 1 .. hashtable.uniq
      BY <2>1, <3>1
    <3> QED BY <3>1, <3>2 DEF AskedSoFar
  <2> DEFINE least == SumFunctionOnSet(Kilobytes(low), listed)
             most == SumFunctionOnSet(Kilobytes(high), listed)
  <2>3. least <= memory /\ memory <= most
    BY <2>1, <2>2 DEF SumEnclosed
  <2>4. least \in Nat /\ most \in Nat
    <3>1. /\ IsFiniteSet(listed)
          /\ \A id \in listed : Kilobytes(low)[id] \in Nat /\ Kilobytes(high)[id] \in Nat
      BY KilobyteTypes DEF IInv, MemoryInv
    <3> QED BY <3>1, SumType
  <2>5. memory \in Nat /\ opt.unit \in Nat \ {0}
    BY TypeFacts DEF IInv, TypeOK, CommandLine
  <2> HIDE DEF least, most
  <2>6. least \div opt.unit <= memory \div opt.unit /\ memory \div opt.unit <= most \div opt.unit
    BY <2>3, <2>4, <2>5, DivMonotone
  <2> QED BY <2>1, <2>6 DEF least, most
<1>2. Spec => []MemoryInv
  BY Inductive, MemoryInit, MemoryNext, PTL DEF Spec
<1> QED BY <1>1, <1>2, Inductive, PTL

-----------------------------------------------------------------------------
(* UNKNOWN for a reason *)

\* Without a list there is nothing to search, or the connection broke.
ReasonInv ==
    /\ answer \notin {"list", "broken"} => chunk = <<>>
    /\ pc # "exited" => answer # "broken"
    /\ UnknownHasAReason

\* A container without statistics is one of the list that has stopped since.
LEMMA NotRunning ==
    ASSUME IInv, MemoryInv, ReasonInv, pc = "stats", j <= hashtable.uniq,
           json_search(hashtable.keys[j]) = NULL, NoLabelClash
    PROVE  ~(listed \subseteq Running)
<1>1. /\ opt.check_memory /\ i > Len(chunk) /\ j \in Nat \ {0}
  BY DEF IInv, FromTheTable, MemoryInv, Asking, TypeOK
<1>2. hashtable.uniq \in Nat /\ DOMAIN hashtable.keys = 1 .. hashtable.uniq
  <2>1. hashtable \in Table /\ hashtable.uniq = Len(hashtable.keys)
    BY TypeFacts DEF IInv, TableIsBag, IsBagOf
  <2> QED BY <2>1 DEF Table
<1>3. j \in 1 .. hashtable.uniq
  BY <1>1, <1>2
<1>4. answer = "list"
  <2>1. chunk # <<>>
    <3>1. CASE chunk = <<>>
      <4>1. DOMAIN Seen = {}
        BY <3>1 DEF Seen, Hits
      <4>2. {hashtable.keys[k] : k \in DOMAIN hashtable.keys} = {Seen[k] : k \in DOMAIN Seen}
        BY DEF IInv, TableIsBag, IsBagOf
      <4> QED BY <1>2, <1>3, <4>1, <4>2
    <3> QED BY <3>1
  <2> QED BY <2>1 DEF ReasonInv
<1>5. {hashtable.keys[k] : k \in 1 .. hashtable.uniq} = listed
  BY <1>1, <1>4, KeysOfTheList
<1>6. hashtable.keys[j] \in listed
  BY <1>3, <1>5
<1>7. hashtable.keys[j] \notin Running
  BY DEF json_search, Running
<1> QED BY <1>6, <1>7

\* Giving up for one of the reasons.
LEMMA FailHasReason ==
    ASSUME ReasonInv, Fail,
           \/ answer' = "broken"
           \/ /\ answer' = answer /\ answer # "broken"
              /\ \/ BadOptions \/ ~opt.socket
                 \/ opt.check_memory /\ (~(listed \subseteq Running) \/ ~NoLabelClash)
    PROVE  ReasonInv'
<1>1. /\ UNCHANGED <<opt, listed, usage, chunk>> /\ pc' = "exited"
  BY DEF Fail, engine, walk
<1>2. BadOptions' = BadOptions
  BY <1>1 DEF BadOptions
<1>3. NoLabelClash' = NoLabelClash /\ Running' = Running
  BY <1>1 DEF NoLabelClash, search_key, Running
<1> QED BY <1>1, <1>2, <1>3 DEF ReasonInv, UnknownHasAReason

\* A number or the sum that is judged is no reason for UNKNOWN.
LEMMA JudgeKnows ==
    ASSUME ReasonInv, NEW value, Judge(value)
    PROVE  ReasonInv'
<1>1. /\ UNCHANGED <<answer, chunk>> /\ pc' = "exited"
      /\ exit' \in {STATE_OK, STATE_WARNING, STATE_CRITICAL}
  BY DEF Judge, walk, get_status
<1>2. exit' # STATE_UNKNOWN
  BY <1>1 DEF STATE_OK, STATE_WARNING, STATE_CRITICAL, STATE_UNKNOWN
<1> QED BY <1>1, <1>2 DEF ReasonInv, UnknownHasAReason

\* Every step keeps it.
LEMMA NextReason ==
    ASSUME IInv, MemoryInv, ReasonInv, [Next]_vars
    PROVE  ReasonInv'
<1>1. CASE UNCHANGED vars
  <2>1. UNCHANGED <<pc, opt, answer, chunk, exit, listed, usage>>
    BY <1>1 DEF vars, walk, engine
  <2>2. BadOptions' = BadOptions /\ NoLabelClash' = NoLabelClash /\ Running' = Running
    BY <2>1 DEF BadOptions, NoLabelClash, search_key, Running
  <2> QED BY <2>1, <2>2 DEF ReasonInv, UnknownHasAReason
<1>2. CASE Engine
  BY <1>2 DEF Engine, walk, ReasonInv, UnknownHasAReason
<1>3. CASE ParseOptions
  <2>1. CASE BadOptions \/ ~opt.socket
    <3>1. Fail /\ answer' = answer /\ answer # "broken"
      BY <1>3, <2>1 DEF ParseOptions, ReasonInv
    <3> QED BY <2>1, <3>1, FailHasReason
  <2>2. CASE ~(BadOptions \/ ~opt.socket)
    BY <1>3, <2>2 DEF ParseOptions, walk, ReasonInv, UnknownHasAReason
  <2> QED BY <2>1, <2>2
<1>4. CASE ListContainers \/ MemoryStart \/ Search
  BY <1>4 DEF ListContainers, MemoryStart, Search, walk, ReasonInv, UnknownHasAReason
<1>5. CASE ListRefused \/ ListUnparsable
  <2>1. chunk = <<>>
    BY <1>5 DEF ListRefused, ListUnparsable, IInv, OfTheList
  <2>2. chunk' = <<>> /\ answer' # "broken"
    BY <1>5, <2>1 DEF ListRefused, ListUnparsable, walk, ReasonInv
  <2>3. pc' = "search" \/ exit' = KILLED_SIGSEGV
    BY <1>5 DEF ListRefused, ListUnparsable
  <2> QED BY <2>2, <2>3 DEF ReasonInv, UnknownHasAReason, KILLED_SIGSEGV, STATE_UNKNOWN
<1>6. CASE ListFails \/ StatsFails
  BY <1>6, FailHasReason DEF ListFails, StatsFails
<1>7. CASE CountDone \/ MemoryDone
  BY <1>7, JudgeKnows DEF CountDone, MemoryDone
<1>8. CASE Stats
  <2>1. pc = "stats" /\ j <= hashtable.uniq /\ opt.check_memory /\ answer # "broken"
    BY <1>8 DEF Stats, IInv, FromTheTable, ReasonInv
  <2>2. CASE json_search(hashtable.keys[j]) = NULL
    <3>1. Fail /\ answer' = answer
      BY <1>8, <2>2 DEF Stats
    <3>2. ~(listed \subseteq Running) \/ ~NoLabelClash
      BY <2>1, <2>2, NotRunning
    <3> QED BY <2>1, <3>1, <3>2, FailHasReason
  <2>3. CASE json_search(hashtable.keys[j]) # NULL
    BY <1>8, <2>1, <2>3 DEF Stats, ReasonInv, UnknownHasAReason
  <2> QED BY <2>2, <2>3
<1> QED BY <1>1, <1>2, <1>3, <1>4, <1>5, <1>6, <1>7, <1>8 DEF Next, Plugin

\* check_container says UNKNOWN only for a bad option, a missing socket, a connection that
\* broke, a container of the list that stopped before it was asked, or a label that is
\* taken for an id, whatever the engine lists and however the hash table collides.
THEOREM GivesUpForAReason == Spec => []UnknownHasAReason
<1>1. Init => ReasonInv
  <2>1. NULL \notin Answers
    BY Zenon, ContainerAssumption
  <2> QED BY <2>1 DEF Init, Answers, ReasonInv, UnknownHasAReason
<1>2. ReasonInv => UnknownHasAReason
  BY DEF ReasonInv
<1>3. Spec => []MemoryInv
  BY Inductive, MemoryInit, MemoryNext, PTL DEF Spec
<1> QED BY <1>1, <1>2, <1>3, NextReason, Inductive, PTL DEF Spec
=============================================================================
