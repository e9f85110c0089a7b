--------------------------- MODULE JitCacheProofs ---------------------------
(***************************************************************************)
(* Proofs about JitCache and its levels, for every set of keys, values,    *)
(* threads and limits.                                                     *)
(*                                                                         *)
(* A level is sound because its three structures stay linked: every listed *)
(* node holds an entry whose key the index maps back to that node, and the *)
(* times of last use fall along the list.  Every operation of the level is *)
(* one of two steps on the linked structures, or both in turn: some nodes  *)
(* leave, the others keeping their order, and one node is added in front   *)
(* under a key that is not filed.                                          *)
(*                                                                         *)
(* The kernels are sound because the library never changes a symbol it     *)
(* defines: whatever was cached or returned for a key is what the library  *)
(* still holds under that key's symbol.                                    *)
(***************************************************************************)
EXTENDS JitCache, SequenceLemmas

-----------------------------------------------------------------------------
(* The inductive invariant                                                 *)

\* The list l, the entries e and the index x describe one cache; T are the
\* times of last use up to now, c, and L the values last inserted.
Linked(l, e, x, T, L, c) ==
  /\ l \in Seq(Nodes) /\ IsInjective(l) /\ DOMAIN e = ToSet(l)
  /\ \A n \in ToSet(l) :
       e[n] \in [key : CacheKeys, value : Values] /\ e[n].key \in DOMAIN x /\ x[e[n].key] = n
  /\ DOMAIN x \subseteq CacheKeys
  /\ \A k \in DOMAIN x :
       x[k] \in ToSet(l) /\ e[x[k]].key = k /\ k \in DOMAIN L /\ e[x[k]].value = L[k]
  /\ T \in [CacheKeys -> Nat] /\ c \in Nat /\ \A k \in CacheKeys : T[k] <= c
  /\ \A i, j \in DOMAIN l : i < j => T[e[l[i]].key] > T[e[l[j]].key]

LevelLinked == Linked(list, entry, index, touched, latest, clock)

\* The counters of the level agree with the list.
Books ==
  /\ max \in Nat /\ evictions \in Nat /\ hits \in Nat /\ misses \in Nat
  /\ pushed \in Nat /\ dropped \in Nat
  /\ ptr \in [Threads -> Nodes \cup {Null}]
  /\ SizeBounded /\ EvictionsCounted

LevelInv == LevelLinked /\ Books

\* A kernel some call may return for key k: what the library holds for it.
Kernel(k) == library[Symbol[k]]
Defined(k) == k \in CacheKeys /\ Symbol[k] \in DOMAIN library /\ Kernel(k).of = k

\* What is cached and what was handed out is what the library holds.
Resident ==
  /\ DOMAIN library \subseteq Range(Symbol)
  /\ \A s \in DOMAIN library : library[s] \in Code
  /\ \A k \in DOMAIN cache : Defined(k) /\ cache[k] = Kernel(k)
  /\ \A h \in handed : Defined(h[1]) /\ h[2] = Kernel(h[1])
  /\ DOMAIN variant \subseteq Variants \ {Unnamed}
  /\ \A v \in DOMAIN variant : variant[v] \in Code

\* Where the callers are; one that resolves its symbol has defined it.
Callers ==
  /\ pc \in [Threads -> {"idle", "lower", "add", "resolve", "clear"}]
  /\ key \in [Threads -> CacheKeys \cup {NoCode}]
  /\ serial \in [Threads -> 0 .. MaxCalls] /\ calls \in 0 .. MaxCalls
  /\ answer \in [Threads -> Code \cup {NoCode, Failed}]
  /\ \A t \in Threads : pc[t] \in {"lower", "add", "resolve"} => key[t] \in CacheKeys /\ serial[t] # 0
  /\ \A t \in Threads : pc[t] = "resolve" => Defined(key[t])

JitInv == LevelInv /\ Resident /\ Callers
-----------------------------------------------------------------------------
(* Steps on the linked structures                                          *)

\* Some nodes leave with their keys and the others keep their order.
Pruned(l, e, x, l2, e2, x2) ==
  /\ l2 \in Seq(Nodes) /\ IsInjective(l2) /\ ToSet(l2) \subseteq ToSet(l) /\ OrderKept(l2, l)
  /\ DOMAIN e2 = ToSet(l2) /\ \A n \in ToSet(l2) : e2[n] = e[n]
  /\ DOMAIN x2 = {e[n].key : n \in ToSet(l2)} /\ \A k \in DOMAIN x2 : x2[k] = x[k]

\* A node that is not listed is filed under a key that is not.
Filed(l, e, x, L, n, k, v, e2, x2, L2) ==
  /\ n \in Nodes \ ToSet(l) /\ k \in CacheKeys \ DOMAIN x /\ v \in Values
  /\ DOMAIN e2 = ToSet(l) \cup {n} /\ \A m \in ToSet(l) : e2[m] = e[m]
  /\ e2[n] = [key |-> k, value |-> v]
  /\ DOMAIN x2 = DOMAIN x \cup {k} /\ \A j \in DOMAIN x : x2[j] = x[j]
  /\ x2[k] = n
  /\ \A j \in DOMAIN x : j \in DOMAIN L2 /\ L2[j] = L[j]
  /\ k \in DOMAIN L2 /\ L2[k] = v

\* The links survive nodes that leave.
LEMMA LinkedPrune ==
  ASSUME NEW l, NEW e, NEW x, NEW T, NEW L, NEW c, Linked(l, e, x, T, L, c),
         NEW l2, NEW e2, NEW x2, Pruned(l, e, x, l2, e2, x2)
  PROVE  Linked(l2, e2, x2, T, L, c)
<1> USE DEF Pruned
<1>1. \A n \in ToSet(l2) :
        e2[n] \in [key : CacheKeys, value : Values] /\ e2[n].key \in DOMAIN x2 /\ x2[e2[n].key] = n
  BY DEF Linked
<1>2. DOMAIN x2 \subseteq CacheKeys
  BY DEF Linked
<1>3. \A k \in DOMAIN x2 :
        x2[k] \in ToSet(l2) /\ e2[x2[k]].key = k /\ k \in DOMAIN L /\ e2[x2[k]].value = L[k]
  BY SMTT(30) DEF Linked
<1>4. ASSUME NEW i \in DOMAIN l2, NEW j \in DOMAIN l2, i < j
      PROVE  T[e2[l2[i]].key] > T[e2[l2[j]].key]
  <2>1. l2[i] \in ToSet(l2) /\ l2[j] \in ToSet(l2)
    BY DEF ToSet
  <2>2. PICK a, b \in DOMAIN l : a < b /\ l[a] = l2[i] /\ l[b] = l2[j]
    BY <1>4 DEF OrderKept
  <2>3. T[e[l[a]].key] > T[e[l[b]].key]
    BY <2>2 DEF Linked
  <2>4. QED
    BY <2>1, <2>2, <2>3
<1>5. QED
  BY <1>1, <1>2, <1>3, <1>4 DEF Linked

\* The links survive a node added in front, used last of all.
LEMMA LinkedAdd ==
  ASSUME NEW l, NEW e, NEW x, NEW T, NEW L, NEW c, Linked(l, e, x, T, L, c),
         NEW n, NEW k, NEW v, NEW e2, NEW x2, NEW L2, Filed(l, e, x, L, n, k, v, e2, x2, L2)
  PROVE  Linked(<<n>> \o l, e2, x2, [T EXCEPT ![k] = c + 1], L2, c + 1)
<1> USE DEF Filed
<1> DEFINE l2 == <<n>> \o l
           T2 == [T EXCEPT ![k] = c + 1]
<1>1. /\ l2 \in Seq(Nodes) /\ Len(l2) = Len(l) + 1 /\ l2[1] = n
      /\ \A i \in 1 .. Len(l) : l2[i + 1] = l[i]
      /\ ToSet(l2) = ToSet(l) \cup {n} /\ IsInjective(l2)
  BY ConsProperties DEF Linked
<1>2. Len(l) \in Nat /\ DOMAIN l = 1 .. Len(l) /\ DOMAIN l2 = 1 .. Len(l) + 1
  BY <1>1, LenProperties DEF Linked
<1> HIDE DEF l2
<1>3. \A m \in ToSet(l2) :
        e2[m] \in [key : CacheKeys, value : Values] /\ e2[m].key \in DOMAIN x2 /\ x2[e2[m].key] = m
  BY <1>1 DEF Linked
<1>4. DOMAIN x2 \subseteq CacheKeys /\ DOMAIN e2 = ToSet(l2)
  BY <1>1 DEF Linked
<1>5. \A j \in DOMAIN x2 :
        x2[j] \in ToSet(l2) /\ e2[x2[j]].key = j /\ j \in DOMAIN L2 /\ e2[x2[j]].value = L2[j]
  BY <1>1 DEF Linked
<1>6. /\ T2 \in [CacheKeys -> Nat] /\ c + 1 \in Nat /\ \A j \in CacheKeys : T2[j] <= c + 1
      /\ T2[k] = c + 1 /\ \A j \in CacheKeys \ {k} : T2[j] = T[j] /\ T2[j] < c + 1
  BY DEF Linked
<1> HIDE DEF T2
<1>7. ASSUME NEW i \in 1 .. Len(l)
      PROVE  e2[l[i]] = e[l[i]] /\ e[l[i]].key \in CacheKeys \ {k}
  <2>1. l[i] \in ToSet(l)
    BY <1>2 DEF ToSet
  <2>2. QED
    BY <2>1 DEF Linked
<1>8. ASSUME NEW i \in DOMAIN l2, NEW j \in DOMAIN l2, i < j
      PROVE  T2[e2[l2[i]].key] > T2[e2[l2[j]].key]
  <2>1. j - 1 \in 1 .. Len(l) /\ l2[j] = l[j - 1]
    BY <1>1, <1>2, <1>8
  <2>2. CASE i = 1
    <3>1. e2[l2[i]].key = k
      BY <1>1, <2>2
    <3>2. QED
      BY <1>6, <1>7, <2>1, <3>1
  <2>3. CASE i # 1
    <3>1. i - 1 \in 1 .. Len(l) /\ l2[i] = l[i - 1] /\ i - 1 < j - 1
      BY <1>1, <1>2, <1>8, <2>3
    <3>2. T[e[l[i - 1]].key] > T[e[l[j - 1]].key]
      BY <1>2, <2>1, <3>1 DEF Linked
    <3>3. QED
      BY <1>6, <1>7, <2>1, <3>1, <3>2
  <2>4. QED
    BY <2>2, <2>3
<1>9. Linked(l2, e2, x2, T2, L2, c + 1)
  BY <1>1, <1>3, <1>4, <1>5, <1>6, <1>8 DEF Linked
<1>10. QED
  BY <1>9 DEF l2, T2

\* The entry of a filed key takes a value, perhaps the one it has.
Valued(e, x, L, k, v, e2, L2) ==
  /\ k \in DOMAIN x /\ v \in Values
  /\ DOMAIN e2 = DOMAIN e /\ \A m \in DOMAIN e \ {x[k]} : e2[m] = e[m]
  /\ e2[x[k]] = [key |-> k, value |-> v]
  /\ \A j \in DOMAIN x \ {k} : j \in DOMAIN L2 /\ L2[j] = L[j]
  /\ k \in DOMAIN L2 /\ L2[k] = v

\* A listed node moves to the front and may take a new value.
LEMMA LinkedFront ==
  ASSUME NEW l, NEW e, NEW x, NEW T, NEW L, NEW c, Linked(l, e, x, T, L, c),
         NEW k, NEW v, NEW e2, NEW L2, Valued(e, x, L, k, v, e2, L2)
  PROVE  /\ Linked(<<x[k]>> \o RemoveFirst(l, x[k]), e2, x, [T EXCEPT ![k] = c + 1], L2, c + 1)
         /\ Len(<<x[k]>> \o RemoveFirst(l, x[k])) = Len(l)
<1> DEFINE n == x[k]
           r == RemoveFirst(l, n)
           er == [m \in ToSet(l) \ {n} |-> e[m]]
           xr == [j \in DOMAIN x \ {k} |-> x[j]]
<1> USE DEF Valued
<1>1. l \in Seq(Nodes) /\ IsInjective(l) /\ n \in ToSet(l) /\ n \in Nodes /\ k \in CacheKeys
  <2>1. ToSet(l) \subseteq Nodes
    BY ElementOfSeq, LenProperties DEF Linked, ToSet
  <2>2. QED
    BY <2>1 DEF Linked
<1>2. /\ r \in Seq(Nodes) /\ Len(r) = Len(l) - 1 /\ ToSet(r) = ToSet(l) \ {n}
      /\ IsInjective(r) /\ OrderKept(r, l)
  BY ONLY <1>1, RemoveFirstProperties, RemoveFirstOrder
<1>3. DOMAIN xr = {e[m].key : m \in ToSet(l) \ {n}}
  BY DEF Linked
<1> HIDE DEF r
<1>4. Pruned(l, e, x, r, er, xr)
  BY <1>2, <1>3 DEF Pruned
<1>5. Filed(r, er, xr, L, n, k, v, e2, x, L2)
  <2>1. /\ DOMAIN e2 = ToSet(r) \cup {n} /\ \A m \in ToSet(r) : e2[m] = er[m]
        /\ n \notin ToSet(r)
    BY <1>1, <1>2 DEF Linked
  <2>2. QED
    BY <1>1, <2>1 DEF Filed
<1> HIDE DEF n, er, xr
<1>6. Linked(r, er, xr, T, L, c)
  BY <1>4, LinkedPrune
<1>7. Linked(<<n>> \o r, e2, x, [T EXCEPT ![k] = c + 1], L2, c + 1)
  BY <1>5, <1>6, LinkedAdd
<1>8. Len(<<n>> \o r) = Len(l)
  <2>1. Len(<<n>> \o r) = Len(r) + 1
    BY ONLY <1>1, <1>2, ConsProperties
  <2>2. Len(l) \in Nat
    BY <1>1, LenProperties
  <2>3. QED
    BY <1>2, <2>1, <2>2
<1>9. QED
  BY <1>7, <1>8 DEF n, r

\* A level never holds every node: there is an address for one more entry.
LEMMA LinkedRoom ==
  ASSUME NEW l, NEW e, NEW x, NEW T, NEW L, NEW c, Linked(l, e, x, T, L, c)
  PROVE  Min(Nodes \ ToSet(l)) \in Nodes \ ToSet(l)
<1>1. IsFiniteSet(CacheKeys) /\ Cardinality(CacheKeys) \in Nat
  BY LevelAssumption, FS_CardinalityType
<1>2. IsFiniteSet(DOMAIN x) /\ Cardinality(DOMAIN x) <= Cardinality(CacheKeys)
  BY <1>1, FS_Subset DEF Linked
<1>3. /\ IsFiniteSet({x[k] : k \in DOMAIN x})
      /\ Cardinality({x[k] : k \in DOMAIN x}) <= Cardinality(DOMAIN x)
  <2> DEFINE g == [k \in DOMAIN x |-> x[k]]
  <2>1. g \in Surjection(DOMAIN x, {x[k] : k \in DOMAIN x})
    BY Fun_IsSurj
  <2>2. QED
    BY <1>2, <2>1, FS_Surjection
<1>4. ToSet(l) = {x[k] : k \in DOMAIN x}
  BY DEF Linked
<1>5. IsFiniteSet(Nodes) /\ Cardinality(Nodes) = Cardinality(CacheKeys) + 1
  BY <1>1, FS_Interval DEF Nodes
<1>6. Cardinality(ToSet(l)) < Cardinality(Nodes)
  <2>1. Cardinality(ToSet(l)) \in Nat /\ Cardinality(DOMAIN x) \in Nat
    BY <1>2, <1>3, <1>4, FS_CardinalityType
  <2>2. QED
    BY <1>1, <1>2, <1>3, <1>4, <1>5, <2>1
<1>7. Nodes \ ToSet(l) # {}
  <2>1. ASSUME Nodes \subseteq ToSet(l) PROVE FALSE
    <3>1. Cardinality(Nodes) <= Cardinality(ToSet(l))
      BY <1>3, <1>4, <2>1, FS_Subset
    <3>2. Cardinality(Nodes) \in Nat /\ Cardinality(ToSet(l)) \in Nat
      BY <1>3, <1>4, <1>5, FS_CardinalityType
    <3>3. QED
      BY <1>6, <3>1, <3>2
  <2>2. QED
    BY <2>1
<1>8. Nodes \ ToSet(l) \subseteq Nat
  BY DEF Nodes
<1>9. QED
  BY <1>7, <1>8, MinMember

\* Entries at the front were used more recently than those behind them.
LEMMA LinkedPrefix ==
  ASSUME NEW l, NEW e, NEW x, NEW T, NEW L, NEW c, Linked(l, e, x, T, L, c),
         NEW m \in 0 .. Len(l),
         NEW a \in DOMAIN x, x[a] \notin ToSet(SubSeq(l, 1, m)),
         NEW b \in DOMAIN x, x[b] \in ToSet(SubSeq(l, 1, m))
  PROVE  T[a] < T[b]
<1>1. l \in Seq(Nodes) /\ IsInjective(l) /\ Len(l) \in Nat /\ DOMAIN l = 1 .. Len(l)
  BY LenProperties DEF Linked
<1>2. FirstOf(SubSeq(l, 1, m), m, l)
  BY <1>1, PrefixProperties
<1>3. PICK i \in 1 .. m : x[b] = l[i]
  BY <1>2 DEF FirstOf
<1>4. PICK j \in m + 1 .. Len(l) : x[a] = l[j]
  BY <1>2 DEF FirstOf, Linked
<1>5. i \in DOMAIN l /\ j \in DOMAIN l /\ i < j
  BY <1>1, <1>3, <1>4
<1>6. T[e[l[i]].key] > T[e[l[j]].key] /\ e[l[i]].key = b /\ e[l[j]].key = a
  BY <1>3, <1>4, <1>5 DEF Linked
<1>7. a \in CacheKeys /\ b \in CacheKeys /\ T[a] \in Nat /\ T[b] \in Nat
  BY DEF Linked
<1>8. QED
  BY <1>6, <1>7

\* Time passes.
LEMMA LinkedLater ==
  ASSUME NEW l, NEW e, NEW x, NEW T, NEW L, NEW c, Linked(l, e, x, T, L, c)
  PROVE  Linked(l, e, x, T, L, c + 1)
<1>1. c \in Nat /\ c + 1 \in Nat /\ \A k \in CacheKeys : T[k] \in Nat /\ T[k] <= c + 1
  BY DEF Linked
<1>2. QED
  BY <1>1 DEF Linked

\* What Free and Forget leave when the list is cut down to l2.
LEMMA DropNodes ==
  ASSUME LevelLinked, NEW l2, l2 \in Seq(Nodes), IsInjective(l2),
         ToSet(l2) \subseteq ToSet(list), OrderKept(l2, list),
         NEW out, out = ToSet(list) \ ToSet(l2)
  PROVE  Pruned(list, entry, index, l2, Free(out), Forget(KeysIn(out)))
<1>1. DOMAIN Free(out) = ToSet(l2) /\ \A n \in ToSet(l2) : Free(out)[n] = entry[n]
  BY DEF Free, LevelLinked, Linked
<1>2. /\ DOMAIN Forget(KeysIn(out)) = DOMAIN index \ KeysIn(out)
      /\ \A k \in DOMAIN index \ KeysIn(out) : Forget(KeysIn(out))[k] = index[k]
  BY DEF Forget
<1>3. DOMAIN index \ KeysIn(out) = {entry[n].key : n \in ToSet(l2)}
  <2>1. ASSUME NEW k \in DOMAIN index, k \notin KeysIn(out)
        PROVE  \E n \in ToSet(l2) : k = entry[n].key
    BY <2>1 DEF LevelLinked, Linked, KeysIn
  <2>2. ASSUME NEW n \in ToSet(l2)
        PROVE  entry[n].key \in DOMAIN index /\ entry[n].key \notin KeysIn(out)
    BY DEF LevelLinked, Linked, KeysIn
  <2>3. QED
    BY <2>1, <2>2
<1>4. QED
  BY <1>1, <1>2, <1>3 DEF Pruned

\* The entries popped until at most room are left.
LEMMA PopNodes ==
  ASSUME LevelLinked, NEW room \in Nat
  PROVE  /\ Survivors(room) \in Seq(Nodes) /\ Len(Survivors(room)) <= room
         /\ Len(Survivors(room)) \in Nat /\ Len(list) \in Nat
         /\ Counted(Popped(room)) = Len(list) - Len(Survivors(room))
         /\ Len(Survivors(room)) <= Len(list)
         /\ Linked(Survivors(room), Free(Popped(room)), Forget(KeysIn(Popped(room))),
                    touched, latest, clock)
<1> DEFINE m == IF room < Len(list) THEN room ELSE Len(list)
           s == SubSeq(list, 1, m)
<1>1. list \in Seq(Nodes) /\ IsInjective(list) /\ Len(list) \in Nat /\ m \in 0 .. Len(list) /\ m <= room
  BY LenProperties DEF LevelLinked, Linked
<1>2. Survivors(room) = s
  BY DEF Survivors
<1> HIDE DEF m
<1>3. s \in Seq(Nodes) /\ FirstOf(s, m, list)
  BY <1>1, PrefixProperties
<1> HIDE DEF s
<1>4. Popped(room) = ToSet(list) \ ToSet(s)
  BY <1>2 DEF Popped
<1>5. Pruned(list, entry, index, s, Free(Popped(room)), Forget(KeysIn(Popped(room))))
  BY <1>3, <1>4, DropNodes DEF FirstOf
<1>6. Linked(s, Free(Popped(room)), Forget(KeysIn(Popped(room))), touched, latest, clock)
  BY <1>5, LinkedPrune DEF LevelLinked
<1>7. QED
  BY <1>1, <1>2, <1>3, <1>4, <1>6 DEF FirstOf, Counted

-----------------------------------------------------------------------------
(* The level                                                               *)

\* CacheLevel::lookup keeps the level's invariant.
LEMMA LookupStep ==
  ASSUME LevelInv, NEW t \in Threads, NEW k \in CacheKeys, Lookup(t, k)
  PROVE  LevelInv'
<1> USE DEF LevelInv
<1>0. clock' = clock + 1 /\ clock \in Nat
  BY DEF Lookup, Enter, LevelLinked, Linked
<1>1. CASE k \notin DOMAIN index
  <2>1. UNCHANGED <<list, entry, index, max, evictions, hits, ptr, touched, latest, pushed, dropped>>
    BY <1>1 DEF Lookup
  <2>2. LevelLinked'
    BY <1>0, <2>1, LinkedLater DEF LevelLinked
  <2>3. misses' = misses + 1
    BY <1>1 DEF Lookup
  <2>4. Books'
    BY <2>1, <2>3 DEF Books, SizeBounded, EvictionsCounted
  <2>5. QED
    BY <2>2, <2>4
<1>2. CASE k \in DOMAIN index
  <2>1. /\ UNCHANGED <<entry, index, max, evictions, misses, latest, pushed, dropped>>
        /\ hits' = hits + 1 /\ list' = <<index[k]>> \o RemoveFirst(list, index[k])
        /\ ptr' = [ptr EXCEPT ![t] = index[k]]
        /\ touched' = [touched EXCEPT ![k] = clock + 1]
    BY <1>0, <1>2 DEF Lookup, Touch, ToFront
  <2>2. /\ index[k] \in ToSet(list) /\ entry[index[k]].value \in Values
        /\ entry[index[k]] = [key |-> k, value |-> entry[index[k]].value]
        /\ k \in DOMAIN latest /\ latest[k] = entry[index[k]].value
        /\ \A j \in DOMAIN index : j \in DOMAIN latest
    BY <1>2 DEF LevelLinked, Linked
  <2>3. /\ Linked(list', entry, index, touched', latest, clock + 1)
        /\ Len(list') = Len(list)
    <3>1. Valued(entry, index, latest, k, entry[index[k]].value, entry, latest)
      BY <1>2, <2>2 DEF Valued
    <3>2. Linked(list, entry, index, touched, latest, clock)
      BY DEF LevelLinked
    <3>3. /\ Linked(<<index[k]>> \o RemoveFirst(list, index[k]), entry, index,
                    [touched EXCEPT ![k] = clock + 1], latest, clock + 1)
          /\ Len(<<index[k]>> \o RemoveFirst(list, index[k])) = Len(list)
      BY <3>1, <3>2, LinkedFront
    <3>4. QED
      BY <2>1, <3>3
  <2>4. LevelLinked'
    BY <1>0, <2>1, <2>3 DEF LevelLinked
  <2>5. index[k] \in Nodes
    BY <2>2, ElementOfSeq, LenProperties DEF LevelLinked, Linked, ToSet
  <2>6. Books'
    <3>1. ptr' \in [Threads -> Nodes \cup {Null}]
      BY <2>1, <2>5 DEF Books
    <3>2. SizeBounded' /\ EvictionsCounted'
      BY <2>1, <2>3 DEF Books, SizeBounded, EvictionsCounted
    <3>3. QED
      BY <2>1, <3>1, <3>2 DEF Books
  <2>7. QED
    BY <2>4, <2>6
<1>3. QED
  BY <1>1, <1>2

\* The copy of a value through the pointer of a hit changes nothing else.
LEMMA DerefStep ==
  ASSUME LevelInv, NEW t \in Threads, Deref(t)
  PROVE  LevelInv'
<1>1. UNCHANGED <<list, entry, index, touched, latest, clock>>
  BY DEF Deref, hist
<1>2. LevelLinked'
  BY <1>1 DEF LevelInv, LevelLinked
<1>3. UNCHANGED <<max, evictions, hits, misses, pushed, dropped>>
  BY DEF Deref, hist, stats
<1>4. ptr' \in [Threads -> Nodes \cup {Null}]
  BY DEF LevelInv, Books, Deref
<1>5. Books'
  BY <1>1, <1>3, <1>4 DEF LevelInv, Books, SizeBounded, EvictionsCounted
<1>6. QED
  BY <1>2, <1>5 DEF LevelInv

\* CacheLevel::remove keeps the level's invariant.
LEMMA RemoveStep ==
  ASSUME LevelInv, NEW t \in Threads, NEW k \in CacheKeys, RemoveKey(t, k)
  PROVE  LevelInv'
<1> USE DEF LevelInv
<1>0. /\ clock' = clock + 1 /\ clock \in Nat
      /\ UNCHANGED <<max, evictions, hits, misses, ptr, touched, latest, pushed>>
  BY DEF RemoveKey, Enter, LevelLinked, Linked, stats
<1>1. CASE k \notin DOMAIN index
  <2>1. UNCHANGED <<list, entry, index, dropped>>
    BY <1>1 DEF RemoveKey
  <2>2. LevelLinked'
    BY <1>0, <2>1, LinkedLater DEF LevelLinked
  <2>3. Books'
    BY <1>0, <2>1 DEF Books, SizeBounded, EvictionsCounted
  <2>4. QED
    BY <2>2, <2>3
<1>2. CASE k \in DOMAIN index
  <2> DEFINE r == RemoveFirst(list, index[k])
  <2>1. /\ list' = r /\ entry' = Free({index[k]}) /\ index' = Forget({k})
        /\ dropped' = dropped + 1
    BY <1>2 DEF RemoveKey
  <2>2. /\ list \in Seq(Nodes) /\ IsInjective(list) /\ Len(list) \in Nat
        /\ index[k] \in ToSet(list) /\ entry[index[k]].key = k
    BY <1>2, LenProperties DEF LevelLinked, Linked
  <2>3. /\ r \in Seq(Nodes) /\ Len(r) = Len(list) - 1 /\ ToSet(r) = ToSet(list) \ {index[k]}
        /\ IsInjective(r) /\ OrderKept(r, list) /\ Len(r) \in Nat
    BY ONLY <2>2, RemoveFirstProperties, RemoveFirstOrder, LenProperties
  <2> HIDE DEF r
  <2>4. {index[k]} = ToSet(list) \ ToSet(r) /\ KeysIn({index[k]}) = {k}
    BY <2>2, <2>3 DEF KeysIn
  <2>5. Pruned(list, entry, index, r, Free({index[k]}), Forget({k}))
    <3>1. Pruned(list, entry, index, r, Free({index[k]}), Forget(KeysIn({index[k]})))
      BY <2>3, <2>4, DropNodes
    <3>2. QED
      BY <2>4, <3>1
  <2>6. Linked(list', entry', index', touched, latest, clock)
    BY <2>1, <2>5, LinkedPrune DEF LevelLinked
  <2>7. LevelLinked'
    BY <1>0, <2>6, LinkedLater DEF LevelLinked
  <2>8. Books'
    <3>1. Len(list') = Len(list) - 1 /\ Len(list') \in Nat
      BY <2>1, <2>3
    <3>2. SizeBounded'
      BY <1>0, <2>2, <3>1 DEF Books, SizeBounded
    <3>3. EvictionsCounted'
      <4>1. /\ Len(list) + evictions + dropped = pushed
            /\ Len(list) \in Nat /\ evictions \in Nat /\ dropped \in Nat /\ pushed \in Nat
            /\ evictions' = evictions /\ dropped' = dropped + 1 /\ pushed' = pushed
        BY <1>0, <2>1, <2>2 DEF Books, EvictionsCounted
      <4>2. Len(list') + evictions' + dropped' = pushed'
        BY ONLY <3>1, <4>1
      <4>3. QED
        BY <4>2 DEF EvictionsCounted
    <3>4. QED
      BY <1>0, <2>1, <3>2, <3>3 DEF Books
  <2>9. QED
    BY <2>7, <2>8
<1>3. QED
  BY <1>1, <1>2

\* evictLRU keeps the level's invariant.
LEMMA EvictStep ==
  ASSUME LevelInv, NEW t \in Threads, NEW m \in MaxSizes, EvictLRU(t, m)
  PROVE  LevelInv'
<1> USE DEF LevelInv
<1>0. m \in Nat
  BY LevelAssumption
<1>1. /\ clock' = clock + 1 /\ UNCHANGED <<hits, misses, ptr, touched, latest, pushed, dropped>>
      /\ list' = Survivors(m) /\ entry' = Free(Popped(m)) /\ index' = Forget(KeysIn(Popped(m)))
      /\ evictions' = evictions + Counted(Popped(m)) /\ max' = m
  BY DEF EvictLRU, Enter
<1>2. /\ Linked(list', entry', index', touched, latest, clock)
      /\ Len(list') <= m /\ Len(list') \in Nat /\ Len(list) \in Nat
      /\ Counted(Popped(m)) = Len(list) - Len(list') /\ Len(list') <= Len(list)
  BY <1>0, <1>1, PopNodes
<1>3. LevelLinked'
  BY <1>1, <1>2, LinkedLater DEF LevelLinked
<1>4. Books'
  BY <1>0, <1>1, <1>2 DEF Books, SizeBounded, EvictionsCounted
<1>5. QED
  BY <1>3, <1>4

\* clear keeps the level's invariant.
LEMMA ClearStep ==
  ASSUME LevelInv, ClearLevel
  PROVE  LevelInv'
<1> USE DEF LevelInv
<1>1. /\ list' = <<>> /\ entry' = <<>> /\ index' = <<>> /\ dropped' = dropped + Len(list)
      /\ UNCHANGED <<max, evictions, hits, misses, ptr, clock, touched, latest, pushed>>
  BY DEF ClearLevel, stats
<1>2. Pruned(list, entry, index, list', entry', index')
  BY <1>1 DEF Pruned, ToSet, IsInjective, OrderKept
<1>3. LevelLinked'
  BY <1>1, <1>2, LinkedPrune DEF LevelLinked
<1>4. Len(list) \in Nat /\ Len(list') = 0
  BY <1>1, LenProperties DEF LevelLinked, Linked
<1>5. Books'
  BY <1>1, <1>4 DEF Books, SizeBounded, EvictionsCounted
<1>6. QED
  BY <1>3, <1>5

\* CacheLevel::insert keeps the level's invariant: a filed key's entry takes
\* the value and moves to the front; otherwise the entries over the limit are
\* popped and the new one is added at a free address.
LEMMA InsertStep ==
  ASSUME LevelInv, NEW t \in Threads, NEW k \in CacheKeys, NEW v \in Values, Insert(t, k, v)
  PROVE  LevelInv'
<1> USE DEF LevelInv
<1>0. /\ clock' = clock + 1 /\ touched' = [touched EXCEPT ![k] = clock + 1]
      /\ latest' = Update(latest, k, v) /\ UNCHANGED <<max, hits, misses, ptr, dropped>>
  BY DEF Insert, Enter, Touch
<1>1. /\ k \in DOMAIN latest' /\ latest'[k] = v
      /\ \A j \in DOMAIN latest : j \in DOMAIN latest' /\ (j # k => latest'[j] = latest[j])
  BY <1>0 DEF Update
<1>2. \A j \in DOMAIN index : j \in DOMAIN latest
  BY DEF LevelLinked, Linked
<1>3. CASE k \in DOMAIN index
  <2>1. /\ entry' = [entry EXCEPT ![index[k]].value = v]
        /\ list' = <<index[k]>> \o RemoveFirst(list, index[k])
        /\ UNCHANGED <<index, evictions, pushed>>
    BY <1>3 DEF Insert, ToFront, Rewrite
  <2>2. /\ index[k] \in DOMAIN entry /\ entry[index[k]] \in [key : CacheKeys, value : Values]
        /\ entry[index[k]].key = k
    BY <1>3 DEF LevelLinked, Linked
  <2>3. /\ DOMAIN entry' = DOMAIN entry /\ \A m \in DOMAIN entry \ {index[k]} : entry'[m] = entry[m]
        /\ entry'[index[k]] = [entry[index[k]] EXCEPT !.value = v]
    BY <2>1, <2>2
  <2>4. entry'[index[k]] = [key |-> k, value |-> v]
    BY <2>2, <2>3
  <2>5. Valued(entry, index, latest, k, v, entry', latest')
    BY <1>1, <1>2, <1>3, <2>3, <2>4 DEF Valued
  <2>6. /\ Linked(<<index[k]>> \o RemoveFirst(list, index[k]), entry', index,
                  [touched EXCEPT ![k] = clock + 1], latest', clock + 1)
        /\ Len(<<index[k]>> \o RemoveFirst(list, index[k])) = Len(list)
    BY <2>5, LinkedFront DEF LevelLinked
  <2>7. LevelLinked'
    BY <1>0, <2>1, <2>6 DEF LevelLinked
  <2>8. Books'
    BY <1>0, <2>1, <2>6 DEF Books, SizeBounded, EvictionsCounted
  <2>9. QED
    BY <2>7, <2>8
<1>4. CASE k \notin DOMAIN index
  <2> DEFINE out   == Popped(RoomBefore)
             s     == Survivors(RoomBefore)
             kept  == Free(out)
             known == Forget(KeysIn(out))
             n     == Min(Nodes \ DOMAIN kept)
  <2>1. /\ entry' = Update(kept, n, [key |-> k, value |-> v]) /\ index' = Update(known, k, n)
        /\ list' = <<n>> \o s /\ evictions' = evictions + Counted(out) /\ pushed' = pushed + 1
    BY <1>4 DEF Insert
  <2>2. RoomBefore \in Nat /\ (max = 0 => RoomBefore = 0) /\ (max # 0 => RoomBefore + 1 = max)
    BY DEF RoomBefore, Books
  <2>3. /\ s \in Seq(Nodes) /\ Len(s) <= RoomBefore /\ Len(s) \in Nat /\ Len(list) \in Nat
        /\ Counted(out) = Len(list) - Len(s) /\ Len(s) <= Len(list)
        /\ Linked(s, kept, known, touched, latest, clock)
    BY <2>2, PopNodes
  <2>4. DOMAIN known \subseteq DOMAIN index
    BY DEF Forget
  <2> HIDE DEF out, s, kept, known
  <2>5. DOMAIN kept = ToSet(s) /\ n \in Nodes \ ToSet(s)
    <3>1. DOMAIN kept = ToSet(s)
      BY <2>3 DEF Linked
    <3>2. Min(Nodes \ ToSet(s)) \in Nodes \ ToSet(s)
      BY <2>3, LinkedRoom
    <3>3. QED
      BY <3>1, <3>2
  <2> HIDE DEF n
  <2>6. Filed(s, kept, known, latest, n, k, v, entry', index', latest')
    <3>1. /\ DOMAIN entry' = ToSet(s) \cup {n} /\ \A m \in ToSet(s) : entry'[m] = kept[m]
          /\ entry'[n] = [key |-> k, value |-> v]
      BY <2>1, <2>5 DEF Update
    <3>2. /\ DOMAIN index' = DOMAIN known \cup {k} /\ index'[k] = n
          /\ \A j \in DOMAIN known : index'[j] = known[j]
      BY <1>4, <2>1, <2>4 DEF Update
    <3>3. \A j \in DOMAIN known : j \in DOMAIN latest' /\ latest'[j] = latest[j]
      BY <1>1, <1>2, <1>4, <2>4
    <3>4. QED
      BY <1>1, <1>4, <2>4, <2>5, <3>1, <3>2, <3>3 DEF Filed
  <2>7. Linked(<<n>> \o s, entry', index', [touched EXCEPT ![k] = clock + 1], latest', clock + 1)
    BY <2>3, <2>6, LinkedAdd
  <2>8. LevelLinked'
    BY <1>0, <2>1, <2>7 DEF LevelLinked
  <2>9. Len(list') = Len(s) + 1
    BY <2>1, <2>3, <2>5, ConsProperties
  <2>10. Books'
    <3>1. max \in Nat /\ (Len(list') <= max \/ Len(list') = 1)
      BY <2>2, <2>3, <2>9 DEF Books
    <3>2. SizeBounded'
      BY <1>0, <3>1 DEF SizeBounded
    <3>3. /\ Len(list) + evictions + dropped = pushed
          /\ evictions \in Nat /\ dropped \in Nat /\ pushed \in Nat
          /\ evictions' = evictions + (Len(list) - Len(s)) /\ dropped' = dropped
          /\ pushed' = pushed + 1
      BY <1>0, <2>1, <2>3 DEF Books, EvictionsCounted
    <3>4. Len(list') + evictions' + dropped' = pushed' /\ evictions' \in Nat /\ pushed' \in Nat
      BY ONLY <2>3, <2>9, <3>3
    <3>5. EvictionsCounted'
      BY <3>4 DEF EvictionsCounted
    <3>6. QED
      BY <1>0, <3>2, <3>4, <3>5 DEF Books
  <2>11. QED
    BY <2>8, <2>10
<1>5. QED
  BY <1>3, <1>4

-----------------------------------------------------------------------------
(* The kernels                                                             *)

KernelInv == Resident /\ Callers

\* The cached kernel is returned, or a compilation starts.
LEMMA LookupOrCompileStep ==
  ASSUME KernelInv, NEW t \in Threads, NEW k \in CacheKeys, LookupOrCompile(t, k)
  PROVE  KernelInv'
<1> USE DEF KernelInv
<1>1. /\ calls' = calls + 1 /\ calls' \in 1 .. MaxCalls
      /\ serial' = [serial EXCEPT ![t] = calls'] /\ key' = [key EXCEPT ![t] = k]
      /\ UNCHANGED <<cache, variant, library>>
  BY CacheAssumption DEF LookupOrCompile, Callers
<1>2. \/ /\ k \in DOMAIN cache /\ pc' = [pc EXCEPT ![t] = "idle"]
         /\ answer' = [answer EXCEPT ![t] = cache[k]]
         /\ handed' \in {handed, handed \cup {<<k, cache[k]>>}}
      \/ /\ pc' = [pc EXCEPT ![t] = "lower"] /\ answer' = [answer EXCEPT ![t] = NoCode]
         /\ handed' = handed
  <2>1. key'[t] = k
    BY <1>1 DEF Callers
  <2>2. QED
    BY <2>1 DEF LookupOrCompile, Return
<1>3. \A j \in DOMAIN cache : Defined(j) /\ cache[j] = Kernel(j) /\ cache[j] \in Code
  BY DEF Resident, Defined, Kernel
<1>4. Resident'
  BY <1>1, <1>2, <1>3 DEF Resident, Defined, Kernel
<1>5. Callers'
  <2>1. /\ serial' \in [Threads -> 0 .. MaxCalls] /\ calls' \in 0 .. MaxCalls
        /\ key' \in [Threads -> CacheKeys \cup {NoCode}]
        /\ key'[t] = k /\ serial'[t] # 0
    BY <1>1 DEF Callers
  <2>2. /\ pc' \in [Threads -> {"idle", "lower", "add", "resolve", "clear"}]
        /\ answer' \in [Threads -> Code \cup {NoCode, Failed}] /\ pc'[t] # "resolve"
    BY <1>2, <1>3 DEF Callers
  <2>3. \A o \in Threads \ {t} : pc'[o] = pc[o] /\ key'[o] = key[o] /\ serial'[o] = serial[o]
    BY <1>1, <1>2 DEF Callers
  <2>4. QED
    BY <1>1, <2>1, <2>2, <2>3 DEF Callers, Defined, Kernel
<1>6. QED
  BY <1>4, <1>5

\* The module is lowered, or the call fails.
LEMMA LowerStep ==
  ASSUME KernelInv, NEW t \in Threads, Lower(t)
  PROVE  KernelInv'
<1> USE DEF KernelInv
<1>1. /\ pc[t] = "lower" /\ pc' \in {[pc EXCEPT ![t] = "add"], [pc EXCEPT ![t] = "idle"]}
      /\ answer' \in {answer, [answer EXCEPT ![t] = Failed]}
      /\ UNCHANGED <<cache, variant, library, key, calls, serial, handed>>
  BY DEF Lower, Return
<1>2. Resident'
  BY <1>1 DEF Resident, Defined, Kernel
<1>3. Callers'
  <2>1. /\ pc' \in [Threads -> {"idle", "lower", "add", "resolve", "clear"}]
        /\ answer' \in [Threads -> Code \cup {NoCode, Failed}] /\ pc'[t] # "resolve"
    BY <1>1 DEF Callers
  <2>2. \A o \in Threads \ {t} : pc'[o] = pc[o]
    BY <1>1 DEF Callers
  <2>3. QED
    BY <1>1, <2>1, <2>2 DEF Callers, Defined, Kernel
<1>4. QED
  BY <1>2, <1>3

\* The library takes the module under a symbol it does not define, and keeps
\* everything it defines, or the call fails.
LEMMA AddModuleStep ==
  ASSUME KernelInv, NEW t \in Threads, AddModule(t)
  PROVE  KernelInv'
<1> USE DEF KernelInv
<1> DEFINE s == Symbol[key[t]]
           c == [of |-> key[t], compiled |-> serial[t]]
<1>1. /\ pc[t] = "add" /\ UNCHANGED <<cache, variant, key, calls, serial, handed>>
      /\ \/ s \notin DOMAIN library /\ library' = Update(library, s, c)
            /\ pc' = [pc EXCEPT ![t] = "resolve"] /\ answer' = answer
         \/ library' = library /\ pc' = [pc EXCEPT ![t] = "idle"]
            /\ answer' = [answer EXCEPT ![t] = Failed]
  BY DEF AddModule, Return, Defines
<1>2. key[t] \in CacheKeys /\ c \in Code /\ s \in Range(Symbol)
  BY <1>1, CacheAssumption DEF Callers, Code, Range
<1> HIDE DEF s
<1>3. /\ DOMAIN library \subseteq DOMAIN library' /\ \A z \in DOMAIN library : library'[z] = library[z]
      /\ DOMAIN library' \subseteq Range(Symbol) /\ \A z \in DOMAIN library' : library'[z] \in Code
  <2> HIDE DEF c
  <2>1. QED
    BY <1>1, <1>2 DEF Update, Resident
<1>4. Resident'
  BY <1>1, <1>3 DEF Resident, Defined, Kernel
<1>5. Callers'
  <2>1. /\ pc' \in [Threads -> {"idle", "lower", "add", "resolve", "clear"}]
        /\ answer' \in [Threads -> Code \cup {NoCode, Failed}]
    BY <1>1 DEF Callers
  <2>2. \A o \in Threads \ {t} : pc'[o] = pc[o]
    BY <1>1 DEF Callers
  <2>3. pc'[t] = "resolve" => s \in DOMAIN library' /\ library'[s].of = key[t]
    BY <1>1, <2>1 DEF Update, Callers
  <2>4. QED
    BY <1>1, <1>2, <1>3, <2>1, <2>2, <2>3 DEF Callers, Defined, Kernel, s
<1>6. QED
  BY <1>4, <1>5

\* The code of the symbol is cached and returned, or the call fails.
LEMMA StoreCodeStep ==
  ASSUME KernelInv, NEW t \in Threads, StoreCode(t)
  PROVE  KernelInv'
<1> USE DEF KernelInv
<1>1. /\ pc[t] = "resolve" /\ pc' = [pc EXCEPT ![t] = "idle"]
      /\ UNCHANGED <<variant, library, key, calls, serial>>
      /\ \/ cache' = Update(cache, key[t], Kernel(key[t])) /\ answer' = [answer EXCEPT ![t] = Kernel(key[t])]
            /\ handed' \in {handed, handed \cup {<<key[t], Kernel(key[t])>>}}
         \/ cache' = cache /\ answer' = [answer EXCEPT ![t] = Failed] /\ handed' = handed
  BY DEF StoreCode, Return, Kernel
<1>2. Defined(key[t]) /\ Kernel(key[t]) \in Code
  BY <1>1 DEF Callers, Resident, Defined, Kernel
<1>3. Resident'
  BY <1>1, <1>2 DEF Resident, Defined, Kernel, Update
<1>4. Callers'
  <2>1. /\ pc' \in [Threads -> {"idle", "lower", "add", "resolve", "clear"}] /\ pc'[t] = "idle"
        /\ answer' \in [Threads -> Code \cup {NoCode, Failed}]
        /\ \A o \in Threads \ {t} : pc'[o] = pc[o]
    BY <1>1, <1>2 DEF Callers
  <2>2. QED
    BY <1>1, <2>1 DEF Callers, Defined, Kernel
<1>5. QED
  BY <1>3, <1>4

\* Code some call returned is filed under an identity with a name.
LEMMA InsertVariantStep ==
  ASSUME KernelInv, NEW v \in Variants, InsertVariant(v)
  PROVE  KernelInv'
<1>1. PICK h \in handed : variant' = IF Names(v) THEN Update(variant, v, h[2]) ELSE variant
  BY DEF InsertVariant
<1>2. UNCHANGED <<cache, library, pc, key, answer, calls, serial, handed>>
  BY DEF InsertVariant
<1>3. h[2] \in Code
  BY DEF KernelInv, Resident, Defined, Kernel
<1>4. Resident'
  BY <1>1, <1>2, <1>3 DEF KernelInv, Resident, Defined, Kernel, Update, Names
<1>5. Callers'
  BY <1>2 DEF KernelInv, Callers, Defined, Kernel
<1>6. QED
  BY <1>4, <1>5 DEF KernelInv

\* clear empties the maps; the library, and what was handed out, stay.
LEMMA ClearMapsStep ==
  ASSUME JitInv, NEW t \in Threads, Clear(t)
  PROVE  JitInv'
<1>1. /\ cache' = Empty /\ variant' = Empty /\ pc' = [pc EXCEPT ![t] = "clear"]
      /\ UNCHANGED <<library, key, answer, calls, serial, handed>>
  BY DEF Clear
<1>2. Resident'
  BY <1>1 DEF JitInv, Resident, Defined, Kernel, Empty
<1>3. Callers'
  BY <1>1 DEF JitInv, Callers, Defined, Kernel
<1>4. LevelInv'
  <2>1. /\ clock' = clock + 1
        /\ UNCHANGED <<list, entry, index, max, evictions, hits, misses, ptr, touched, latest, pushed, dropped>>
    BY DEF Clear, Enter, stats
  <2>2. LevelLinked'
    BY <2>1, LinkedLater DEF JitInv, LevelInv, LevelLinked
  <2>3. Books'
    BY <2>1 DEF JitInv, LevelInv, Books, SizeBounded, EvictionsCounted
  <2>4. QED
    BY <2>2, <2>3 DEF LevelInv
<1>5. QED
  BY <1>2, <1>3, <1>4 DEF JitInv

\* Where nothing of the level changes, its invariant stays.
LEMMA LevelStays ==
  ASSUME LevelInv, UNCHANGED levelVars
  PROVE  LevelInv'
<1>1. UNCHANGED <<list, entry, index, max, evictions, hits, misses, ptr,
                  clock, touched, latest, pushed, dropped>>
  BY DEF levelVars, stats, hist
<1>2. LevelLinked'
  BY <1>1 DEF LevelInv, LevelLinked
<1>3. Books'
  BY <1>1 DEF LevelInv, Books, SizeBounded, EvictionsCounted
<1>4. QED
  BY <1>2, <1>3 DEF LevelInv

\* Where nothing of the kernels changes but the threads between calls, their
\* invariant stays.
LEMMA KernelsStay ==
  ASSUME KernelInv, UNCHANGED <<cache, variant, library, key, answer, calls, serial, handed>>,
         pc' = pc \/ \E t \in Threads : pc' = [pc EXCEPT ![t] = "idle"]
  PROVE  KernelInv'
<1>1. Resident'
  BY DEF KernelInv, Resident, Defined, Kernel
<1>2. Callers'
  BY DEF KernelInv, Callers, Defined, Kernel
<1>3. QED
  BY <1>1, <1>2 DEF KernelInv

\* The invariant holds of a new cache.
LEMMA JitInvInit == JitInit => JitInv
<1> SUFFICES ASSUME JitInit PROVE JitInv
  OBVIOUS
<1> USE DEF JitInit, EmptyCache, EmptyLevel
<1>1. LevelLinked
  BY DEF LevelLinked, Linked, ToSet, IsInjective
<1>2. Books
  BY LevelAssumption DEF Books, SizeBounded, EvictionsCounted
<1>3. Resident
  BY DEF Resident, Empty
<1>4. Callers
  BY CacheAssumption DEF Callers
<1>5. QED
  BY <1>1, <1>2, <1>3, <1>4 DEF JitInv, LevelInv

\* Every step keeps the invariant.
LEMMA JitInvNext == JitInv /\ [JitNext]_jitVars => JitInv'
<1> SUFFICES ASSUME JitInv, [JitNext]_jitVars PROVE JitInv'
  OBVIOUS
<1>0. LevelInv /\ KernelInv
  BY DEF JitInv, KernelInv
<1>1. ASSUME NEW t \in Threads, UseLevel(t) PROVE JitInv'
  <2>1. LevelInv'
    BY <1>0, <1>1, DerefStep, LookupStep, RemoveStep, InsertStep, EvictStep DEF UseLevel, LevelStep
  <2>2. KernelInv'
    BY <1>0, <1>1, KernelsStay DEF UseLevel, kernelVars
  <2>3. QED
    BY <2>1, <2>2 DEF JitInv, KernelInv
<1>2. ASSUME NEW t \in Threads, ClearLevels(t) PROVE JitInv'
  <2>1. LevelInv'
    BY <1>0, <1>2, ClearStep DEF ClearLevels
  <2>2. KernelInv'
    BY <1>0, <1>2, KernelsStay DEF ClearLevels
  <2>3. QED
    BY <2>1, <2>2 DEF JitInv, KernelInv
<1>3. ASSUME KernelInv', UNCHANGED levelVars PROVE JitInv'
  BY <1>0, <1>3, LevelStays DEF JitInv, KernelInv
<1>4. ASSUME NEW t \in Threads, Lower(t) \/ AddModule(t) \/ StoreCode(t) PROVE KernelInv'
  BY <1>0, <1>4, LowerStep, AddModuleStep, StoreCodeStep
<1>5. CASE UNCHANGED jitVars
  <2>1. KernelInv' /\ UNCHANGED levelVars
    BY <1>0, <1>5, KernelsStay DEF jitVars, kernelVars
  <2>2. QED
    BY <1>3, <2>1
<1>6. CASE JitNext
  BY <1>0, <1>1, <1>2, <1>3, <1>4, <1>6, ClearMapsStep, LookupOrCompileStep, InsertVariantStep
     DEF JitNext
<1>7. QED
  BY <1>5, <1>6

\* The invariant of the level and of the kernels holds in every state.
THEOREM JitInvariant == JitSpec => []JitInv
<1>1. QED
  BY JitInvInit, JitInvNext, PTL DEF JitSpec

-----------------------------------------------------------------------------
(* What follows from it                                                    *)

\* The level and the kernels have their types.
LEMMA JitInvTypes == JitInv => JitTypeOK
<1> SUFFICES ASSUME JitInv PROVE JitTypeOK
  OBVIOUS
<1>1. LevelTypeOK
  <2>1. /\ list \in Seq(Nodes) /\ IsInjective(list) /\ DOMAIN entry = ToSet(list)
        /\ \A n \in ToSet(list) : entry[n] \in [key : CacheKeys, value : Values]
        /\ DOMAIN index \subseteq CacheKeys /\ clock \in Nat
    BY DEF JitInv, LevelInv, LevelLinked, Linked
  <2>2. ToSet(list) \subseteq Nodes
    BY <2>1, ElementOfSeq, LenProperties DEF ToSet
  <2>3. QED
    BY <2>1, <2>2 DEF JitInv, LevelInv, Books, LevelTypeOK
<1>2. /\ DOMAIN cache \subseteq CacheKeys /\ Range(cache) \subseteq Code
      /\ DOMAIN variant \subseteq Variants \ {Unnamed} /\ Range(variant) \subseteq Code
      /\ DOMAIN library \subseteq Range(Symbol) /\ Range(library) \subseteq Code
  BY DEF JitInv, Resident, Defined, Kernel, Range
<1>3. QED
  BY <1>1, <1>2 DEF JitInv, Callers, JitTypeOK

\* A level's books are right and every kernel is its key's own, once and for all.
LEMMA JitInvSound == JitInv => KernelsSound
<1> SUFFICES ASSUME JitInv PROVE KernelsSound
  OBVIOUS
<1>1. IndexMatchesList /\ RecencyOrder /\ HoldsLatest
  <2>1. \A n \in DOMAIN entry : entry[n].key \in DOMAIN index
    BY DEF JitInv, LevelInv, LevelLinked, Linked
  <2>2. \A k \in DOMAIN index : index[k] \in DOMAIN entry /\ entry[index[k]].key = k
    BY DEF JitInv, LevelInv, LevelLinked, Linked
  <2>3. DOMAIN index = KeysIn(DOMAIN entry)
    BY <2>1, <2>2 DEF KeysIn
  <2>4. IndexMatchesList
    BY <2>2, <2>3 DEF IndexMatchesList, JitInv, LevelInv, LevelLinked, Linked
  <2>5. RecencyOrder /\ HoldsLatest
    BY DEF RecencyOrder, HoldsLatest, JitInv, LevelInv, LevelLinked, Linked
  <2>6. QED
    BY <2>4, <2>5
<1>2. CachedIsOwn /\ OneKernelPerKey
  BY DEF JitInv, Resident, Defined, Kernel, CachedIsOwn, OneKernelPerKey
<1>3. SizeBounded /\ EvictionsCounted
  BY DEF JitInv, LevelInv, Books
<1>4. QED
  BY <1>1, <1>2, <1>3, JitInvTypes DEF KernelsSound, LevelSound

\* Only pops lose entries to the limit, and they lose those used least recently.
LEMMA PopsOldest ==
  ASSUME LevelLinked, NEW room \in Nat,
         NEW lost \in DOMAIN index, lost \in KeysIn(Popped(room)),
         NEW kept \in DOMAIN index, kept \notin KeysIn(Popped(room))
  PROVE  touched[lost] < touched[kept]
<1> DEFINE m == IF room < Len(list) THEN room ELSE Len(list)
<1>1. m \in 0 .. Len(list) /\ Survivors(room) = SubSeq(list, 1, m)
  BY LenProperties DEF LevelLinked, Linked, Survivors
<1> HIDE DEF m
<1>2. /\ index[lost] \notin ToSet(SubSeq(list, 1, m))
      /\ index[kept] \in ToSet(SubSeq(list, 1, m))
  BY <1>1 DEF Popped, KeysIn, LevelLinked, Linked
<1>3. QED
  BY <1>1, <1>2, LinkedPrefix DEF LevelLinked

\* A step that loses entries to the limit loses the oldest.
OldestGo ==
  evictions' > evictions =>
    \A lost \in DOMAIN index \ DOMAIN index', kept \in DOMAIN index \cap DOMAIN index' :
      touched[lost] < touched[kept]

\* Every step of a level that counts evictions pops.
LEMMA OldestStep == JitInv /\ [JitNext]_jitVars => [OldestGo]_levelVars
<1> SUFFICES ASSUME JitInv, [JitNext]_jitVars, evictions' > evictions,
                    NEW lost \in DOMAIN index \ DOMAIN index', NEW kept \in DOMAIN index \cap DOMAIN index'
             PROVE  touched[lost] < touched[kept]
  BY DEF OldestGo
<1>0. evictions \in Nat /\ LevelLinked /\ max \in Nat
  BY DEF JitInv, LevelInv, Books
<1>1. evictions' # evictions
  BY <1>0
<1>2. PICK t \in Threads : LevelStep(t)
  BY <1>1 DEF JitNext, jitVars, levelVars, stats, Clear, ClearLevels, ClearLevel, UseLevel
<1>3. CASE \E m \in MaxSizes : EvictLRU(t, m)
  <2>1. PICK m \in MaxSizes : index' = Forget(KeysIn(Popped(m)))
    BY <1>3 DEF EvictLRU
  <2>2. lost \in KeysIn(Popped(m)) /\ kept \notin KeysIn(Popped(m))
    BY <2>1 DEF Forget
  <2>3. QED
    BY <1>0, <2>2, LevelAssumption, PopsOldest
<1>4. CASE \E k \in CacheKeys, v \in Values : Insert(t, k, v)
  <2>1. PICK k \in CacheKeys, v \in Values : Insert(t, k, v)
    BY <1>4
  <2>2. k \notin DOMAIN index
    BY <1>1, <2>1 DEF Insert
  <2>3. \E n : index' = Update(Forget(KeysIn(Popped(RoomBefore))), k, n)
    BY <2>1, <2>2 DEF Insert
  <2>4. lost \in KeysIn(Popped(RoomBefore)) /\ kept \notin KeysIn(Popped(RoomBefore))
    BY <2>2, <2>3 DEF Update, Forget
  <2>5. RoomBefore \in Nat
    BY <1>0 DEF RoomBefore
  <2>6. QED
    BY <1>0, <2>4, <2>5, PopsOldest
<1>5. QED
  BY <1>1, <1>2, <1>3, <1>4 DEF LevelStep, Deref, Lookup, RemoveKey, stats

\* Type correctness of the JIT cache and its level.
THEOREM JitTypes == JitSpec => []JitTypeOK
<1>1. QED
  BY JitInvariant, JitInvTypes, PTL

\* The books of a level agree after every interleaving, and every kernel cached
\* or returned for a key is that key's own and always the same.
THEOREM JitIsSound == JitSpec => []KernelsSound
<1>1. QED
  BY JitInvariant, JitInvSound, PTL

\* Eviction takes the entries used least recently.
THEOREM EvictionTakesOldest == JitSpec => EvictsOldest
<1>1. QED
  BY JitInvariant, OldestStep, PTL DEF JitSpec, EvictsOldest, OldestGo
=============================================================================
