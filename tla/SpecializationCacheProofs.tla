---------------------- MODULE SpecializationCacheProofs ----------------------
(***************************************************************************)
(* Proofs about SpecializationCache for any number of threads and request  *)
(* identities, any digest function and any capacity.                       *)
(***************************************************************************)
EXTENDS SpecializationCache, SequenceLemmas, FiniteSetTheorems

Entry == [id : Ids, state : {"pending", "ready", "failed", "evicted"}, kernel : Nat]
Exe   == [id : Ids, refs : Int, held : BOOLEAN, native : Int, calls : Int]
Wrap  == [exe : Nat, open : BOOLEAN, holder : Threads \cup {None}]

(***************************************************************************)
(* The shape of the state: sequences of records whose references point     *)
(* into one another.                                                       *)
(***************************************************************************)
Shape ==
  /\ entries \in Seq(Entry) /\ exes \in Seq(Exe) /\ wraps \in Seq(Wrap)
  /\ lru \in Seq(Nat) /\ stale \in [Threads -> Seq(Nat)]
  /\ pc \in [Threads -> Labels] /\ want \in [Threads -> Ids \cup {None}]
  /\ mine \in [Threads -> Nat] /\ result \in [Threads -> Nat \cup {None}]
  /\ filed \subseteq DOMAIN entries /\ handed \subseteq DOMAIN wraps
  /\ \A w \in DOMAIN wraps : wraps[w].exe \in DOMAIN exes
  /\ \A e \in DOMAIN entries : entries[e].kernel \in 0 .. Len(wraps)

(***************************************************************************)
(* What a thread's registers hold at each label.                           *)
(***************************************************************************)
RegistersOf(t) ==
  /\ pc[t] \in {"lookup", "asleep", "compile", "publish"} => want[t] \in Ids
  /\ pc[t] \in {"compile", "publish"} =>
       mine[t] \in filed /\ entries[mine[t]].state = "pending" /\ entries[mine[t]].id = want[t]
  /\ pc[t] \in {"enter", "native", "release"} =>
       mine[t] \in DOMAIN wraps /\ wraps[mine[t]].holder = t
  /\ pc[t] \in {"publish", "closing"} => result[t] # None
  /\ result[t] # None => result[t] \in DOMAIN wraps /\ pc[t] \in {"publish", "closing", "release"}
  /\ stale[t] # <<>> => result[t] # None /\ pc[t] \in {"closing", "release"}
  /\ ToSet(stale[t]) \subseteq DOMAIN wraps

Registers == \A t \in Threads : RegistersOf(t)

(***************************************************************************)
(* Every thread that compiles has an entry of its own, and an identity is  *)
(* filed once: a filed entry is pending or retained.                       *)
(***************************************************************************)
Filing ==
  /\ \A s, t \in Threads :
       s # t /\ {pc[s], pc[t]} \subseteq {"compile", "publish"} => mine[s] # mine[t]
  /\ \A d, e \in filed : entries[d].id = entries[e].id => d = e
  /\ \A e \in filed : entries[e].state = "pending" \/ e \in ToSet(lru)

(***************************************************************************)
(* What the cache retains: at most MaxEntries ready entries.               *)
(***************************************************************************)
Retained ==
  /\ Len(lru) <= MaxEntries /\ IsInjective(lru)
  /\ \A e \in ToSet(lru) : e \in filed /\ entries[e].state = "ready"

(***************************************************************************)
(* A wrapper of the cache's own is open, and nobody else can close it:     *)
(* neither a caller, nor a thread that closes what was evicted.  It wraps  *)
(* an executable of its entry's identity.                                  *)
(***************************************************************************)
Private == {w \in DOMAIN wraps : wraps[w].open /\ w \notin handed
                                 /\ \A t \in Threads : w \notin ToSet(stale[t])}
Kernels == {entries[e].kernel : e \in ToSet(lru)}

Owners ==
  /\ \A e \in ToSet(lru) :
       /\ entries[e].kernel \in Private
       /\ exes[wraps[entries[e].kernel].exe].id = entries[e].id
  /\ \A d, e \in ToSet(lru) : entries[d].kernel = entries[e].kernel => d = e
  /\ \A t \in Threads : pc[t] = "publish" =>
       /\ result[t] \in Private /\ result[t] \notin Kernels
       /\ exes[wraps[result[t]].exe].id = want[t]
  /\ \A s, t \in Threads :
       s # t /\ pc[s] = "publish" /\ pc[t] = "publish" => result[s] # result[t]

(***************************************************************************)
(* Every open wrapper has an owner that will close it or may.              *)
(***************************************************************************)
Owned ==
  \A w \in DOMAIN wraps : wraps[w].open =>
    \/ w \in handed \/ w \in Kernels
    \/ \E t \in Threads : w \in ToSet(stale[t]) \/ (pc[t] = "publish" /\ result[t] = w)

(***************************************************************************)
(* The reference counts, and who may free an executable.                   *)
(***************************************************************************)
OpenWraps(x) == {w \in DOMAIN wraps : wraps[w].exe = x /\ wraps[w].open}
Running(x)   == {t \in Threads : pc[t] = "native" /\ wraps[mine[t]].exe = x}
Freeing(x)   == {t \in Threads : pc[t] = "release" /\ wraps[mine[t]].exe = x}

CountsOf(x) ==
  /\ exes[x].refs = Cardinality(OpenWraps(x))
  /\ exes[x].held = (exes[x].refs > 0)
  /\ exes[x].calls = Cardinality(Running(x))
  /\ exes[x].native = exes[x].calls + (IF exes[x].held \/ Freeing(x) # {} THEN 1 ELSE 0)
  /\ exes[x].held => Freeing(x) = {}
  /\ \A s, t \in Freeing(x) : s = t

Counts == \A x \in DOMAIN exes : CountsOf(x)

\* A wrapper is open while it is invoked.
InUse == \A t \in Threads : pc[t] \in {"enter", "native"} => wraps[mine[t]].open

CacheInv == Shape /\ Registers /\ Filing /\ Retained /\ Owners /\ Owned
Inv == CacheInv /\ Counts /\ InUse
-----------------------------------------------------------------------------
(* What the operators on wrappers and executables do, field by field       *)

\* What Shape says of one record of each sequence.
LEMMA Records ==
  ASSUME Shape
  PROVE  /\ \A x \in DOMAIN exes : exes[x] \in Exe
         /\ \A w \in DOMAIN wraps : wraps[w] \in Wrap /\ wraps[w].exe \in DOMAIN exes
         /\ \A e \in DOMAIN entries : entries[e] \in Entry
         /\ DOMAIN exes = 1 .. Len(exes) /\ Len(exes) \in Nat
         /\ DOMAIN wraps = 1 .. Len(wraps) /\ Len(wraps) \in Nat
         /\ DOMAIN entries = 1 .. Len(entries) /\ Len(entries) \in Nat
         /\ DOMAIN lru = 1 .. Len(lru) /\ Len(lru) \in Nat
BY LenProperties, ElementOfSeq DEF Shape

\* Replacing one executable's record.
LEMMA ExeUpdate ==
  ASSUME Shape, NEW x \in DOMAIN exes, NEW r \in Exe
  PROVE  /\ [exes EXCEPT ![x] = r] \in Seq(Exe)
         /\ DOMAIN [exes EXCEPT ![x] = r] = DOMAIN exes
         /\ \A y \in DOMAIN exes : [exes EXCEPT ![x] = r][y] = IF y = x THEN r ELSE exes[y]
BY ExceptSeq, LenProperties DEF Shape

\* Replacing one wrapper's record.
LEMMA WrapUpdate ==
  ASSUME Shape, NEW w \in DOMAIN wraps, NEW r \in Wrap
  PROVE  /\ [wraps EXCEPT ![w] = r] \in Seq(Wrap)
         /\ DOMAIN [wraps EXCEPT ![w] = r] = DOMAIN wraps
         /\ Len([wraps EXCEPT ![w] = r]) = Len(wraps)
         /\ \A v \in DOMAIN wraps : [wraps EXCEPT ![w] = r][v] = IF v = w THEN r ELSE wraps[v]
BY ExceptSeq, LenProperties DEF Shape

\* One wrapper more.
LEMMA WrapAppend ==
  ASSUME Shape, NEW x, [exe |-> x, open |-> TRUE, holder |-> None] \in Wrap
  PROVE  /\ Append(wraps, NewWrap(x)) \in Seq(Wrap)
         /\ Len(Append(wraps, NewWrap(x))) = Len(wraps) + 1
         /\ DOMAIN Append(wraps, NewWrap(x)) = DOMAIN wraps \cup {Len(wraps) + 1}
         /\ Len(wraps) + 1 \notin DOMAIN wraps /\ Len(wraps) + 1 \in Nat
         /\ \A v \in DOMAIN wraps : Append(wraps, NewWrap(x))[v] = wraps[v]
         /\ Append(wraps, NewWrap(x))[Len(wraps) + 1] = NewWrap(x)
BY AppendProperties, LenProperties DEF Shape, NewWrap

\* A lease: one reference more to the executable, and one wrapper more.
LEMMA LeaseFacts ==
  ASSUME Shape, NEW x \in DOMAIN exes
  PROVE  /\ Leased(x, exes) \in Seq(Exe) /\ DOMAIN Leased(x, exes) = DOMAIN exes
         /\ \A y \in DOMAIN exes :
              Leased(x, exes)[y] = IF y = x THEN [exes[x] EXCEPT !.refs = @ + 1] ELSE exes[y]
         /\ \A y \in DOMAIN exes : Leased(x, exes)[y].id = exes[y].id
         /\ [exe |-> x, open |-> TRUE, holder |-> None] \in Wrap
<1>1. exes[x] \in Exe /\ x \in Nat
  BY Records
<1>2. [exes[x] EXCEPT !.refs = @ + 1] \in Exe /\ [exes[x] EXCEPT !.refs = @ + 1].id = exes[x].id
  BY <1>1 DEF Exe
<1>3. Leased(x, exes) = [exes EXCEPT ![x] = [exes[x] EXCEPT !.refs = @ + 1]]
  BY DEF Leased
<1>4. QED
  BY <1>1, <1>2, <1>3, ExeUpdate DEF Wrap

\* CloseWrapper(t, w, next) takes one reference from an open wrapper's
\* executable; the last one sends the thread on to free the native handle.
LastClose(w) ==
  wraps[w].open /\ exes[wraps[w].exe].held /\ exes[wraps[w].exe].refs = 1

CloseEffect(t, w, next) ==
  /\ wraps[w].holder = None
  /\ exes' \in Seq(Exe) /\ DOMAIN exes' = DOMAIN exes
  /\ wraps' \in Seq(Wrap) /\ DOMAIN wraps' = DOMAIN wraps /\ Len(wraps') = Len(wraps)
  /\ \A y \in DOMAIN exes :
       exes'[y] = IF wraps[w].open /\ y = wraps[w].exe
                    THEN [exes[y] EXCEPT !.refs = @ - 1, !.held = @ /\ exes[y].refs # 1]
                    ELSE exes[y]
  /\ \A v \in DOMAIN wraps :
       wraps'[v] = IF v = w
                     THEN [wraps[w] EXCEPT !.open = FALSE,
                                           !.holder = IF LastClose(w) THEN t ELSE None]
                     ELSE wraps[v]
  /\ mine' = [mine EXCEPT ![t] = IF LastClose(w) THEN w ELSE @]
  /\ pc' = [pc EXCEPT ![t] = IF LastClose(w) THEN "release" ELSE next]

LEMMA CloseFacts ==
  ASSUME Shape, NEW t \in Threads, NEW w \in DOMAIN wraps, NEW next, CloseWrapper(t, w, next)
  PROVE  CloseEffect(t, w, next)
<1> DEFINE x == wraps[w].exe
           r == [exes[x] EXCEPT !.refs = @ - 1, !.held = @ /\ exes[x].refs # 1]
           q == [wraps[w] EXCEPT !.open = FALSE, !.holder = IF LastClose(w) THEN t ELSE None]
<1>1. exes[x] \in Exe /\ wraps[w] \in Wrap /\ x \in DOMAIN exes
  BY Records
<1>2. r \in Exe /\ q \in Wrap
  <2>1. (exes[x].held /\ exes[x].refs # 1) \in BOOLEAN /\ exes[x].refs - 1 \in Int
    BY <1>1 DEF Exe
  <2>2. (IF LastClose(w) THEN t ELSE None) \in Threads \cup {None}
    OBVIOUS
  <2>3. r \in Exe
    BY <1>1, <2>1 DEF Exe
  <2>4. q \in Wrap
    BY <1>1, <2>2 DEF Wrap
  <2>5. QED
    BY <2>3, <2>4
<1>3. Released(x) = [exes EXCEPT ![x] = r] /\ Released(x)[x] = r
  <2>1. Released(x) = [exes EXCEPT ![x] = r]
    BY DEF Released
  <2>2. QED
    BY <1>1, <1>2, <2>1, ExeUpdate
<1>4. (Closing(w) /\ exes[x].held /\ ~Released(x)[x].held) = LastClose(w)
  BY <1>1, <1>3 DEF Closing, LastClose, Exe
<1>5. /\ wraps[w].holder = None
      /\ exes' = IF Closing(w) THEN Released(x) ELSE exes
      /\ wraps' = [wraps EXCEPT ![w] = q]
      /\ mine' = [mine EXCEPT ![t] = IF LastClose(w) THEN w ELSE @]
      /\ pc' = [pc EXCEPT ![t] = IF LastClose(w) THEN "release" ELSE next]
  BY <1>4 DEF CloseWrapper, Goto
<1>6. /\ exes' \in Seq(Exe) /\ DOMAIN exes' = DOMAIN exes
      /\ \A y \in DOMAIN exes :
           exes'[y] = IF wraps[w].open /\ y = x THEN r ELSE exes[y]
  BY <1>1, <1>2, <1>3, <1>5, ExeUpdate DEF Closing, Shape
<1>7. /\ wraps' \in Seq(Wrap) /\ DOMAIN wraps' = DOMAIN wraps /\ Len(wraps') = Len(wraps)
      /\ \A v \in DOMAIN wraps : wraps'[v] = IF v = w THEN q ELSE wraps[v]
  BY <1>2, <1>5, WrapUpdate
<1>8. QED
  BY ZenonT(30), <1>5, <1>6, <1>7 DEF CloseEffect
-----------------------------------------------------------------------------
(* Publishing an entry: what is evicted and who closes it                  *)

\* The entry _evict takes out when one more is retained.
Oldest == IF Len(lru) = MaxEntries THEN {Head(lru)} ELSE {}

Queued(e)  == Append(lru, e)
Evicted(e) == SubSeq(Queued(e), 1, Excess(Queued(e)))
Kept(e)    == SubSeq(Queued(e), Excess(Queued(e)) + 1, Len(Queued(e)))

\* Appending an entry to _lru and evicting the excess leaves the younger
\* entries and the new one.
LEMMA EvictFacts ==
  ASSUME lru \in Seq(Nat), Retained, NEW e \in Nat, e \notin ToSet(lru)
  PROVE  /\ Evicted(e) = IF Len(lru) = MaxEntries THEN <<Head(lru)>> ELSE <<>>
         /\ Kept(e) \in Seq(Nat) /\ Len(Kept(e)) <= MaxEntries /\ IsInjective(Kept(e))
         /\ ToSet(Kept(e)) = (ToSet(lru) \ Oldest) \cup {e}
         /\ e \in ToSet(Kept(e)) /\ e \notin Oldest
<1> DEFINE all  == Queued(e)
           out  == Evicted(e)
           kept == Kept(e)
<1>1. /\ all \in Seq(Nat) /\ Len(all) = Len(lru) + 1 /\ all # <<>>
      /\ Len(lru) \in Nat /\ MaxEntries \in Nat /\ MaxEntries > 0 /\ Len(lru) <= MaxEntries
      /\ ToSet(all) = ToSet(lru) \cup {e} /\ IsInjective(all)
  BY AppendProperties, AppendNew, LenProperties, CacheAssumption DEF Retained, Queued
<1>2. CASE Len(lru) = MaxEntries
  <2>1. lru # <<>> /\ IsInjective(lru)
    BY <1>1, <1>2, EmptySeq DEF Retained
  <2>2. /\ Append(Tail(lru), e) \in Seq(Nat) /\ Len(Append(Tail(lru), e)) = Len(lru)
        /\ IsInjective(Append(Tail(lru), e))
        /\ ToSet(Append(Tail(lru), e)) = (ToSet(lru) \ {Head(lru)}) \cup {e}
        /\ SubSeq(all, 2, Len(lru) + 1) = Append(Tail(lru), e)
        /\ SubSeq(all, 1, 1) = <<Head(lru)>>
    BY <2>1, ShiftProperties DEF Queued
  <2>3. Excess(all) = 1
    BY <1>1, <1>2 DEF Excess
  <2>4. out = <<Head(lru)>> /\ kept = Append(Tail(lru), e)
    BY <1>1, <2>2, <2>3 DEF Evicted, Kept
  <2>5. Oldest = {Head(lru)} /\ e \notin Oldest
    <3>1. Head(lru) \in ToSet(lru)
      BY <2>1, TailProperties
    <3>2. QED
      BY <1>2, <3>1 DEF Oldest
  <2>6. /\ out = IF Len(lru) = MaxEntries THEN <<Head(lru)>> ELSE <<>>
        /\ kept \in Seq(Nat) /\ Len(kept) <= MaxEntries /\ IsInjective(kept)
        /\ ToSet(kept) = (ToSet(lru) \ Oldest) \cup {e}
        /\ e \in ToSet(kept) /\ e \notin Oldest
    <3> HIDE DEF out, kept
    <3>1. ToSet(kept) = (ToSet(lru) \ Oldest) \cup {e} /\ e \in ToSet(kept)
      BY <2>2, <2>4, <2>5
    <3>2. kept \in Seq(Nat) /\ Len(kept) <= MaxEntries /\ IsInjective(kept)
      BY <1>1, <2>2, <2>4
    <3>3. QED
      BY <1>2, <2>4, <2>5, <3>1, <3>2
  <2>7. QED
    BY <2>6
<1>3. CASE Len(lru) # MaxEntries
  <2>1. Excess(all) = 0
    BY <1>1, <1>3 DEF Excess
  <2>2. out = <<>> /\ kept = all
    BY <1>1, <2>1, SubSeqEmpty, SubSeqFull DEF Evicted, Kept
  <2>3. QED
    BY <1>1, <1>3, <2>2 DEF Oldest
<1>4. QED
  BY <1>2, <1>3

\* What Publish(t, usable) does, for the thread's entry e and its kernel w.
PublishEffect(t, usable, e, w) ==
  /\ e \in DOMAIN entries /\ e \in filed /\ e \notin ToSet(lru) /\ e \notin Oldest
  /\ w \in DOMAIN wraps /\ Oldest \subseteq ToSet(lru)
  /\ entries' \in Seq(Entry) /\ DOMAIN entries' = DOMAIN entries
  /\ \A k \in DOMAIN entries :
       entries'[k] =
         IF k \in Oldest THEN [entries[k] EXCEPT !.kernel = 0, !.state = "evicted"]
         ELSE IF k = e
           THEN [entries[k] EXCEPT !.kernel = w, !.state = IF usable THEN "ready" ELSE "failed"]
           ELSE entries[k]
  /\ filed' = filed \ (Oldest \cup (IF usable THEN {} ELSE {e}))
  /\ lru' \in Seq(Nat) /\ Len(lru') <= MaxEntries /\ IsInjective(lru')
  /\ ToSet(lru') = (ToSet(lru) \ Oldest) \cup (IF usable THEN {e} ELSE {})
  /\ \E s \in Seq(Nat) :
       /\ stale' = [stale EXCEPT ![t] = s]
       /\ ToSet(s) = {entries[k].kernel : k \in Oldest} \cup (IF usable THEN {} ELSE {w})
  /\ IF usable
       THEN /\ exes' = Leased(wraps[w].exe, exes)
            /\ wraps' = Append(wraps, NewWrap(wraps[w].exe))
            /\ handed' = handed \cup {Len(wraps) + 1}
       ELSE UNCHANGED <<exes, wraps, handed>>

LEMMA PublishFacts ==
  ASSUME CacheInv, NEW t \in Threads, NEW usable \in BOOLEAN, Publish(t, usable)
  PROVE  PublishEffect(t, usable, mine[t], result[t])
<1> DEFINE e == mine[t]
           w == result[t]
           out  == Evicted(e)
           kept == Kept(e)
           ready == [entries EXCEPT ![e].kernel = w, ![e].state = IF usable THEN "ready" ELSE "failed"]
<1>1. /\ pc[t] = "publish" /\ e \in filed /\ e \in DOMAIN entries /\ entries[e].state = "pending"
      /\ w \in DOMAIN wraps /\ e \notin ToSet(lru) /\ e \in Nat
  BY DEF Publish, CacheInv, Registers, RegistersOf, Retained, Shape
<1>2. /\ out = IF Len(lru) = MaxEntries THEN <<Head(lru)>> ELSE <<>>
      /\ kept \in Seq(Nat) /\ Len(kept) <= MaxEntries /\ IsInjective(kept)
      /\ ToSet(kept) = (ToSet(lru) \ Oldest) \cup {e}
      /\ e \in ToSet(kept) /\ e \notin Oldest
  BY <1>1, EvictFacts DEF CacheInv, Shape
<1> HIDE DEF out, kept
<1>3. ToSet(out) = Oldest
  BY <1>2 DEF ToSet, Oldest
<1>4. Oldest \subseteq ToSet(lru) /\ ToSet(lru) \subseteq DOMAIN entries
  <2>1. ASSUME Len(lru) = MaxEntries PROVE Head(lru) \in ToSet(lru)
    <3>1. lru \in Seq(Nat) /\ lru # <<>>
      BY <2>1, CacheAssumption, EmptySeq DEF CacheInv, Shape
    <3>2. QED
      BY <3>1, TailProperties
  <2>2. QED
    BY <2>1 DEF Oldest, CacheInv, Retained, Shape
<1>5. /\ DOMAIN ready = DOMAIN entries
      /\ \A k \in DOMAIN entries :
           ready[k] = IF k = e
             THEN [entries[k] EXCEPT !.kernel = w, !.state = IF usable THEN "ready" ELSE "failed"]
             ELSE entries[k]
  BY <1>1
<1> HIDE DEF ready
<1>6. /\ entries' = [k \in DOMAIN ready |->
                       IF k \in ToSet(out) THEN [ready[k] EXCEPT !.kernel = 0, !.state = "evicted"]
                       ELSE ready[k]]
      /\ filed' = filed \ (ToSet(out) \cup (IF usable THEN {} ELSE {e}))
      /\ lru' = IF usable THEN kept ELSE RemoveFirst(kept, e)
      /\ stale' = [stale EXCEPT ![t] = Orphans(out, ready, usable, w)]
      /\ IF usable
           THEN /\ exes' = Leased(wraps[w].exe, exes)
                /\ wraps' = Append(wraps, NewWrap(wraps[w].exe))
                /\ handed' = handed \cup {Len(wraps) + 1}
           ELSE UNCHANGED <<exes, wraps, handed>>
  BY DEF Publish, out, kept, Evicted, Kept, Queued, ready
<1>7. /\ DOMAIN entries' = DOMAIN entries
      /\ \A k \in DOMAIN entries :
           entries'[k] =
             IF k \in Oldest THEN [entries[k] EXCEPT !.kernel = 0, !.state = "evicted"]
             ELSE IF k = e
               THEN [entries[k] EXCEPT !.kernel = w, !.state = IF usable THEN "ready" ELSE "failed"]
               ELSE entries[k]
  BY <1>2, <1>3, <1>5, <1>6
<1>8. entries' \in Seq(Entry)
  <2>1. \A k \in DOMAIN entries : entries'[k] \in Entry
    <3> SUFFICES ASSUME NEW k \in DOMAIN entries PROVE entries'[k] \in Entry
      OBVIOUS
    <3>1. entries[k] \in Entry /\ w \in Nat
      BY <1>1, Records DEF CacheInv
    <3>2. (IF usable THEN "ready" ELSE "failed") \in {"pending", "ready", "failed", "evicted"}
      OBVIOUS
    <3>3. /\ [entries[k] EXCEPT !.kernel = 0, !.state = "evicted"] \in Entry
          /\ [entries[k] EXCEPT !.kernel = w, !.state = IF usable THEN "ready" ELSE "failed"] \in Entry
      BY <3>1, <3>2 DEF Entry
    <3>4. QED
      BY <1>7, <3>1, <3>3
  <2>2. DOMAIN entries = 1 .. Len(entries) /\ Len(entries) \in Nat
    BY Records DEF CacheInv
  <2>3. entries' \in [1 .. Len(entries) -> Entry]
    BY <1>6, <1>7, <2>1, <2>2
  <2>4. QED
    BY <2>2, <2>3, SeqDef
<1>9. /\ lru' \in Seq(Nat) /\ Len(lru') <= MaxEntries /\ IsInjective(lru')
      /\ ToSet(lru') = (ToSet(lru) \ Oldest) \cup (IF usable THEN {e} ELSE {})
  <2>1. CASE usable
    BY <1>2, <1>6, <2>1
  <2>2. CASE ~usable
    <3>1. /\ RemoveFirst(kept, e) \in Seq(Nat) /\ Len(RemoveFirst(kept, e)) = Len(kept) - 1
          /\ ToSet(RemoveFirst(kept, e)) = ToSet(kept) \ {e} /\ IsInjective(RemoveFirst(kept, e))
      BY <1>2, RemoveFirstProperties
    <3>2. Len(kept) \in Nat /\ MaxEntries \in Nat
      BY <1>2, LenProperties, CacheAssumption
    <3>3. lru' = RemoveFirst(kept, e)
      BY <1>6, <2>2
    <3>4. ((ToSet(lru) \ Oldest) \cup {e}) \ {e} = ToSet(lru) \ Oldest
      BY <1>1
    <3>5. Len(lru') <= MaxEntries
      BY <1>2, <3>1, <3>2, <3>3
    <3>6. ToSet(lru') = ToSet(lru) \ Oldest
      BY <1>2, <3>1, <3>3, <3>4
    <3>7. QED
      BY <2>2, <3>1, <3>3, <3>5, <3>6
  <2>3. QED
    BY <2>1, <2>2
<1>10. /\ Orphans(out, ready, usable, w) \in Seq(Nat)
       /\ ToSet(Orphans(out, ready, usable, w)) =
            {entries[k].kernel : k \in Oldest} \cup (IF usable THEN {} ELSE {w})
  <2> DEFINE f == [i \in DOMAIN out |-> ready[out[i]].kernel]
             g == IF usable THEN <<>> ELSE <<w>>
  <2>1. w \in Nat /\ g \in Seq(Nat) /\ ToSet(g) = IF usable THEN {} ELSE {w}
    <3>1. w \in Nat
      BY <1>1, Records DEF CacheInv
    <3>2. QED
      BY <3>1 DEF ToSet
  <2>2. f \in Seq(Nat) /\ ToSet(f) = {entries[k].kernel : k \in Oldest}
    <3>1. CASE Len(lru) = MaxEntries
      <4>1. out = <<Head(lru)>> /\ Oldest = {Head(lru)} /\ Head(lru) \in DOMAIN entries /\ Head(lru) # e
        BY <1>2, <1>4, <3>1 DEF Oldest
      <4>2. ready[Head(lru)] = entries[Head(lru)] /\ entries[Head(lru)].kernel \in Nat
        BY <1>5, <4>1, Records DEF CacheInv, Entry
      <4>3. DOMAIN out = 1 .. 1 /\ out[1] = Head(lru)
        BY <4>1
      <4>4. f = [i \in 1 .. 1 |-> entries[Head(lru)].kernel]
        BY <4>2, <4>3
      <4>5. f \in [1 .. 1 -> Nat]
        BY <4>2, <4>4
      <4>6. f \in Seq(Nat)
        BY <4>5, SeqDef
      <4>7. ToSet(f) = {entries[Head(lru)].kernel}
        BY <4>4 DEF ToSet
      <4>8. QED
        BY <4>1, <4>6, <4>7
    <3>2. CASE Len(lru) # MaxEntries
      <4>1. out = <<>> /\ Oldest = {}
        BY <1>2, <3>2 DEF Oldest
      <4>2. f = <<>>
        BY <4>1
      <4>3. QED
        BY <4>1, <4>2 DEF ToSet
    <3>3. QED
      BY <3>1, <3>2
  <2> HIDE DEF f, g
  <2>3. f \o g \in Seq(Nat) /\ Range(f \o g) = Range(f) \cup Range(g)
    BY <2>1, <2>2, ConcatProperties, RangeConcatenation
  <2>4. \A s : ToSet(s) = Range(s)
    BY DEF ToSet, Range
  <2>5. Orphans(out, ready, usable, w) = f \o g
    BY DEF Orphans, f, g
  <2>6. QED
    BY <2>1, <2>2, <2>3, <2>4, <2>5
<1>11. QED
  BY <1>1, <1>2, <1>3, <1>4, <1>6, <1>7, <1>8, <1>9, <1>10 DEF PublishEffect
-----------------------------------------------------------------------------
(* Every step keeps the cache's part of the invariant                      *)

\* Thread s keeps its registers; a sleeper may be woken.
SameThread(s) ==
  /\ pc'[s] = pc[s] \/ (pc[s] = "asleep" /\ pc'[s] = "lookup")
  /\ mine'[s] = mine[s] /\ want'[s] = want[s]
  /\ result'[s] = result[s] /\ stale'[s] = stale[s]

\* A thread that does not move keeps its registers' meaning, as long as its
\* pending entry stays filed and the wrapper it holds stays held.
LEMMA RegistersStep ==
  ASSUME Registers, NEW t \in Threads,
         \A s \in Threads : s # t => SameThread(s),
         DOMAIN wraps \subseteq DOMAIN wraps',
         \A s \in Threads : s # t =>
           \A w \in DOMAIN wraps : wraps[w].holder = s => wraps'[w].holder = s,
         \A s \in Threads : s # t /\ pc[s] \in {"compile", "publish"} =>
           mine[s] \in filed' /\ entries'[mine[s]] = entries[mine[s]],
         RegistersOf(t)'
  PROVE  Registers'
<1> SUFFICES ASSUME NEW s \in Threads, s # t PROVE RegistersOf(s)'
  BY DEF Registers
<1>1. RegistersOf(s) /\ SameThread(s)
  BY DEF Registers
<1>2. QED
  BY <1>1 DEF RegistersOf, SameThread

\* A step that neither files nor publishes, keeps the private wrappers
\* private, and opens nothing.
LEMMA QuietStep ==
  ASSUME Shape, Filing, Retained, Owners, Owned, NEW t \in Threads,
         UNCHANGED <<entries, filed, lru, handed>>,
         DOMAIN wraps' = DOMAIN wraps,
         \A w \in DOMAIN wraps :
           wraps'[w].exe = wraps[w].exe /\ (wraps'[w].open => wraps[w].open),
         \A x \in DOMAIN exes : exes'[x].id = exes[x].id,
         Private \subseteq Private',
         \A s \in Threads : \A w \in ToSet(stale[s]) : wraps'[w].open => w \in ToSet(stale'[s]),
         \A s \in Threads : s # t => pc'[s] = pc[s] /\ mine'[s] = mine[s]
                                     /\ want'[s] = want[s] /\ result'[s] = result[s],
         pc[t] \notin {"compile", "publish"}, pc'[t] \notin {"compile", "publish"}
  PROVE  Filing' /\ Retained' /\ Owners' /\ Owned'
<1>1. Kernels' = Kernels
  BY DEF Kernels
<1>2. Filing'
  <2>1. \A s \in Threads : pc'[s] \in {"compile", "publish"} =>
          pc[s] = pc'[s] /\ mine[s] = mine'[s]
    OBVIOUS
  <2>2. \A r, s \in Threads :
          r # s /\ {pc'[r], pc'[s]} \subseteq {"compile", "publish"} => mine'[r] # mine'[s]
    BY <2>1 DEF Filing
  <2>3. QED
    BY <2>2 DEF Filing
<1>3. Retained'
  BY DEF Retained
<1>4. \A w \in Private : w \in DOMAIN wraps /\ wraps[w].exe \in DOMAIN exes
  BY Records DEF Private
<1>5. Owners'
  <2>1. \A e \in ToSet(lru) :
          /\ entries[e].kernel \in Private'
          /\ exes'[wraps'[entries[e].kernel].exe].id = entries[e].id
    BY <1>4 DEF Owners
  <2>2. \A s \in Threads : pc'[s] = "publish" =>
          s # t /\ pc[s] = "publish" /\ result[s] \in Private /\ result[s] \notin Kernels
          /\ exes[wraps[result[s]].exe].id = want[s]
    BY DEF Owners
  <2>3. \A s \in Threads : pc'[s] = "publish" =>
          /\ result'[s] \in Private' /\ result'[s] \notin Kernels'
          /\ exes'[wraps'[result'[s]].exe].id = want'[s]
    BY <1>1, <1>4, <2>2
  <2>4. \A r, s \in Threads :
          r # s /\ pc'[r] = "publish" /\ pc'[s] = "publish" => result'[r] # result'[s]
    BY <2>2 DEF Owners
  <2>5. \A d, e \in ToSet(lru) : entries[d].kernel = entries[e].kernel => d = e
    BY DEF Owners
  <2>6. QED
    BY <2>1, <2>3, <2>4, <2>5 DEF Owners
<1>6. Owned'
  <2> SUFFICES ASSUME NEW w \in DOMAIN wraps, wraps'[w].open, w \notin handed, w \notin Kernels
               PROVE  \E s \in Threads : w \in ToSet(stale'[s]) \/ (pc'[s] = "publish" /\ result'[s] = w)
    BY <1>1 DEF Owned
  <2>1. PICK s \in Threads : w \in ToSet(stale[s]) \/ (pc[s] = "publish" /\ result[s] = w)
    BY DEF Owned
  <2>2. QED
    BY <2>1
<1>7. QED
  BY <1>2, <1>3, <1>5, <1>6

\* get_or_compile begins.
LEMMA CallStep ==
  ASSUME CacheInv, NEW t \in Threads, Call(t)
  PROVE  CacheInv'
<1>1. /\ UNCHANGED <<entries, filed, lru, exes, wraps, handed, mine, stale, result>>
      /\ pc[t] = "idle" /\ pc' = [pc EXCEPT ![t] = "lookup"]
      /\ \E id \in Ids : want' = [want EXCEPT ![t] = id]
  BY DEF Call, Goto, cacheVars
<1>2. Shape'
  BY <1>1 DEF CacheInv, Shape, Labels
<1>3. Registers'
  <2>1. \A s \in Threads : s # t => SameThread(s)
    BY <1>1 DEF CacheInv, Shape, SameThread
  <2>2. RegistersOf(t)'
    BY <1>1 DEF CacheInv, Shape, Registers, RegistersOf
  <2>3. \A s \in Threads : pc[s] \in {"compile", "publish"} => mine[s] \in filed
    BY DEF CacheInv, Registers, RegistersOf
  <2>4. QED
    BY <1>1, <2>1, <2>2, <2>3, RegistersStep DEF CacheInv
<1>4. Filing' /\ Retained' /\ Owners' /\ Owned'
  <2>1. Private \subseteq Private'
    BY <1>1 DEF Private
  <2>2. QED
    BY <1>1, <2>1, QuietStep DEF CacheInv, Shape
<1>5. QED
  BY <1>2, <1>3, <1>4 DEF CacheInv

\* get_or_compile returns.
LEMMA ReturnStep ==
  ASSUME CacheInv, NEW t \in Threads, Return(t)
  PROVE  CacheInv'
<1>1. /\ UNCHANGED <<entries, filed, lru, exes, wraps, handed, want, mine, stale>>
      /\ pc[t] = "closing" /\ pc' = [pc EXCEPT ![t] = "idle"] /\ stale[t] = <<>>
      /\ result' = [result EXCEPT ![t] = None]
  BY DEF Return, Goto, cacheVars
<1>2. Shape'
  BY <1>1 DEF CacheInv, Shape, Labels
<1>3. Registers'
  <2>1. \A s \in Threads : s # t => SameThread(s)
    BY <1>1 DEF CacheInv, Shape, SameThread
  <2>2. RegistersOf(t)'
    BY <1>1 DEF CacheInv, Shape, Registers, RegistersOf
  <2>3. \A s \in Threads : pc[s] \in {"compile", "publish"} => mine[s] \in filed
    BY DEF CacheInv, Registers, RegistersOf
  <2>4. QED
    BY <1>1, <2>1, <2>2, <2>3, RegistersStep DEF CacheInv
<1>4. Filing' /\ Retained' /\ Owners' /\ Owned'
  <2>1. Private \subseteq Private'
    BY <1>1 DEF Private
  <2>2. QED
    BY <1>1, <2>1, QuietStep DEF CacheInv, Shape
<1>5. QED
  BY <1>2, <1>3, <1>4 DEF CacheInv

\* A waiter goes to sleep on an entry's condition.
LEMMA JoinStep ==
  ASSUME CacheInv, NEW t \in Threads, pc[t] = "lookup", NEW e \in filed, Join(t, e),
         UNCHANGED <<want, stale, result>>
  PROVE  CacheInv'
<1>1. /\ UNCHANGED <<entries, filed, lru, exes, wraps, handed, want, stale, result>>
      /\ pc' = [pc EXCEPT ![t] = "asleep"] /\ mine' = [mine EXCEPT ![t] = e]
  BY DEF Join, Goto, cacheVars
<1>2. Shape'
  <2>1. e \in Nat
    BY Records DEF CacheInv, Shape
  <2>2. QED
    BY <1>1, <2>1 DEF CacheInv, Shape, Labels
<1>3. Registers'
  <2>1. \A s \in Threads : s # t => SameThread(s)
    BY <1>1 DEF CacheInv, Shape, SameThread
  <2>2. RegistersOf(t)'
    BY <1>1 DEF CacheInv, Shape, Registers, RegistersOf
  <2>3. \A s \in Threads : pc[s] \in {"compile", "publish"} => mine[s] \in filed
    BY DEF CacheInv, Registers, RegistersOf
  <2>4. QED
    BY <1>1, <2>1, <2>2, <2>3, RegistersStep DEF CacheInv
<1>4. Filing' /\ Retained' /\ Owners' /\ Owned'
  <2>1. Private \subseteq Private'
    BY <1>1 DEF Private
  <2>2. QED
    BY <1>1, <2>1, QuietStep DEF CacheInv, Shape
<1>5. QED
  BY <1>2, <1>3, <1>4 DEF CacheInv

\* The native entry and exit, the native release, and invoke's lock: a step
\* that changes one executable's counts and one wrapper's holder.
LEMMA NativeStep ==
  ASSUME CacheInv, NEW t \in Threads, NEW w \in DOMAIN wraps,
         NEW r \in Exe, r.id = exes[wraps[w].exe].id,
         exes' = [exes EXCEPT ![wraps[w].exe] = r],
         NEW h \in {t, None}, wraps[w].holder \in {t, None},
         wraps' = [wraps EXCEPT ![w] = [wraps[w] EXCEPT !.holder = h]],
         UNCHANGED <<entries, filed, lru, handed, want, stale, result>>,
         NEW m \in Nat, mine' = [mine EXCEPT ![t] = m],
         NEW l \in Labels, pc' = [pc EXCEPT ![t] = l],
         pc[t] \in {"idle", "enter", "native", "release"},
         \/ l \in {"enter", "native"} /\ m = w /\ h = t /\ result[t] = None
         \/ l = "idle" /\ result[t] = None
         \/ l = "closing" /\ pc[t] = "release" /\ result[t] # None
  PROVE  CacheInv'
<1> DEFINE q == [wraps[w] EXCEPT !.holder = h]
<1>1. /\ wraps[w] \in Wrap /\ wraps[w].exe \in DOMAIN exes /\ q \in Wrap
      /\ q.exe = wraps[w].exe /\ q.open = wraps[w].open /\ q.holder = h
  <2>1. wraps[w] \in Wrap /\ wraps[w].exe \in DOMAIN exes
    BY Records DEF CacheInv
  <2>2. QED
    BY <2>1 DEF Wrap
<1> HIDE DEF q
<1>2. /\ exes' \in Seq(Exe) /\ DOMAIN exes' = DOMAIN exes
      /\ \A x \in DOMAIN exes : exes'[x].id = exes[x].id
  BY <1>1, ExeUpdate DEF CacheInv
<1>3. /\ wraps' \in Seq(Wrap) /\ DOMAIN wraps' = DOMAIN wraps /\ Len(wraps') = Len(wraps)
      /\ \A v \in DOMAIN wraps : wraps'[v] = IF v = w THEN q ELSE wraps[v]
  BY <1>1, WrapUpdate DEF CacheInv, q
<1>4. \A v \in DOMAIN wraps : wraps'[v].exe = wraps[v].exe /\ wraps'[v].open = wraps[v].open
  BY <1>1, <1>3
<1>5. Shape'
  BY <1>2, <1>3, <1>4 DEF CacheInv, Shape
<1>6. Registers'
  <2>1. \A s \in Threads : s # t => SameThread(s)
    BY DEF CacheInv, Shape, SameThread
  <2>2. RegistersOf(t)'
    <3>1. /\ pc'[t] = l /\ mine'[t] = m /\ want'[t] = want[t] /\ result'[t] = result[t]
          /\ stale'[t] = stale[t] /\ wraps'[w].holder = h
      BY <1>1, <1>3 DEF CacheInv, Shape
    <3>2. RegistersOf(t)
      BY DEF CacheInv, Registers
    <3>3. QED
      BY <1>3, <3>1, <3>2 DEF RegistersOf
  <2>3. \A s \in Threads : pc[s] \in {"compile", "publish"} => mine[s] \in filed
    BY DEF CacheInv, Registers, RegistersOf
  <2>4. \A s \in Threads : s # t =>
          \A v \in DOMAIN wraps : wraps[v].holder = s => wraps'[v].holder = s
    BY <1>3, CacheAssumption
  <2>5. QED
    BY <1>3, <2>1, <2>2, <2>3, <2>4, RegistersStep DEF CacheInv
<1>7. Filing' /\ Retained' /\ Owners' /\ Owned'
  <2>1. Private \subseteq Private'
    BY <1>3, <1>4 DEF Private
  <2>2. QED
    BY ZenonT(30), <1>2, <1>3, <1>4, <2>1, QuietStep DEF CacheInv, Shape
<1>8. QED
  BY <1>5, <1>6, <1>7 DEF CacheInv

\* invoke locks its wrapper.
LEMMA InvokeStep ==
  ASSUME CacheInv, NEW t \in Threads, Invoke(t)
  PROVE  CacheInv'
<1>1. PICK w \in handed :
        /\ wraps[w].holder = None
        /\ wraps' = [wraps EXCEPT ![w].holder = t] /\ mine' = [mine EXCEPT ![t] = w]
  BY DEF Invoke
<1>2. /\ w \in DOMAIN wraps /\ w \in Nat /\ exes[wraps[w].exe] \in Exe /\ wraps[w].exe \in DOMAIN exes
  BY Records DEF CacheInv, Shape
<1>3. exes' = [exes EXCEPT ![wraps[w].exe] = exes[wraps[w].exe]]
  BY <1>2 DEF Invoke, CacheInv, Shape
<1>4. wraps' = [wraps EXCEPT ![w] = [wraps[w] EXCEPT !.holder = t]]
  BY <1>1
<1>5. /\ UNCHANGED <<entries, filed, lru, handed, want, stale, result>>
      /\ pc' = [pc EXCEPT ![t] = "enter"] /\ pc[t] = "idle"
  BY DEF Invoke, Goto, cacheVars
<1>6. result[t] = None
  BY <1>5 DEF CacheInv, Registers, RegistersOf
<1>7. QED
  BY <1>1, <1>2, <1>3, <1>4, <1>5, <1>6, NativeStep DEF Labels

\* The wrapper a thread holds, and its executable.
LEMMA HeldWrapper ==
  ASSUME CacheInv, NEW t \in Threads, pc[t] \in {"enter", "native", "release"}
  PROVE  /\ mine[t] \in DOMAIN wraps /\ mine[t] \in Nat /\ wraps[mine[t]].holder = t
         /\ wraps[mine[t]] \in Wrap /\ wraps[mine[t]].exe \in DOMAIN exes
         /\ exes[wraps[mine[t]].exe] \in Exe
         /\ pc[t] # "release" => result[t] = None
BY Records DEF CacheInv, Registers, RegistersOf

\* Counts are integers whatever the step does to them.
LEMMA ExeCounts ==
  ASSUME NEW e \in Exe, NEW n \in Int, NEW c \in Int
  PROVE  [e EXCEPT !.native = n, !.calls = c] \in Exe /\ [e EXCEPT !.native = n, !.calls = c].id = e.id
BY DEF Exe

\* The native entry counts one call and one reference more.
LEMMA EnterStep ==
  ASSUME CacheInv, NEW t \in Threads, EnterNative(t)
  PROVE  CacheInv'
<1> DEFINE w == mine[t]
           x == wraps[w].exe
           r == [exes[x] EXCEPT !.native = exes[x].native + 1, !.calls = exes[x].calls + 1]
<1>1. /\ pc[t] = "enter" /\ w \in DOMAIN wraps /\ w \in Nat /\ wraps[w].holder = t
      /\ wraps[w] \in Wrap /\ exes[x] \in Exe /\ x \in DOMAIN exes /\ result[t] = None
  BY HeldWrapper DEF EnterNative
<1>2. r \in Exe /\ r.id = exes[x].id
  <2>1. exes[x].native + 1 \in Int /\ exes[x].calls + 1 \in Int
    BY <1>1 DEF Exe
  <2>2. QED
    BY ZenonT(30), <1>1, <2>1, ExeCounts
<1>3. exes' = [exes EXCEPT ![x] = r]
  BY <1>1 DEF EnterNative
<1>4. wraps' = [wraps EXCEPT ![w] = [wraps[w] EXCEPT !.holder = t]]
  BY <1>1 DEF EnterNative, Wrap, CacheInv, Shape
<1>5. /\ UNCHANGED <<entries, filed, lru, handed, want, stale, result>>
      /\ mine' = [mine EXCEPT ![t] = w] /\ pc' = [pc EXCEPT ![t] = "native"]
  BY DEF EnterNative, Goto, cacheVars, callVars, CacheInv, Shape
<1> HIDE DEF r, w
<1>6. QED
  BY <1>1, <1>2, <1>3, <1>4, <1>5, NativeStep DEF Labels

\* The native exit drops them again and unlocks the wrapper.
LEMMA LeaveStep ==
  ASSUME CacheInv, NEW t \in Threads, LeaveNative(t)
  PROVE  CacheInv'
<1> DEFINE w == mine[t]
           x == wraps[w].exe
           r == [exes[x] EXCEPT !.native = exes[x].native - 1, !.calls = exes[x].calls - 1]
<1>1. /\ pc[t] = "native" /\ w \in DOMAIN wraps /\ w \in Nat /\ wraps[w].holder = t
      /\ wraps[w] \in Wrap /\ exes[x] \in Exe /\ x \in DOMAIN exes /\ result[t] = None
  BY HeldWrapper DEF LeaveNative
<1>2. r \in Exe /\ r.id = exes[x].id
  <2>1. exes[x].native - 1 \in Int /\ exes[x].calls - 1 \in Int
    BY <1>1 DEF Exe
  <2>2. QED
    BY ZenonT(30), <1>1, <2>1, ExeCounts
<1>3. exes' = [exes EXCEPT ![x] = r]
  BY <1>1 DEF LeaveNative, Dropped
<1>4. wraps' = [wraps EXCEPT ![w] = [wraps[w] EXCEPT !.holder = None]]
  BY <1>1 DEF LeaveNative
<1>5. /\ UNCHANGED <<entries, filed, lru, handed, want, stale, result>>
      /\ mine' = [mine EXCEPT ![t] = w] /\ pc' = [pc EXCEPT ![t] = "idle"]
  BY DEF LeaveNative, Goto, cacheVars, callVars, CacheInv, Shape
<1> HIDE DEF r, w
<1>6. QED
  BY <1>1, <1>2, <1>3, <1>4, <1>5, NativeStep DEF Labels

\* native_release drops the owner's reference and unlocks the wrapper.
LEMMA ReleaseStep ==
  ASSUME CacheInv, NEW t \in Threads, NativeRelease(t)
  PROVE  CacheInv'
<1> DEFINE w == mine[t]
           x == wraps[w].exe
           r == [exes[x] EXCEPT !.native = @ - 1]
           l == IF result[t] # None THEN "closing" ELSE "idle"
<1>1. /\ pc[t] = "release" /\ w \in DOMAIN wraps /\ w \in Nat /\ wraps[w].holder = t
      /\ wraps[w] \in Wrap /\ exes[x] \in Exe /\ x \in DOMAIN exes
  BY HeldWrapper DEF NativeRelease
<1>2. r \in Exe /\ r.id = exes[x].id
  BY <1>1 DEF Exe
<1>3. exes' = [exes EXCEPT ![x] = r]
  BY <1>1 DEF NativeRelease, Dropped
<1>4. wraps' = [wraps EXCEPT ![w] = [wraps[w] EXCEPT !.holder = None]]
  BY <1>1 DEF NativeRelease
<1>5. /\ UNCHANGED <<entries, filed, lru, handed, want, stale, result>>
      /\ mine' = [mine EXCEPT ![t] = w] /\ pc' = [pc EXCEPT ![t] = l]
  BY DEF NativeRelease, Goto, cacheVars, callVars, CacheInv, Shape
<1>6. /\ l \in Labels
      /\ (l = "idle" /\ result[t] = None) \/ (l = "closing" /\ result[t] # None)
  BY DEF Labels
<1> HIDE DEF r, w, l
<1>7. QED
  BY <1>1, <1>2, <1>3, <1>4, <1>5, <1>6, NativeStep

\* A wrapper that is not private is closed, by its caller or by the thread
\* that evicted it.
LEMMA CloseStep ==
  ASSUME CacheInv, NEW t \in Threads, NEW w \in DOMAIN wraps, w \notin Private,
         NEW next \in {"idle", "closing"}, pc[t] = next,
         CloseWrapper(t, w, next), w \notin Kernels,
         UNCHANGED <<entries, filed, lru, handed, want, result>>,
         NEW s \in Seq(Nat), stale' = [stale EXCEPT ![t] = s],
         ToSet(s) \subseteq ToSet(stale[t]), ToSet(stale[t]) \subseteq ToSet(s) \cup {w},
         s # <<>> => stale[t] # <<>>
  PROVE  CacheInv'
<1>0. CloseEffect(t, w, next)
  BY CloseFacts DEF CacheInv
<1>1. /\ exes' \in Seq(Exe) /\ DOMAIN exes' = DOMAIN exes
      /\ \A x \in DOMAIN exes : exes'[x].id = exes[x].id
  <2>1. \A x \in DOMAIN exes : exes[x] \in Exe
    BY Records DEF CacheInv
  <2>2. QED
    <3>1. ASSUME NEW x \in DOMAIN exes PROVE exes'[x].id = exes[x].id
      <4>1. CASE wraps[w].open /\ x = wraps[w].exe
        <5>1. exes'[x] = [exes[x] EXCEPT !.refs = @ - 1, !.held = @ /\ exes[x].refs # 1]
          BY <1>0, <4>1 DEF CloseEffect
        <5>2. QED
          BY <2>1, <5>1 DEF Exe
      <4>2. CASE ~(wraps[w].open /\ x = wraps[w].exe)
        BY <1>0, <4>2 DEF CloseEffect
      <4>3. QED
        BY <4>1, <4>2
    <3>2. QED
      BY <1>0, <3>1 DEF CloseEffect
<1>2. /\ wraps' \in Seq(Wrap) /\ DOMAIN wraps' = DOMAIN wraps /\ Len(wraps') = Len(wraps)
      /\ wraps[w].holder = None
      /\ \A v \in DOMAIN wraps : v # w => wraps'[v] = wraps[v]
      /\ wraps'[w].exe = wraps[w].exe /\ ~wraps'[w].open
      /\ LastClose(w) => wraps'[w].holder = t
  <2>1. wraps[w] \in Wrap
    BY Records DEF CacheInv
  <2>2. QED
    BY <1>0, <2>1 DEF CloseEffect, Wrap
<1>3. /\ mine' = [mine EXCEPT ![t] = IF LastClose(w) THEN w ELSE @]
      /\ pc' = [pc EXCEPT ![t] = IF LastClose(w) THEN "release" ELSE next]
  BY <1>0 DEF CloseEffect
<1>4. w \in Nat
  BY Records DEF CacheInv
<1>5. Shape'
  BY <1>1, <1>2, <1>3, <1>4 DEF CacheInv, Shape, Labels
<1>6. Registers'
  <2>1. \A u \in Threads : u # t => SameThread(u)
    BY <1>3 DEF CacheInv, Shape, SameThread
  <2>2. RegistersOf(t)'
    <3>1. /\ pc'[t] = (IF LastClose(w) THEN "release" ELSE next)
          /\ mine'[t] = (IF LastClose(w) THEN w ELSE mine[t])
          /\ stale'[t] = s /\ result'[t] = result[t]
      BY <1>3 DEF CacheInv, Shape
    <3>2. RegistersOf(t)
      BY DEF CacheInv, Registers
    <3>3. QED
      BY <1>2, <3>1, <3>2 DEF RegistersOf
  <2>3. \A u \in Threads : pc[u] \in {"compile", "publish"} => mine[u] \in filed
    BY DEF CacheInv, Registers, RegistersOf
  <2>4. \A u \in Threads : \A v \in DOMAIN wraps : wraps[v].holder = u => wraps'[v].holder = u
    BY <1>2, CacheAssumption
  <2>5. QED
    BY <1>2, <2>1, <2>2, <2>3, <2>4, RegistersStep DEF CacheInv
<1>7. Filing' /\ Retained' /\ Owners' /\ Owned'
  <2>1. \A u \in Threads : ToSet(stale'[u]) \subseteq ToSet(stale[u])
    BY DEF CacheInv, Shape
  <2>2. Private \subseteq Private'
    BY <1>2, <2>1 DEF Private
  <2>3. \A u \in Threads : \A v \in ToSet(stale[u]) : wraps'[v].open => v \in ToSet(stale'[u])
    BY SMTT(30), <1>2 DEF CacheInv, Shape
  <2>4. \A v \in DOMAIN wraps : wraps'[v].exe = wraps[v].exe /\ (wraps'[v].open => wraps[v].open)
    BY <1>2
  <2>5. \A u \in Threads : u # t => pc'[u] = pc[u] /\ mine'[u] = mine[u]
                                    /\ want'[u] = want[u] /\ result'[u] = result[u]
    BY <1>3 DEF CacheInv, Shape
  <2>6. pc[t] \notin {"compile", "publish"} /\ pc'[t] \notin {"compile", "publish"}
    BY <1>3 DEF CacheInv, Shape
  <2>7. QED
    BY <1>1, <1>2, <2>2, <2>3, <2>4, <2>5, <2>6, QuietStep DEF CacheInv
<1>8. QED
  BY <1>5, <1>6, <1>7 DEF CacheInv

\* A caller closes a lease.
LEMMA CallerCloseStep ==
  ASSUME CacheInv, NEW t \in Threads, Close(t)
  PROVE  CacheInv'
<1>1. PICK w \in handed : CloseWrapper(t, w, "idle")
  BY DEF Close
<1>2. /\ w \in DOMAIN wraps /\ w \notin Private /\ w \notin Kernels
  BY DEF CacheInv, Shape, Owners, Private, Kernels
<1>3. stale[t] \in Seq(Nat) /\ stale' = [stale EXCEPT ![t] = stale[t]] /\ pc[t] = "idle"
  BY DEF Close, CacheInv, Shape
<1>4. UNCHANGED <<entries, filed, lru, handed, want, result>>
  BY DEF Close, cacheVars
<1>5. QED
  BY <1>1, <1>2, <1>3, <1>4, CloseStep

\* The loop closes the next evicted owner.
LEMMA CloseStaleStep ==
  ASSUME CacheInv, NEW t \in Threads, CloseStale(t)
  PROVE  CacheInv'
<1> DEFINE w == Head(stale[t])
           s == Tail(stale[t])
<1>1. /\ pc[t] = "closing" /\ stale[t] # <<>> /\ CloseWrapper(t, w, "closing")
      /\ stale' = [stale EXCEPT ![t] = s]
      /\ UNCHANGED <<entries, filed, lru, handed, want, result>>
  BY DEF CloseStale, cacheVars
<1>2. stale[t] \in Seq(Nat) /\ ToSet(stale[t]) \subseteq DOMAIN wraps
  BY DEF CacheInv, Shape, Registers, RegistersOf
<1>3. s \in Seq(Nat) /\ ToSet(stale[t]) = ToSet(s) \cup {w}
  BY <1>1, <1>2, TailProperties
<1> HIDE DEF w, s
<1>4. w \in DOMAIN wraps /\ w \notin Private /\ w \notin Kernels
  BY <1>2, <1>3 DEF CacheInv, Owners, Private, Kernels
<1>5. QED
  BY <1>1, <1>3, <1>4, CloseStep

\* A miss files a pending entry of its own.
LEMMA BeginStep ==
  ASSUME CacheInv, NEW t \in Threads, pc[t] = "lookup", Find(want[t]) = {}, Begin(t),
         UNCHANGED <<want, stale, result>>
  PROVE  CacheInv'
<1> DEFINE n == Len(entries) + 1
           new == [id |-> want[t], state |-> "pending", kernel |-> 0]
<1>1. want[t] \in Ids
  BY DEF CacheInv, Registers, RegistersOf
<1>2. new \in Entry /\ new.state = "pending" /\ new.id = want[t] /\ new.kernel = 0
  BY <1>1 DEF Entry
<1>3. /\ entries' = Append(entries, new) /\ filed' = filed \cup {n}
      /\ mine' = [mine EXCEPT ![t] = n] /\ pc' = [pc EXCEPT ![t] = "compile"]
      /\ UNCHANGED <<lru, exes, wraps, handed, want, stale, result>>
  BY DEF Begin, Goto
<1> HIDE DEF new
<1>4. /\ entries' \in Seq(Entry) /\ n \in Nat /\ n \notin DOMAIN entries
      /\ DOMAIN entries' = DOMAIN entries \cup {n} /\ entries'[n] = new
      /\ \A e \in DOMAIN entries : entries'[e] = entries[e]
  BY <1>2, <1>3, AppendProperties, LenProperties DEF CacheInv, Shape
<1> HIDE DEF n
<1>5. /\ filed \subseteq DOMAIN entries /\ n \notin filed /\ n \notin ToSet(lru)
      /\ ToSet(lru) \subseteq filed /\ \A e \in ToSet(lru) : entries'[e] = entries[e]
  BY <1>4 DEF CacheInv, Shape, Retained
<1>6. Shape'
  <2>1. \A e \in DOMAIN entries' : entries'[e].kernel \in 0 .. Len(wraps)
    <3>1. Len(wraps) \in Nat
      BY Records DEF CacheInv
    <3>2. QED
      BY <1>2, <1>4, <3>1 DEF CacheInv, Shape
  <2>2. QED
    BY <1>3, <1>4, <2>1 DEF CacheInv, Shape, Labels
<1>7. Registers'
  <2>1. \A s \in Threads : s # t => SameThread(s)
    BY <1>3 DEF CacheInv, Shape, SameThread
  <2>2. RegistersOf(t)'
    BY ZenonT(30), <1>1, <1>2, <1>3, <1>4 DEF CacheInv, Shape, Registers, RegistersOf
  <2>3. \A s \in Threads : pc[s] \in {"compile", "publish"} =>
          mine[s] \in filed' /\ entries'[mine[s]] = entries[mine[s]]
    BY <1>3, <1>4, <1>5 DEF CacheInv, Registers, RegistersOf
  <2>4. QED
    BY <1>3, <2>1, <2>2, <2>3, RegistersStep DEF CacheInv
<1>8. Filing'
  <2>1. \A e \in filed : entries[e].id # want[t]
    BY DEF Find
  <2>2. \A d, e \in filed' : entries'[d].id = entries'[e].id => d = e
    BY <1>2, <1>3, <1>4, <1>5, <2>1 DEF CacheInv, Filing
  <2>3. \A e \in filed' : entries'[e].state = "pending" \/ e \in ToSet(lru')
    BY <1>2, <1>3, <1>4, <1>5 DEF CacheInv, Filing
  <2>4. \A s \in Threads : s # t =>
          pc'[s] = pc[s] /\ mine'[s] = mine[s] /\ (pc[s] \in {"compile", "publish"} => mine[s] # n)
    BY <1>3, <1>5 DEF CacheInv, Shape, Registers, RegistersOf
  <2>5. mine'[t] = n /\ pc'[t] = "compile"
    BY <1>3 DEF CacheInv, Shape
  <2>6. \A r, s \in Threads :
          r # s /\ {pc'[r], pc'[s]} \subseteq {"compile", "publish"} => mine'[r] # mine'[s]
    BY <2>4, <2>5 DEF CacheInv, Filing
  <2>7. QED
    BY <2>2, <2>3, <2>6 DEF Filing
<1>9. Retained'
  BY <1>3, <1>5 DEF CacheInv, Retained
<1>10. Kernels' = Kernels /\ Private' = Private
  BY <1>3, <1>5 DEF Kernels, Private
<1>11. \A s \in Threads : (pc'[s] = "publish") = (pc[s] = "publish")
  BY <1>3 DEF CacheInv, Shape
<1>12. Owners'
  BY <1>3, <1>5, <1>10, <1>11 DEF CacheInv, Owners
<1>13. Owned'
  BY <1>3, <1>10, <1>11 DEF CacheInv, Owned
<1>14. QED
  BY <1>6, <1>7, <1>8, <1>9, <1>12, <1>13 DEF CacheInv

\* A failed compilation takes its entry away and wakes the waiters.
LEMMA FailStep ==
  ASSUME CacheInv, NEW t \in Threads, CompileFail(t)
  PROVE  CacheInv'
<1> DEFINE e == mine[t]
           new == [entries[e] EXCEPT !.state = "failed"]
<1>1. /\ pc[t] = "compile" /\ e \in filed /\ e \in DOMAIN entries
      /\ entries[e] \in Entry /\ entries[e].state = "pending" /\ e \notin ToSet(lru)
  BY Records DEF CompileFail, CacheInv, Registers, RegistersOf, Shape, Retained
<1>2. new \in Entry /\ new.kernel = entries[e].kernel
  BY <1>1 DEF Entry
<1>3. /\ entries' = [entries EXCEPT ![e] = new] /\ filed' = filed \ {e}
      /\ UNCHANGED <<lru, exes, wraps, handed, want, mine, stale, result>>
      /\ pc' = Notified(e, [pc EXCEPT ![t] = "idle"])
  BY DEF CompileFail, callVars
<1> HIDE DEF new, e
<1>4. /\ entries' \in Seq(Entry) /\ DOMAIN entries' = DOMAIN entries
      /\ \A d \in DOMAIN entries : entries'[d] = IF d = e THEN new ELSE entries[d]
  BY <1>1, <1>2, <1>3, ExceptSeq, LenProperties DEF CacheInv, Shape
<1>5. /\ pc' \in [Threads -> Labels] /\ pc'[t] = "idle"
      /\ \A s \in Threads : s # t => pc'[s] = pc[s] \/ (pc[s] = "asleep" /\ pc'[s] = "lookup")
  BY <1>1, <1>3 DEF Notified, CacheInv, Shape, Labels
<1>6. \A s \in Threads : pc'[s] \in {"compile", "publish"} => s # t /\ pc'[s] = pc[s]
  BY <1>5
<1>7. \A s \in Threads : s # t /\ pc[s] \in {"compile", "publish"} => mine[s] # e /\ mine[s] \in filed
  BY <1>1 DEF CacheInv, Filing, Registers, RegistersOf, e
<1>8. Shape'
  BY <1>1, <1>2, <1>3, <1>4, <1>5 DEF CacheInv, Shape
<1>9. Registers'
  <2>1. \A s \in Threads : s # t => SameThread(s)
    BY <1>3, <1>5 DEF SameThread
  <2>2. RegistersOf(t)'
    BY <1>1, <1>3, <1>5 DEF CacheInv, Registers, RegistersOf
  <2>3. \A s \in Threads : s # t /\ pc[s] \in {"compile", "publish"} =>
          mine[s] \in filed' /\ entries'[mine[s]] = entries[mine[s]]
    BY <1>3, <1>4, <1>7 DEF CacheInv, Shape
  <2>4. QED
    BY <1>3, <2>1, <2>2, <2>3, RegistersStep DEF CacheInv
<1>10. \A d \in filed' : d \in filed /\ entries'[d] = entries[d]
  BY <1>3, <1>4 DEF CacheInv, Shape
<1>11. Filing'
  <2>1. \A r, s \in Threads :
          r # s /\ {pc'[r], pc'[s]} \subseteq {"compile", "publish"} => mine'[r] # mine'[s]
    <3> SUFFICES ASSUME NEW r \in Threads, NEW s \in Threads, r # s,
                        pc'[r] \in {"compile", "publish"}, pc'[s] \in {"compile", "publish"}
                 PROVE  mine[r] # mine[s]
      BY <1>3
    <3>1. {pc[r], pc[s]} \subseteq {"compile", "publish"}
      BY <1>6
    <3>2. QED
      BY <3>1 DEF CacheInv, Filing
  <2>2. \A c, d \in filed' : entries'[c].id = entries'[d].id => c = d
    BY <1>10 DEF CacheInv, Filing
  <2>3. \A d \in filed' : entries'[d].state = "pending" \/ d \in ToSet(lru')
    BY <1>3, <1>10 DEF CacheInv, Filing
  <2>4. QED
    BY <2>1, <2>2, <2>3 DEF Filing
<1>12. \A d \in ToSet(lru) : d \in filed' /\ entries'[d] = entries[d]
  BY <1>1, <1>3, <1>10 DEF CacheInv, Retained
<1>13. Retained'
  BY <1>3, <1>12 DEF CacheInv, Retained
<1>14. Kernels' = Kernels /\ Private' = Private
  BY <1>3, <1>12 DEF Kernels, Private
<1>15. \A s \in Threads : (pc'[s] = "publish") = (pc[s] = "publish")
  BY <1>1, <1>5
<1>16. Owners'
  <2>1. \A d \in ToSet(lru') :
          /\ entries'[d].kernel \in Private'
          /\ exes'[wraps'[entries'[d].kernel].exe].id = entries'[d].id
    BY <1>3, <1>12, <1>14 DEF CacheInv, Owners
  <2>2. \A c, d \in ToSet(lru') : entries'[c].kernel = entries'[d].kernel => c = d
    BY <1>3, <1>12 DEF CacheInv, Owners
  <2>3. \A s \in Threads : pc'[s] = "publish" =>
          /\ result'[s] \in Private' /\ result'[s] \notin Kernels'
          /\ exes'[wraps'[result'[s]].exe].id = want'[s]
    BY <1>3, <1>14, <1>15 DEF CacheInv, Owners
  <2>4. \A r, s \in Threads :
          r # s /\ pc'[r] = "publish" /\ pc'[s] = "publish" => result'[r] # result'[s]
    BY <1>3, <1>15 DEF CacheInv, Owners
  <2>5. QED
    BY <2>1, <2>2, <2>3, <2>4 DEF Owners
<1>17. Owned'
  BY <1>3, <1>14, <1>15 DEF CacheInv, Owned
<1>18. QED
  BY <1>8, <1>9, <1>11, <1>13, <1>16, <1>17 DEF CacheInv

\* compile_fn returns a kernel that only its thread knows.
LEMMA CompileStep ==
  ASSUME CacheInv, NEW t \in Threads, Compile(t)
  PROVE  CacheInv'
<1> DEFINE n == Len(wraps) + 1
           x == Len(exes) + 1
           new == [id |-> want[t], refs |-> 1, held |-> TRUE, native |-> 1, calls |-> 0]
<1>1. pc[t] = "compile" /\ want[t] \in Ids /\ new \in Exe /\ new.id = want[t]
  BY DEF Compile, CacheInv, Registers, RegistersOf, Exe
<1>2. /\ exes' = Append(exes, new) /\ wraps' = Append(wraps, NewWrap(x))
      /\ result' = [result EXCEPT ![t] = n] /\ pc' = [pc EXCEPT ![t] = "publish"]
      /\ UNCHANGED <<entries, filed, lru, handed, want, mine, stale>>
  BY DEF Compile, Goto, cacheVars
<1> HIDE DEF new
<1>3. /\ exes' \in Seq(Exe) /\ x \in Nat /\ DOMAIN exes' = DOMAIN exes \cup {x}
      /\ x \notin DOMAIN exes /\ exes'[x] = new /\ \A y \in DOMAIN exes : exes'[y] = exes[y]
  BY <1>1, <1>2, AppendProperties, LenProperties DEF CacheInv, Shape
<1> HIDE DEF x
<1>4. /\ wraps' \in Seq(Wrap) /\ Len(wraps') = Len(wraps) + 1 /\ Len(wraps) \in Nat
      /\ DOMAIN wraps' = DOMAIN wraps \cup {n} /\ n \notin DOMAIN wraps /\ n \in Nat
      /\ \A v \in DOMAIN wraps : wraps'[v] = wraps[v]
      /\ wraps'[n] = NewWrap(x) /\ NewWrap(x).exe = x /\ NewWrap(x).open
  <2>1. [exe |-> x, open |-> TRUE, holder |-> None] \in Wrap
    BY <1>3 DEF Wrap
  <2>2. QED
    BY <1>2, <2>1, WrapAppend, Records DEF CacheInv, NewWrap
<1> HIDE DEF n
<1>5. Shape'
  <2>1. \A v \in DOMAIN wraps' : wraps'[v].exe \in DOMAIN exes'
    BY <1>3, <1>4 DEF CacheInv, Shape
  <2>2. \A e \in DOMAIN entries' : entries'[e].kernel \in 0 .. Len(wraps')
    BY <1>2, <1>4 DEF CacheInv, Shape
  <2>3. QED
    BY <1>2, <1>3, <1>4, <2>1, <2>2 DEF CacheInv, Shape, Labels
<1>6. pc'[t] = "publish" /\ result'[t] = n /\ \A s \in Threads : s # t => SameThread(s)
  BY <1>2 DEF CacheInv, Shape, SameThread
<1>7. Registers'
  <2>1. RegistersOf(t)'
    <3>1. n # None
      BY <1>4, CacheAssumption
    <3>2. QED
      BY <1>1, <1>2, <1>4, <1>6, <3>1 DEF CacheInv, Shape, Registers, RegistersOf
  <2>2. \A s \in Threads : pc[s] \in {"compile", "publish"} => mine[s] \in filed
    BY DEF CacheInv, Registers, RegistersOf
  <2>3. QED
    BY <1>2, <1>4, <1>6, <2>1, <2>2, RegistersStep DEF CacheInv
<1>8. \A s \in Threads : s # t => (pc'[s] = pc[s] \/ pc'[s] = "lookup") /\ result'[s] = result[s]
  BY <1>6 DEF SameThread
<1>9. Filing' /\ Retained'
  <2>1. \A s \in Threads : pc'[s] \in {"compile", "publish"} => pc[s] \in {"compile", "publish"}
    BY <1>1, <1>8
  <2>2. \A r, s \in Threads :
          r # s /\ {pc'[r], pc'[s]} \subseteq {"compile", "publish"} => mine'[r] # mine'[s]
    BY <1>2, <2>1 DEF CacheInv, Filing
  <2>3. QED
    BY <1>2, <2>2 DEF CacheInv, Filing, Retained
<1>10. Kernels' = Kernels /\ Private' = Private \cup {n} /\ n \notin Private
  <2>1. Kernels' = Kernels
    BY <1>2 DEF Kernels
  <2>2. n \notin handed /\ \A s \in Threads : n \notin ToSet(stale[s])
    BY <1>4 DEF CacheInv, Shape, Registers, RegistersOf
  <2>3. QED
    BY <1>2, <1>4, <2>1, <2>2 DEF Private
<1>11. \A v \in Private : v \in DOMAIN wraps /\ exes'[wraps'[v].exe] = exes[wraps[v].exe]
  BY <1>3, <1>4, Records DEF CacheInv, Private
<1>12. Owners'
  <2>1. \A e \in ToSet(lru') :
          /\ entries'[e].kernel \in Private'
          /\ exes'[wraps'[entries'[e].kernel].exe].id = entries'[e].id
    BY <1>2, <1>10, <1>11 DEF CacheInv, Owners
  <2>2. \A d, e \in ToSet(lru') : entries'[d].kernel = entries'[e].kernel => d = e
    BY <1>2 DEF CacheInv, Owners
  <2>3. ASSUME NEW s \in Threads, pc'[s] = "publish"
        PROVE  /\ result'[s] \in Private' /\ result'[s] \notin Kernels'
               /\ exes'[wraps'[result'[s]].exe].id = want'[s]
    <3>1. CASE s = t
      <4>1. n \notin Kernels
        BY <1>10 DEF CacheInv, Owners, Kernels
      <4>2. exes'[wraps'[n].exe].id = want[t]
        BY <1>1, <1>3, <1>4
      <4>3. result'[t] = n /\ want'[t] = want[t] /\ n \in Private'
        BY <1>2, <1>6, <1>10
      <4>4. /\ result'[t] \in Private' /\ result'[t] \notin Kernels'
            /\ exes'[wraps'[result'[t]].exe].id = want'[t]
        BY <1>10, <4>1, <4>2, <4>3
      <4>5. QED
        BY <3>1, <4>4
    <3>2. CASE s # t
      <4>1. pc[s] = "publish" /\ result'[s] = result[s] /\ want'[s] = want[s]
        BY <1>2, <1>8, <2>3, <3>2
      <4>2. /\ result[s] \in Private /\ result[s] \notin Kernels
            /\ exes[wraps[result[s]].exe].id = want[s]
        BY <4>1 DEF CacheInv, Owners
      <4>3. QED
        BY <1>10, <1>11, <4>1, <4>2
    <3>3. QED
      BY <3>1, <3>2
  <2>4. ASSUME NEW r \in Threads, NEW s \in Threads, r # s, pc'[r] = "publish", pc'[s] = "publish"
        PROVE  result'[r] # result'[s]
    <3>1. \A u \in Threads : u # t /\ pc'[u] = "publish" =>
            pc[u] = "publish" /\ result'[u] = result[u] /\ result[u] \in Private
      BY <1>8 DEF CacheInv, Owners
    <3>2. QED
      BY <1>6, <1>10, <2>4, <3>1 DEF CacheInv, Owners
  <2>5. QED
    BY <2>1, <2>2, <2>3, <2>4 DEF Owners
<1>13. Owned'
  <2> SUFFICES ASSUME NEW v \in DOMAIN wraps', wraps'[v].open, v \notin handed, v \notin Kernels
               PROVE  \E s \in Threads : v \in ToSet(stale'[s]) \/ (pc'[s] = "publish" /\ result'[s] = v)
    BY <1>2, <1>10 DEF Owned
  <2>1. CASE v = n
    BY <1>6, <2>1
  <2>2. CASE v \in DOMAIN wraps
    <3>1. PICK s \in Threads : v \in ToSet(stale[s]) \/ (pc[s] = "publish" /\ result[s] = v)
      BY <1>4, <2>2 DEF CacheInv, Owned
    <3>2. s = t => v \in ToSet(stale[s])
      BY <1>1, <3>1
    <3>3. s # t /\ pc[s] = "publish" => pc'[s] = "publish" /\ result'[s] = result[s]
      BY <1>2 DEF CacheInv, Shape
    <3>4. QED
      BY <1>2, <3>1, <3>2, <3>3
  <2>3. QED
    BY <1>4, <2>1, <2>2
<1>14. QED
  BY <1>5, <1>7, <1>9, <1>12, <1>13 DEF CacheInv

\* A hit moves its entry to the young end and leases its kernel.
LEMMA HitStep ==
  ASSUME CacheInv, NEW t \in Threads, pc[t] = "lookup", NEW e \in filed, Hit(t, e),
         UNCHANGED <<want, stale, result>>
  PROVE  CacheInv'
<1> DEFINE n == Len(wraps) + 1
           x == wraps[entries[e].kernel].exe
<1>1. e \in ToSet(lru) /\ entries[e].kernel \in Private /\ e \in Nat
  <2>1. e \in ToSet(lru)
    BY DEF Hit, CacheInv, Filing
  <2>2. QED
    BY <2>1, Records DEF CacheInv, Owners, Shape
<1>2. /\ exes' = Leased(x, exes) /\ wraps' = Append(wraps, NewWrap(x))
      /\ handed' = handed \cup {n} /\ lru' = Append(RemoveFirst(lru, e), e)
      /\ pc' = [pc EXCEPT ![t] = "idle"]
      /\ UNCHANGED <<entries, filed, mine, want, stale, result>>
  BY DEF Hit, Goto, Without
<1>3. x \in DOMAIN exes
  BY <1>1, Records DEF CacheInv, Private
<1> HIDE DEF x
<1>4. /\ exes' \in Seq(Exe) /\ DOMAIN exes' = DOMAIN exes
      /\ \A y \in DOMAIN exes : exes'[y].id = exes[y].id
      /\ [exe |-> x, open |-> TRUE, holder |-> None] \in Wrap
  BY <1>2, <1>3, LeaseFacts DEF CacheInv
<1>5. /\ wraps' \in Seq(Wrap) /\ Len(wraps') = Len(wraps) + 1 /\ Len(wraps) \in Nat
      /\ DOMAIN wraps' = DOMAIN wraps \cup {n} /\ n \notin DOMAIN wraps
      /\ \A v \in DOMAIN wraps : wraps'[v] = wraps[v]
      /\ wraps'[n] = NewWrap(x) /\ NewWrap(x).exe = x
  BY <1>2, <1>4, WrapAppend, Records DEF CacheInv, NewWrap
<1> HIDE DEF n
<1>6. /\ lru' \in Seq(Nat) /\ Len(lru') = Len(lru) /\ ToSet(lru') = ToSet(lru) /\ IsInjective(lru')
  <2> DEFINE rest == RemoveFirst(lru, e)
  <2>1. /\ rest \in Seq(Nat) /\ Len(rest) = Len(lru) - 1 /\ IsInjective(rest)
        /\ ToSet(rest) = ToSet(lru) \ {e} /\ Len(lru) \in Nat
    BY <1>1, RemoveFirstProperties, Records DEF CacheInv, Shape, Retained
  <2> HIDE DEF rest
  <2>2. /\ Append(rest, e) \in Seq(Nat) /\ Len(Append(rest, e)) = Len(rest) + 1
        /\ ToSet(Append(rest, e)) = ToSet(rest) \cup {e} /\ IsInjective(Append(rest, e))
    <3>1. e \notin ToSet(rest)
      BY <2>1
    <3>2. QED
      BY <1>1, <2>1, <3>1, AppendNew, AppendProperties
  <2>3. QED
    BY <1>1, <1>2, <2>1, <2>2 DEF rest
<1>7. Shape'
  <2>1. \A v \in DOMAIN wraps' : wraps'[v].exe \in DOMAIN exes'
    BY <1>3, <1>4, <1>5 DEF CacheInv, Shape
  <2>2. \A d \in DOMAIN entries' : entries'[d].kernel \in 0 .. Len(wraps')
    BY <1>2, <1>5 DEF CacheInv, Shape
  <2>3. QED
    BY <1>2, <1>4, <1>5, <1>6, <2>1, <2>2 DEF CacheInv, Shape, Labels
<1>8. Registers'
  <2>1. \A s \in Threads : s # t => SameThread(s)
    BY <1>2 DEF CacheInv, Shape, SameThread
  <2>2. RegistersOf(t)'
    BY ZenonT(30), <1>2, <1>5 DEF CacheInv, Shape, Registers, RegistersOf
  <2>3. \A s \in Threads : pc[s] \in {"compile", "publish"} => mine[s] \in filed
    BY DEF CacheInv, Registers, RegistersOf
  <2>4. QED
    BY <1>2, <1>5, <2>1, <2>2, <2>3, RegistersStep DEF CacheInv
<1>9. \A s \in Threads : s # t => pc'[s] = pc[s]
  BY <1>2 DEF CacheInv, Shape
<1>10. pc'[t] = "idle"
  BY <1>2 DEF CacheInv, Shape
<1>11. Filing' /\ Retained'
  <2>1. \A s \in Threads : pc'[s] \in {"compile", "publish"} => pc[s] \in {"compile", "publish"}
    BY <1>9, <1>10
  <2>2. \A r, s \in Threads :
          r # s /\ {pc'[r], pc'[s]} \subseteq {"compile", "publish"} => mine'[r] # mine'[s]
    BY <1>2, <2>1 DEF CacheInv, Filing
  <2>3. QED
    BY <1>2, <1>6, <2>2 DEF CacheInv, Filing, Retained
<1>12. Kernels' = Kernels /\ Private' = Private
  <2>1. Kernels' = Kernels
    BY <1>2, <1>6 DEF Kernels
  <2>2. QED
    BY <1>2, <1>5, <2>1 DEF Private
<1>13. \A v \in Private : exes'[wraps'[v].exe].id = exes[wraps[v].exe].id
  BY <1>4, <1>5, Records DEF CacheInv, Private
<1>14. Owners'
  <2>1. \A d \in ToSet(lru') :
          /\ entries'[d].kernel \in Private'
          /\ exes'[wraps'[entries'[d].kernel].exe].id = entries'[d].id
    BY <1>2, <1>6, <1>12, <1>13 DEF CacheInv, Owners
  <2>2. \A c, d \in ToSet(lru') : entries'[c].kernel = entries'[d].kernel => c = d
    BY <1>2, <1>6 DEF CacheInv, Owners
  <2>3. ASSUME NEW s \in Threads, pc'[s] = "publish"
        PROVE  /\ result'[s] \in Private' /\ result'[s] \notin Kernels'
               /\ exes'[wraps'[result'[s]].exe].id = want'[s]
    <3>1. pc[s] = "publish" /\ result'[s] = result[s] /\ want'[s] = want[s]
      BY <1>2, <1>9, <1>10, <2>3
    <3>2. /\ result[s] \in Private /\ result[s] \notin Kernels
          /\ exes[wraps[result[s]].exe].id = want[s]
      BY <3>1 DEF CacheInv, Owners
    <3>3. QED
      BY <1>12, <1>13, <3>1, <3>2
  <2>4. \A r, s \in Threads :
          r # s /\ pc'[r] = "publish" /\ pc'[s] = "publish" => result'[r] # result'[s]
    BY <1>2, <1>9, <1>10 DEF CacheInv, Owners
  <2>5. QED
    BY <2>1, <2>2, <2>3, <2>4 DEF Owners
<1>15. Owned'
  <2> SUFFICES ASSUME NEW v \in DOMAIN wraps, wraps[v].open, v \notin handed, v \notin Kernels
               PROVE  \E s \in Threads : v \in ToSet(stale'[s]) \/ (pc'[s] = "publish" /\ result'[s] = v)
    BY <1>2, <1>5, <1>12 DEF Owned
  <2>1. PICK s \in Threads : v \in ToSet(stale[s]) \/ (pc[s] = "publish" /\ result[s] = v)
    BY DEF CacheInv, Owned
  <2>2. pc[s] = "publish" => s # t
    OBVIOUS
  <2>3. QED
    BY <1>2, <1>9, <2>1, <2>2
<1>16. QED
  BY <1>7, <1>8, <1>11, <1>14, <1>15 DEF CacheInv

\* Publishing makes the entry ready, or takes it away; the oldest entry's
\* kernel and a kernel nobody can use go to the thread, which will close them.
LEMMA PublishStep ==
  ASSUME CacheInv, NEW t \in Threads, NEW usable \in BOOLEAN, Publish(t, usable)
  PROVE  CacheInv'
<1> DEFINE e == mine[t]
           w == result[t]
           x == wraps[w].exe
           n == Len(wraps) + 1
<1>0. PublishEffect(t, usable, e, w)
  BY PublishFacts
<1> HIDE DEF e, w
<1>1. /\ e \in DOMAIN entries /\ e \in filed /\ e \notin ToSet(lru) /\ e \notin Oldest
      /\ Oldest \subseteq ToSet(lru) /\ DOMAIN entries' = DOMAIN entries
      /\ filed' = filed \ (Oldest \cup (IF usable THEN {} ELSE {e}))
      /\ ToSet(lru') = (ToSet(lru) \ Oldest) \cup (IF usable THEN {e} ELSE {})
  BY <1>0 DEF PublishEffect
<1>2. PICK s \in Seq(Nat) : /\ stale' = [stale EXCEPT ![t] = s]
                            /\ ToSet(s) = {entries[k].kernel : k \in Oldest} \cup (IF usable THEN {} ELSE {w})
  BY <1>0 DEF PublishEffect
<1>3. /\ pc[t] = "publish" /\ pc' = Notified(e, [pc EXCEPT ![t] = "closing"])
      /\ UNCHANGED <<want, mine, result>>
  BY DEF Publish, e
<1>4. /\ pc' \in [Threads -> Labels] /\ pc'[t] = "closing"
      /\ \A u \in Threads : u # t => pc'[u] = pc[u] \/ (pc[u] = "asleep" /\ pc'[u] = "lookup")
  BY <1>3 DEF Notified, CacheInv, Shape, Labels
<1>5. w \in DOMAIN wraps /\ x \in DOMAIN exes /\ w \in Nat
  <2>1. w \in DOMAIN wraps
    BY <1>0 DEF PublishEffect
  <2>2. QED
    BY <2>1, Records DEF CacheInv
<1>6. /\ exes' \in Seq(Exe) /\ DOMAIN exes' = DOMAIN exes
      /\ \A y \in DOMAIN exes : exes'[y].id = exes[y].id
  <2>1. CASE usable
    <3>1. exes' = Leased(x, exes)
      BY <1>0, <2>1 DEF PublishEffect
    <3> HIDE DEF x
    <3>2. QED
      BY <1>5, <3>1, LeaseFacts DEF CacheInv
  <2>2. CASE ~usable
    BY <1>0, <2>2 DEF PublishEffect, CacheInv, Shape
  <2>3. QED
    BY <2>1, <2>2
<1>7. /\ wraps' \in Seq(Wrap) /\ Len(wraps) \in Nat /\ Len(wraps') \in Nat /\ Len(wraps) <= Len(wraps')
      /\ n \notin DOMAIN wraps
      /\ DOMAIN wraps \subseteq DOMAIN wraps' /\ DOMAIN wraps' \subseteq DOMAIN wraps \cup {n}
      /\ \A v \in DOMAIN wraps : wraps'[v] = wraps[v]
      /\ n \in DOMAIN wraps' => n \in handed' /\ wraps'[n].exe = x
      /\ handed \subseteq handed' /\ handed' \subseteq handed \cup {n} /\ handed' \subseteq DOMAIN wraps'
  <2>1. handed \subseteq DOMAIN wraps /\ wraps \in Seq(Wrap)
    BY DEF CacheInv, Shape
  <2>2. Len(wraps) \in Nat /\ n \notin DOMAIN wraps
    BY Records DEF CacheInv
  <2>3. CASE usable
    <3>1. [exe |-> x, open |-> TRUE, holder |-> None] \in Wrap /\ NewWrap(x).exe = x
      BY <1>5, LeaseFacts DEF CacheInv, NewWrap
    <3>2. /\ Append(wraps, NewWrap(x)) \in Seq(Wrap) /\ Len(Append(wraps, NewWrap(x))) = Len(wraps) + 1
          /\ DOMAIN Append(wraps, NewWrap(x)) = DOMAIN wraps \cup {n}
          /\ \A v \in DOMAIN wraps : Append(wraps, NewWrap(x))[v] = wraps[v]
          /\ Append(wraps, NewWrap(x))[n] = NewWrap(x)
      BY <3>1, WrapAppend DEF CacheInv
    <3>3. wraps' = Append(wraps, NewWrap(x)) /\ handed' = handed \cup {n}
      BY <1>0, <2>3 DEF PublishEffect
    <3> HIDE DEF n, x
    <3>4. QED
      BY <2>1, <2>2, <3>1, <3>2, <3>3
  <2>4. CASE ~usable
    <3>1. wraps' = wraps /\ handed' = handed
      BY <1>0, <2>4 DEF PublishEffect
    <3> HIDE DEF n, x
    <3>2. QED
      BY <2>1, <2>2, <3>1
  <2>5. QED
    BY <2>3, <2>4
<1> HIDE DEF n, x
\* The entries, field by field.
<1>8. /\ \A k \in DOMAIN entries : entries'[k].id = entries[k].id
      /\ \A k \in DOMAIN entries : k # e /\ k \notin Oldest => entries'[k] = entries[k]
      /\ entries'[e].kernel = w /\ (usable => entries'[e].state = "ready")
      /\ \A k \in DOMAIN entries : entries'[k].kernel \in {0, w, entries[k].kernel}
  <2>1. \A k \in DOMAIN entries : entries[k] \in Entry
    BY Records DEF CacheInv
  <2>2. QED
    BY <1>0, <2>1 DEF Entry, PublishEffect
<1>9. /\ ToSet(lru) \subseteq filed /\ filed \subseteq DOMAIN entries
      /\ \A k \in ToSet(lru) : entries[k].state = "ready"
  BY DEF CacheInv, Retained, Shape
<1>10. \A u \in Threads : u # t /\ pc[u] \in {"compile", "publish"} =>
         mine[u] \in filed' /\ entries'[mine[u]] = entries[mine[u]]
  <2> SUFFICES ASSUME NEW u \in Threads, u # t, pc[u] \in {"compile", "publish"}
               PROVE  mine[u] \in filed' /\ entries'[mine[u]] = entries[mine[u]]
    OBVIOUS
  <2>1. mine[u] \in filed /\ entries[mine[u]].state = "pending"
    BY DEF CacheInv, Registers, RegistersOf
  <2>2. mine[u] # e
    BY <1>3 DEF CacheInv, Filing, e
  <2>3. mine[u] \notin Oldest
    BY <1>1, <1>9, <2>1
  <2>4. QED
    BY <1>1, <1>8, <1>9, <2>1, <2>2, <2>3
<1>11. stale[t] = <<>> /\ stale'[t] = s /\ \A u \in Threads : u # t => stale'[u] = stale[u]
  <2>1. stale[t] = <<>>
    BY <1>3 DEF CacheInv, Registers, RegistersOf
  <2>2. QED
    BY <1>2, <2>1 DEF CacheInv, Shape
<1>12. Shape'
  <2>1. \A v \in DOMAIN wraps' : wraps'[v].exe \in DOMAIN exes'
    BY <1>5, <1>6, <1>7 DEF CacheInv, Shape
  <2>2. \A k \in DOMAIN entries' : entries'[k].kernel \in 0 .. Len(wraps')
    <3>1. DOMAIN wraps = 1 .. Len(wraps) /\ \A k \in DOMAIN entries : entries[k].kernel \in 0 .. Len(wraps)
      BY Records DEF CacheInv, Shape
    <3>2. 0 \in 0 .. Len(wraps) /\ w \in 0 .. Len(wraps) /\ 0 .. Len(wraps) \subseteq 0 .. Len(wraps')
      BY <1>5, <1>7, <3>1
    <3>3. QED
      BY <1>1, <1>8, <3>1, <3>2
  <2>3. filed' \subseteq DOMAIN entries'
    BY <1>1, <1>9
  <2>4. stale' \in [Threads -> Seq(Nat)]
    BY <1>2 DEF CacheInv, Shape
  <2>5. entries' \in Seq(Entry) /\ lru' \in Seq(Nat)
    BY <1>0 DEF PublishEffect
  <2>6. QED
    BY <1>3, <1>4, <1>6, <1>7, <2>1, <2>2, <2>3, <2>4, <2>5 DEF CacheInv, Shape
<1>13. ToSet(s) \subseteq DOMAIN wraps
  <2>1. \A k \in Oldest : entries[k].kernel \in DOMAIN wraps
    BY <1>1 DEF CacheInv, Owners, Private
  <2>2. QED
    BY <1>2, <1>5, <2>1
<1>14. Registers'
  <2>1. \A u \in Threads : u # t => SameThread(u)
    BY <1>3, <1>4, <1>11 DEF SameThread
  <2>2. RegistersOf(t)'
    <3>1. w # None /\ w \in DOMAIN wraps'
      BY <1>5, <1>7, CacheAssumption
    <3>2. result'[t] = w
      BY <1>3 DEF w
    <3>3. QED
      BY <1>4, <1>7, <1>11, <1>13, <3>1, <3>2 DEF RegistersOf
  <2>3. QED
    BY <1>7, <1>10, <2>1, <2>2, RegistersStep DEF CacheInv
<1>15. Filing'
  <2>1. \A u \in Threads : pc'[u] \in {"compile", "publish"} => u # t /\ pc'[u] = pc[u]
    BY <1>4
  <2>2. ASSUME NEW r \in Threads, NEW u \in Threads, r # u,
               {pc'[r], pc'[u]} \subseteq {"compile", "publish"}
        PROVE  mine'[r] # mine'[u]
    <3>1. {pc[r], pc[u]} \subseteq {"compile", "publish"}
      BY <2>1, <2>2
    <3>2. QED
      BY <1>3, <2>2, <3>1 DEF CacheInv, Filing
  <2>3. \A c, d \in filed' : entries'[c].id = entries'[d].id => c = d
    <3>1. filed' \subseteq filed /\ \A d \in filed' : entries'[d].id = entries[d].id
      BY <1>1, <1>8, <1>9
    <3>2. QED
      BY <3>1 DEF CacheInv, Filing
  <2>4. ASSUME NEW d \in filed' PROVE entries'[d].state = "pending" \/ d \in ToSet(lru')
    <3>1. d \in filed /\ d \notin Oldest /\ (d = e => usable)
      BY <1>1
    <3>2. CASE d = e
      BY <1>1, <3>1, <3>2
    <3>3. CASE d # e
      BY <1>1, <1>8, <1>9, <3>1, <3>3 DEF CacheInv, Filing
    <3>4. QED
      BY <3>2, <3>3
  <2>5. QED
    BY <2>2, <2>3, <2>4 DEF Filing
<1>16. Retained'
  <2>1. ASSUME NEW d \in ToSet(lru') PROVE d \in filed' /\ entries'[d].state = "ready"
    <3>1. CASE d = e
      <4>1. usable
        BY <1>1, <3>1
      <4>2. QED
        BY <1>1, <1>8, <3>1, <4>1
    <3>2. CASE d # e
      <4>1. d \in ToSet(lru) /\ d \notin Oldest
        BY <1>1, <3>2
      <4>2. QED
        BY <1>1, <1>8, <1>9, <3>2, <4>1
    <3>3. QED
      BY <3>1, <3>2
  <2>2. QED
    BY <1>0, <2>1 DEF Retained, PublishEffect
\* Who owns what.
<1>17. \A v \in Private : v \notin ToSet(s) => v \in Private'
  BY <1>7, <1>11 DEF Private
<1>18. \A v \in Private : exes'[wraps'[v].exe].id = exes[wraps[v].exe].id
  BY <1>6, <1>7, Records DEF CacheInv, Private
<1>19. ToSet(s) \subseteq Kernels \cup {w}
  BY <1>1, <1>2 DEF Kernels
<1>20. \A d \in ToSet(lru') : d # e =>
         /\ d \in ToSet(lru) /\ d \notin Oldest /\ entries'[d] = entries[d]
         /\ entries[d].kernel # w
  <2>1. w \notin Kernels
    BY <1>3 DEF CacheInv, Owners, w
  <2>2. QED
    BY <1>1, <1>8, <1>9, <2>1 DEF Kernels
<1>21. w \in Private /\ w \notin Kernels /\ exes[wraps[w].exe].id = entries[e].id
  BY <1>3 DEF CacheInv, Owners, Registers, RegistersOf, e, w
<1>22. Kernels' \subseteq Kernels \cup {w}
  BY <1>8, <1>20 DEF Kernels
<1>23. Owners'
  <2>1. ASSUME NEW d \in ToSet(lru')
        PROVE  /\ entries'[d].kernel \in Private'
               /\ exes'[wraps'[entries'[d].kernel].exe].id = entries'[d].id
    <3>1. CASE d = e
      <4>1. usable
        BY <1>1, <3>1
      <4>2. w \notin ToSet(s)
        BY <1>1, <1>2, <1>21, <4>1 DEF Kernels
      <4>3. QED
        BY <1>1, <1>8, <1>17, <1>18, <1>21, <3>1, <4>2
    <3>2. CASE d # e
      <4>1. d \in ToSet(lru) /\ d \notin Oldest /\ entries'[d] = entries[d] /\ entries[d].kernel # w
        BY <1>20, <3>2
      <4>2. /\ entries[d].kernel \in Private
            /\ exes[wraps[entries[d].kernel].exe].id = entries[d].id
            /\ \A k \in Oldest : entries[k].kernel # entries[d].kernel
        BY <1>1, <4>1 DEF CacheInv, Owners
      <4>3. entries[d].kernel \notin ToSet(s)
        BY <1>2, <4>1, <4>2
      <4>4. QED
        BY <1>17, <1>18, <4>1, <4>2, <4>3
    <3>3. QED
      BY <3>1, <3>2
  <2>2. \A c, d \in ToSet(lru') : entries'[c].kernel = entries'[d].kernel => c = d
    BY <1>8, <1>20 DEF CacheInv, Owners
  <2>3. \A u \in Threads : pc'[u] = "publish" =>
          /\ u # t /\ pc[u] = "publish" /\ result'[u] = result[u] /\ want'[u] = want[u]
          /\ result[u] \in Private /\ result[u] \notin Kernels /\ result[u] # w
          /\ exes[wraps[result[u]].exe].id = want[u]
    BY <1>3, <1>4 DEF CacheInv, Owners, w
  <2>4. \A u \in Threads : pc'[u] = "publish" =>
          /\ result'[u] \in Private' /\ result'[u] \notin Kernels'
          /\ exes'[wraps'[result'[u]].exe].id = want'[u]
    BY <1>17, <1>18, <1>19, <1>22, <2>3
  <2>5. \A r, u \in Threads :
          r # u /\ pc'[r] = "publish" /\ pc'[u] = "publish" => result'[r] # result'[u]
    BY <2>3 DEF CacheInv, Owners
  <2>6. QED
    BY <2>1, <2>2, <2>4, <2>5 DEF Owners
<1>24. Owned'
  <2> SUFFICES ASSUME NEW v \in DOMAIN wraps', wraps'[v].open, v \notin handed', v \notin Kernels'
               PROVE  \E u \in Threads : v \in ToSet(stale'[u]) \/ (pc'[u] = "publish" /\ result'[u] = v)
    BY DEF Owned
  <2>1. v \in DOMAIN wraps /\ wraps[v].open /\ v \notin handed
    BY <1>7
  <2>2. CASE v \in Kernels
    <3>1. PICK k \in ToSet(lru) : v = entries[k].kernel
      BY <2>2 DEF Kernels
    <3>2. k \in Oldest
      <4>1. ASSUME k \notin Oldest PROVE FALSE
        <5>1. k \in ToSet(lru') /\ entries'[k] = entries[k]
          BY <1>1, <1>8, <1>9, <4>1
        <5>2. QED
          BY <3>1, <5>1 DEF Kernels
      <4>2. QED
        BY <4>1
    <3>3. QED
      BY <1>2, <1>11, <3>1, <3>2
  <2>3. CASE v = w
    <3>1. ~usable
      <4>1. ASSUME usable PROVE FALSE
        <5>1. e \in ToSet(lru') /\ entries'[e].kernel = w
          BY <1>1, <1>8, <4>1
        <5>2. QED
          BY <2>3, <5>1 DEF Kernels
      <4>2. QED
        BY <4>1
    <3>2. QED
      BY <1>2, <1>11, <2>3, <3>1
  <2>4. CASE v \notin Kernels /\ v # w
    <3>1. PICK u \in Threads : v \in ToSet(stale[u]) \/ (pc[u] = "publish" /\ result[u] = v)
      BY <2>1, <2>4 DEF CacheInv, Owned
    <3>2. u # t
      BY <1>11, <2>4, <3>1 DEF ToSet, w
    <3>3. stale'[u] = stale[u] /\ (pc[u] = "publish" => pc'[u] = "publish") /\ result'[u] = result[u]
      BY <1>3, <1>4, <1>11, <3>2
    <3>4. QED
      BY <3>1, <3>3
  <2>5. QED
    BY <2>2, <2>3, <2>4
<1>25. QED
  BY <1>12, <1>14, <1>15, <1>16, <1>23, <1>24 DEF CacheInv

\* A lookup hits, joins a pending compilation, or begins one.
LEMMA LookupStep ==
  ASSUME CacheInv, NEW t \in Threads, Lookup(t)
  PROVE  CacheInv'
<1>1. pc[t] = "lookup" /\ UNCHANGED <<want, stale, result>>
  BY DEF Lookup
<1>2. CASE \E e \in Find(want[t]) : Hit(t, e) \/ Join(t, e)
  <2>1. PICK e \in filed : Hit(t, e) \/ Join(t, e)
    BY <1>2 DEF Find
  <2>2. QED
    BY <1>1, <2>1, HitStep, JoinStep
<1>3. CASE Find(want[t]) = {} /\ Begin(t)
  BY <1>1, <1>3, BeginStep
<1>4. QED
  BY <1>2, <1>3 DEF Lookup

\* Nothing is filed, compiled or owned at the start.
LEMMA CacheInit ==
  ASSUME Init
  PROVE  CacheInv
<1>1. /\ entries = <<>> /\ filed = {} /\ lru = <<>> /\ exes = <<>> /\ wraps = <<>> /\ handed = {}
      /\ \A t \in Threads : pc[t] = "idle" /\ result[t] = None /\ stale[t] = <<>>
  BY DEF Init
<1>2. Shape
  <2>1. pc \in [Threads -> Labels]
    BY DEF Init, Labels
  <2>2. want \in [Threads -> Ids \cup {None}] /\ mine \in [Threads -> Nat]
    BY DEF Init
  <2>3. result \in [Threads -> Nat \cup {None}] /\ stale \in [Threads -> Seq(Nat)]
    BY DEF Init
  <2>4. QED
    BY <1>1, <2>1, <2>2, <2>3 DEF Shape
<1>3. ToSet(lru) = {} /\ \A t \in Threads : ToSet(stale[t]) = {}
  BY <1>1 DEF ToSet
<1>4. Registers
  BY <1>1, <1>3 DEF Registers, RegistersOf
<1>5. Filing /\ Retained
  <2>1. Len(lru) = 0 /\ MaxEntries \in Nat /\ IsInjective(lru)
    BY <1>1, CacheAssumption DEF IsInjective
  <2>2. QED
    BY <1>1, <1>3, <2>1 DEF Filing, Retained
<1>6. Owners /\ Owned
  BY <1>1, <1>3 DEF Owners, Owned
<1>7. QED
  BY <1>2, <1>4, <1>5, <1>6 DEF CacheInv

\* Every step keeps the cache's part of the invariant.
LEMMA CacheNext ==
  ASSUME CacheInv, [Next]_vars
  PROVE  CacheInv'
<1>1. ASSUME NEW t \in Threads, Call(t) \/ Invoke(t) \/ Close(t) \/ Step(t)
      PROVE  CacheInv'
  <2>1. CASE Call(t)
    BY <2>1, CallStep
  <2>2. CASE Invoke(t)
    BY <2>2, InvokeStep
  <2>3. CASE Close(t)
    BY <2>3, CallerCloseStep
  <2>4. CASE Lookup(t)
    BY <2>4, LookupStep
  <2>5. CASE CompileFail(t)
    BY <2>5, FailStep
  <2>6. CASE Compile(t)
    BY <2>6, CompileStep
  <2>7. CASE Publish(t, TRUE)
    BY <2>7, PublishStep
  <2>8. CASE Publish(t, FALSE)
    BY <2>8, PublishStep
  <2>9. CASE CloseStale(t)
    BY <2>9, CloseStaleStep
  <2>10. CASE Return(t)
    BY <2>10, ReturnStep
  <2>11. CASE NativeRelease(t)
    BY <2>11, ReleaseStep
  <2>12. CASE EnterNative(t)
    BY <2>12, EnterStep
  <2>13. CASE LeaveNative(t)
    BY <2>13, LeaveStep
  <2>14. QED
    BY <1>1, <2>1, <2>2, <2>3, <2>4, <2>5, <2>6, <2>7, <2>8, <2>9, <2>10, <2>11, <2>12, <2>13
       DEF Step
<1>2. CASE UNCHANGED vars
  BY <1>2 DEF vars, cacheVars, callVars, CacheInv, Shape, Registers, RegistersOf, Filing, Retained,
              Owners, Owned, Private, Kernels
<1>3. QED
  BY <1>1, <1>2 DEF Next
-----------------------------------------------------------------------------
(* The reference counts                                                    *)

\* A thread that does not move, as far as the counts see it.
Elsewhere(s) ==
  /\ pc'[s] = pc[s] \/ (pc[s] = "asleep" /\ pc'[s] = "lookup")
  /\ mine'[s] = mine[s]

\* The other threads stay in the executables they are in.
LEMMA OthersStay ==
  ASSUME CacheInv, NEW t \in Threads, NEW x,
         \A s \in Threads : s # t => Elsewhere(s),
         \A w \in DOMAIN wraps : wraps'[w].exe = wraps[w].exe
  PROVE  /\ Running(x)' \ {t} = Running(x) \ {t}
         /\ Freeing(x)' \ {t} = Freeing(x) \ {t}
         /\ (t \in Running(x)) = (pc[t] = "native" /\ wraps[mine[t]].exe = x)
         /\ (t \in Freeing(x)) = (pc[t] = "release" /\ wraps[mine[t]].exe = x)
         /\ (t \in Running(x)') = (pc'[t] = "native" /\ wraps'[mine'[t]].exe = x)
         /\ (t \in Freeing(x)') = (pc'[t] = "release" /\ wraps'[mine'[t]].exe = x)
<1>1. ASSUME NEW s \in Threads, s # t, NEW l \in {"native", "release"}
      PROVE  (pc'[s] = l /\ wraps'[mine'[s]].exe = x) = (pc[s] = l /\ wraps[mine[s]].exe = x)
  <2>1. (pc'[s] = l) = (pc[s] = l) /\ mine'[s] = mine[s]
    BY <1>1 DEF Elsewhere
  <2>2. pc[s] = l => mine[s] \in DOMAIN wraps
    BY <1>1, HeldWrapper
  <2>3. QED
    BY <2>1, <2>2
<1>2. \A s \in Threads : s # t => (s \in Running(x)' <=> s \in Running(x))
  BY <1>1 DEF Running
<1>3. \A s \in Threads : s # t => (s \in Freeing(x)' <=> s \in Freeing(x))
  BY <1>1 DEF Freeing
<1>4. /\ Running(x) \subseteq Threads /\ Running(x)' \subseteq Threads
      /\ Freeing(x) \subseteq Threads /\ Freeing(x)' \subseteq Threads
  BY DEF Running, Freeing
<1>5. Running(x)' \ {t} = Running(x) \ {t}
  BY <1>2, <1>4
<1>6. Freeing(x)' \ {t} = Freeing(x) \ {t}
  BY <1>3, <1>4
<1>7. QED
  BY <1>5, <1>6 DEF Running, Freeing

\* The sets that are counted are finite.
LEMMA CountedFinite ==
  ASSUME Shape, NEW x
  PROVE  /\ IsFiniteSet(OpenWraps(x)) /\ Cardinality(OpenWraps(x)) \in Nat
         /\ IsFiniteSet(Running(x)) /\ Cardinality(Running(x)) \in Nat
<1>1. IsFiniteSet(DOMAIN wraps)
  BY Records, FS_Interval
<1>2. OpenWraps(x) \subseteq DOMAIN wraps /\ Running(x) \subseteq Threads
  BY DEF OpenWraps, Running
<1>3. IsFiniteSet(OpenWraps(x)) /\ IsFiniteSet(Running(x))
  BY <1>1, <1>2, FS_Subset, CacheAssumption
<1>4. QED
  BY <1>3, FS_CardinalityType

\* Sets that differ at most in t, which is in neither.
LEMMA SameBut ==
  ASSUME NEW S, NEW T, NEW t, S \ {t} = T \ {t}, t \notin S, t \notin T
  PROVE  S = T
OBVIOUS

\* One thread more, and one less.
LEMMA AddedOne ==
  ASSUME NEW S, NEW T, NEW t, S \ {t} = T \ {t}, t \in S, t \notin T, IsFiniteSet(T)
  PROVE  Cardinality(S) = Cardinality(T) + 1
<1>1. S = T \cup {t}
  OBVIOUS
<1>2. QED
  BY <1>1, FS_AddElement

\* Nothing about an executable changes.
LEMMA CountsKept ==
  ASSUME NEW x, CountsOf(x), exes'[x] = exes[x], OpenWraps(x)' = OpenWraps(x),
         Running(x)' = Running(x), Freeing(x)' = Freeing(x)
  PROVE  CountsOf(x)'
BY DEF CountsOf

\* A thread that holds a wrapper for an invocation still finds it open.
LEMMA InUseKept ==
  ASSUME CacheInv, InUse, NEW t \in Threads,
         \A s \in Threads : s # t => Elsewhere(s),
         \A s \in Threads : s # t => \A w \in DOMAIN wraps :
           wraps[w].holder = s /\ wraps[w].open => wraps'[w].open,
         pc'[t] \in {"enter", "native"} => wraps'[mine'[t]].open
  PROVE  InUse'
<1> SUFFICES ASSUME NEW s \in Threads, s # t, pc'[s] \in {"enter", "native"}
             PROVE  wraps'[mine'[s]].open
  BY DEF InUse
<1>1. pc[s] \in {"enter", "native"} /\ mine'[s] = mine[s]
  BY DEF Elsewhere
<1>2. mine[s] \in DOMAIN wraps /\ wraps[mine[s]].holder = s /\ wraps[mine[s]].open
  BY <1>1, HeldWrapper DEF InUse
<1>3. QED
  BY <1>1, <1>2

\* A step that neither opens nor closes a wrapper, outside the native code.
LEMMA QuietCounts ==
  ASSUME CacheInv, Counts, InUse, NEW t \in Threads,
         \A s \in Threads : s # t => Elsewhere(s),
         exes' = exes, DOMAIN wraps' = DOMAIN wraps,
         \A w \in DOMAIN wraps : wraps'[w].exe = wraps[w].exe /\ wraps'[w].open = wraps[w].open,
         pc[t] \notin {"native", "release"}, pc'[t] \notin {"native", "release"},
         pc'[t] = "enter" => wraps'[mine'[t]].open
  PROVE  Counts' /\ InUse'
<1>1. InUse'
  BY InUseKept
<1>2. ASSUME NEW x \in DOMAIN exes PROVE CountsOf(x)'
  <2>1. Running(x)' = Running(x) /\ Freeing(x)' = Freeing(x)
    <3>1. /\ Running(x)' \ {t} = Running(x) \ {t} /\ Freeing(x)' \ {t} = Freeing(x) \ {t}
          /\ t \notin Running(x) /\ t \notin Freeing(x)
          /\ t \notin Running(x)' /\ t \notin Freeing(x)'
      BY OthersStay
    <3>2. QED
      BY <3>1, SameBut
  <2>2. OpenWraps(x)' = OpenWraps(x)
    BY DEF OpenWraps
  <2>3. QED
    BY <2>1, <2>2, CountsKept DEF Counts
<1>3. QED
  BY <1>1, <1>2 DEF Counts

\* A lease is counted where it is taken.
LEMMA LeaseCounts ==
  ASSUME CacheInv, Counts, InUse, NEW t \in Threads,
         \A s \in Threads : s # t => Elsewhere(s),
         NEW v \in DOMAIN wraps, wraps[v].open,
         NEW y \in DOMAIN exes, wraps[v].exe = y, exes' = Leased(y, exes), wraps' = Append(wraps, NewWrap(y)),
         pc[t] \notin {"native", "release"}, pc'[t] \notin {"enter", "native", "release"}
  PROVE  Counts' /\ InUse'
<1> DEFINE n == Len(wraps) + 1
<1>1. /\ DOMAIN exes' = DOMAIN exes
      /\ \A x \in DOMAIN exes :
           exes'[x] = IF x = y THEN [exes[y] EXCEPT !.refs = @ + 1] ELSE exes[x]
      /\ [exe |-> y, open |-> TRUE, holder |-> None] \in Wrap
  BY LeaseFacts DEF CacheInv
<1>2. /\ DOMAIN wraps' = DOMAIN wraps \cup {n} /\ n \notin DOMAIN wraps
      /\ \A w \in DOMAIN wraps : wraps'[w] = wraps[w]
      /\ wraps'[n].exe = y /\ wraps'[n].open
  BY <1>1, WrapAppend DEF CacheInv, NewWrap
<1> HIDE DEF n
<1>3. InUse'
  BY <1>2, InUseKept
<1>4. ASSUME NEW x \in DOMAIN exes PROVE CountsOf(x)'
  <2>1. Running(x)' = Running(x) /\ Freeing(x)' = Freeing(x)
    <3>1. /\ Running(x)' \ {t} = Running(x) \ {t} /\ Freeing(x)' \ {t} = Freeing(x) \ {t}
          /\ t \notin Running(x) /\ t \notin Freeing(x)
          /\ t \notin Running(x)' /\ t \notin Freeing(x)'
      BY <1>2, OthersStay
    <3>2. QED
      BY <3>1, SameBut
  <2>2. CASE x # y
    <3>1. OpenWraps(x)' = OpenWraps(x)
      BY <1>2, <2>2 DEF OpenWraps
    <3>2. QED
      BY <1>1, <2>1, <2>2, <3>1, CountsKept DEF Counts
  <2>3. CASE x = y
    <3>1. OpenWraps(x)' = OpenWraps(x) \cup {n} /\ n \notin OpenWraps(x)
      BY <1>2, <2>3 DEF OpenWraps
    <3>2. Cardinality(OpenWraps(x)') = Cardinality(OpenWraps(x)) + 1
          /\ Cardinality(OpenWraps(x)) \in Nat
      BY <3>1, CountedFinite, FS_AddElement DEF CacheInv
    <3>3. exes[x] \in Exe /\ CountsOf(x)
      BY Records DEF CacheInv, Counts
    <3>4. exes[x].held
      <4>1. v \in OpenWraps(x)
        BY <2>3 DEF OpenWraps
      <4>2. Cardinality(OpenWraps(x)) # 0
        BY <4>1, CountedFinite, FS_EmptySet DEF CacheInv
      <4>3. QED
        BY <3>2, <3>3, <4>2 DEF CountsOf, Exe
    <3>5. QED
      BY <1>1, <2>1, <2>3, <3>2, <3>3, <3>4 DEF CountsOf, Exe
  <2>4. QED
    BY <2>2, <2>3
<1>5. QED
  BY <1>1, <1>3, <1>4 DEF Counts

\* A native call is counted while it lasts.
LEMMA EnterCounts ==
  ASSUME CacheInv, Counts, InUse, NEW t \in Threads, EnterNative(t)
  PROVE  Counts' /\ InUse'
<1> DEFINE w == mine[t]
           y == wraps[w].exe
           r == [exes[y] EXCEPT !.native = @ + 1, !.calls = @ + 1]
<1>1. /\ pc[t] = "enter" /\ w \in DOMAIN wraps /\ exes[y] \in Exe /\ y \in DOMAIN exes
  BY HeldWrapper DEF EnterNative
<1>2. /\ exes' = [exes EXCEPT ![y] = r] /\ UNCHANGED <<wraps, mine>>
      /\ pc' = [pc EXCEPT ![t] = "native"]
  BY <1>1 DEF EnterNative, Goto, callVars
<1>3. pc'[t] = "native" /\ \A s \in Threads : s # t => Elsewhere(s)
  BY <1>2 DEF CacheInv, Shape, Elsewhere
<1>4. InUse'
  <2>1. wraps'[mine'[t]].open
    BY <1>1, <1>2 DEF InUse
  <2>2. QED
    BY <1>2, <1>3, <2>1, InUseKept
<1>5. ASSUME NEW x \in DOMAIN exes PROVE CountsOf(x)'
  <2>1. /\ Running(x)' \ {t} = Running(x) \ {t} /\ Freeing(x)' \ {t} = Freeing(x) \ {t}
        /\ t \notin Running(x) /\ t \notin Freeing(x) /\ t \notin Freeing(x)'
        /\ (t \in Running(x)') = (x = y)
    BY <1>1, <1>2, <1>3, OthersStay
  <2>2. Freeing(x)' = Freeing(x)
    BY <2>1, SameBut
  <2>3. OpenWraps(x)' = OpenWraps(x)
    BY <1>2 DEF OpenWraps
  <2>4. CASE x # y
    <3>1. Running(x)' = Running(x) /\ exes'[x] = exes[x]
      BY <1>1, <1>2, <2>1, <2>4, SameBut
    <3>2. QED
      BY <2>2, <2>3, <3>1, CountsKept DEF Counts
  <2>5. CASE x = y
    <3>1. Cardinality(Running(x)') = Cardinality(Running(x)) + 1 /\ Cardinality(Running(x)) \in Nat
      BY <2>1, <2>5, CountedFinite, AddedOne DEF CacheInv
    <3>2. exes'[x] = r /\ CountsOf(x)
      BY <1>1, <1>2, <2>5 DEF Counts
    <3>3. QED
      BY <1>1, <2>2, <2>3, <2>5, <3>1, <3>2 DEF CountsOf, Exe
  <2>6. QED
    BY <2>4, <2>5
<1>6. QED
  BY <1>1, <1>2, <1>4, <1>5 DEF Counts

\* The end of a native call takes its count back.
LEMMA LeaveCounts ==
  ASSUME CacheInv, Counts, InUse, NEW t \in Threads, LeaveNative(t)
  PROVE  Counts' /\ InUse'
<1> DEFINE w == mine[t]
           y == wraps[w].exe
           r == [exes[y] EXCEPT !.native = @ - 1, !.calls = @ - 1]
<1>1. /\ pc[t] = "native" /\ w \in DOMAIN wraps /\ wraps[w] \in Wrap /\ wraps[w].holder = t
      /\ exes[y] \in Exe /\ y \in DOMAIN exes
  BY HeldWrapper DEF LeaveNative
<1>2. /\ exes' = [exes EXCEPT ![y] = r] /\ mine' = mine
      /\ wraps' = [wraps EXCEPT ![w].holder = None] /\ pc' = [pc EXCEPT ![t] = "idle"]
  BY <1>1 DEF LeaveNative, Dropped, Goto, callVars
<1>3. pc'[t] = "idle" /\ \A s \in Threads : s # t => Elsewhere(s)
  BY <1>2 DEF CacheInv, Shape, Elsewhere
<1>4. /\ DOMAIN wraps' = DOMAIN wraps
      /\ \A v \in DOMAIN wraps : wraps'[v].exe = wraps[v].exe /\ wraps'[v].open = wraps[v].open
  BY <1>1, <1>2, Records DEF CacheInv, Wrap
<1>5. InUse'
  BY <1>3, <1>4, InUseKept
<1>6. ASSUME NEW x \in DOMAIN exes PROVE CountsOf(x)'
  <2>1. /\ Running(x)' \ {t} = Running(x) \ {t} /\ Freeing(x)' \ {t} = Freeing(x) \ {t}
        /\ t \notin Running(x)' /\ t \notin Freeing(x) /\ t \notin Freeing(x)'
        /\ (t \in Running(x)) = (x = y)
    BY <1>1, <1>3, <1>4, OthersStay
  <2>2. Freeing(x)' = Freeing(x)
    BY <2>1, SameBut
  <2>3. OpenWraps(x)' = OpenWraps(x)
    BY <1>4 DEF OpenWraps
  <2>4. CASE x # y
    <3>1. Running(x)' = Running(x) /\ exes'[x] = exes[x]
      BY <1>1, <1>2, <2>1, <2>4, SameBut
    <3>2. QED
      BY <2>2, <2>3, <3>1, CountsKept DEF Counts
  <2>5. CASE x = y
    <3>1. IsFiniteSet(Running(x)')
      <4>1. Running(x)' \subseteq Threads
        BY DEF Running
      <4>2. QED
        BY <4>1, FS_Subset, CacheAssumption
    <3>2. Cardinality(Running(x)) = Cardinality(Running(x)') + 1 /\ Cardinality(Running(x)') \in Nat
      BY <2>1, <2>5, <3>1, FS_CardinalityType, AddedOne
    <3>3. exes'[x] = r /\ CountsOf(x)
      BY <1>1, <1>2, <2>5 DEF Counts
    <3>4. QED
      BY <1>1, <2>2, <2>3, <2>5, <3>2, <3>3 DEF CountsOf, Exe
  <2>6. QED
    BY <2>4, <2>5
<1>7. QED
  BY <1>1, <1>2, <1>5, <1>6 DEF Counts

\* The owner's native reference goes with the last wrapper, once.
LEMMA ReleaseCounts ==
  ASSUME CacheInv, Counts, InUse, NEW t \in Threads, NativeRelease(t)
  PROVE  Counts' /\ InUse'
<1> DEFINE w == mine[t]
           y == wraps[w].exe
           r == [exes[y] EXCEPT !.native = @ - 1]
<1>1. /\ pc[t] = "release" /\ w \in DOMAIN wraps /\ wraps[w] \in Wrap /\ wraps[w].holder = t
      /\ exes[y] \in Exe /\ y \in DOMAIN exes
  BY HeldWrapper DEF NativeRelease
<1>2. /\ exes' = [exes EXCEPT ![y] = r] /\ mine' = mine
      /\ wraps' = [wraps EXCEPT ![w].holder = None]
      /\ pc' = [pc EXCEPT ![t] = IF result[t] # None THEN "closing" ELSE "idle"]
  BY <1>1 DEF NativeRelease, Dropped, Goto
<1>3. pc'[t] \in {"closing", "idle"} /\ \A s \in Threads : s # t => Elsewhere(s)
  BY <1>2 DEF CacheInv, Shape, Elsewhere
<1>4. /\ DOMAIN wraps' = DOMAIN wraps
      /\ \A v \in DOMAIN wraps : wraps'[v].exe = wraps[v].exe /\ wraps'[v].open = wraps[v].open
  BY <1>1, <1>2, Records DEF CacheInv, Wrap
<1>5. InUse'
  BY <1>3, <1>4, InUseKept
<1>6. ASSUME NEW x \in DOMAIN exes PROVE CountsOf(x)'
  <2>1. /\ Running(x)' \ {t} = Running(x) \ {t} /\ Freeing(x)' \ {t} = Freeing(x) \ {t}
        /\ t \notin Running(x)' /\ t \notin Running(x) /\ t \notin Freeing(x)'
        /\ (t \in Freeing(x)) = (x = y)
    BY <1>1, <1>3, <1>4, OthersStay
  <2>2. Running(x)' = Running(x)
    BY <2>1, SameBut
  <2>3. OpenWraps(x)' = OpenWraps(x)
    BY <1>4 DEF OpenWraps
  <2>4. CASE x # y
    <3>1. Freeing(x)' = Freeing(x) /\ exes'[x] = exes[x]
      BY <1>1, <1>2, <2>1, <2>4, SameBut
    <3>2. QED
      BY <2>2, <2>3, <3>1, CountsKept DEF Counts
  <2>5. CASE x = y
    <3>1. exes'[x] = r /\ CountsOf(x)
      BY <1>1, <1>2, <2>5 DEF Counts
    <3>2. t \in Freeing(x) /\ ~exes[x].held /\ \A s \in Freeing(x) : s = t
      BY <1>1, <2>1, <2>5, <3>1 DEF CountsOf, Exe
    <3>3. Freeing(x)' = {}
      BY <2>1, <3>2
    <3>4. QED
      BY <1>1, <2>2, <2>3, <2>5, <3>1, <3>2, <3>3 DEF CountsOf, Exe
  <2>6. QED
    BY <2>4, <2>5
<1>7. QED
  BY <1>1, <1>2, <1>5, <1>6 DEF Counts

\* Closing an open wrapper gives its reference back; with the last one the
\* thread owes the native release.
LEMMA CloseCounts ==
  ASSUME CacheInv, Counts, InUse, NEW t \in Threads, NEW w \in DOMAIN wraps,
         NEW next \in {"idle", "closing"}, pc[t] = next, CloseWrapper(t, w, next)
  PROVE  Counts' /\ InUse'
<1> DEFINE y == wraps[w].exe
<1>1. CloseEffect(t, w, next)
  BY CloseFacts DEF CacheInv
<1>2. /\ wraps[w] \in Wrap /\ y \in DOMAIN exes /\ exes[y] \in Exe
  BY Records DEF CacheInv
<1>3. /\ wraps[w].holder = None /\ DOMAIN exes' = DOMAIN exes /\ DOMAIN wraps' = DOMAIN wraps
      /\ mine' = [mine EXCEPT ![t] = IF LastClose(w) THEN w ELSE @]
      /\ pc' = [pc EXCEPT ![t] = IF LastClose(w) THEN "release" ELSE next]
  BY <1>1 DEF CloseEffect
<1>4. /\ \A v \in DOMAIN wraps : wraps'[v].exe = wraps[v].exe
      /\ \A v \in DOMAIN wraps : v # w => wraps'[v] = wraps[v]
      /\ ~wraps'[w].open
  BY ZenonT(30), <1>1, <1>2 DEF CloseEffect, Wrap
<1>5. /\ pc'[t] = (IF LastClose(w) THEN "release" ELSE next)
      /\ LastClose(w) => mine'[t] = w
      /\ \A s \in Threads : s # t => Elsewhere(s)
  BY <1>3 DEF CacheInv, Shape, Elsewhere
<1>6. InUse'
  <2>1. \A s \in Threads : wraps[w].holder # s
    BY <1>3, CacheAssumption
  <2>2. QED
    BY <1>4, <1>5, <2>1, InUseKept
<1>7. ASSUME NEW x \in DOMAIN exes PROVE CountsOf(x)'
  <2>1. /\ Running(x)' \ {t} = Running(x) \ {t} /\ Freeing(x)' \ {t} = Freeing(x) \ {t}
        /\ t \notin Running(x)' /\ t \notin Running(x) /\ t \notin Freeing(x)
        /\ (t \in Freeing(x)') = (LastClose(w) /\ x = y)
    BY <1>4, <1>5, OthersStay
  <2>2. Running(x)' = Running(x)
    BY <2>1, SameBut
  <2>3. CASE ~(wraps[w].open /\ x = y)
    <3>1. exes'[x] = exes[x]
      BY <1>1, <2>3 DEF CloseEffect
    <3>2. OpenWraps(x)' = OpenWraps(x)
      BY <1>3, <1>4, <2>3 DEF OpenWraps
    <3>3. Freeing(x)' = Freeing(x)
      BY <2>1, <2>3, SameBut DEF LastClose
    <3>4. QED
      BY <2>2, <3>1, <3>2, <3>3, CountsKept DEF Counts
  <2>4. CASE wraps[w].open /\ x = y
    <3>1. exes'[x] = [exes[x] EXCEPT !.refs = @ - 1, !.held = @ /\ exes[x].refs # 1]
      BY <1>1, <2>4 DEF CloseEffect
    <3>2. OpenWraps(x)' = OpenWraps(x) \ {w} /\ w \in OpenWraps(x)
      BY <1>3, <1>4, <2>4 DEF OpenWraps
    <3>3. Cardinality(OpenWraps(x)') = Cardinality(OpenWraps(x)) - 1
          /\ Cardinality(OpenWraps(x)) \in Nat /\ Cardinality(OpenWraps(x)) # 0
      BY ZenonT(30), <3>2, CountedFinite, FS_RemoveElement, FS_EmptySet DEF CacheInv
    <3>4. exes[x] \in Exe /\ CountsOf(x)
      BY <1>2, <2>4 DEF Counts
    <3>5. /\ exes[x].held /\ Freeing(x) = {} /\ LastClose(w) = (exes[x].refs = 1)
          /\ exes[x].refs \in Nat /\ exes[x].refs = Cardinality(OpenWraps(x))
      BY <2>4, <3>3, <3>4 DEF CountsOf, Exe, LastClose
    <3>6. Freeing(x)' = IF LastClose(w) THEN {t} ELSE {}
      BY <2>1, <2>4, <3>5
    <3>7. /\ exes'[x].refs = exes[x].refs - 1 /\ exes'[x].held = (exes[x].refs # 1)
          /\ exes'[x].calls = exes[x].calls /\ exes'[x].native = exes[x].native
      BY <3>1, <3>4, <3>5 DEF Exe
    <3>8. exes'[x].native = exes'[x].calls + (IF exes'[x].held \/ Freeing(x)' # {} THEN 1 ELSE 0)
      BY <3>4, <3>5, <3>6, <3>7 DEF CountsOf
    <3>9. (exes'[x].held => Freeing(x)' = {}) /\ \A r, s \in Freeing(x)' : r = s
      BY <3>5, <3>6, <3>7
    <3>10. exes'[x].held = (exes'[x].refs > 0) /\ exes'[x].refs = Cardinality(OpenWraps(x)')
      BY <3>3, <3>5, <3>7
    <3>11. exes'[x].calls = Cardinality(Running(x)')
      BY <2>2, <3>4, <3>7 DEF CountsOf
    <3>12. QED
      BY <3>8, <3>9, <3>10, <3>11 DEF CountsOf
  <2>5. QED
    BY <2>3, <2>4
<1>8. QED
  BY <1>3, <1>6, <1>7 DEF Counts

\* A new executable has one owner and no call.
LEMMA CompileCounts ==
  ASSUME CacheInv, Counts, InUse, NEW t \in Threads, Compile(t)
  PROVE  Counts' /\ InUse'
<1> DEFINE n == Len(wraps) + 1
           y == Len(exes) + 1
           new == [id |-> want[t], refs |-> 1, held |-> TRUE, native |-> 1, calls |-> 0]
<1>1. pc[t] = "compile" /\ want[t] \in Ids
  BY DEF Compile, CacheInv, Registers, RegistersOf
<1>2. /\ exes' = Append(exes, new) /\ wraps' = Append(wraps, NewWrap(y))
      /\ pc' = [pc EXCEPT ![t] = "publish"] /\ mine' = mine
  BY DEF Compile, Goto
<1>3. /\ y \in Nat /\ DOMAIN exes' = DOMAIN exes \cup {y}
      /\ y \notin DOMAIN exes /\ exes'[y] = new /\ \A x \in DOMAIN exes : exes'[x] = exes[x]
  <2>1. new \in Exe
    BY <1>1 DEF Exe
  <2>2. QED
    BY <1>2, <2>1, AppendProperties, LenProperties DEF CacheInv, Shape
<1> HIDE DEF y
<1>4. /\ DOMAIN wraps' = DOMAIN wraps \cup {n} /\ n \notin DOMAIN wraps
      /\ \A v \in DOMAIN wraps : wraps'[v] = wraps[v]
      /\ wraps'[n].exe = y /\ wraps'[n].open
  <2>1. [exe |-> y, open |-> TRUE, holder |-> None] \in Wrap
    BY <1>3 DEF Wrap
  <2>2. QED
    BY <1>2, <2>1, WrapAppend DEF CacheInv, NewWrap
<1> HIDE DEF n
<1>5. pc'[t] = "publish" /\ \A s \in Threads : s # t => Elsewhere(s)
  BY <1>2 DEF CacheInv, Shape, Elsewhere
<1>6. InUse'
  BY <1>4, <1>5, InUseKept
<1>7. \A x : Running(x)' = Running(x) /\ Freeing(x)' = Freeing(x)
  <2> SUFFICES ASSUME NEW x PROVE Running(x)' = Running(x) /\ Freeing(x)' = Freeing(x)
    OBVIOUS
  <2>1. /\ Running(x)' \ {t} = Running(x) \ {t} /\ Freeing(x)' \ {t} = Freeing(x) \ {t}
        /\ t \notin Running(x) /\ t \notin Freeing(x)
        /\ t \notin Running(x)' /\ t \notin Freeing(x)'
    BY <1>1, <1>4, <1>5, OthersStay
  <2>2. QED
    BY <2>1, SameBut
<1>8. ASSUME NEW x \in DOMAIN exes PROVE CountsOf(x)'
  <2>1. OpenWraps(x)' = OpenWraps(x)
    BY <1>3, <1>4 DEF OpenWraps
  <2>2. QED
    BY <1>3, <1>7, <2>1, CountsKept DEF Counts
<1>9. ASSUME NEW x, x = y PROVE CountsOf(x)'
  <2>1. \A w \in DOMAIN wraps : wraps[w].exe # x
    BY <1>3, <1>9, Records DEF CacheInv
  <2>2. OpenWraps(x)' = {n}
    BY <1>4, <1>9, <2>1 DEF OpenWraps
  <2>3. Running(x) = {} /\ Freeing(x) = {}
    BY <2>1, HeldWrapper DEF Running, Freeing
  <2>4. Cardinality({n}) = 1 /\ Cardinality({}) = 0
    BY FS_Singleton, FS_EmptySet
  <2>5. Running(x)' = {} /\ Freeing(x)' = {}
    BY <1>7, <2>3
  <2>6. /\ exes'[x].refs = 1 /\ exes'[x].held = TRUE
        /\ exes'[x].native = 1 /\ exes'[x].calls = 0
    BY <1>3, <1>9
  <2>7. exes'[x].refs = Cardinality(OpenWraps(x)') /\ exes'[x].calls = Cardinality(Running(x)')
    BY <2>2, <2>4, <2>5, <2>6
  <2>8. exes'[x].native = exes'[x].calls + (IF exes'[x].held \/ Freeing(x)' # {} THEN 1 ELSE 0)
    BY <2>6
  <2>9. exes'[x].held = (exes'[x].refs > 0)
    <3>1. exes'[x].refs > 0
      BY <2>6
    <3>2. QED
      BY <2>6, <3>1, Zenon
  <2>10. QED
    BY <2>5, <2>7, <2>8, <2>9 DEF CountsOf
<1>10. \A x \in DOMAIN exes' : CountsOf(x)'
  BY <1>3, <1>8, <1>9
<1>11. QED
  BY <1>6, <1>10 DEF Counts

\* A lookup counts the lease of a hit, and nothing else.
LEMMA LookupCounts ==
  ASSUME CacheInv, Counts, InUse, NEW t \in Threads, Lookup(t)
  PROVE  Counts' /\ InUse'
<1>1. pc[t] = "lookup"
  BY DEF Lookup
<1>2. ASSUME NEW e \in filed, Hit(t, e) PROVE Counts' /\ InUse'
  <2> DEFINE v == entries[e].kernel
             y == wraps[v].exe
  <2>1. e \in ToSet(lru)
    BY <1>2 DEF Hit, CacheInv, Filing
  <2>2. v \in DOMAIN wraps /\ wraps[v].open
    BY <2>1 DEF CacheInv, Owners, Private
  <2>3. y \in DOMAIN exes
    BY <2>2, Records DEF CacheInv
  <2>4. /\ exes' = Leased(y, exes) /\ wraps' = Append(wraps, NewWrap(y)) /\ mine' = mine
        /\ pc' = [pc EXCEPT ![t] = "idle"]
    BY <1>2 DEF Hit, Goto
  <2>5. pc'[t] = "idle" /\ \A s \in Threads : s # t => Elsewhere(s)
    BY <2>4 DEF CacheInv, Shape, Elsewhere
  <2> HIDE DEF v
  <2>6. QED
    BY <1>1, <2>2, <2>3, <2>4, <2>5, LeaseCounts
<1>3. ASSUME NEW l \in {"asleep", "compile"}, NEW m, UNCHANGED <<exes, wraps>>,
             pc' = [pc EXCEPT ![t] = l], mine' = [mine EXCEPT ![t] = m]
      PROVE  Counts' /\ InUse'
  <2>1. pc'[t] = l /\ \A s \in Threads : s # t => Elsewhere(s)
    BY <1>3 DEF CacheInv, Shape, Elsewhere
  <2>2. QED
    BY <1>1, <1>3, <2>1, QuietCounts
<1>4. CASE \E e \in Find(want[t]) : Hit(t, e) \/ Join(t, e)
  <2>1. PICK e \in filed : Hit(t, e) \/ Join(t, e)
    BY <1>4 DEF Find
  <2>2. CASE Hit(t, e)
    BY <1>2, <2>2
  <2>3. CASE Join(t, e)
    BY <1>3, <2>3 DEF Join, Goto
  <2>4. QED
    BY <2>1, <2>2, <2>3
<1>5. CASE Begin(t)
  BY <1>3, <1>5 DEF Begin, Goto
<1>6. QED
  BY <1>4, <1>5 DEF Lookup

\* Publishing counts the lease its caller gets.
LEMMA PublishCounts ==
  ASSUME CacheInv, Counts, InUse, NEW t \in Threads, NEW usable \in BOOLEAN, Publish(t, usable)
  PROVE  Counts' /\ InUse'
<1> DEFINE w == result[t]
           y == wraps[w].exe
<1>1. /\ pc[t] = "publish" /\ pc' = Notified(mine[t], [pc EXCEPT ![t] = "closing"]) /\ mine' = mine
      /\ IF usable
           THEN exes' = Leased(y, exes) /\ wraps' = Append(wraps, NewWrap(y))
           ELSE UNCHANGED <<exes, wraps>>
  BY DEF Publish
<1>2. pc'[t] = "closing" /\ \A s \in Threads : s # t => Elsewhere(s)
  BY <1>1 DEF Notified, CacheInv, Shape, Elsewhere
<1>3. w \in DOMAIN wraps /\ wraps[w].open
  BY <1>1 DEF CacheInv, Owners, Private
<1>4. y \in DOMAIN exes
  BY <1>3, Records DEF CacheInv
<1> HIDE DEF w
<1>5. CASE usable
  BY <1>1, <1>2, <1>3, <1>4, <1>5, LeaseCounts
<1>6. CASE ~usable
  <2>1. UNCHANGED <<exes, wraps>>
    BY <1>1, <1>6
  <2>2. QED
    BY <1>1, <1>2, <2>1, QuietCounts
<1>7. QED
  BY <1>5, <1>6

\* invoke takes the lock of an open wrapper.
LEMMA InvokeCounts ==
  ASSUME CacheInv, Counts, InUse, NEW t \in Threads, Invoke(t)
  PROVE  Counts' /\ InUse'
<1>1. PICK w \in handed : /\ wraps[w].open /\ wraps' = [wraps EXCEPT ![w].holder = t]
                          /\ mine' = [mine EXCEPT ![t] = w]
  BY DEF Invoke
<1>2. pc[t] = "idle" /\ pc' = [pc EXCEPT ![t] = "enter"] /\ exes' = exes
  BY DEF Invoke, Goto
<1>3. /\ pc'[t] = "enter" /\ mine'[t] = w
      /\ \A s \in Threads : s # t => Elsewhere(s)
  BY <1>1, <1>2 DEF CacheInv, Shape, Elsewhere
<1>4. w \in DOMAIN wraps /\ wraps[w] \in Wrap
  BY Records DEF CacheInv, Shape
<1>5. /\ DOMAIN wraps' = DOMAIN wraps
      /\ \A v \in DOMAIN wraps : wraps'[v].exe = wraps[v].exe /\ wraps'[v].open = wraps[v].open
  BY <1>1, <1>4 DEF Wrap
<1>6. wraps'[mine'[t]].open
  BY <1>1, <1>3, <1>4, <1>5
<1>7. QED
  BY <1>2, <1>3, <1>5, <1>6, QuietCounts

\* Every step keeps the counts exact and what is invoked open.
LEMMA CountsNext ==
  ASSUME CacheInv, Counts, InUse, [Next]_vars
  PROVE  Counts' /\ InUse'
<1>1. ASSUME NEW t \in Threads, Call(t) \/ Invoke(t) \/ Close(t) \/ Step(t)
      PROVE  Counts' /\ InUse'
  <2>1. ASSUME NEW l \in {"lookup", "idle"}, UNCHANGED <<exes, wraps, mine>>,
               pc[t] \in {"idle", "closing"}, pc' = [pc EXCEPT ![t] = l]
        PROVE  Counts' /\ InUse'
    <3>1. pc'[t] = l /\ \A s \in Threads : s # t => Elsewhere(s)
      BY <2>1 DEF CacheInv, Shape, Elsewhere
    <3>2. QED
      BY <2>1, <3>1, QuietCounts
  <2>2. CASE Call(t)
    BY <2>1, <2>2 DEF Call, Goto
  <2>3. CASE Return(t)
    BY <2>1, <2>3 DEF Return, Goto
  <2>4. CASE CompileFail(t)
    <3>1. /\ pc[t] = "compile" /\ pc' = Notified(mine[t], [pc EXCEPT ![t] = "idle"])
          /\ UNCHANGED <<exes, wraps, mine>>
      BY <2>4 DEF CompileFail, callVars
    <3>2. pc'[t] = "idle" /\ \A s \in Threads : s # t => Elsewhere(s)
      BY <3>1 DEF Notified, CacheInv, Shape, Elsewhere
    <3>3. QED
      BY <3>1, <3>2, QuietCounts
  <2>5. CASE Close(t)
    <3>1. PICK w \in handed : CloseWrapper(t, w, "idle")
      BY <2>5 DEF Close
    <3>2. w \in DOMAIN wraps /\ pc[t] = "idle"
      BY <2>5 DEF Close, CacheInv, Shape
    <3>3. QED
      BY <3>1, <3>2, CloseCounts
  <2>6. CASE CloseStale(t)
    <3>1. pc[t] = "closing" /\ stale[t] # <<>> /\ CloseWrapper(t, Head(stale[t]), "closing")
      BY <2>6 DEF CloseStale
    <3>2. stale[t] \in Seq(Nat) /\ ToSet(stale[t]) \subseteq DOMAIN wraps
      BY DEF CacheInv, Shape, Registers, RegistersOf
    <3>3. Head(stale[t]) \in DOMAIN wraps
      BY <3>1, <3>2, TailProperties
    <3>4. QED
      BY <3>1, <3>3, CloseCounts
  <2>7. CASE Invoke(t)
    BY <2>7, InvokeCounts
  <2>8. CASE Lookup(t)
    BY <2>8, LookupCounts
  <2>9. CASE Compile(t)
    BY <2>9, CompileCounts
  <2>10. CASE Publish(t, TRUE) \/ Publish(t, FALSE)
    BY <2>10, PublishCounts
  <2>11. CASE NativeRelease(t)
    BY <2>11, ReleaseCounts
  <2>12. CASE EnterNative(t)
    BY <2>12, EnterCounts
  <2>13. CASE LeaveNative(t)
    BY <2>13, LeaveCounts
  <2>14. QED
    BY <1>1, <2>2, <2>3, <2>4, <2>5, <2>6, <2>7, <2>8, <2>9, <2>10, <2>11, <2>12, <2>13 DEF Step
<1>2. CASE UNCHANGED vars
  <2>1. UNCHANGED <<exes, wraps, pc, mine>>
    BY <1>2 DEF vars
  <2>2. ASSUME NEW x \in DOMAIN exes PROVE CountsOf(x)'
    <3>1. OpenWraps(x)' = OpenWraps(x) /\ Running(x)' = Running(x) /\ Freeing(x)' = Freeing(x)
      BY <2>1 DEF OpenWraps, Running, Freeing
    <3>2. QED
      BY <2>1, <3>1, CountsKept DEF Counts
  <2>3. QED
    BY <2>1, <2>2 DEF Counts, InUse
<1>3. QED
  BY <1>1, <1>2 DEF Next

\* A lease wraps an executable of the same identity.
LEMMA LeasedId ==
  ASSUME Shape, NEW x \in DOMAIN exes, exes' = Leased(x, exes),
         wraps' = Append(wraps, NewWrap(x))
  PROVE  exes'[wraps'[Len(wraps) + 1].exe].id = exes[x].id
<1>1. wraps'[Len(wraps) + 1] = NewWrap(x)
  BY LeaseFacts, WrapAppend
<1>2. Leased(x, exes)[x].id = exes[x].id /\ NewWrap(x).exe = x
  BY LeaseFacts DEF NewWrap
<1>3. QED
  BY <1>1, <1>2
-----------------------------------------------------------------------------
(* The theorems                                                            *)

\* The invariant holds initially.
LEMMA InvInit == Init => Inv
<1> SUFFICES ASSUME Init PROVE Inv
  OBVIOUS
<1>1. CacheInv
  BY CacheInit
<1>2. exes = <<>> /\ \A t \in Threads : pc[t] = "idle"
  BY DEF Init
<1>3. Counts /\ InUse
  BY <1>2 DEF Counts, InUse
<1>4. QED
  BY <1>1, <1>3 DEF Inv

\* Every step keeps it.
LEMMA InvNext == Inv /\ [Next]_vars => Inv'
BY CacheNext, CountsNext DEF Inv

\* The invariant, for any number of threads and any capacity.
THEOREM CacheInvariant == Spec => []Inv
BY InvInit, InvNext, PTL DEF Spec

\* Every retained entry and every wrapper refers to what exists, the
\* reference counts never go below zero, and the list of retained entries
\* names each of them once.
THEOREM CacheTypes == Spec => []TypeOK
<1>1. Inv => TypeOK
  <2> SUFFICES ASSUME Inv PROVE TypeOK
    OBVIOUS
  <2>1. Shape /\ Counts /\ Retained
    BY DEF Inv, CacheInv
  <2>2. \A e \in DOMAIN entries :
          /\ entries[e].id \in Ids /\ entries[e].state \in {"pending", "ready", "failed", "evicted"}
          /\ entries[e].kernel \in 0 .. Len(wraps)
    BY <2>1, Records DEF Entry, Shape
  <2>3. ASSUME NEW x \in DOMAIN exes
        PROVE  exes[x].refs >= 0 /\ exes[x].native >= 0 /\ exes[x].held \in BOOLEAN
    <3>1. exes[x] \in Exe /\ CountsOf(x)
      BY <2>1, Records DEF Counts
    <3>2. Cardinality(OpenWraps(x)) \in Nat /\ Cardinality(Running(x)) \in Nat
      BY <2>1, CountedFinite
    <3>3. QED
      BY <3>1, <3>2 DEF CountsOf, Exe
  <2>4. \A w \in DOMAIN wraps : wraps[w].exe \in DOMAIN exes /\ wraps[w].holder \in Threads \cup {None}
    BY <2>1, Records DEF Wrap
  <2>5. /\ filed \subseteq DOMAIN entries /\ ToSet(lru) \subseteq filed /\ IsInjective(lru)
        /\ handed \subseteq DOMAIN wraps /\ pc \in [Threads -> Labels]
    BY <2>1 DEF Shape, Retained
  <2>6. QED
    BY <2>2, <2>3, <2>4, <2>5 DEF TypeOK
<1>2. QED
  BY <1>1, CacheInvariant, PTL

\* The cache retains no more than it may and only what is usable, nothing
\* that is evicted, unusable or closed keeps an owner, and identical
\* concurrent misses share one compilation (_cache.py, get_or_compile).
THEOREM CacheIsSound == Spec => []CacheSound
<1>1. Inv => Bounded
  BY DEF Inv, CacheInv, Retained, Filing, Owners, Private, Bounded
<1>2. Inv => SingleFlight
  <2> SUFFICES ASSUME Inv PROVE SingleFlight
    OBVIOUS
  <2>1. ASSUME NEW s \in Threads, NEW t \in Threads, s # t,
               {pc[s], pc[t]} \subseteq {"compile", "publish"}
        PROVE  want[s] # want[t]
    <3>1. pc[s] \in {"compile", "publish"} /\ pc[t] \in {"compile", "publish"}
      BY <2>1
    <3>2. /\ mine[s] \in filed /\ entries[mine[s]].id = want[s]
          /\ mine[t] \in filed /\ entries[mine[t]].id = want[t]
      BY <3>1 DEF Inv, CacheInv, Registers, RegistersOf
    <3>3. mine[s] # mine[t]
      BY <2>1 DEF Inv, CacheInv, Filing
    <3>4. QED
      BY <3>2, <3>3 DEF Inv, CacheInv, Filing
  <2>2. QED
    BY <2>1 DEF SingleFlight, Inv, CacheInv, Filing
<1>3. Inv => NothingLeaks
  <2> SUFFICES ASSUME Inv, \A t \in Threads : pc[t] = "idle",
                      NEW w \in DOMAIN wraps, wraps[w].open, w \notin handed
               PROVE  \E e \in ToSet(lru) : entries[e].kernel = w
    BY DEF NothingLeaks
  <2>1. \A t \in Threads : w \notin ToSet(stale[t])
    BY DEF Inv, CacheInv, Registers, RegistersOf, ToSet
  <2>2. w \in Kernels
    BY <2>1 DEF Inv, CacheInv, Owned
  <2>3. QED
    BY <2>2 DEF Kernels
<1>4. QED
  BY <1>1, <1>2, <1>3, CacheInvariant, CacheTypes, PTL DEF CacheSound

\* Nothing runs in, or is about to enter, an executable that is freed, and
\* both reference counts are exact: the Python one counts open wrappers, the
\* native one the owner and the calls in flight (_ffi.py, Frontend.cpp).
THEOREM HandlesAreSound == Spec => []HandlesSound
<1>1. Inv => NoUseAfterFree
  <2> SUFFICES ASSUME Inv, NEW t \in Threads, pc[t] \in {"enter", "native"}
               PROVE  exes[wraps[mine[t]].exe].native > 0
    BY DEF NoUseAfterFree
  <2> DEFINE w == mine[t]
             x == wraps[w].exe
  <2>1. CacheInv /\ Shape /\ wraps[w].open
    BY DEF Inv, CacheInv, InUse
  <2>2. w \in DOMAIN wraps /\ x \in DOMAIN exes /\ exes[x] \in Exe
    BY <2>1, HeldWrapper
  <2>3. w \in OpenWraps(x)
    BY <2>1, <2>2 DEF OpenWraps
  <2>4. Cardinality(OpenWraps(x)) \in Nat /\ Cardinality(OpenWraps(x)) # 0
        /\ Cardinality(Running(x)) \in Nat
    BY <2>1, <2>3, CountedFinite, FS_EmptySet
  <2>5. CountsOf(x)
    BY <2>2 DEF Inv, Counts
  <2> HIDE DEF x, w
  <2>6. exes[x].held
    BY <2>2, <2>4, <2>5 DEF CountsOf, Exe
  <2>7. exes[x].native > 0
    BY <2>2, <2>4, <2>5, <2>6 DEF CountsOf, Exe
  <2>8. QED
    BY <2>7 DEF x, w
<1>2. Inv => RefsExact
  <2> SUFFICES ASSUME Inv, NEW x \in DOMAIN exes
               PROVE  /\ exes[x].refs = Cardinality(OpenWraps(x))
                      /\ exes[x].held = (exes[x].refs > 0)
                      /\ exes[x].native = exes[x].calls +
                           (IF exes[x].held \/ \E t \in Threads : pc[t] = "release" /\ wraps[mine[t]].exe = x
                            THEN 1 ELSE 0)
    BY DEF RefsExact, OpenWraps
  <2>1. CountsOf(x)
    BY DEF Inv, Counts
  <2>2. (Freeing(x) # {}) = \E t \in Threads : pc[t] = "release" /\ wraps[mine[t]].exe = x
    BY DEF Freeing
  <2>3. QED
    BY <2>1, <2>2 DEF CountsOf
<1>3. QED
  BY <1>1, <1>2, CacheInvariant, PTL DEF HandlesSound

\* The lease a call returns wraps an executable compiled for the identity it
\* asked for, whatever the digests are (_cache.py, _find and get_or_compile).
THEOREM LeasesAreOwn == Spec => OwnArtifact
<1> DEFINE Asked(w) == \E t \in Threads :
             pc[t] \in {"lookup", "publish"} /\ pc'[t] # pc[t] /\ exes'[wraps'[w].exe].id = want[t]
<1>1. ASSUME Inv, NEW t \in Threads, NEW e \in Find(want[t]), pc[t] = "lookup", Hit(t, e),
             NEW w \in handed' \ handed
      PROVE  Asked(w)
  <2> DEFINE v == entries[e].kernel
             x == wraps[v].exe
  <2>1. e \in ToSet(lru) /\ entries[e].id = want[t]
    BY <1>1 DEF Find, Hit, Inv, CacheInv, Filing
  <2>2. v \in DOMAIN wraps /\ exes[x].id = want[t]
    BY <1>1, <2>1 DEF Inv, CacheInv, Owners, Private
  <2>3. x \in DOMAIN exes
    BY <1>1, <2>2, Records DEF Inv, CacheInv
  <2>4. /\ exes' = Leased(x, exes) /\ wraps' = Append(wraps, NewWrap(x)) /\ w = Len(wraps) + 1
        /\ pc' = [pc EXCEPT ![t] = "idle"]
    BY <1>1 DEF Hit, Goto
  <2>5. pc'[t] = "idle"
    BY <1>1, <2>4 DEF Inv, CacheInv, Shape
  <2> HIDE DEF v, x
  <2>6. exes'[wraps'[w].exe].id = want[t]
    BY <1>1, <2>2, <2>3, <2>4, LeasedId DEF Inv, CacheInv
  <2>7. QED
    BY <1>1, <2>5, <2>6
<1>2. ASSUME Inv, NEW t \in Threads, NEW usable \in BOOLEAN, Publish(t, usable),
             NEW w \in handed' \ handed
      PROVE  Asked(w)
  <2> DEFINE v == result[t]
             x == wraps[v].exe
  <2>1. pc[t] = "publish" /\ pc' = Notified(mine[t], [pc EXCEPT ![t] = "closing"])
    BY <1>2 DEF Publish
  <2>2. exes' = Leased(x, exes) /\ wraps' = Append(wraps, NewWrap(x)) /\ w = Len(wraps) + 1
    BY <1>2 DEF Publish
  <2>3. pc'[t] = "closing"
    BY <1>2, <2>1 DEF Notified, Inv, CacheInv, Shape
  <2>4. v \in DOMAIN wraps /\ exes[x].id = want[t]
    BY <1>2, <2>1 DEF Inv, CacheInv, Owners, Private
  <2>5. x \in DOMAIN exes
    BY <1>2, <2>4, Records DEF Inv, CacheInv
  <2> HIDE DEF v, x
  <2>6. exes'[wraps'[w].exe].id = want[t]
    BY <1>2, <2>2, <2>4, <2>5, LeasedId DEF Inv, CacheInv
  <2>7. QED
    BY <2>1, <2>3, <2>6
<1>3. ASSUME Inv, Next PROVE \A w \in handed' \ handed : Asked(w)
  <2> SUFFICES ASSUME NEW w \in handed' \ handed PROVE Asked(w)
    OBVIOUS
  <2>1. PICK t \in Threads : Call(t) \/ Invoke(t) \/ Close(t) \/ Step(t)
    BY <1>3 DEF Next
  <2>2. CASE Lookup(t)
    <3>1. pc[t] = "lookup"
      BY <2>2 DEF Lookup
    <3>2. CASE \E e \in Find(want[t]) : Hit(t, e) \/ Join(t, e)
      <4>1. PICK e \in Find(want[t]) : Hit(t, e) \/ Join(t, e)
        BY <3>2
      <4>2. Hit(t, e)
        BY <4>1 DEF Join
      <4>3. QED
        BY <1>1, <1>3, <3>1, <4>2
    <3>3. CASE Begin(t)
      BY <3>3 DEF Begin
    <3>4. QED
      BY <2>2, <3>2, <3>3 DEF Lookup
  <2>3. CASE Publish(t, TRUE) \/ Publish(t, FALSE)
    BY <1>2, <1>3, <2>3
  <2>4. CASE Call(t) \/ Invoke(t) \/ Close(t) \/ CompileFail(t) \/ Compile(t) \/ CloseStale(t)
             \/ Return(t) \/ NativeRelease(t) \/ EnterNative(t) \/ LeaveNative(t)
    <3>1. handed' = handed
      BY <2>4 DEF Call, Invoke, Close, CompileFail, Compile, CloseStale, Return, NativeRelease,
                  EnterNative, LeaveNative
    <3>2. QED
      BY <3>1
  <2>5. QED
    BY <2>1, <2>2, <2>3, <2>4 DEF Step
<1>4. Inv /\ [Next]_vars => [\A w \in handed' \ handed : Asked(w)]_vars
  BY <1>3
<1>5. QED
  BY <1>4, CacheInvariant, PTL DEF Spec, OwnArtifact
=============================================================================
