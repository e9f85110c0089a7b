--------------------------- MODULE MappingProofs ---------------------------
(***************************************************************************)
(* Three theorems about what the mapped pipeline hands to its caller.      *)
(* The tuning session keeps its books right for every list of candidates,  *)
(* every store, any number of sessions and crashes: whatever it reports    *)
(* was accounted for, measured and verified.  A kernel instantiated from a *)
(* source module implements the contract it was asked for, for every       *)
(* module, registry and request.  And a compilation hands emitters whole   *)
(* groups, credits a target only with what its emitters rewrote, and stops *)
(* where it was asked to, for every module, plan, target and request.      *)
(***************************************************************************)
EXTENDS MappedTuning, MappedCompile, CandidateSource, SequenceLemmas

-----------------------------------------------------------------------------
(* The inductive invariant                                                 *)

Names == {Digest[k] : k \in DOMAIN Digest}
Records == [key : DOMAIN Digest, ns : Times \ {0}, sampled : BOOLEAN]
Entries ==
  [id : Nat, plan : Nat, cycles : Nat, ns : Nat \cup {Absent}, rate : Nat \cup {Absent},
   origin : {"static", "record", "runtime"}, key : DOMAIN Digest]
Refusals == [id : Nat, why : {"source", "legality", "mapping", "compile", "measurement"}]
Reports ==
  [ranked : Seq(Entries), rejected : Seq(Refusals), unrankable : Seq(Entries), dropped : Seq(Nat),
   bySource : Nat, byLegality : Nat, byMapping : Nat, byCompile : Nat, failedCompiles : Nat,
   attempts : Nat, hits : Nat, misses : Nat, written : Nat,
   measured : Nat, completed : Nat, truncated : BOOLEAN]
Jobs == [cached : BOOLEAN, ns : Times \cup {Absent}, rate : Rates \cup {Absent}, sampled : BOOLEAN]

\* The candidate at hand is being measured; it has an answer to be judged.
Answered == {"verify", "check", "rename", "accept"}
Working == {"lookup", "recheck", "time"} \cup Answered
Measuring == {"measure"} \cup Working

Typed ==
  /\ inputs \in Sessions /\ files \in [Names -> Records \cup {Absent}]
  /\ session \in 0 .. MaxSessions /\ temps \subseteq 1 .. session
  /\ pc \in {"idle", "admit", "finish", "cleanup", "done", "failed"} \cup Measuring
  /\ at \in 1 .. Len(Cands) + 1 /\ job \in Jobs /\ report \in Reports

\* The position stays within the list, and work goes on only within the limits.
Completions == IF MeasuredObjective THEN report.measured ELSE report.completed
Progress ==
  /\ pc # "idle" => session # 0
  /\ pc = "admit" => Len(report.ranked) <= at - 1
  /\ pc \in Measuring => Len(report.ranked) <= Len(Cands)
  /\ pc = "measure" => at <= Limit + 1
  /\ pc \in Working => at <= Limit /\ Completions < Opt.measureTop

\* Every position before the current one cost at most one answer.
Spending ==
  /\ pc = "admit" => /\ report.attempts = 0 /\ report.hits = 0 /\ report.written = 0
                     /\ report.measured = 0 /\ report.completed = 0
  /\ pc \in Measuring \ Answered => report.attempts + report.hits <= at - 1
  /\ pc \in Answered => report.attempts + report.hits <= IF job.cached THEN at - 1 ELSE at
  /\ pc \in Answered \ {"accept"} /\ ~job.cached => report.written < report.attempts
  /\ pc \in {"check", "rename"} => ~job.cached
  /\ Budget

\* Candidates looked at so far.
Seen == {Cands[i].id : i \in 1 .. (IF pc = "admit" THEN at - 1 ELSE Len(Cands))}
OneEach(s) == \A i, j \in DOMAIN s : s[i].id = s[j].id => i = j
Unmeasured(r) == {i \in DOMAIN r : r[i].why # "measurement"}
Refusers == report.bySource + report.byLegality + report.byMapping + report.byCompile

\* Each candidate looked at is ranked or rejected, and both only at the
\* positions to be erased, which are in order.
Listed ==
  /\ report.unrankable = <<>>
  /\ Ids(report.ranked) \cup Ids(report.rejected) = Seen
  /\ \A i \in DOMAIN report.ranked :
       report.ranked[i].id \in Ids(report.rejected) <=> i \in ToSet(report.dropped)
Dropped ==
  /\ \A i \in DOMAIN report.dropped :
       report.dropped[i] \in DOMAIN report.ranked /\ (pc \in Measuring => report.dropped[i] < at)
  /\ \A i, j \in DOMAIN report.dropped : i < j => report.dropped[i] < report.dropped[j]
  /\ pc \in {"admit", "finish"} => report.dropped = <<>>
Filling ==
  /\ OneEach(report.ranked) /\ OneEach(report.rejected)
  /\ Dropped
  /\ pc \in {"admit", "finish"} \cup Measuring => Listed
  /\ Cardinality(Unmeasured(report.rejected)) <= Refusers

\* A duration at hand was verified or comes from the store.
Verified(k, ns) == \E s \in BOOLEAN : <<k, ns, s>> \in evidence
Evident ==
  /\ OnlyEvidence
  /\ pc \in {"recheck"} \cup Answered => job.ns \in Times
  /\ pc = "recheck" => job.cached
  /\ pc \in {"recheck", "verify"} /\ job.cached => Verified(Key, job.ns)
  /\ pc = "accept" => Verified(Key, job.ns)
  /\ pc \in {"check", "rename"} => job.ns # 0 /\ <<Key, job.ns, TRUE>> \in evidence /\ job.sampled

\* What a session finds in the store and leaves there: its temporary file stays
\* only when it is killed or when a failed store cannot remove it.
Tidy ==
  /\ NotRepeated
  /\ pc = "rename" => ~Foreign(Key)
  /\ NoLitter

TuningInv ==
  Typed /\ Progress /\ Spending /\ Filling /\ RefusedForCause /\ Evident /\ Tidy /\ BestFirst /\ Accounted
-----------------------------------------------------------------------------
(* Lists arranged by what comes before each member                         *)

\* order goes through K once, each member after those before it.
Follows(order, K, before) ==
  /\ DOMAIN order = 1 .. Cardinality(K) /\ \A n \in DOMAIN order : order[n] \in K
  /\ \A m, n \in DOMAIN order : m < n => order[m] \in before[order[n]]
  /\ \A i \in K : \E n \in DOMAIN order : order[n] = i

\* Counting what comes before a member gives its place, when any two members
\* of the set are in order.
LEMMA ArrangedFollows ==
  ASSUME NEW K, IsFiniteSet(K), NEW before, before \in [K -> SUBSET K],
         \A i \in K : i \notin before[i],
         \A i \in K : \A j \in before[i] : before[j] \subseteq before[i],
         \A i, j \in K : i # j => i \in before[j] \/ j \in before[i]
  PROVE  Follows(Arranged(before), K, before)
<1> DEFINE size == Cardinality(K)
           count(i) == Cardinality(before[i])
           place == [i \in K |-> count(i) + 1]
           order == Arranged(before)
<1>0. size \in Nat /\ DOMAIN before = K /\ DOMAIN order = 1 .. size
  BY FS_CardinalityType DEF Arranged
<1>1. ASSUME NEW i \in K PROVE count(i) \in Nat /\ count(i) < size
  <2>1. before[i] \in SUBSET K /\ before[i] # K
    OBVIOUS
  <2>2. IsFiniteSet(before[i]) /\ count(i) <= size /\ count(i) # size
    BY <2>1, FS_Subset
  <2>3. QED
    BY <1>0, <2>2, FS_CardinalityType
<1>2. ASSUME NEW i \in K, NEW j \in before[i] PROVE count(j) < count(i)
  <2>1. before[j] \in SUBSET before[i] /\ before[j] # before[i] /\ j \in K
    OBVIOUS
  <2>2. IsFiniteSet(before[i])
    BY FS_Subset
  <2>3. count(j) <= count(i) /\ count(j) # count(i)
    BY <2>1, <2>2, FS_Subset
  <2>4. QED
    BY <1>1, <2>1, <2>3
<1>3. \A i, j \in K : count(i) = count(j) => i = j
  BY <1>1, <1>2
<1>4. place \in Injection(K, 1 .. size)
  <2>1. place \in [K -> 1 .. size]
    BY <1>0, <1>1
  <2>2. \A i, j \in K : place[i] = place[j] => i = j
    BY <1>1, <1>3
  <2> HIDE DEF place
  <2>3. QED
    BY <2>1, <2>2, Fun_IsInj
<1>5. place \in Surjection(K, 1 .. size)
  <2>1. IsFiniteSet(1 .. size) /\ Cardinality(1 .. size) = size
    BY <1>0, FS_Interval
  <2> HIDE DEF place
  <2>2. QED
    BY <1>4, <2>1, FS_Injection
<1>6. ASSUME NEW n \in 1 .. size PROVE \E i \in K : count(i) = n - 1
  <2>1. PICK i \in K : place[i] = n
    BY <1>5 DEF Surjection
  <2>2. count(i) = n - 1
    BY <1>0, <1>1, <2>1
  <2>3. QED
    BY <2>2
<1>7. ASSUME NEW n \in 1 .. size PROVE order[n] \in K /\ count(order[n]) = n - 1
  <2>1. order[n] = CHOOSE i \in K : count(i) = n - 1
    BY <1>0 DEF Arranged
  <2>2. \E i \in K : count(i) = n - 1
    BY <1>6
  <2> HIDE DEF count, order
  <2>3. QED
    BY ONLY <2>1, <2>2, Zenon
<1>8. ASSUME NEW i \in K PROVE \E n \in 1 .. size : order[n] = i
  <2>1. count(i) + 1 \in 1 .. size /\ (count(i) + 1) - 1 = count(i)
    BY <1>0, <1>1
  <2>2. QED
    BY <1>3, <1>7, <2>1
<1>9. ASSUME NEW m \in 1 .. size, NEW n \in 1 .. size, m < n PROVE order[m] \in before[order[n]]
  <2>0. count(order[m]) = m - 1 /\ count(order[n]) = n - 1 /\ m \in Int /\ n \in Int
    BY <1>0, <1>7
  <2>1. count(order[m]) < count(order[n])
    BY ONLY <2>0, m < n
  <2>2. order[m] \in K /\ order[n] \in K /\ order[m] # order[n] /\ ~(count(order[n]) < count(order[m]))
    BY <1>1, <1>7, <2>1
  <2>3. QED
    BY <1>2, <2>2
<1>10. QED
  BY <1>0, <1>7, <1>8, <1>9 DEF Follows

\* t has the members of s at the positions K, each once.
Takes(t, s, K) ==
  /\ DOMAIN t = 1 .. Cardinality(K) /\ Len(t) = Cardinality(K)
  /\ \A n \in DOMAIN t : \E i \in K : t[n] = s[i]
  /\ \A i \in K : \E n \in DOMAIN t : t[n] = s[i]
  /\ OneEach(s) => OneEach(t)

\* A list read in the order of an arrangement of some of its positions.
LEMMA ArrangementTakes ==
  ASSUME NEW S, NEW s \in Seq(S), NEW K, K \subseteq DOMAIN s, NEW before, NEW order,
         \A i \in K : i \notin before[i], Follows(order, K, before)
  PROVE  LET t == [n \in DOMAIN order |-> s[order[n]]]
         IN  t \in Seq(S) /\ Takes(t, s, K)
<1> DEFINE t == [n \in DOMAIN order |-> s[order[n]]]
<1>1. Len(s) \in Nat /\ DOMAIN s = 1 .. Len(s) /\ \A i \in DOMAIN s : s[i] \in S
  BY LenProperties, ElementOfSeq
<1>2. IsFiniteSet(K) /\ Cardinality(K) \in Nat
  <2>1. K \in SUBSET DOMAIN s /\ IsFiniteSet(DOMAIN s)
    BY DomainFinite
  <2>2. QED
    BY ONLY <2>1, FS_Subset, FS_CardinalityType
<1>3. /\ DOMAIN order = 1 .. Cardinality(K) /\ \A n \in DOMAIN order : order[n] \in K
      /\ \A m, n \in DOMAIN order : m < n => order[m] \in before[order[n]]
      /\ \A i \in K : \E n \in DOMAIN order : order[n] = i
  BY DEF Follows
<1>4. DOMAIN t = 1 .. Cardinality(K) /\ \A n \in DOMAIN t : t[n] = s[order[n]] /\ t[n] \in S
  BY <1>1, <1>3
<1>5. t \in Seq(S) /\ Len(t) = Cardinality(K)
  <2>1. t \in [1 .. Cardinality(K) -> S]
    BY <1>3, <1>4
  <2> HIDE DEF t
  <2>2. QED
    BY <1>2, <2>1, SeqDef, LenProperties, <1>4
<1>6. \A m, n \in DOMAIN order : order[m] = order[n] => m = n
  <2>1. ASSUME NEW m \in DOMAIN order, NEW n \in DOMAIN order, m < n PROVE order[m] # order[n]
    BY <1>3, <2>1
  <2>2. \A m, n \in DOMAIN order : m < n \/ n < m \/ m = n
    BY <1>2, <1>3
  <2>3. QED
    BY <2>1, <2>2
<1>7. OneEach(s) => OneEach(t)
  BY <1>3, <1>4, <1>6 DEF OneEach
<1> HIDE DEF t
<1>8. QED
  BY <1>3, <1>4, <1>5, <1>7 DEF Takes, t

\* Picked takes the positions it is given.
LEMMA PickedTakes ==
  ASSUME NEW S, NEW s \in Seq(S), NEW K, K \subseteq DOMAIN s
  PROVE  Picked(s, K) \in Seq(S) /\ Takes(Picked(s, K), s, K)
<1> DEFINE before == [i \in K |-> {j \in K : j < i}]
<1>1. Len(s) \in Nat /\ DOMAIN s = 1 .. Len(s) /\ K \subseteq Nat
  BY LenProperties
<1>2. IsFiniteSet(K)
  <2>1. K \in SUBSET DOMAIN s /\ IsFiniteSet(DOMAIN s)
    BY DomainFinite
  <2>2. QED
    BY ONLY <2>1, FS_Subset
<1>3. /\ before \in [K -> SUBSET K]
      /\ \A i \in K : i \notin before[i]
      /\ \A i \in K : \A j \in before[i] : before[j] \subseteq before[i]
      /\ \A i, j \in K : i # j => i \in before[j] \/ j \in before[i]
  BY <1>1
<1>4. Picked(s, K) = [n \in DOMAIN Arranged(before) |-> s[Arranged(before)[n]]]
  BY DEF Picked
<1> HIDE DEF before
<1>5. Follows(Arranged(before), K, before)
  BY <1>2, <1>3, ArrangedFollows
<1>6. QED
  BY <1>3, <1>4, <1>5, ArrangementTakes

\* A value of an entry for a metric of the objective.
LEMMA MetricTypes ==
  ASSUME inputs \in Sessions, NEW r \in Entries, NEW i \in DOMAIN Opt.metrics
  PROVE  r[Opt.metrics[i]] \in Nat \cup {Absent}
<1>1. Opt.metrics \in Seq({"cycles", "ns", "rate"})
  BY TuningAssumption DEF Given, OptionInputs, Opt
<1>2. Opt.metrics[i] \in {"cycles", "ns", "rate"}
  BY <1>1, ElementOfSeq, LenProperties
<1>3. r["cycles"] \in Nat /\ r["ns"] \in Nat \cup {Absent} /\ r["rate"] \in Nat \cup {Absent}
  BY DEF Entries
<1>4. QED
  BY <1>2, <1>3

\* For one metric, an entry is ahead of another, behind it, or level with it,
\* consistently.
LEMMA MetricOrder ==
  ASSUME NEW m, NEW a, NEW b, NEW c,
         a[m] \in Nat \cup {Absent}, b[m] \in Nat \cup {Absent}, c[m] \in Nat \cup {Absent}
  PROVE  /\ ~Ahead(m, a, a) /\ ~(Ahead(m, a, b) /\ Ahead(m, b, a))
         /\ Ahead(m, a, b) /\ Ahead(m, b, c) => Ahead(m, a, c)
         /\ Level(m, a, b) /\ Ahead(m, b, c) => Ahead(m, a, c)
         /\ Ahead(m, a, b) /\ Level(m, b, c) => Ahead(m, a, c)
         /\ Level(m, a, b) /\ Level(m, b, c) => Level(m, a, c)
  BY TuningAssumption DEF Ahead, Level

\* The first metric on which two entries differ decides.
Decided(i, a, b) ==
  Ahead(Opt.metrics[i], a, b) /\ \A j \in 1 .. i - 1 : Level(Opt.metrics[j], a, b)
AllLevel(a, b) == \A i \in DOMAIN Opt.metrics : Level(Opt.metrics[i], a, b)

LEMMA FirstDecides ==
  ASSUME inputs \in Sessions, NEW a \in Entries, NEW b \in Entries, ~AllLevel(a, b)
  PROVE  \E i \in DOMAIN Opt.metrics : Decided(i, a, b) \/ Decided(i, b, a)
<1>1. Len(Opt.metrics) \in Nat /\ DOMAIN Opt.metrics = 1 .. Len(Opt.metrics)
  <2>1. Opt.metrics \in Seq({"cycles", "ns", "rate"})
    BY TuningAssumption DEF Given, OptionInputs, Opt
  <2>2. QED
    BY <2>1, LenProperties
<1> DEFINE T == {i \in DOMAIN Opt.metrics : ~Level(Opt.metrics[i], a, b)}
<1>2. T \subseteq Nat /\ T # {}
  BY <1>1 DEF AllLevel
<1> HIDE DEF T
<1>3. PICK i \in T : \A j \in T : i <= j
  <2>1. PICK i \in T : \A j \in T : <<j, i>> \notin OpToRel(<, Nat)
    BY <1>2, WFMin, NatLessThanWellFounded, Zenon
  <2>2. \A j \in T : ~(j < i)
    BY <1>2, <2>1, Zenon DEF OpToRel
  <2>3. QED
    BY <1>2, <2>2
<1>4. \A j \in 1 .. i - 1 : Level(Opt.metrics[j], a, b) /\ Level(Opt.metrics[j], b, a)
  <2>1. \A j \in 1 .. i - 1 : j \notin T /\ j \in DOMAIN Opt.metrics
    BY <1>1, <1>2, <1>3 DEF T
  <2>2. QED
    BY <2>1 DEF T, Level
<1>5. Ahead(Opt.metrics[i], a, b) \/ Ahead(Opt.metrics[i], b, a)
  BY <1>3 DEF T, Level
<1>6. QED
  BY <1>3, <1>4, <1>5 DEF T, Decided

Tie(a, b) == a.id < b.id \/ (a.id = b.id /\ a.plan < b.plan)

\* ranksBefore is a strict order, and any two entries of different candidates
\* are in order.
LEMMA RanksBeforeOrders ==
  ASSUME inputs \in Sessions, NEW a \in Entries, NEW b \in Entries, NEW c \in Entries
  PROVE  /\ ~RanksBefore(a, a)
         /\ RanksBefore(a, b) /\ RanksBefore(b, c) => RanksBefore(a, c)
         /\ a.id # b.id => RanksBefore(a, b) \/ RanksBefore(b, a)
<1> DEFINE M == DOMAIN Opt.metrics
<1>0. \A x, y \in Entries :
        RanksBefore(x, y) <=> (\E i \in M : Decided(i, x, y)) \/ (AllLevel(x, y) /\ Tie(x, y))
  BY DEF RanksBefore, Decided, AllLevel, Tie
<1>1. /\ M \subseteq Nat /\ \A i \in M : \A j \in 1 .. i - 1 : j \in M
      /\ \A i, j \in M : i < j \/ i = j \/ j < i
      /\ \A i, j \in M : i < j => i \in 1 .. j - 1 /\ 1 .. i - 1 \subseteq 1 .. j - 1
  <2>1. Opt.metrics \in Seq({"cycles", "ns", "rate"})
    BY TuningAssumption DEF Given, OptionInputs, Opt
  <2>2. Len(Opt.metrics) \in Nat /\ M = 1 .. Len(Opt.metrics)
    BY <2>1, LenProperties
  <2> HIDE DEF M
  <2>3. QED
    BY ONLY <2>2
<1>2. \A x \in Entries : x.id \in Nat /\ x.plan \in Nat
  BY DEF Entries
<1>3. ASSUME NEW i \in M
      PROVE  /\ ~Ahead(Opt.metrics[i], a, a)
             /\ Ahead(Opt.metrics[i], a, b) /\ Ahead(Opt.metrics[i], b, c) => Ahead(Opt.metrics[i], a, c)
             /\ Level(Opt.metrics[i], a, b) /\ Ahead(Opt.metrics[i], b, c) => Ahead(Opt.metrics[i], a, c)
             /\ Ahead(Opt.metrics[i], a, b) /\ Level(Opt.metrics[i], b, c) => Ahead(Opt.metrics[i], a, c)
             /\ Level(Opt.metrics[i], a, b) /\ Level(Opt.metrics[i], b, c) => Level(Opt.metrics[i], a, c)
  <2>1. /\ a[Opt.metrics[i]] \in Nat \cup {Absent} /\ b[Opt.metrics[i]] \in Nat \cup {Absent}
        /\ c[Opt.metrics[i]] \in Nat \cup {Absent}
    BY MetricTypes
  <2>2. QED
    BY <2>1, MetricOrder
<1>4. ~RanksBefore(a, a)
  <2>1. ~Tie(a, a)
    BY <1>2 DEF Tie
  <2>2. QED
    BY <1>0, <1>3, <2>1 DEF Decided
<1>5. ASSUME RanksBefore(a, b), RanksBefore(b, c) PROVE RanksBefore(a, c)
  <2>1. CASE \E i, j \in M : Decided(i, a, b) /\ Decided(j, b, c)
    <3>1. PICK i \in M, j \in M : Decided(i, a, b) /\ Decided(j, b, c)
      BY <2>1
    <3>2. CASE i < j
      <4>1. Level(Opt.metrics[i], b, c) /\ \A k \in 1 .. i - 1 : Level(Opt.metrics[k], b, c)
        BY <1>1, <3>1, <3>2 DEF Decided
      <4>2. Decided(i, a, c)
        BY <1>1, <1>3, <3>1, <4>1 DEF Decided
      <4>3. QED
        BY <1>0, <4>2
    <3>3. CASE i = j
      <4>1. Decided(i, a, c)
        BY <1>1, <1>3, <3>1, <3>3 DEF Decided
      <4>2. QED
        BY <1>0, <4>1
    <3>4. CASE j < i
      <4>1. Level(Opt.metrics[j], a, b) /\ \A k \in 1 .. j - 1 : Level(Opt.metrics[k], a, b)
        BY <1>1, <3>1, <3>4 DEF Decided
      <4>2. Decided(j, a, c)
        BY <1>1, <1>3, <3>1, <4>1 DEF Decided
      <4>3. QED
        BY <1>0, <4>2
    <3>5. QED
      BY <1>1, <3>2, <3>3, <3>4
  <2>2. CASE (\E i \in M : Decided(i, a, b)) /\ AllLevel(b, c)
    <3>1. PICK i \in M : Decided(i, a, b)
      BY <2>2
    <3>2. Decided(i, a, c)
      BY <1>1, <1>3, <2>2, <3>1 DEF Decided, AllLevel
    <3>3. QED
      BY <1>0, <3>2
  <2>3. CASE AllLevel(a, b) /\ (\E i \in M : Decided(i, b, c))
    <3>1. PICK i \in M : Decided(i, b, c)
      BY <2>3
    <3>2. Decided(i, a, c)
      BY <1>1, <1>3, <2>3, <3>1 DEF Decided, AllLevel
    <3>3. QED
      BY <1>0, <3>2
  <2>4. CASE AllLevel(a, b) /\ Tie(a, b) /\ AllLevel(b, c) /\ Tie(b, c)
    <3>1. AllLevel(a, c)
      BY <1>3, <2>4 DEF AllLevel
    <3>2. Tie(a, c)
      BY <1>2, <2>4 DEF Tie
    <3>3. QED
      BY <1>0, <3>1, <3>2
  <2>5. QED
    BY <1>0, <1>5, <2>1, <2>2, <2>3, <2>4
<1>6. ASSUME a.id # b.id PROVE RanksBefore(a, b) \/ RanksBefore(b, a)
  <2>1. CASE AllLevel(a, b)
    <3>1. AllLevel(b, a)
      BY <2>1 DEF AllLevel, Level
    <3>2. Tie(a, b) \/ Tie(b, a)
      BY <1>2, <1>6 DEF Tie
    <3>3. QED
      BY <1>0, <2>1, <3>1, <3>2
  <2>2. CASE ~AllLevel(a, b)
    BY <1>0, <2>2, FirstDecides
  <2>3. QED
    BY <2>1, <2>2
<1>7. QED
  BY <1>4, <1>5, <1>6

\* The ranked list has the same entries, sorted.
LEMMA RankedPlansSorts ==
  ASSUME inputs \in Sessions, NEW s \in Seq(Entries), OneEach(s)
  PROVE  /\ RankedPlans(s) \in Seq(Entries) /\ Takes(RankedPlans(s), s, DOMAIN s)
         /\ \A i, j \in DOMAIN RankedPlans(s) :
              i < j => RanksBefore(RankedPlans(s)[i], RankedPlans(s)[j])
<1> DEFINE K == DOMAIN s
           before == [i \in K |-> {j \in K : RanksBefore(s[j], s[i])}]
           t == RankedPlans(s)
<1>1. Len(s) \in Nat /\ K = 1 .. Len(s) /\ K \subseteq DOMAIN s /\ \A i \in K : s[i] \in Entries
  BY LenProperties, ElementOfSeq
<1>2. IsFiniteSet(K)
  BY <1>1, FS_Interval
<1>3. /\ before \in [K -> SUBSET K]
      /\ \A i \in K : i \notin before[i]
      /\ \A i \in K : \A j \in before[i] : before[j] \subseteq before[i]
      /\ \A i, j \in K : i # j => i \in before[j] \/ j \in before[i]
  BY <1>1, RanksBeforeOrders DEF OneEach
<1>4. \A i \in K : \A j \in before[i] : RanksBefore(s[j], s[i])
  OBVIOUS
<1>5. t = [n \in DOMAIN Arranged(before) |-> s[Arranged(before)[n]]]
  BY DEF RankedPlans
<1> HIDE DEF before, K
<1>6. Follows(Arranged(before), K, before)
  BY <1>2, <1>3, ArrangedFollows
<1>7. t \in Seq(Entries) /\ Takes(t, s, K)
  <2> DEFINE order == Arranged(before)
             u == [n \in DOMAIN order |-> s[order[n]]]
  <2>1. \A i \in K : i \notin before[i]
    BY <1>3
  <2>2. u \in Seq(Entries) /\ Takes(u, s, K)
    BY ONLY <1>1, <1>6, <2>1, s \in Seq(Entries), ArrangementTakes
  <2>3. QED
    BY <1>5, <2>2
<1> HIDE DEF t
<1>8. \A i, j \in DOMAIN t : i < j => RanksBefore(t[i], t[j])
  BY <1>4, <1>5, <1>6 DEF Follows
<1>9. QED
  BY <1>7, <1>8 DEF t, K

-----------------------------------------------------------------------------
(* Erasing the rejected positions back to front                            *)

\* The greatest of some positions is one of them.
LEMMA MaxMember ==
  ASSUME NEW n \in Nat, NEW T, T \subseteq 1 .. n, T # {}
  PROVE  Max(T) \in T /\ \A x \in T : x <= Max(T)
<1> DEFINE U == {n - x : x \in T}
<1>1. U \subseteq Nat /\ U # {}
  <2>1. \A x \in T : x \in Int /\ n - x \in Nat
    OBVIOUS
  <2>2. QED
    BY <2>1
<1>2. Min(U) \in U /\ \A y \in U : Min(U) <= y
  <2>1. PICK u \in U : \A y \in U : <<y, u>> \notin OpToRel(<, Nat)
    <3> HIDE DEF U
    <3>1. QED
      BY <1>1, WFMin, NatLessThanWellFounded, Zenon
  <2>2. \A y \in U : ~(y < u)
    <3> HIDE DEF U
    <3>1. QED
      BY <1>1, <2>1, Zenon DEF OpToRel
  <2>3. \A y \in U : u <= y
    BY <2>2
  <2> HIDE DEF U
  <2>4. QED
    BY <2>3 DEF Min
<1>3. PICK x \in T : \A y \in T : y <= x
  <2>1. PICK x \in T : Min(U) = n - x
    BY <1>2
  <2>2. \A y \in T : n - x <= n - y
    BY <1>2, <2>1
  <2>3. QED
    BY <2>2
<1>4. QED
  BY <1>3 DEF Max

\* The fold over a set of positions exists: it is built up by size.
FoldsTo(g, D, n, s, r) ==
  g = [T \in D |-> IF T = {} THEN s ELSE RemoveAt(g[T \ {Max(T)}], r[Max(T)])]
UpTo(n, k) == {T \in SUBSET (1 .. n) : Cardinality(T) <= k}

LEMMA FoldExists ==
  ASSUME NEW n \in Nat, NEW s, NEW r
  PROVE  \E g : FoldsTo(g, SUBSET (1 .. n), n, s, r)
<1> DEFINE P(k) == \E g : FoldsTo(g, UpTo(n, k), n, s, r)
           Bad == {k \in Nat : ~P(k)}
<1>0. \A T \in SUBSET (1 .. n) : IsFiniteSet(T) /\ Cardinality(T) \in Nat /\ Cardinality(T) <= n
  <2>1. IsFiniteSet(1 .. n) /\ Cardinality(1 .. n) = n
    BY FS_Interval
  <2>2. ASSUME NEW T \in SUBSET (1 .. n)
        PROVE  IsFiniteSet(T) /\ Cardinality(T) \in Nat /\ Cardinality(T) <= n
    BY <2>1, FS_Subset, FS_CardinalityType
  <2>3. QED
    BY <2>2
<1>1. P(0)
  <2> DEFINE g == [T \in UpTo(n, 0) |-> s]
  <2>1. \A T \in UpTo(n, 0) : T = {}
    BY <1>0, FS_EmptySet DEF UpTo
  <2>2. FoldsTo(g, UpTo(n, 0), n, s, r)
    BY <2>1 DEF FoldsTo
  <2>3. QED
    BY <2>2
<1>2. ASSUME NEW k \in Nat, P(k) PROVE P(k + 1)
  <2>1. PICK g : FoldsTo(g, UpTo(n, k), n, s, r)
    BY <1>2
  <2> DEFINE step(f, T) == IF T = {} THEN s ELSE RemoveAt(f[T \ {Max(T)}], r[Max(T)])
             h == [T \in UpTo(n, k + 1) |-> step(g, T)]
  <2>2. \A T \in UpTo(n, k) : g[T] = step(g, T)
    BY <2>1 DEF FoldsTo
  <2>3. UpTo(n, k) \subseteq UpTo(n, k + 1)
    BY <1>0 DEF UpTo
  <2>4. ASSUME NEW T \in UpTo(n, k + 1), T # {} PROVE T \ {Max(T)} \in UpTo(n, k)
    <3>1. T \in SUBSET (1 .. n) /\ Max(T) \in T /\ IsFiniteSet(T) /\ Cardinality(T) <= k + 1
      BY <1>0, <2>4, MaxMember DEF UpTo
    <3>2. Cardinality(T \ {Max(T)}) = Cardinality(T) - 1
      BY <3>1, FS_RemoveElement
    <3>3. T \ {Max(T)} \in SUBSET (1 .. n) /\ Cardinality(T) \in Nat
      BY <1>0, <3>1
    <3>4. Cardinality(T \ {Max(T)}) <= k
      BY ONLY <3>1, <3>2, <3>3, k \in Nat
    <3>5. QED
      BY <3>3, <3>4 DEF UpTo
  <2>5. \A T \in UpTo(n, k) : h[T] = g[T]
    BY <2>2, <2>3
  <2>6. \A T \in UpTo(n, k + 1) : step(g, T) = step(h, T)
    BY <2>4, <2>5
  <2>7. h = [T \in UpTo(n, k + 1) |-> step(h, T)]
    BY <2>6
  <2>8. FoldsTo(h, UpTo(n, k + 1), n, s, r)
    BY <2>7 DEF FoldsTo
  <2>9. QED
    BY <2>8
<1>3. Bad = {}
  <2> HIDE DEF P
  <2>1. SUFFICES ASSUME Bad # {} PROVE FALSE
    OBVIOUS
  <2>2. Bad \subseteq Nat
    OBVIOUS
  <2>3. PICK k \in Bad : \A j \in Bad : <<j, k>> \notin OpToRel(<, Nat)
    <3> HIDE DEF Bad
    <3>1. QED
      BY <2>1, <2>2, WFMin, NatLessThanWellFounded, Zenon
  <2>4. \A j \in Bad : ~(j < k)
    <3> HIDE DEF Bad
    <3>1. QED
      BY <2>2, <2>3, Zenon DEF OpToRel
  <2>5. k # 0 /\ k \in Nat /\ k - 1 \in Nat /\ (k - 1) + 1 = k
    BY <1>1
  <2>6. P(k - 1)
    BY <2>4, <2>5
  <2>7. P((k - 1) + 1)
    BY ONLY <1>2, <2>5, <2>6
  <2>8. P(k)
    BY ONLY <2>5, <2>7
  <2>9. QED
    BY <2>8
<1>4. P(n)
  <2> HIDE DEF P
  <2>1. QED
    BY <1>3
<1>5. UpTo(n, n) = SUBSET (1 .. n)
  BY <1>0 DEF UpTo
<1>6. QED
  BY <1>4, <1>5

\* Erase takes one position after the other, the last one first.
LEMMA EraseStages ==
  ASSUME NEW s, NEW d \in Seq(Nat)
  PROVE  \E e : /\ e[0] = s /\ Erase(s, d) = e[Len(d)]
                /\ \A k \in 1 .. Len(d) : e[k] = RemoveAt(e[k - 1], d[Len(d) - k + 1])
<1> DEFINE r == Reverse(d)
           n == Len(d)
           Fold(g) == FoldsTo(g, SUBSET DOMAIN r, n, s, r)
<1>1. n \in Nat /\ DOMAIN r = 1 .. n /\ \A k \in 1 .. n : r[k] = d[n - k + 1]
  BY LenProperties DEF Reverse
<1>2. Erase(s, d) = (CHOOSE g : Fold(g))[DOMAIN r]
  BY DEF Erase, FoldLeft, MapThenFoldSet, FoldsTo
<1>3. \E g : Fold(g)
  BY <1>1, FoldExists
<1>4. PICK h : Fold(h) /\ Erase(s, d) = h[1 .. n]
  <2> HIDE DEF Fold
  <2>1. Fold(CHOOSE g : Fold(g))
    BY ONLY <1>3, Zenon
  <2>2. QED
    BY <1>1, <1>2, <2>1
<1>5. \A T \in SUBSET (1 .. n) : h[T] = IF T = {} THEN s ELSE RemoveAt(h[T \ {Max(T)}], r[Max(T)])
  BY <1>1, <1>4 DEF FoldsTo
<1> DEFINE e == [k \in 0 .. n |-> h[1 .. k]]
<1>6. e[0] = s
  <2>1. 1 .. 0 = {} /\ {} \in SUBSET (1 .. n) /\ 0 \in 0 .. n
    BY <1>1
  <2>2. h[1 .. 0] = s
    BY <1>5, <2>1
  <2>3. QED
    BY <2>1, <2>2
<1>7. ASSUME NEW k \in 1 .. n PROVE e[k] = RemoveAt(e[k - 1], d[n - k + 1])
  <2>1. Max(1 .. k) = k
    <3>1. k \in Nat /\ 1 .. k \subseteq 1 .. k /\ k \in 1 .. k
      BY <1>1
    <3>2. Max(1 .. k) \in 1 .. k /\ \A x \in 1 .. k : x <= Max(1 .. k)
      BY ONLY <3>1, MaxMember
    <3>3. QED
      BY <3>1, <3>2
  <2>2. (1 .. k) \ {k} = 1 .. k - 1 /\ 1 .. k # {} /\ 1 .. k \in SUBSET (1 .. n)
    <3>1. k \in Nat /\ k >= 1 /\ k <= n
      BY <1>1
    <3>2. k \in 1 .. k
      BY <3>1
    <3>3. (1 .. k) \ {k} = 1 .. k - 1
      BY ONLY <3>1
    <3>4. 1 .. k \subseteq 1 .. n
      BY ONLY <1>1, <3>1
    <3>5. QED
      BY <3>2, <3>3, <3>4
  <2>3. h[1 .. k] = RemoveAt(h[1 .. k - 1], r[k])
    BY <1>5, <2>1, <2>2
  <2>4. e[k] = h[1 .. k] /\ e[k - 1] = h[1 .. k - 1]
    BY <1>1
  <2>5. QED
    BY <1>1, <2>3, <2>4
<1>8. Erase(s, d) = e[n]
  BY <1>1, <1>4
<1> HIDE DEF e
<1>9. QED
  BY <1>6, <1>7, <1>8

\* Removing the entry of one position of those taken.
SameBefore(u, t, i) == \A j \in 1 .. i - 1 : j \in DOMAIN u /\ u[j] = t[j]

LEMMA RemoveTakes ==
  ASSUME NEW S, NEW s \in Seq(S), OneEach(s), NEW K, K \subseteq DOMAIN s,
         NEW t \in Seq(S), Takes(t, s, K), NEW i \in K, i \in DOMAIN t, t[i] = s[i]
  PROVE  /\ RemoveAt(t, i) \in Seq(S) /\ Takes(RemoveAt(t, i), s, K \ {i})
         /\ SameBefore(RemoveAt(t, i), t, i)
<1> DEFINE u == RemoveAt(t, i)
<1>1. /\ Len(s) \in Nat /\ DOMAIN s = 1 .. Len(s) /\ Len(t) \in Nat /\ DOMAIN t = 1 .. Len(t)
      /\ i \in 1 .. Len(t)
  BY LenProperties
<1>2. /\ u \in Seq(S) /\ Len(u) = Len(t) - 1
      /\ \A j \in 1 .. Len(t) - 1 : u[j] = IF j < i THEN t[j] ELSE t[j + 1]
  BY <1>1, RemoveAtProperties
<1> HIDE DEF u
<1>3. DOMAIN u = 1 .. Len(t) - 1
  BY <1>1, <1>2, LenProperties
<1>4. /\ Len(t) = Cardinality(K) /\ OneEach(t)
      /\ \A n \in DOMAIN t : \E j \in K : t[n] = s[j]
      /\ \A j \in K : \E n \in DOMAIN t : t[n] = s[j]
  BY DEF Takes
<1>5. Len(u) = Cardinality(K \ {i})
  <2>1. 1 \in Int /\ Len(s) \in Int
    BY <1>1
  <2>2. IsFiniteSet(1 .. Len(s))
    BY ONLY <2>1, FS_Interval
  <2>3. K \in SUBSET (1 .. Len(s))
    BY <1>1
  <2>4. IsFiniteSet(K)
    BY ONLY <2>2, <2>3, FS_Subset
  <2>5. Cardinality(K \ {i}) = Cardinality(K) - 1
    BY ONLY <2>4, FS_RemoveElement
  <2>6. QED
    BY <1>2, <1>4, <2>5
<1>6. ASSUME NEW n \in DOMAIN u
      PROVE  \E m \in DOMAIN t : u[n] = t[m] /\ m # i /\ m = IF n < i THEN n ELSE n + 1
  BY <1>1, <1>2, <1>3
<1>7. ASSUME NEW m \in DOMAIN t, m # i PROVE \E n \in DOMAIN u : u[n] = t[m]
  <2>1. CASE m < i
    <3>1. m \in 1 .. Len(t) - 1
      BY <1>1, <2>1
    <3>2. QED
      BY <1>2, <1>3, <2>1, <3>1
  <2>2. CASE m > i
    <3>1. m - 1 \in 1 .. Len(t) - 1 /\ ~(m - 1 < i) /\ (m - 1) + 1 = m
      BY <1>1, <2>2
    <3>2. QED
      BY <1>2, <1>3, <3>1
  <2>3. QED
    BY <1>1, <1>7, <2>1, <2>2
<1>8. ASSUME NEW n \in DOMAIN u PROVE \E j \in K \ {i} : u[n] = s[j]
  <2>1. PICK m \in DOMAIN t : u[n] = t[m] /\ m # i
    BY <1>6
  <2>2. PICK j \in K : t[m] = s[j]
    BY <1>4
  <2>3. j # i
    <3>1. SUFFICES ASSUME j = i PROVE FALSE
      OBVIOUS
    <3>2. t[m].id = t[i].id /\ i \in DOMAIN t
      BY <2>2, <3>1
    <3>3. QED
      BY ONLY <1>4, <2>1, <3>2 DEF OneEach
  <2>4. QED
    BY <2>1, <2>2, <2>3
<1>9. ASSUME NEW j \in K \ {i} PROVE \E n \in DOMAIN u : u[n] = s[j]
  <2>1. PICK m \in DOMAIN t : t[m] = s[j]
    BY <1>4
  <2>2. m # i
    BY <2>1 DEF OneEach
  <2>3. QED
    BY <1>7, <2>1, <2>2
<1>10. OneEach(u)
  <2>1. SUFFICES ASSUME NEW n \in DOMAIN u, NEW m \in DOMAIN u, u[n].id = u[m].id PROVE n = m
    BY DEF OneEach
  <2>2. PICK n1 \in DOMAIN t : u[n] = t[n1] /\ n1 = IF n < i THEN n ELSE n + 1
    BY <1>6
  <2>3. PICK m1 \in DOMAIN t : u[m] = t[m1] /\ m1 = IF m < i THEN m ELSE m + 1
    BY <1>6
  <2>4. n1 = m1
    <3>1. t[n1].id = t[m1].id
      BY <2>1, <2>2, <2>3
    <3>2. QED
      BY ONLY <1>4, <3>1, n1 \in DOMAIN t, m1 \in DOMAIN t DEF OneEach
  <2>5. n \in Int /\ m \in Int /\ i \in Int
    BY <1>1, <1>3
  <2>6. QED
    BY ONLY <2>2, <2>3, <2>4, <2>5
<1>11. SameBefore(u, t, i)
  BY <1>1, <1>2, <1>3 DEF SameBefore
<1>12. DOMAIN u = 1 .. Cardinality(K \ {i})
  BY <1>2, <1>3, <1>5
<1>13. Takes(u, s, K \ {i})
  BY <1>5, <1>8, <1>9, <1>10, <1>12 DEF Takes
<1>14. QED
  BY <1>2, <1>11, <1>13 DEF u

\* Positions in increasing order, all of the list.
Positions(d, s) ==
  /\ \A i \in DOMAIN d : d[i] \in DOMAIN s
  /\ \A i, j \in DOMAIN d : i < j => d[i] < d[j]

\* Erasing positions in increasing order, from the last to the first, leaves
\* exactly the entries at the other positions.
LEMMA EraseTakes ==
  ASSUME NEW S, NEW s \in Seq(S), OneEach(s), NEW d \in Seq(Nat), Positions(d, s)
  PROVE  Erase(s, d) \in Seq(S) /\ Takes(Erase(s, d), s, DOMAIN s \ ToSet(d))
<1> DEFINE n == Len(d)
           at1(k) == d[n - k + 1]
           Left(k) == {i \in DOMAIN s : \A j \in 1 .. k : at1(j) # i}
           Stage(e, k) ==
             /\ e[k] \in Seq(S) /\ Takes(e[k], s, Left(k))
             /\ \A i \in DOMAIN s : (\A j \in 1 .. k : i < at1(j)) => i \in DOMAIN e[k] /\ e[k][i] = s[i]
<1>1. /\ n \in Nat /\ DOMAIN d = 1 .. n /\ Len(s) \in Nat /\ DOMAIN s = 1 .. Len(s)
      /\ \A k \in 1 .. n : at1(k) \in DOMAIN s
      /\ \A j, k \in 1 .. n : j < k => at1(k) < at1(j)
  <2>1. n \in Nat /\ DOMAIN d = 1 .. n /\ Len(s) \in Nat /\ DOMAIN s = 1 .. Len(s)
    BY LenProperties
  <2>2. \A k \in 1 .. n : n - k + 1 \in 1 .. n
    BY <2>1
  <2>3. \A j, k \in 1 .. n : j < k => n - k + 1 < n - j + 1
    BY <2>1
  <2>4. QED
    BY <2>1, <2>2, <2>3 DEF Positions
<1>2. PICK e : /\ e[0] = s /\ Erase(s, d) = e[n]
               /\ \A k \in 1 .. n : e[k] = RemoveAt(e[k - 1], at1(k))
  BY SMTT(30), EraseStages
<1>3. Stage(e, 0)
  <2>1. Left(0) = DOMAIN s /\ 1 .. 0 = {}
    <3>1. 1 .. 0 = {}
      OBVIOUS
    <3>2. QED
      BY ONLY <3>1
  <2>2. Cardinality(DOMAIN s) = Len(s)
    BY DomainFinite
  <2>3. Takes(s, s, DOMAIN s)
    BY <1>1, <2>2 DEF Takes
  <2>4. QED
    BY <1>2, <2>1, <2>3
<1>4. ASSUME NEW k \in 1 .. n, Stage(e, k - 1) PROVE Stage(e, k)
  <2> DEFINE i == at1(k)
             t == e[k - 1]
  <2>1. k \in Nat /\ k - 1 \in Nat /\ i \in DOMAIN s /\ i \in Nat
    BY <1>1
  <2>2. \A j \in 1 .. k - 1 : i < at1(j) /\ at1(j) # i
    <3>1. ASSUME NEW j \in 1 .. k - 1 PROVE i < at1(j) /\ at1(j) # i
      <4>1. j \in 1 .. n /\ j < k
        BY <1>1
      <4>2. i < at1(j) /\ i \in Nat /\ at1(j) \in Nat
        BY <1>1, <4>1
      <4> HIDE DEF i, at1
      <4>3. QED
        BY ONLY <4>2
    <3>2. QED
      BY <3>1
  <2>3. i \in Left(k - 1) /\ Left(k - 1) \subseteq DOMAIN s
    BY <2>1, <2>2
  <2>4. t \in Seq(S) /\ Takes(t, s, Left(k - 1)) /\ i \in DOMAIN t /\ t[i] = s[i]
    BY <1>4, <2>1, <2>2
  <2>5. e[k] = RemoveAt(t, i)
    BY <1>2
  <2>6. Left(k) = Left(k - 1) \ {i}
    <3>1. 1 .. k = (1 .. k - 1) \cup {k}
      BY <2>1
    <3>2. \A x \in DOMAIN s : (\A j \in 1 .. k : at1(j) # x) <=> (\A j \in 1 .. k - 1 : at1(j) # x) /\ i # x
      BY ONLY <3>1
    <3>3. QED
      BY <3>2
  <2> DEFINE K == Left(k - 1)
  <2> HIDE DEF i, t, Left
  <2>7. /\ RemoveAt(t, i) \in Seq(S) /\ Takes(RemoveAt(t, i), s, Left(k - 1) \ {i})
        /\ SameBefore(RemoveAt(t, i), t, i)
    <3>1. K \subseteq DOMAIN s /\ i \in K /\ Takes(t, s, K) /\ t \in Seq(S) /\ i \in DOMAIN t /\ t[i] = s[i]
      BY <2>3, <2>4
    <3> HIDE DEF K
    <3>2. /\ RemoveAt(t, i) \in Seq(S) /\ Takes(RemoveAt(t, i), s, K \ {i})
          /\ SameBefore(RemoveAt(t, i), t, i)
      BY ONLY <3>1, s \in Seq(S), OneEach(s), RemoveTakes
    <3>3. QED
      BY <3>2 DEF K
  <2>8. ASSUME NEW x \in DOMAIN s, \A j \in 1 .. k : x < at1(j)
        PROVE  x \in DOMAIN e[k] /\ e[k][x] = s[x]
    <3>1. k \in 1 .. k /\ \A j \in 1 .. k - 1 : j \in 1 .. k
      BY <2>1
    <3>2. x < i /\ \A j \in 1 .. k - 1 : x < at1(j)
      BY <2>8, <3>1 DEF i
    <3>3. x \in 1 .. i - 1
      BY <1>1, <2>1, <3>2
    <3>4. t[x] = s[x]
      BY <1>4, <3>2 DEF t
    <3>5. QED
      BY <2>5, <2>7, <3>3, <3>4 DEF SameBefore
  <2>9. e[k] \in Seq(S) /\ Takes(e[k], s, Left(k))
    BY <2>5, <2>6, <2>7
  <2>10. QED
    BY <2>8, <2>9
<1>5. Stage(e, n)
  <2> DEFINE Bad == {k \in 0 .. n : ~Stage(e, k)}
  <2> HIDE DEF Stage
  <2>1. SUFFICES ASSUME Bad # {} PROVE FALSE
    BY <1>1
  <2>2. Bad \subseteq Nat
    BY <1>1
  <2>3. PICK k \in Bad : \A j \in Bad : <<j, k>> \notin OpToRel(<, Nat)
    <3> HIDE DEF Bad
    <3>1. QED
      BY <2>1, <2>2, WFMin, NatLessThanWellFounded, Zenon
  <2>4. \A j \in Bad : ~(j < k)
    <3> HIDE DEF Bad
    <3>1. QED
      BY <2>2, <2>3, Zenon DEF OpToRel
  <2>5. k # 0 /\ k \in 1 .. n /\ k - 1 \in 0 .. n /\ k - 1 < k
    BY <1>1, <1>3
  <2>6. Stage(e, k - 1)
    BY <2>4, <2>5
  <2>7. Stage(e, k)
    BY ONLY <1>4, <2>5, <2>6
  <2>8. QED
    BY <2>7
<1>6. Left(n) = DOMAIN s \ ToSet(d)
  <2>1. \A j \in 1 .. n : n - j + 1 \in 1 .. n /\ n - (n - j + 1) + 1 = j
    BY <1>1
  <2>2. \A x : (\E j \in 1 .. n : at1(j) = x) <=> x \in ToSet(d)
    BY <1>1, <2>1 DEF ToSet
  <2> HIDE DEF at1
  <2>3. QED
    BY <2>2
<1>7. QED
  BY <1>2, <1>5, <1>6

-----------------------------------------------------------------------------
(* What a session is given and what admission adds to the report           *)

LEMMA SessionFacts ==
  ASSUME inputs \in Sessions
  PROVE  /\ Cands \in Seq(CandidateInputs) /\ Len(Cands) \in Nat /\ DOMAIN Cands = 1 .. Len(Cands)
         /\ \A i \in DOMAIN Cands : Cands[i] \in CandidateInputs
         /\ \A i, j \in DOMAIN Cands : Cands[i].id = Cands[j].id => i = j
         /\ Opt \in OptionInputs /\ ~Refused(inputs)
<1>1. Given(inputs) /\ ~Refused(inputs)
  BY TuningAssumption
<1>2. Cands \in Seq(CandidateInputs) /\ Opt \in OptionInputs
  BY <1>1 DEF Given, Cands, Opt
<1>3. QED
  BY <1>1, <1>2, LenProperties, ElementOfSeq DEF Given, Cands

\* A positive number of plans is kept of a positive number of valid ones.
LEMMA RetainedPlans ==
  ASSUME inputs \in Sessions, NEW c \in CandidateInputs
  PROVE  /\ Retained(c) \in Seq(PlanInputs)
         /\ Retained(c) = <<>> => \A p \in ToSet(c.plans) : ~Realizes(p)
<1> DEFINE K == {i \in DOMAIN c.plans : Realizes(c.plans[i])}
           valid == Picked(c.plans, K)
<1>1. c.plans \in Seq(PlanInputs) /\ K \subseteq DOMAIN c.plans
  BY DEF CandidateInputs
<1>2. valid \in Seq(PlanInputs) /\ Takes(valid, c.plans, K)
  <2> DEFINE s == c.plans
  <2>1. s \in Seq(PlanInputs) /\ K \subseteq DOMAIN s
    BY <1>1
  <2> HIDE DEF s, K
  <2>2. Picked(s, K) \in Seq(PlanInputs) /\ Takes(Picked(s, K), s, K)
    BY <2>1, PickedTakes
  <2>3. QED
    BY <2>2 DEF s
<1> HIDE DEF valid
<1>3. /\ Len(valid) \in Nat /\ DOMAIN valid = 1 .. Len(valid) /\ Opt.plans \in Nat
      /\ \A i \in 1 .. Len(valid) : valid[i] \in PlanInputs
  BY <1>2, LenProperties, ElementOfSeq, SessionFacts DEF OptionInputs
<1> DEFINE m == Smaller(Opt.plans, Len(valid))
<1>4. Retained(c) = IF Opt.plans = 0 THEN valid ELSE SubSeq(valid, 1, m)
  BY DEF Retained, valid
<1>5. /\ m \in Nat /\ m <= Len(valid) /\ (Opt.plans # 0 /\ m = 0 => Len(valid) = 0)
  BY <1>3 DEF Smaller
<1> HIDE DEF m
<1>6. /\ SubSeq(valid, 1, m) \in Seq(PlanInputs)
      /\ Len(SubSeq(valid, 1, m)) = IF 1 <= m THEN m - 1 + 1 ELSE 0
  <2>1. \A i \in 1 .. m : valid[i] \in PlanInputs
    BY <1>3, <1>5
  <2>2. QED
    BY ONLY <1>3, <1>5, <2>1, SubSeqProperties
<1>7. ASSUME Retained(c) = <<>>, NEW p \in ToSet(c.plans) PROVE ~Realizes(p)
  <2>1. Len(valid) = 0
    BY <1>3, <1>4, <1>5, <1>6, <1>7
  <2>2. DOMAIN valid = {}
    BY <1>3, <2>1
  <2>3. K = {}
    BY <1>2, <2>2 DEF Takes
  <2>4. PICK i \in DOMAIN c.plans : p = c.plans[i]
    BY DEF ToSet
  <2>5. QED
    BY <2>3, <2>4
<1>8. QED
  BY <1>2, <1>4, <1>6, <1>7

\* The parts of the report that admission leaves alone.
KeptBooks(new) ==
  /\ new.unrankable = report.unrankable /\ new.dropped = report.dropped
  /\ new.attempts = report.attempts /\ new.hits = report.hits /\ new.written = report.written
  /\ new.measured = report.measured /\ new.completed = report.completed
Blames(r) == r.bySource + r.byLegality + r.byMapping + r.byCompile

\* A candidate is either appended to the ranked ones or rejected by a stage.
RankedNow(new, c) ==
  /\ \E e \in Entries : e.id = c.id /\ e.ns = Absent /\ new.ranked = Append(report.ranked, e)
  /\ new.rejected = report.rejected /\ Blames(new) = Blames(report)
RefusedNow(new, c) ==
  /\ \E why \in {"source", "legality", "mapping", "compile"} :
       /\ new.rejected = Append(report.rejected, [id |-> c.id, why |-> why])
       /\ why = "mapping" => \A p \in ToSet(c.plans) : ~Realizes(p)
  /\ new.ranked = report.ranked /\ Blames(new) = Blames(report) + 1
Admitted(new, c) == new \in Reports /\ KeptBooks(new) /\ (RankedNow(new, c) \/ RefusedNow(new, c))

LEMMA RefuseAdmits ==
  ASSUME report \in Reports, NEW c \in CandidateInputs,
         NEW why \in {"source", "legality", "mapping", "compile"},
         why = "mapping" => \A p \in ToSet(c.plans) : ~Realizes(p)
  PROVE  Refuse(c, why) \in Reports /\ KeptBooks(Refuse(c, why)) /\ RefusedNow(Refuse(c, why), c)
<1> DEFINE e == [id |-> c.id, why |-> why]
           new == Refuse(c, why)
<1>1. e \in Refusals /\ report.rejected \in Seq(Refusals)
  BY DEF Refusals, CandidateInputs, Reports
<1>2. Append(report.rejected, e) \in Seq(Refusals)
  BY <1>1, AppendProperties
<1> DEFINE one(stage) == IF why = stage THEN 1 ELSE 0
           s == report.bySource + one("source")
           l == report.byLegality + one("legality")
           m == report.byMapping + one("mapping")
           k == report.byCompile + one("compile")
<1>3. /\ report.bySource \in Nat /\ report.byLegality \in Nat /\ report.byMapping \in Nat
      /\ report.byCompile \in Nat
  BY DEF Reports
<1>4. s \in Nat /\ l \in Nat /\ m \in Nat /\ k \in Nat
  BY <1>3
<1>5. s + l + m + k = Blames(report) + 1
  BY <1>3 DEF Blames
<1>6. new = [report EXCEPT !.rejected = Append(@, e), !.bySource = s, !.byLegality = l,
                           !.byMapping = m, !.byCompile = k]
  BY DEF Refuse
<1> HIDE DEF s, l, m, k, new, e
<1>7. new \in Reports
  BY <1>2, <1>4, <1>6 DEF Reports
<1>8. KeptBooks(new) /\ new.ranked = report.ranked /\ new.rejected = Append(report.rejected, e)
  BY <1>6 DEF Reports, KeptBooks
<1>9. Blames(new) = Blames(report) + 1
  <2>1. new.bySource = s /\ new.byLegality = l /\ new.byMapping = m /\ new.byCompile = k
    BY <1>6 DEF Reports
  <2>2. QED
    BY <1>5, <2>1 DEF Blames
<1>10. QED
  BY <1>7, <1>8, <1>9 DEF RefusedNow, new, e

\* The retained plans in order until one compiles.
LEMMA SelectAdmits ==
  ASSUME inputs \in Sessions, report \in Reports, NEW c \in CandidateInputs
  PROVE  Admitted(Select(c), c)
<1> DEFINE kept == Retained(c)
           good == {i \in DOMAIN kept : kept[i].compiles}
           first == CHOOSE i \in good : \A j \in good : i <= j
           tried == IF good = {} THEN Len(kept) ELSE first - 1
           entry == [id |-> c.id, plan |-> kept[first].id, cycles |-> kept[first].cycles,
                     ns |-> Absent, rate |-> Absent, origin |-> "static", key |-> c.key]
           base == IF kept = <<>> THEN Refuse(c, "mapping")
                   ELSE IF good = {} THEN Refuse(c, "compile")
                   ELSE [report EXCEPT !.ranked = Append(@, entry)]
           cut == base.truncated \/ Len(kept) < Cardinality({i \in DOMAIN c.plans : Realizes(c.plans[i])})
<1>1. /\ kept \in Seq(PlanInputs) /\ Len(kept) \in Nat /\ DOMAIN kept = 1 .. Len(kept)
      /\ \A i \in DOMAIN kept : kept[i] \in PlanInputs
      /\ kept = <<>> => \A p \in ToSet(c.plans) : ~Realizes(p)
  BY RetainedPlans, LenProperties, ElementOfSeq
<1> HIDE DEF kept
<1>2. good # {} => first \in good
  <2>1. SUFFICES ASSUME good # {} PROVE first \in good
    OBVIOUS
  <2>2. good \subseteq Nat
    BY <1>1
  <2> HIDE DEF good
  <2>3. PICK i \in good : \A j \in good : <<j, i>> \notin OpToRel(<, Nat)
    BY <2>1, <2>2, WFMin, NatLessThanWellFounded, Zenon
  <2>4. \A j \in good : ~(j < i)
    BY <2>2, <2>3, Zenon DEF OpToRel
  <2>5. \A j \in good : i <= j
    BY <2>2, <2>4
  <2>6. QED
    BY <2>5
<1>3. tried \in Nat
  BY <1>1, <1>2
<1>4. good # {} => entry \in Entries
  <2>1. ASSUME good # {} PROVE kept[first].id \in Nat /\ kept[first].cycles \in Nat
    BY <1>1, <1>2, <2>1 DEF PlanInputs
  <2> HIDE DEF first
  <2>2. QED
    BY <2>1 DEF Entries, CandidateInputs
<1> HIDE DEF good, first, entry, tried
<1>5. base \in Reports /\ KeptBooks(base) /\ (RankedNow(base, c) \/ RefusedNow(base, c))
  <2>1. CASE kept = <<>>
    BY <1>1, <2>1, RefuseAdmits
  <2>2. CASE kept # <<>> /\ good = {}
    BY <2>2, RefuseAdmits
  <2>3. CASE kept # <<>> /\ good # {}
    <3>1. base = [report EXCEPT !.ranked = Append(@, entry)] /\ entry \in Entries
      BY <1>4, <2>3
    <3>2. report.ranked \in Seq(Entries) /\ Append(report.ranked, entry) \in Seq(Entries)
      BY <3>1, AppendProperties DEF Reports
    <3> HIDE DEF base
    <3>3. base \in Reports /\ KeptBooks(base)
      BY <3>1, <3>2 DEF Reports, KeptBooks
    <3>4. base.ranked = Append(report.ranked, entry) /\ base.rejected = report.rejected
      BY <3>1 DEF Reports
    <3>5. Blames(base) = Blames(report)
      BY <3>1 DEF Reports, Blames
    <3>6. entry.id = c.id /\ entry.ns = Absent
      BY DEF entry
    <3>7. QED
      BY <3>1, <3>3, <3>4, <3>5, <3>6 DEF RankedNow
  <2>4. QED
    BY <2>1, <2>2, <2>3
<1>6. Select(c) = [base EXCEPT !.failedCompiles = @ + tried, !.truncated = cut]
  BY DEF Select, kept, good, first, entry, tried
<1>7. cut \in BOOLEAN
  OBVIOUS
<1> HIDE DEF base, cut
<1>8. Select(c) \in Reports
  <2> DEFINE f == base.failedCompiles + tried
  <2>1. f \in Nat
    <3>1. base.failedCompiles \in Nat
      BY <1>5 DEF Reports
    <3>2. QED
      BY <1>3, <3>1
  <2>2. Select(c) = [base EXCEPT !.failedCompiles = f, !.truncated = cut]
    BY <1>6
  <2> HIDE DEF f
  <2>3. QED
    BY <1>5, <1>7, <2>1, <2>2 DEF Reports
<1>9. /\ Select(c).ranked = base.ranked /\ Select(c).rejected = base.rejected
      /\ Blames(Select(c)) = Blames(base)
      /\ KeptBooks(base) => KeptBooks(Select(c))
  BY <1>5, <1>6 DEF Reports, Blames, KeptBooks
<1>10. QED
  BY <1>5, <1>8, <1>9 DEF Admitted, RankedNow, RefusedNow

LEMMA AdmitAdmits ==
  ASSUME inputs \in Sessions, report \in Reports, at \in 1 .. Len(Cands) + 1, Admit
  PROVE  Cands[at] \in CandidateInputs /\ Admitted(report', Cands[at])
<1> DEFINE c == Cands[at]
<1>1. c \in CandidateInputs
  BY SessionFacts DEF Admit
<1>2. report' = IF ~Opt.backend THEN Refuse(c, "compile")
                ELSE IF c.source # "ok" THEN Refuse(c, c.source) ELSE Select(c)
  BY DEF Admit
<1>3. c.source \in {"ok", "source", "legality"}
  BY <1>1 DEF CandidateInputs
<1> HIDE DEF c
<1>4. Admitted(report', c)
  <2>1. CASE report' = Refuse(c, "compile")
    BY <1>1, <2>1, RefuseAdmits DEF Admitted
  <2>2. CASE report' = Refuse(c, c.source) /\ c.source \in {"source", "legality"}
    BY <1>1, <2>2, RefuseAdmits DEF Admitted
  <2>3. CASE report' = Select(c)
    BY <1>1, <2>3, SelectAdmits
  <2>4. QED
    BY <1>2, <1>3, <2>1, <2>2, <2>3
<1>5. QED
  BY <1>1, <1>4 DEF c

-----------------------------------------------------------------------------
(* The final report                                                        *)

\* The cut keeps the first entries, and topK of them if it keeps fewer than all.
Prefix(t, s) ==
  /\ Len(t) <= Len(s) /\ DOMAIN t = 1 .. Len(t) /\ \A i \in DOMAIN t : t[i] = s[i]
  /\ Len(t) # Len(s) => Len(t) = Opt.topK

LEMMA CutProperties ==
  ASSUME inputs \in Sessions, NEW S, NEW s \in Seq(S)
  PROVE  Cut(s) \in Seq(S) /\ Prefix(Cut(s), s)
<1>1. /\ Len(s) \in Nat /\ DOMAIN s = 1 .. Len(s) /\ Opt.topK \in Nat
      /\ \A i \in 1 .. Len(s) : s[i] \in S
  BY LenProperties, ElementOfSeq, SessionFacts DEF OptionInputs
<1>2. CASE Opt.topK # 0 /\ Len(s) > Opt.topK
  <2> DEFINE m == Opt.topK
             t == SubSeq(s, 1, m)
  <2>1. \A i \in 1 .. m : s[i] \in S
    BY <1>1, <1>2
  <2> HIDE DEF m
  <2>2. m \in Nat /\ 1 <= m /\ m < Len(s)
    BY <1>1, <1>2 DEF m
  <2>3. /\ t \in Seq(S) /\ Len(t) = (IF 1 <= m THEN m - 1 + 1 ELSE 0)
        /\ \A i \in 1 .. m - 1 + 1 : t[i] = s[1 + i - 1]
    BY ONLY <1>1, <2>1, <2>2, SubSeqProperties
  <2> HIDE DEF t
  <2>4. Len(t) = m /\ DOMAIN t = 1 .. m /\ \A i \in 1 .. m : t[i] = s[i]
    BY <2>2, <2>3, LenProperties
  <2>5. Cut(s) = t
    BY <1>2 DEF Cut, t, m
  <2>6. QED
    BY <1>1, <2>2, <2>3, <2>4, <2>5 DEF Prefix, m
<1>3. CASE ~(Opt.topK # 0 /\ Len(s) > Opt.topK)
  BY <1>1, <1>3 DEF Cut, Prefix
<1>4. QED
  BY <1>2, <1>3

\* What the final report says of the entries that were not rejected.
Final(new, Kept) ==
  /\ OneEach(new.ranked) /\ OneEach(new.unrankable)
  /\ \A n \in DOMAIN new.ranked : \E i \in Kept : new.ranked[n] = report.ranked[i]
  /\ \A n \in DOMAIN new.unrankable : \E i \in Kept : new.unrankable[n] = report.ranked[i]
  /\ \A m \in DOMAIN new.ranked, n \in DOMAIN new.unrankable : new.ranked[m].id # new.unrankable[n].id
  /\ \A i \in Kept : \/ Len(new.ranked) = Opt.topK
                     \/ \E n \in DOMAIN new.ranked : new.ranked[n] = report.ranked[i]
                     \/ \E n \in DOMAIN new.unrankable : new.unrankable[n] = report.ranked[i]
Sorted(s) ==
  /\ \A i, j \in DOMAIN s : i < j => RanksBefore(s[i], s[j])
  /\ MeasuredObjective => \A n \in DOMAIN s : Available(s[n])
SameBooks(new) ==
  /\ new.rejected = report.rejected /\ Blames(new) = Blames(report)
  /\ new.attempts = report.attempts /\ new.hits = report.hits /\ new.written = report.written
  /\ new.measured = report.measured /\ new.completed = report.completed

LEMMA FinishLists ==
  ASSUME inputs \in Sessions, report \in Reports, OneEach(report.ranked),
         Positions(report.dropped, report.ranked), Finish
  PROVE  /\ report' \in Reports /\ report'.dropped = <<>> /\ SameBooks(report')
         /\ Final(report', DOMAIN report.ranked \ ToSet(report.dropped))
         /\ Sorted(report'.ranked)
<1> DEFINE Kept == DOMAIN report.ranked \ ToSet(report.dropped)
           left == Erase(report.ranked, report.dropped)
           aside == {i \in DOMAIN left : MeasuredObjective /\ ~Available(left[i])}
           rest == DOMAIN left \ aside
           rankable == Picked(left, rest)
           sorted == RankedPlans(rankable)
           ranked == Cut(sorted)
           unrankable == Picked(left, aside)
<1>0. report.ranked \in Seq(Entries) /\ report.dropped \in Seq(Nat)
  BY DEF Reports
<1>1. left \in Seq(Entries) /\ Takes(left, report.ranked, Kept)
  BY <1>0, EraseTakes
<1>2. report' = [report EXCEPT !.ranked = ranked, !.dropped = <<>>, !.unrankable = unrankable]
  BY DEF Finish
<1> HIDE DEF left, Kept
<1>3. aside \subseteq DOMAIN left /\ rest \subseteq DOMAIN left
  OBVIOUS
<1>4. /\ \A i \in DOMAIN left : (i \in aside <=> MeasuredObjective /\ ~Available(left[i]))
      /\ \A i \in DOMAIN left : i \in aside \/ i \in rest
      /\ \A i \in rest : i \notin aside
  OBVIOUS
<1> HIDE DEF aside, rest
<1>5. /\ rankable \in Seq(Entries) /\ Takes(rankable, left, rest)
      /\ unrankable \in Seq(Entries) /\ Takes(unrankable, left, aside)
  BY <1>1, <1>3, PickedTakes
<1> HIDE DEF rankable, unrankable
<1>6. OneEach(left) /\ OneEach(rankable) /\ OneEach(unrankable)
  BY <1>1, <1>5 DEF Takes
<1>7. /\ sorted \in Seq(Entries) /\ Takes(sorted, rankable, DOMAIN rankable)
      /\ \A i, j \in DOMAIN sorted : i < j => RanksBefore(sorted[i], sorted[j])
  BY <1>5, <1>6, RankedPlansSorts
<1> HIDE DEF sorted
<1>8. ranked \in Seq(Entries) /\ Prefix(ranked, sorted)
  BY <1>7, CutProperties
<1> HIDE DEF ranked
<1>9. /\ Len(sorted) \in Nat /\ DOMAIN sorted = 1 .. Len(sorted)
      /\ Len(ranked) \in Nat /\ DOMAIN ranked \subseteq DOMAIN sorted
      /\ \A n \in DOMAIN ranked : ranked[n] = sorted[n]
      /\ Len(ranked) = Len(sorted) => DOMAIN ranked = DOMAIN sorted
  BY <1>7, <1>8, LenProperties DEF Prefix
<1>10. ASSUME NEW n \in DOMAIN sorted PROVE \E i \in rest : sorted[n] = left[i]
  <2>1. PICK j \in DOMAIN rankable : sorted[n] = rankable[j]
    BY <1>7 DEF Takes
  <2>2. QED
    BY <1>5, <2>1 DEF Takes
<1>11. ASSUME NEW i \in rest PROVE \E n \in DOMAIN sorted : sorted[n] = left[i]
  BY <1>5, <1>7 DEF Takes
<1>12. OneEach(ranked)
  <2>1. OneEach(sorted)
    BY <1>6, <1>7 DEF Takes
  <2>2. QED
    BY <1>9, <2>1 DEF OneEach
<1>13. /\ report'.ranked = ranked /\ report'.unrankable = unrankable /\ report'.dropped = <<>>
       /\ SameBooks(report')
  BY <1>2 DEF Reports, SameBooks, Blames
<1>14. report' \in Reports
  <2>1. <<>> \in Seq(Nat)
    BY EmptySeq
  <2>2. QED
    BY <1>2, <1>5, <1>8, <2>1 DEF Reports
<1>15. \A i \in DOMAIN left : \E k \in Kept : left[i] = report.ranked[k]
  BY <1>1 DEF Takes
<1>16. \A k \in Kept : \E i \in DOMAIN left : left[i] = report.ranked[k]
  BY <1>1 DEF Takes
<1>17. \A n \in DOMAIN ranked : \E k \in Kept : ranked[n] = report.ranked[k]
  BY <1>3, <1>9, <1>10, <1>15
<1>18. \A n \in DOMAIN unrankable : \E i \in aside : unrankable[n] = left[i]
  BY <1>5 DEF Takes
<1>19. \A n \in DOMAIN unrankable : \E k \in Kept : unrankable[n] = report.ranked[k]
  BY <1>3, <1>15, <1>18
<1>20. ASSUME NEW m \in DOMAIN ranked, NEW n \in DOMAIN unrankable PROVE ranked[m].id # unrankable[n].id
  <2>1. PICK i \in rest : ranked[m] = left[i]
    BY <1>9, <1>10
  <2>2. PICK j \in aside : unrankable[n] = left[j]
    BY <1>18
  <2>3. i # j /\ i \in DOMAIN left /\ j \in DOMAIN left
    BY <1>3, <1>4
  <2>4. QED
    BY <1>6, <2>1, <2>2, <2>3 DEF OneEach
<1>21. ASSUME NEW k \in Kept
       PROVE  \/ Len(ranked) = Opt.topK
              \/ \E n \in DOMAIN ranked : ranked[n] = report.ranked[k]
              \/ \E n \in DOMAIN unrankable : unrankable[n] = report.ranked[k]
  <2>1. PICK i \in DOMAIN left : left[i] = report.ranked[k]
    BY <1>16
  <2>2. CASE i \in aside
    BY <1>5, <2>1, <2>2 DEF Takes
  <2>3. CASE i \in rest
    <3>1. PICK n \in DOMAIN sorted : sorted[n] = left[i]
      BY <1>11, <2>3
    <3>2. CASE Len(ranked) = Len(sorted)
      BY <1>9, <2>1, <3>1, <3>2
    <3>3. CASE Len(ranked) # Len(sorted)
      BY <1>8, <3>3 DEF Prefix
    <3>4. QED
      BY <3>2, <3>3
  <2>4. QED
    BY <1>4, <2>2, <2>3
<1>22. Final(report', Kept)
  BY <1>6, <1>12, <1>13, <1>17, <1>19, <1>20, <1>21 DEF Final
<1>23. Sorted(ranked)
  <2>1. \A i, j \in DOMAIN ranked : i < j => RanksBefore(ranked[i], ranked[j])
    BY <1>7, <1>9
  <2>2. ASSUME MeasuredObjective, NEW n \in DOMAIN ranked PROVE Available(ranked[n])
    <3>1. PICK i \in rest : ranked[n] = left[i]
      BY <1>9, <1>10
    <3>2. QED
      BY <1>3, <1>4, <2>2, <3>1
  <2>3. QED
    BY <2>1, <2>2 DEF Sorted
<1>24. QED
  BY <1>13, <1>14, <1>22, <1>23 DEF Kept

-----------------------------------------------------------------------------
(* Steps of the measurement                                                *)

\* The candidate at hand is in the list and within the limit on attempts.
LEMMA HereIsRanked ==
  ASSUME Typed, Progress, pc \in Working \/ (pc = "measure" /\ More)
  PROVE  /\ Len(report.ranked) \in Nat /\ DOMAIN report.ranked = 1 .. Len(report.ranked)
         /\ at \in DOMAIN report.ranked /\ at \in Nat /\ This \in Entries /\ Key \in DOMAIN Digest
         /\ at <= Len(Cands) /\ Len(Cands) \in Nat
         /\ Opt.maxAttempts \in Nat /\ Opt.measureTop \in Nat
         /\ Opt.maxAttempts # 0 => at <= Opt.maxAttempts
         /\ Limit \in Nat /\ at <= Limit
<1>1. report.ranked \in Seq(Entries) /\ Len(Cands) \in Nat /\ Opt \in OptionInputs
  BY SessionFacts DEF Typed, Reports
<1>2. /\ Len(report.ranked) \in Nat /\ DOMAIN report.ranked = 1 .. Len(report.ranked)
      /\ \A i \in DOMAIN report.ranked : report.ranked[i] \in Entries
      /\ Opt.maxAttempts \in Nat /\ Opt.measureTop \in Nat
  BY <1>1, LenProperties, ElementOfSeq DEF OptionInputs
<1>3. at \in Nat /\ at >= 1
  BY <1>1 DEF Typed
<1>4. pc \in Measuring /\ at <= Limit
  BY DEF Measuring, Working, Progress, More
<1>5. Limit \in Nat /\ Limit <= Len(report.ranked) /\ (Opt.maxAttempts # 0 => Limit <= Opt.maxAttempts)
  BY <1>2 DEF Limit, Smaller
<1>6. Len(report.ranked) <= Len(Cands)
  BY <1>4 DEF Progress
<1>7. at \in DOMAIN report.ranked
  BY <1>2, <1>3, <1>4, <1>5
<1>8. This \in Entries
  BY <1>2, <1>7 DEF This
<1>9. Key \in DOMAIN Digest
  BY <1>8 DEF Key, Entries
<1>10. at <= Len(Cands) /\ (Opt.maxAttempts # 0 => at <= Opt.maxAttempts)
  BY <1>1, <1>2, <1>3, <1>4, <1>5, <1>6
<1>11. QED
  BY <1>1, <1>2, <1>3, <1>4, <1>5, <1>7, <1>8, <1>9, <1>10

\* A rejected measurement is noted, and its position set down for erasure.
RejectedNow(new, r) ==
  /\ new.rejected = Append(r.rejected, [id |-> This.id, why |-> "measurement"])
  /\ new.dropped = Append(r.dropped, at)
  /\ new.ranked = r.ranked /\ new.unrankable = r.unrankable /\ Blames(new) = Blames(r)
  /\ new.attempts = r.attempts /\ new.hits = r.hits /\ new.written = r.written
  /\ new.measured = r.measured /\ new.completed = r.completed

LEMMA RejectNotes ==
  ASSUME NEW r \in Reports, This \in Entries, at \in Nat, Reject(r)
  PROVE  report' \in Reports /\ RejectedNow(report', r)
<1> DEFINE e == [id |-> This.id, why |-> "measurement"]
           rejected == Append(r.rejected, e)
           dropped == Append(r.dropped, at)
<1>1. e \in Refusals /\ r.rejected \in Seq(Refusals) /\ r.dropped \in Seq(Nat)
  BY DEF Entries, Refusals, Reports
<1>2. rejected \in Seq(Refusals) /\ dropped \in Seq(Nat)
  BY <1>1, AppendProperties
<1>3. report' = [r EXCEPT !.rejected = rejected, !.dropped = dropped]
  BY DEF Reject
<1>4. report'.rejected = rejected /\ report'.dropped = dropped
  BY <1>3 DEF Reports
<1> HIDE DEF rejected, dropped
<1>5. report' \in Reports
  BY <1>2, <1>3 DEF Reports
<1>6. /\ report'.ranked = r.ranked /\ report'.unrankable = r.unrankable
      /\ report'.attempts = r.attempts /\ report'.hits = r.hits /\ report'.written = r.written
      /\ report'.measured = r.measured /\ report'.completed = r.completed
      /\ Blames(report') = Blames(r)
  BY <1>3 DEF Reports, Blames
<1>7. QED
  BY <1>4, <1>5, <1>6 DEF RejectedNow, rejected, dropped

\* An accepted measurement changes the entry at hand and nothing else of it.
AcceptedNow(new) ==
  /\ Len(new.ranked) = Len(report.ranked) /\ DOMAIN new.ranked = DOMAIN report.ranked
  /\ \A i \in DOMAIN report.ranked : i # at => new.ranked[i] = report.ranked[i]
  /\ new.ranked[at].id = This.id /\ new.ranked[at].key = Key /\ new.ranked[at].ns = job.ns
  /\ new.rejected = report.rejected /\ new.dropped = report.dropped
  /\ new.unrankable = report.unrankable /\ Blames(new) = Blames(report)
  /\ new.attempts = report.attempts /\ new.written = report.written
  /\ new.hits = report.hits + (IF job.cached THEN 1 ELSE 0)
  /\ new.measured \in {report.measured, report.measured + 1}
  /\ new.completed = report.completed + 1

LEMMA AcceptNotes ==
  ASSUME report \in Reports, job \in Jobs, at \in DOMAIN report.ranked, This \in Entries, Accept
  PROVE  report' \in Reports /\ AcceptedNow(report')
<1> DEFINE r == [This EXCEPT !.ns = job.ns, !.rate = job.rate,
                             !.origin = IF job.cached THEN "record" ELSE "runtime"]
           ranked == [report.ranked EXCEPT ![at] = r]
           hits == report.hits + (IF job.cached THEN 1 ELSE 0)
           measured == report.measured + (IF Available(r) THEN 1 ELSE 0)
           completed == report.completed + 1
<1>1. /\ report.ranked \in Seq(Entries) /\ Len(report.ranked) \in Nat
      /\ DOMAIN report.ranked = 1 .. Len(report.ranked)
      /\ report.hits \in Nat /\ report.measured \in Nat /\ report.completed \in Nat
  BY LenProperties DEF Reports
<1>2. job.ns \in Nat \cup {Absent} /\ job.rate \in Nat \cup {Absent}
  BY TuningAssumption DEF Jobs
<1>3. r \in Entries /\ r.id = This.id /\ r.key = This.key /\ r.ns = job.ns
  BY <1>2 DEF Entries
<1>4. hits \in Nat /\ measured \in Nat /\ completed \in Nat
      /\ measured \in {report.measured, report.measured + 1}
  BY <1>1
<1>5. report' = [report EXCEPT !.ranked = ranked, !.hits = hits, !.measured = measured,
                               !.completed = completed]
  BY DEF Accept, Reports
<1> HIDE DEF r, hits, measured, completed
<1>6. ranked \in Seq(Entries) /\ Len(ranked) = Len(report.ranked)
  BY <1>1, <1>3, ExceptSeq
<1>7. /\ DOMAIN ranked = DOMAIN report.ranked /\ ranked[at] = r
      /\ \A i \in DOMAIN report.ranked : i # at => ranked[i] = report.ranked[i]
  BY <1>1
<1> HIDE DEF ranked
<1>8. report' \in Reports
  BY <1>4, <1>5, <1>6 DEF Reports
<1>9. /\ report'.ranked = ranked /\ report'.hits = hits
      /\ report'.measured = measured /\ report'.completed = completed
      /\ report'.rejected = report.rejected /\ report'.dropped = report.dropped
      /\ report'.unrankable = report.unrankable /\ Blames(report') = Blames(report)
      /\ report'.attempts = report.attempts /\ report'.written = report.written
  BY <1>5 DEF Reports, Blames
<1>10. QED
  BY <1>3, <1>4, <1>6, <1>7, <1>8, <1>9 DEF AcceptedNow, Key, hits, completed

\* Counting changes no list.
SameLists(new) ==
  /\ new.ranked = report.ranked /\ new.rejected = report.rejected
  /\ new.dropped = report.dropped /\ new.unrankable = report.unrankable
SameCounts(new) ==
  /\ new.hits = report.hits /\ new.measured = report.measured

LEMMA CountingSteps ==
  ASSUME report \in Reports
  PROVE  /\ LET miss == [report EXCEPT !.misses = @ + 1]
            IN  /\ miss \in Reports /\ SameLists(miss) /\ SameCounts(miss) /\ Blames(miss) = Blames(report)
                /\ miss.attempts = report.attempts /\ miss.written = report.written
                /\ miss.completed = report.completed
         /\ LET blamed == [report EXCEPT !.byCompile = @ + 1]
            IN  /\ blamed \in Reports /\ SameLists(blamed) /\ SameCounts(blamed)
                /\ Blames(blamed) = Blames(report) + 1
                /\ blamed.attempts = report.attempts /\ blamed.written = report.written
                /\ blamed.completed = report.completed
         /\ LET counted == [report EXCEPT !.attempts = @ + 1]
            IN  /\ counted \in Reports /\ SameLists(counted) /\ SameCounts(counted)
                /\ Blames(counted) = Blames(report)
                /\ counted.attempts = report.attempts + 1 /\ counted.written = report.written
                /\ counted.completed = report.completed
         /\ LET tried == [[report EXCEPT !.attempts = @ + 1] EXCEPT !.completed = @ + 1]
            IN  /\ tried \in Reports /\ SameLists(tried) /\ SameCounts(tried)
                /\ Blames(tried) = Blames(report)
                /\ tried.attempts = report.attempts + 1 /\ tried.written = report.written
                /\ tried.completed = report.completed + 1
         /\ LET filed == [report EXCEPT !.written = @ + 1]
            IN  /\ filed \in Reports /\ SameLists(filed) /\ SameCounts(filed)
                /\ Blames(filed) = Blames(report)
                /\ filed.attempts = report.attempts /\ filed.written = report.written + 1
                /\ filed.completed = report.completed
<1> DEFINE a == report.attempts + 1
           c == report.completed + 1
           m == report.misses + 1
           w == report.written + 1
           k == report.byCompile + 1
<1>0. /\ report.attempts \in Nat /\ report.completed \in Nat /\ report.misses \in Nat
      /\ report.written \in Nat /\ report.byCompile \in Nat
      /\ report.bySource \in Nat /\ report.byLegality \in Nat /\ report.byMapping \in Nat
  BY DEF Reports
<1>1. a \in Nat /\ c \in Nat /\ m \in Nat /\ w \in Nat /\ k \in Nat
  BY <1>0
<1>2. report.bySource + report.byLegality + report.byMapping + k = Blames(report) + 1
  BY <1>0 DEF Blames
<1> DEFINE miss == [report EXCEPT !.misses = m]
           blamed == [report EXCEPT !.byCompile = k]
           counted == [report EXCEPT !.attempts = a]
           tried == [report EXCEPT !.attempts = a, !.completed = c]
           filed == [report EXCEPT !.written = w]
<1>3. /\ [report EXCEPT !.misses = @ + 1] = miss
      /\ [report EXCEPT !.byCompile = @ + 1] = blamed
      /\ [report EXCEPT !.attempts = @ + 1] = counted
      /\ [[report EXCEPT !.attempts = @ + 1] EXCEPT !.completed = @ + 1] = tried
      /\ [report EXCEPT !.written = @ + 1] = filed
  BY DEF Reports
<1> HIDE DEF a, c, m, w, k
<1>4. /\ miss \in Reports /\ blamed \in Reports /\ counted \in Reports /\ tried \in Reports
      /\ filed \in Reports
  BY <1>1 DEF Reports
<1>5. /\ SameLists(miss) /\ SameCounts(miss) /\ SameLists(blamed) /\ SameCounts(blamed)
      /\ SameLists(counted) /\ SameCounts(counted) /\ SameLists(tried) /\ SameCounts(tried)
      /\ SameLists(filed) /\ SameCounts(filed)
  BY DEF SameLists, SameCounts, Reports
<1>6. /\ Blames(miss) = Blames(report) /\ Blames(counted) = Blames(report)
      /\ Blames(tried) = Blames(report) /\ Blames(filed) = Blames(report)
  BY DEF Blames, Reports
<1>7. Blames(blamed) = Blames(report) + 1
  <2>1. /\ blamed.bySource = report.bySource /\ blamed.byLegality = report.byLegality
        /\ blamed.byMapping = report.byMapping /\ blamed.byCompile = k
    BY DEF Reports
  <2>2. QED
    BY <1>2, <2>1 DEF Blames
<1>8. /\ miss.attempts = report.attempts /\ miss.written = report.written /\ miss.completed = report.completed
      /\ blamed.attempts = report.attempts /\ blamed.written = report.written
      /\ blamed.completed = report.completed
      /\ counted.attempts = a /\ counted.written = report.written /\ counted.completed = report.completed
      /\ tried.attempts = a /\ tried.written = report.written /\ tried.completed = c
      /\ filed.attempts = report.attempts /\ filed.written = w /\ filed.completed = report.completed
  BY DEF Reports
<1> HIDE DEF miss, blamed, counted, tried, filed
<1>9. QED
  BY <1>3, <1>4, <1>5, <1>6, <1>7, <1>8 DEF a, c, w

\* Ranking reorders the candidates.
RankedNew(new) ==
  /\ new.ranked \in Seq(Entries) /\ Takes(new.ranked, report.ranked, DOMAIN report.ranked)
  /\ new.rejected = report.rejected /\ new.dropped = report.dropped
  /\ new.unrankable = report.unrankable /\ Blames(new) = Blames(report)
  /\ new.attempts = report.attempts /\ new.written = report.written
  /\ new.hits = report.hits /\ new.measured = report.measured /\ new.completed = report.completed

LEMMA RankNotes ==
  ASSUME inputs \in Sessions, report \in Reports, OneEach(report.ranked), RankReport
  PROVE  report' \in Reports /\ RankedNew(report')
<1> DEFINE ranked == RankedPlans(report.ranked)
<1>1. report.ranked \in Seq(Entries)
  BY DEF Reports
<1>2. ranked \in Seq(Entries) /\ Takes(ranked, report.ranked, DOMAIN report.ranked)
  BY <1>1, RankedPlansSorts
<1>3. report' = [report EXCEPT !.ranked = ranked]
  BY DEF RankReport
<1> HIDE DEF ranked
<1>4. report' \in Reports
  BY <1>2, <1>3 DEF Reports
<1>5. /\ report'.ranked = ranked /\ report'.rejected = report.rejected
      /\ report'.dropped = report.dropped /\ report'.unrankable = report.unrankable
      /\ Blames(report') = Blames(report)
      /\ report'.attempts = report.attempts /\ report'.written = report.written
      /\ report'.hits = report.hits /\ report'.measured = report.measured
      /\ report'.completed = report.completed
  BY <1>3 DEF Reports, Blames
<1>6. QED
  BY <1>2, <1>4, <1>5 DEF RankedNew

-----------------------------------------------------------------------------
(* What keeps the lists of the report in order                             *)

LEMMA ListTypes ==
  ASSUME report \in Reports
  PROVE  /\ report.ranked \in Seq(Entries) /\ report.rejected \in Seq(Refusals)
         /\ report.dropped \in Seq(Nat) /\ report.unrankable \in Seq(Entries)
         /\ Len(report.ranked) \in Nat /\ DOMAIN report.ranked = 1 .. Len(report.ranked)
         /\ Len(report.rejected) \in Nat /\ DOMAIN report.rejected = 1 .. Len(report.rejected)
         /\ Len(report.dropped) \in Nat /\ DOMAIN report.dropped = 1 .. Len(report.dropped)
         /\ Blames(report) \in Nat
<1>1. /\ report.ranked \in Seq(Entries) /\ report.rejected \in Seq(Refusals)
      /\ report.dropped \in Seq(Nat) /\ report.unrankable \in Seq(Entries)
      /\ report.bySource \in Nat /\ report.byLegality \in Nat /\ report.byMapping \in Nat
      /\ report.byCompile \in Nat
  BY DEF Reports
<1>2. Blames(report) \in Nat
  BY SMTT(30), <1>1 DEF Blames
<1>3. QED
  BY <1>1, <1>2, LenProperties

\* The rejections of one more candidate: counted unless it was a measurement.
LEMMA RejectedOneMore ==
  ASSUME NEW r \in Seq(Refusals), NEW e \in Refusals
  PROVE  /\ Append(r, e) \in Seq(Refusals) /\ DOMAIN Append(r, e) = 1 .. Len(r) + 1
         /\ Append(r, e)[Len(r) + 1] = e /\ \A i \in DOMAIN r : Append(r, e)[i] = r[i]
         /\ Cardinality(Unmeasured(Append(r, e)))
              = Cardinality(Unmeasured(r)) + (IF e.why # "measurement" THEN 1 ELSE 0)
         /\ Cardinality(Unmeasured(r)) \in Nat
<1> DEFINE n == Len(r) + 1
           s == Append(r, e)
<1>1. Len(r) \in Nat /\ DOMAIN r = 1 .. Len(r)
  BY LenProperties
<1>2. s \in Seq(Refusals) /\ Len(s) = n /\ s[n] = e /\ \A i \in 1 .. Len(r) : s[i] = r[i]
  BY AppendProperties
<1> HIDE DEF s
<1>3. DOMAIN s = 1 .. n
  BY <1>2, LenProperties
<1>4. IsFiniteSet(Unmeasured(r)) /\ Cardinality(Unmeasured(r)) \in Nat
  <2>1. IsFiniteSet(DOMAIN r)
    BY DomainFinite
  <2>2. Unmeasured(r) \in SUBSET DOMAIN r
    BY DEF Unmeasured
  <2>3. QED
    BY ONLY <2>1, <2>2, FS_Subset, FS_CardinalityType
<1>5. n \notin Unmeasured(r)
  BY <1>1 DEF Unmeasured
<1>6. CASE e.why # "measurement"
  <2>1. Unmeasured(s) = Unmeasured(r) \cup {n}
    BY <1>1, <1>2, <1>3, <1>6 DEF Unmeasured
  <2>2. Cardinality(Unmeasured(r) \cup {n}) = Cardinality(Unmeasured(r)) + 1
    BY <1>4, <1>5, FS_AddElement
  <2>3. QED
    BY <1>1, <1>2, <1>3, <1>4, <1>6, <2>1, <2>2 DEF s
<1>7. CASE e.why = "measurement"
  <2>1. Unmeasured(s) = Unmeasured(r)
    BY <1>1, <1>2, <1>3, <1>7 DEF Unmeasured
  <2>2. QED
    BY <1>1, <1>2, <1>3, <1>4, <1>7, <2>1 DEF s
<1>8. QED
  BY <1>6, <1>7

\* Steps that leave the lists alone.
LEMMA ListsKept ==
  ASSUME Typed, Filling, RefusedForCause, inputs' = inputs, SameLists(report'),
         Blames(report') \in Nat, Blames(report') >= Blames(report),
         pc \in Measuring, pc' \in Measuring \cup {"cleanup", "failed"}, at' \in Nat, at <= at'
  PROVE  Filling' /\ RefusedForCause'
<1>1. /\ report'.ranked = report.ranked /\ report'.rejected = report.rejected
      /\ report'.dropped = report.dropped /\ report'.unrankable = report.unrankable
  BY DEF SameLists
<1>2. RefusedForCause'
  BY <1>1 DEF RefusedForCause, Cands, Realizes
<1>3. OneEach(report.ranked)' /\ OneEach(report.rejected)'
  BY <1>1 DEF Filling, OneEach
<1>4. Dropped'
  <2>1. /\ at \in Int /\ at' \in Int
        /\ \A i \in DOMAIN report.dropped : report.dropped[i] \in Nat
    BY SMTT(30), ListTypes, ElementOfSeq DEF Typed
  <2>2. \A i \in DOMAIN report.dropped : report.dropped[i] \in DOMAIN report.ranked /\ report.dropped[i] < at'
    BY <2>1 DEF Filling, Dropped
  <2>3. pc' \notin {"admit", "finish"}
    BY DEF Measuring, Working, Answered
  <2>4. QED
    BY <1>1, <2>2, <2>3 DEF Filling, Dropped
<1>5. Listed' /\ pc' # "admit" /\ Listed
  <2>1. Listed /\ pc # "admit" /\ pc' # "admit"
    BY DEF Filling, Measuring, Working, Answered
  <2>2. Seen' = Seen
    BY <2>1 DEF Seen, Cands
  <2>3. QED
    BY <1>1, <2>1, <2>2 DEF Listed, Ids
<1>6. Cardinality(Unmeasured(report.rejected))' <= Refusers'
  <2>1. Cardinality(Unmeasured(report.rejected)) <= Blames(report)
    BY DEF Filling, Refusers, Blames
  <2>2. IsFiniteSet(Unmeasured(report.rejected))
    <3>1. IsFiniteSet(DOMAIN report.rejected)
      BY ListTypes, DomainFinite DEF Typed
    <3>2. Unmeasured(report.rejected) \in SUBSET DOMAIN report.rejected
      BY DEF Unmeasured
    <3>3. QED
      BY ONLY <3>1, <3>2, FS_Subset
  <2>3. Cardinality(Unmeasured(report.rejected)) \in Nat /\ Blames(report) \in Nat
    BY <2>2, ListTypes, FS_CardinalityType DEF Typed
  <2>4. Cardinality(Unmeasured(report.rejected)) <= Blames(report')
    BY <2>1, <2>3
  <2>5. Unmeasured(report.rejected)' = Unmeasured(report.rejected) /\ Refusers' = Blames(report')
    BY <1>1 DEF Unmeasured, Refusers, Blames
  <2>6. QED
    BY <2>4, <2>5
<1>7. QED
  BY <1>2, <1>3, <1>4, <1>5, <1>6 DEF Filling

\* Rejecting the candidate at hand.
LEMMA RejectKeepsLists ==
  ASSUME Typed, Filling, RefusedForCause, inputs' = inputs, at \in DOMAIN report.ranked,
         NEW r \in Reports, SameLists(r), Blames(r) >= Blames(report), RejectedNow(report', r),
         pc \in Measuring, pc' = "measure", at' = at + 1
  PROVE  Filling' /\ RefusedForCause'
<1> DEFINE e == [id |-> This.id, why |-> "measurement"]
<1>0. /\ report.ranked \in Seq(Entries) /\ report.rejected \in Seq(Refusals)
      /\ report.dropped \in Seq(Nat) /\ Len(report.dropped) \in Nat
      /\ DOMAIN report.dropped = 1 .. Len(report.dropped)
      /\ DOMAIN report.rejected = 1 .. Len(report.rejected) /\ Len(report.rejected) \in Nat
      /\ at \in Nat /\ This \in Entries /\ This = report.ranked[at] /\ Blames(report) \in Nat
  BY ListTypes, ElementOfSeq DEF Typed, This
<1>1. /\ report'.ranked = report.ranked /\ report'.unrankable = report.unrankable
      /\ report'.rejected = Append(report.rejected, e)
      /\ report'.dropped = Append(report.dropped, at) /\ Blames(report') = Blames(r)
  BY DEF SameLists, RejectedNow
<1>2. e \in Refusals /\ e.id = This.id /\ e.why = "measurement"
  BY <1>0 DEF Entries, Refusals
<1> HIDE DEF e
<1> DEFINE n == Len(report.rejected) + 1
           rejected == Append(report.rejected, e)
           k == Len(report.dropped) + 1
           dropped == Append(report.dropped, at)
<1>3. /\ DOMAIN rejected = 1 .. n /\ rejected[n] = e
      /\ \A i \in DOMAIN report.rejected : rejected[i] = report.rejected[i]
      /\ Cardinality(Unmeasured(rejected)) = Cardinality(Unmeasured(report.rejected)) + 0
      /\ Cardinality(Unmeasured(report.rejected)) \in Nat
  BY <1>0, <1>2, RejectedOneMore
<1>4. /\ DOMAIN dropped = 1 .. k /\ dropped[k] = at
      /\ \A i \in DOMAIN report.dropped : dropped[i] = report.dropped[i]
  BY <1>0, AppendProperties, LenProperties
<1> HIDE DEF rejected, dropped
<1>5. /\ \A i \in DOMAIN rejected : i \in DOMAIN report.rejected \/ i = n
      /\ \A i \in DOMAIN report.rejected : i \in DOMAIN rejected
      /\ n \in DOMAIN rejected
      /\ \A i \in DOMAIN dropped : i \in DOMAIN report.dropped \/ i = k
      /\ \A i \in DOMAIN report.dropped : i \in DOMAIN dropped /\ i < k /\ i \in Nat
      /\ k \in DOMAIN dropped
  <2>1. /\ \A i \in DOMAIN rejected : i \in DOMAIN report.rejected \/ i = n
        /\ \A i \in DOMAIN report.rejected : i \in DOMAIN rejected
        /\ n \in DOMAIN rejected
    <3> HIDE DEF k, dropped
    <3>1. /\ DOMAIN rejected = 1 .. Len(report.rejected) + 1 /\ n = Len(report.rejected) + 1
          /\ DOMAIN report.rejected = 1 .. Len(report.rejected) /\ Len(report.rejected) \in Nat
      BY <1>0, <1>3
    <3> HIDE DEF n
    <3>2. QED
      BY ONLY <3>1
  <2>2. /\ \A i \in DOMAIN dropped : i \in DOMAIN report.dropped \/ i = k
        /\ \A i \in DOMAIN report.dropped : i \in DOMAIN dropped /\ i < k /\ i \in Nat
        /\ k \in DOMAIN dropped
    <3> HIDE DEF n, rejected
    <3>1. /\ DOMAIN dropped = 1 .. Len(report.dropped) + 1 /\ k = Len(report.dropped) + 1
          /\ DOMAIN report.dropped = 1 .. Len(report.dropped) /\ Len(report.dropped) \in Nat
      BY <1>0, <1>4
    <3> HIDE DEF k
    <3>2. QED
      BY ONLY <3>1
  <2>3. QED
    BY ONLY <2>1, <2>2
<1>6. /\ Listed /\ OneEach(report.ranked) /\ OneEach(report.rejected) /\ Dropped
      /\ pc # "admit" /\ pc' # "admit"
  BY DEF Filling, Measuring, Working, Answered
<1>7. at \notin ToSet(report.dropped)
  <2>1. \A i \in DOMAIN report.dropped : report.dropped[i] < at
    BY <1>6 DEF Dropped
  <2>2. QED
    BY <1>0, <2>1 DEF ToSet
<1>8. This.id \notin Ids(report.rejected)
  BY <1>0, <1>6, <1>7 DEF Listed
<1>9. OneEach(rejected)
  <2>1. \A i \in DOMAIN report.rejected : report.rejected[i].id # This.id
    BY <1>8 DEF Ids
  <2>2. QED
    BY <1>2, <1>3, <1>5, <1>6, <2>1 DEF OneEach
<1>10. \A x : x \in Ids(rejected) <=> x \in Ids(report.rejected) \/ x = This.id
  <2>1. ASSUME NEW x \in Ids(rejected) PROVE x \in Ids(report.rejected) \/ x = This.id
    <3>1. PICK i \in DOMAIN rejected : x = rejected[i].id
      BY DEF Ids
    <3>2. QED
      BY <1>2, <1>3, <1>5, <3>1 DEF Ids
  <2>2. ASSUME NEW x \in Ids(report.rejected) PROVE x \in Ids(rejected)
    <3>1. PICK i \in DOMAIN report.rejected : x = report.rejected[i].id
      BY DEF Ids
    <3>2. QED
      BY <1>3, <1>5, <3>1 DEF Ids
  <2>3. This.id \in Ids(rejected)
    BY <1>2, <1>3, <1>5 DEF Ids
  <2>4. QED
    BY <2>1, <2>2, <2>3
<1>11. \A x : x \in ToSet(dropped) <=> x \in ToSet(report.dropped) \/ x = at
  BY <1>4, <1>5 DEF ToSet
<1>12. Listed'
  <2>1. Seen' = Seen
    BY <1>6 DEF Seen, Cands
  <2>2. This.id \in Ids(report.ranked)
    BY <1>0 DEF Ids
  <2>3. Ids(report.ranked) \cup Ids(rejected) = Seen
    BY <1>6, <1>10, <2>2 DEF Listed
  <2>4. \A i \in DOMAIN report.ranked : report.ranked[i].id = This.id <=> i = at
    BY <1>0, <1>6 DEF OneEach
  <2>5. \A i \in DOMAIN report.ranked : report.ranked[i].id \in Ids(rejected) <=> i \in ToSet(dropped)
    BY <1>6, <1>10, <1>11, <2>4 DEF Listed
  <2>6. Ids(report.ranked)' = Ids(report.ranked) /\ Ids(report.rejected)' = Ids(rejected)
    BY <1>1 DEF Ids, rejected
  <2>7. ToSet(report.dropped)' = ToSet(dropped)
    BY <1>1 DEF ToSet, dropped
  <2>8. QED
    BY <1>1, <1>6, <2>1, <2>3, <2>5, <2>6, <2>7 DEF Listed
<1>13. Dropped'
  <2>1. \A i \in DOMAIN report.dropped :
          report.dropped[i] \in DOMAIN report.ranked /\ report.dropped[i] < at /\ report.dropped[i] \in Nat
    BY <1>0, <1>6, ElementOfSeq DEF Dropped
  <2>2. ASSUME NEW i \in DOMAIN dropped
        PROVE  dropped[i] \in DOMAIN report.ranked /\ dropped[i] < at + 1
    <3>1. CASE i \in DOMAIN report.dropped
      <4> DEFINE x == report.dropped[i]
      <4>1. dropped[i] = x /\ x \in DOMAIN report.ranked /\ x < at /\ x \in Nat
        BY <1>4, <2>1, <3>1
      <4> HIDE DEF x
      <4>2. QED
        BY ONLY <4>1, <1>0
    <3>2. CASE i = k
      <4>1. dropped[i] = at
        BY <1>4, <3>2
      <4>2. QED
        BY ONLY <4>1, <1>0, at \in DOMAIN report.ranked
    <3>3. QED
      BY <1>5, <3>1, <3>2
  <2>3. \A i, j \in DOMAIN report.dropped : i < j => report.dropped[i] < report.dropped[j]
    BY <1>6 DEF Dropped
  <2>4. ASSUME NEW i \in DOMAIN dropped, NEW j \in DOMAIN dropped, i < j PROVE dropped[i] < dropped[j]
    <3>1. i # k
      BY <1>0, <1>5, <2>4
    <3>2. CASE j = k
      BY <1>4, <1>5, <2>1, <3>1, <3>2
    <3>3. CASE j # k
      BY <1>4, <1>5, <2>3, <2>4, <3>1, <3>3
    <3>4. QED
      BY <3>2, <3>3
  <2>5. report'.dropped = dropped /\ pc' \notin {"admit", "finish"}
    BY <1>1 DEF dropped
  <2> HIDE DEF dropped
  <2>6. QED
    BY <1>1, <2>2, <2>4, <2>5 DEF Dropped
<1>14. RefusedForCause'
  <2>1. ASSUME NEW i \in DOMAIN rejected, rejected[i].why = "mapping" PROVE i \in DOMAIN report.rejected
    BY <1>2, <1>3, <1>5, <2>1
  <2>2. report'.rejected = rejected /\ Cands' = Cands
    BY <1>1 DEF rejected, Cands
  <2> HIDE DEF rejected
  <2>3. QED
    BY <1>3, <2>1, <2>2 DEF RefusedForCause, Realizes, rejected
<1>15. Cardinality(Unmeasured(report.rejected))' <= Refusers'
  <2>1. Unmeasured(report.rejected)' = Unmeasured(rejected) /\ Refusers' = Blames(report')
    BY <1>1 DEF Unmeasured, Refusers, Blames, rejected
  <2>2. Cardinality(Unmeasured(report.rejected)) <= Blames(report)
    BY DEF Filling, Refusers, Blames
  <2>3. Blames(r) \in Nat
    <3>1. /\ r.bySource \in Nat /\ r.byLegality \in Nat /\ r.byMapping \in Nat /\ r.byCompile \in Nat
      BY DEF Reports
    <3>2. QED
      BY <3>1 DEF Blames
  <2>4. QED
    BY <1>0, <1>1, <1>3, <2>1, <2>2, <2>3
<1>16. OneEach(report.ranked)' /\ OneEach(report.rejected)'
  BY <1>1, <1>6, <1>9 DEF OneEach, rejected
<1>17. QED
  BY <1>12, <1>13, <1>14, <1>15, <1>16 DEF Filling

-----------------------------------------------------------------------------
(* Every action keeps the invariant                                        *)

\* What a step within a session does not change.
SameSession == inputs' = inputs /\ session' = session

LEMMA OptionsKept ==
  ASSUME inputs' = inputs
  PROVE  Opt' = Opt /\ Cands' = Cands /\ (MeasuredObjective <=> MeasuredObjective')
  BY DEF Opt, Cands, MeasuredObjective

LEMMA LimitKept ==
  ASSUME inputs' = inputs, Len(report'.ranked) = Len(report.ranked)
  PROVE  Limit' = Limit
  BY DEF Limit, Opt, Smaller

LEMMA KeyKept ==
  ASSUME report'.ranked = report.ranked, at' = at
  PROVE  This' = This /\ Key' = Key
  BY DEF This, Key

LEMMA LookingKept ==
  ASSUME files' = files, NEW k
  PROVE  Stored(k)' = Stored(k) /\ (Foreign(k)' <=> Foreign(k))
  BY DEF Stored, Foreign

\* Evidence stays evidence, and nothing is reported or stored without it.
LEMMA EvidenceKept ==
  ASSUME OnlyEvidence, evidence \subseteq evidence',
         \A r \in ToSet(report'.ranked) \cup ToSet(report'.unrankable) :
           r.ns # Absent => \/ r \in ToSet(report.ranked) \cup ToSet(report.unrankable)
                            \/ \E s \in BOOLEAN : <<r.key, r.ns, s>> \in evidence',
         \A d \in DOMAIN files' :
           files'[d] # Absent => \/ d \in DOMAIN files /\ files'[d] = files[d]
                                 \/ <<files'[d].key, files'[d].ns, TRUE>> \in evidence'
  PROVE  OnlyEvidence'
<1>1. ASSUME NEW r \in ToSet(report'.ranked) \cup ToSet(report'.unrankable), r.ns # Absent
      PROVE  \E s \in BOOLEAN : <<r.key, r.ns, s>> \in evidence'
  BY <1>1 DEF OnlyEvidence
<1>2. ASSUME NEW d \in DOMAIN files', files'[d] # Absent
      PROVE  <<files'[d].key, files'[d].ns, TRUE>> \in evidence'
  BY <1>2 DEF OnlyEvidence
<1>3. QED
  BY <1>1, <1>2 DEF OnlyEvidence

\* A step that reports nothing more and leaves the files alone.
LEMMA EvidenceSame ==
  ASSUME OnlyEvidence, evidence \subseteq evidence', files' = files,
         report'.ranked = report.ranked, report'.unrankable = report.unrankable
  PROVE  OnlyEvidence'
  BY EvidenceKept

\* In the middle of a session there is no final report to judge.
LEMMA NotDone ==
  ASSUME pc' # "done"
  PROVE  BestFirst' /\ Accounted'
  BY DEF BestFirst, Accounted, Done

LEMMA InitTuningInv ==
  ASSUME InitTuning
  PROVE  TuningInv
<1>1. /\ inputs \in Sessions /\ temps = {} /\ evidence = {} /\ session = 0
      /\ pc = "idle" /\ at = 1 /\ job = NoJob /\ report = EmptyReport
      /\ files = [d \in Names |-> Absent]
  BY DEF InitTuning, Names
<1>2. EmptyReport \in Reports /\ NoJob \in Jobs
  <2>1. <<>> \in Seq(Entries) /\ <<>> \in Seq(Refusals) /\ <<>> \in Seq(Nat)
    BY EmptySeq
  <2>2. QED
    BY <2>1 DEF EmptyReport, Reports, NoJob, Jobs
<1>3. /\ report.ranked = <<>> /\ report.rejected = <<>> /\ report.unrankable = <<>>
      /\ report.dropped = <<>> /\ report.attempts = 0 /\ report.hits = 0 /\ report.written = 0
      /\ report.measured = 0 /\ report.completed = 0
      /\ DOMAIN <<>> = {} /\ ToSet(<<>>) = {}
  BY <1>1 DEF EmptyReport, ToSet
<1>4. Typed
  <2>1. files \in [Names -> Records \cup {Absent}]
    BY <1>1
  <2>2. at \in 1 .. Len(Cands) + 1
    BY <1>1, SessionFacts
  <2>3. session \in 0 .. MaxSessions
    BY <1>1, TuningAssumption
  <2>4. QED
    BY <1>1, <1>2, <2>1, <2>2, <2>3 DEF Typed
<1>5. Progress /\ Tidy
  BY <1>1 DEF Progress, Tidy, NotRepeated, NoLitter, Measuring, Working, Answered
<1>6. Spending
  <2>1. Opt.measureTop \in Nat /\ Opt.maxAttempts \in Nat
    BY <1>1, SessionFacts DEF OptionInputs
  <2>2. Budget
    BY <1>3, <2>1 DEF Budget
  <2>3. QED
    BY <1>1, <2>2 DEF Spending, Measuring, Working, Answered
<1>7. Filling
  <2>1. Cardinality(Unmeasured(report.rejected)) = 0
    <3>1. Unmeasured(report.rejected) = {}
      BY <1>3 DEF Unmeasured
    <3>2. QED
      BY <3>1, FS_EmptySet
  <2>2. Refusers = 0
    BY <1>1 DEF Refusers, EmptyReport
  <2>3. pc \notin {"admit", "finish"} \cup Measuring
    BY <1>1 DEF Measuring, Working, Answered
  <2>4. QED
    BY <1>3, <2>1, <2>2, <2>3 DEF Filling, OneEach, Dropped
<1>8. RefusedForCause
  BY <1>3 DEF RefusedForCause
<1>9. Evident
  <2>1. \A d \in DOMAIN files : files[d] = Absent
    BY <1>1
  <2>2. QED
    BY <1>1, <1>3, <2>1 DEF Evident, OnlyEvidence, Answered
<1>10. BestFirst /\ Accounted
  BY <1>1 DEF BestFirst, Accounted, Done
<1>11. QED
  BY <1>4, <1>5, <1>6, <1>7, <1>8, <1>9, <1>10 DEF TuningInv

\* A new session and a killed one have an empty report.
LEMMA FreshKeeps ==
  ASSUME TuningInv, inputs' = inputs, files' = files, temps' = temps, evidence' = evidence,
         report' = EmptyReport, job' = NoJob, at' = 1, pc' \in {"idle", "admit"},
         session' \in 0 .. MaxSessions, temps \subseteq 1 .. session',
         session' \in temps => pc' = "idle", pc' # "idle" => session' # 0
  PROVE  TuningInv'
<1>1. EmptyReport \in Reports /\ NoJob \in Jobs
  <2>1. <<>> \in Seq(Entries) /\ <<>> \in Seq(Refusals) /\ <<>> \in Seq(Nat)
    BY EmptySeq
  <2>2. QED
    BY <2>1 DEF EmptyReport, Reports, NoJob, Jobs
<1>2. /\ report'.ranked = <<>> /\ report'.rejected = <<>> /\ report'.unrankable = <<>>
      /\ report'.dropped = <<>> /\ report'.attempts = 0 /\ report'.hits = 0 /\ report'.written = 0
      /\ report'.measured = 0 /\ report'.completed = 0
      /\ DOMAIN <<>> = {} /\ ToSet(<<>>) = {} /\ Ids(<<>>) = {}
  BY DEF EmptyReport, ToSet, Ids
<1>3. Typed'
  <2>1. Typed /\ inputs \in Sessions
    BY DEF TuningInv, Typed
  <2>2. at' \in 1 .. Len(Cands) + 1 /\ Cands' = Cands
    BY <2>1, OptionsKept, SessionFacts
  <2>3. QED
    BY <1>1, <2>1, <2>2 DEF Typed
<1>4. pc' \notin Measuring /\ pc' # "finish" /\ Tidy' /\ Progress'
  <2>1. pc' \notin Measuring
    BY DEF Measuring, Working, Answered
  <2>2. Len(report.ranked)' <= at' - 1
    BY <1>2
  <2>3. QED
    BY <2>1, <2>2 DEF Tidy, NotRepeated, NoLitter, Progress, Measuring, Working, Answered
<1>5. Spending'
  <2>1. Opt.measureTop \in Nat /\ Opt.maxAttempts \in Nat
    BY SessionFacts DEF OptionInputs, TuningInv, Typed
  <2>2. Budget'
    BY <1>2, <2>1, OptionsKept DEF Budget
  <2>3. QED
    BY <1>2, <1>4, <2>2 DEF Spending, Measuring, Working, Answered
<1>6. Filling'
  <2>1. Cardinality(Unmeasured(report'.rejected)) = 0
    <3>1. Unmeasured(report'.rejected) = {}
      BY <1>2 DEF Unmeasured
    <3>2. QED
      BY <3>1, FS_EmptySet
  <2>2. Refusers' = 0
    BY DEF Refusers, EmptyReport
  <2>3. pc' = "admit" => Seen' = {}
    <3>1. at' - 1 = 0 /\ 1 .. 0 = {}
      OBVIOUS
    <3>2. QED
      BY <3>1 DEF Seen
  <2>4. pc' = "admit" => Listed'
    BY <1>2, <2>3 DEF Listed
  <2>5. Unmeasured(report.rejected)' = Unmeasured(report'.rejected)
    BY DEF Unmeasured
  <2>6. OneEach(report.ranked)' /\ OneEach(report.rejected)' /\ Dropped'
    BY <1>2, <1>4 DEF OneEach, Dropped
  <2>7. Cardinality(Unmeasured(report.rejected))' <= Refusers'
    BY <2>1, <2>2, <2>5
  <2>8. QED
    BY <1>4, <2>4, <2>6, <2>7 DEF Filling
<1>7. RefusedForCause'
  BY <1>2 DEF RefusedForCause
<1>8. Evident'
  <2>1. OnlyEvidence /\ ToSet(report'.ranked) \cup ToSet(report'.unrankable) = {}
    BY <1>2 DEF TuningInv, Evident
  <2>2. OnlyEvidence'
    BY <2>1, EvidenceKept
  <2>3. QED
    BY <2>2 DEF Evident, Answered
<1>9. BestFirst' /\ Accounted'
  BY NotDone
<1>10. QED
  BY <1>3, <1>4, <1>5, <1>6, <1>7, <1>8, <1>9 DEF TuningInv

LEMMA StartKeeps ==
  ASSUME TuningInv, Start
  PROVE  TuningInv'
<1>1. session \in 0 .. MaxSessions /\ temps \subseteq 1 .. session /\ MaxSessions \in Nat
  BY TuningAssumption DEF TuningInv, Typed
<1>2. /\ session' = session + 1 /\ session' \in 0 .. MaxSessions /\ session' \notin temps
      /\ session' # 0
  BY <1>1 DEF Start
<1>3. temps \subseteq 1 .. session'
  BY <1>1, <1>2
<1>4. QED
  BY <1>2, <1>3, FreshKeeps DEF Start

LEMMA CrashKeeps ==
  ASSUME TuningInv, Crash
  PROVE  TuningInv'
<1>1. session \in 0 .. MaxSessions /\ temps \subseteq 1 .. session
  BY DEF TuningInv, Typed
<1>2. QED
  BY <1>1, FreshKeeps DEF Crash

\* A step that changes neither the lists, the counts nor the files.
LEMMA QuietKeeps ==
  ASSUME TuningInv, inputs' = inputs, files' = files, evidence' = evidence, session' = session,
         at' = at, job' = job, report' = report, pc \in Measuring,
         pc' \in Measuring \cup {"cleanup", "failed"}, temps' \subseteq 1 .. session,
         Progress', Spending', Tidy',
         pc' \in Working => Evident'
  PROVE  TuningInv'
<1>1. Typed /\ Filling /\ RefusedForCause /\ report \in Reports /\ at \in Nat
  BY SessionFacts DEF TuningInv, Typed
<1>2. Typed'
  BY <1>1, OptionsKept DEF Typed
<1>3. Filling' /\ RefusedForCause'
  <2>1. SameLists(report') /\ Blames(report') \in Nat /\ Blames(report') >= Blames(report) /\ at <= at'
    BY <1>1, ListTypes DEF SameLists
  <2>2. QED
    BY <1>1, <2>1, ListsKept
<1>4. Evident'
  <2>1. OnlyEvidence'
    BY EvidenceSame DEF TuningInv, Evident
  <2>2. pc' \notin Working => Evident'
    BY <2>1 DEF Evident, Working, Answered
  <2>3. QED
    BY <2>2
<1>5. BestFirst' /\ Accounted'
  BY NotDone DEF Measuring, Working, Answered
<1>6. QED
  BY <1>2, <1>3, <1>4, <1>5 DEF TuningInv

LEMMA LookupFailsKeeps ==
  ASSUME TuningInv, LookupFails
  PROVE  TuningInv'
<1>1. pc = "lookup" /\ pc' = "failed" /\ pc \in Measuring /\ session \notin temps
  BY DEF LookupFails, TuningInv, Tidy, NoLitter, Measuring, Working
<1>2. Progress'
  BY <1>1 DEF LookupFails, TuningInv, Progress, Measuring, Working, Answered
<1>3. Budget'
  BY OptionsKept DEF LookupFails, TuningInv, Spending, Budget
<1>4. Spending'
  BY <1>1, <1>3 DEF Spending, Measuring, Working, Answered
<1>5. Tidy'
  BY <1>1 DEF Tidy, NotRepeated, NoLitter, LookupFails
<1>6. QED
  BY <1>1, <1>2, <1>4, <1>5, QuietKeeps DEF LookupFails, TuningInv, Typed, Working, Answered

LEMMA WriteTempKeeps ==
  ASSUME TuningInv, WriteTemp
  PROVE  TuningInv'
<1>1. /\ pc = "check" /\ pc' \in {"failed", "cleanup", "rename"} /\ pc \in Measuring
      /\ session \notin temps /\ ~job.cached /\ session # 0
      /\ inputs' = inputs /\ files' = files /\ evidence' = evidence /\ session' = session
      /\ at' = at /\ job' = job /\ report' = report
  BY DEF WriteTemp, TuningInv, Tidy, NoLitter, Progress, Spending, Measuring, Working, Answered
<1>2. Typed /\ Progress /\ Spending /\ Evident /\ Tidy
  BY DEF TuningInv
<1>3. temps' \subseteq 1 .. session
  <2>1. temps \subseteq 1 .. session /\ session \in Nat /\ session \in 1 .. session
    BY <1>1, <1>2, TuningAssumption DEF Typed
  <2>2. temps' \subseteq temps \cup {session}
    BY DEF WriteTemp
  <2>3. QED
    BY ONLY <2>1, <2>2
<1>4. /\ This' = This /\ Key' = Key /\ Limit' = Limit /\ Opt' = Opt /\ Cands' = Cands
      /\ (MeasuredObjective <=> MeasuredObjective')
  BY <1>1, KeyKept, LimitKept, OptionsKept
<1>5. Progress'
  BY <1>1, <1>2, <1>4 DEF Progress, Completions, Measuring, Working, Answered
<1>6. Spending'
  <2>1. Budget'
    BY <1>1, <1>2, <1>4 DEF Spending, Budget
  <2>2. QED
    BY <1>1, <1>2, <2>1 DEF Spending, Measuring, Working, Answered
<1>7. Tidy'
  <2>1. pc' = "rename" => ~Foreign(Key)'
    <3>1. pc' = "rename" => ~Foreign(Key)
      BY DEF WriteTemp
    <3>2. QED
      BY <1>1, <1>4, <3>1 DEF Foreign
  <2>2. QED
    BY <1>1, <2>1 DEF Tidy, NotRepeated, NoLitter
<1>8. ASSUME pc' \in Working PROVE Evident'
  <2>1. pc' = "rename"
    BY <1>1, <1>8 DEF Working, Answered
  <2>2. OnlyEvidence'
    BY <1>1, <1>2, EvidenceSame DEF Evident
  <2>3. QED
    BY <1>1, <1>2, <1>4, <2>1, <2>2 DEF Evident, Answered
<1>9. pc' \in Measuring \cup {"cleanup", "failed"}
  BY <1>1 DEF Measuring, Working, Answered
<1>10. QED
  BY <1>1, <1>3, <1>5, <1>6, <1>7, <1>8, <1>9, QuietKeeps

LEMMA RenameFailsKeeps ==
  ASSUME TuningInv, RenameFails
  PROVE  TuningInv'
<1>1. /\ pc = "rename" /\ pc' = "cleanup" /\ pc \in Measuring /\ temps' = temps
      /\ inputs' = inputs /\ files' = files /\ evidence' = evidence /\ session' = session
      /\ at' = at /\ job' = job /\ report' = report /\ temps \subseteq 1 .. session
      /\ session # 0
  BY DEF RenameFails, TuningInv, Typed, Progress, Measuring, Working, Answered
<1>2. Progress'
  BY <1>1 DEF Progress, Measuring, Working, Answered
<1>3. Budget'
  BY <1>1, OptionsKept DEF TuningInv, Spending, Budget
<1>4. Spending'
  BY <1>1, <1>3 DEF Spending, Measuring, Working, Answered
<1>5. Tidy'
  BY <1>1 DEF Tidy, NotRepeated, NoLitter
<1>6. pc' \notin Working /\ temps' \subseteq 1 .. session
  BY <1>1 DEF Working, Answered
<1>7. QED
  BY <1>1, <1>2, <1>4, <1>5, <1>6, QuietKeeps

\* The failed store removes its file, or leaves it; the session fails with it.
LEMMA CleanupKeeps ==
  ASSUME TuningInv, Cleanup
  PROVE  TuningInv'
<1>1. /\ pc = "cleanup" /\ pc' = "failed" /\ temps' \subseteq temps
      /\ inputs' = inputs /\ files' = files /\ evidence' = evidence /\ session' = session
      /\ at' = at /\ job' = job /\ report' = report
  BY DEF Cleanup
<1>2. Typed /\ Progress /\ Spending /\ Filling /\ RefusedForCause /\ Evident
  BY DEF TuningInv
<1>3. pc' \notin Measuring /\ pc' \notin {"admit", "finish"}
  BY <1>1 DEF Measuring, Working, Answered
<1>4. Typed' /\ Progress' /\ Tidy'
  <2>1. Opt' = Opt /\ Cands' = Cands
    BY <1>1, OptionsKept
  <2>2. Typed'
    BY <1>1, <1>2, <2>1 DEF Typed
  <2>3. Progress' /\ Tidy'
    BY <1>1, <1>2, <1>3 DEF Progress, Tidy, NotRepeated, NoLitter, Measuring, Working
  <2>4. QED
    BY <2>2, <2>3
<1>5. Spending'
  <2>1. Budget'
    BY <1>1, <1>2, OptionsKept DEF Spending, Budget
  <2>2. QED
    BY <1>1, <2>1 DEF Spending, Measuring, Working, Answered
<1>6. Filling' /\ RefusedForCause'
  <2>1. Dropped'
    BY <1>1, <1>2, <1>3 DEF Filling, Dropped
  <2>2. QED
    BY <1>1, <1>2, <1>3, <2>1
       DEF Filling, OneEach, Unmeasured, Refusers, RefusedForCause, Cands, Realizes
<1>7. Evident'
  <2>1. OnlyEvidence'
    BY <1>1, <1>2, EvidenceSame DEF Evident
  <2>2. QED
    BY <1>1, <2>1 DEF Evident, Answered
<1>8. BestFirst' /\ Accounted'
  BY <1>1, NotDone
<1>9. QED
  BY <1>4, <1>5, <1>6, <1>7, <1>8 DEF TuningInv

\* Rejecting the candidate at hand, before or after an answer of the provider.
LEMMA RejectKeeps ==
  ASSUME TuningInv, pc \in {"measure", "recheck", "time", "verify"}, pc = "measure" => More,
         NEW r \in Reports, SameLists(r), SameCounts(r), Blames(r) >= Blames(report),
         r.written = report.written, r.completed = report.completed,
         r.attempts \in {report.attempts, report.attempts + 1}, r.attempts + r.hits <= at,
         Reject(r),
         inputs' = inputs, files' = files, temps' = temps, evidence' = evidence, session' = session
  PROVE  TuningInv'
<1>1. Typed /\ Progress /\ Spending /\ Filling /\ RefusedForCause /\ Evident /\ Tidy
  BY DEF TuningInv
<1>2. /\ at \in DOMAIN report.ranked /\ at \in Nat /\ This \in Entries /\ at <= Len(Cands)
      /\ Opt.maxAttempts \in Nat /\ Opt.measureTop \in Nat
      /\ Opt.maxAttempts # 0 => at <= Opt.maxAttempts
      /\ Limit \in Nat /\ at <= Limit /\ Len(Cands) \in Nat /\ Len(report.ranked) \in Nat
  BY <1>1, HereIsRanked DEF Working, Answered
<1>3. /\ pc \in Measuring /\ pc' = "measure" /\ at' = at + 1 /\ job' = NoJob /\ NoJob \in Jobs
      /\ session # 0 /\ pc' \in Measuring
  BY <1>1 DEF Reject, Measuring, Working, Answered, NoJob, Jobs, Progress
<1>4. report' \in Reports /\ RejectedNow(report', r)
  BY <1>2, RejectNotes
<1>5. /\ report'.ranked = report.ranked /\ report'.unrankable = report.unrankable
      /\ report'.attempts = r.attempts /\ report'.hits = report.hits
      /\ report'.written = report.written /\ report'.measured = report.measured
      /\ report'.completed = report.completed
  BY <1>4 DEF RejectedNow, SameLists, SameCounts
<1>6. Opt' = Opt /\ Cands' = Cands /\ (MeasuredObjective <=> MeasuredObjective') /\ Limit' = Limit
  BY <1>5, OptionsKept, LimitKept
<1>7. Typed'
  <2>1. at' \in 1 .. Len(Cands) + 1
    BY <1>2, <1>3
  <2>2. QED
    BY <1>1, <1>3, <1>4, <1>6, <2>1 DEF Typed
<1>8. Progress'
  <2>1. Len(report.ranked) <= Len(Cands)
    BY <1>1, <1>3 DEF Progress
  <2>2. at' <= Limit + 1
    BY <1>2, <1>3
  <2>3. QED
    BY <1>3, <1>5, <1>6, <2>1, <2>2 DEF Progress, Working, Answered
<1>9. Spending'
  <2>0. /\ report.attempts \in Nat /\ report.hits \in Nat /\ report.written \in Nat
        /\ r.hits = report.hits
    BY <1>1 DEF Typed, Reports, SameCounts
  <2>1. report'.attempts + report'.hits <= at' - 1
    BY <1>2, <1>3, <1>5, <2>0
  <2>2. Opt.maxAttempts # 0 => report'.attempts + report'.hits <= Opt.maxAttempts
    BY SMTT(30), <1>2, <1>5, <2>0
  <2>3. report.written <= report.attempts /\ report.hits <= report.completed
    BY <1>1 DEF Spending, Budget
  <2>4. report'.written <= report'.attempts
    BY <1>5, <2>0, <2>3
  <2>5. Budget'
    BY <1>1, <1>5, <1>6, <2>2, <2>3, <2>4 DEF Spending, Budget
  <2>6. QED
    BY <1>3, <2>1, <2>5 DEF Spending, Working, Answered
<1>10. Filling' /\ RefusedForCause'
  BY <1>1, <1>2, <1>3, <1>4, RejectKeepsLists
<1>11. Evident'
  <2>1. OnlyEvidence'
    BY <1>1, <1>5, EvidenceSame DEF Evident
  <2>2. QED
    BY <1>3, <2>1 DEF Evident, Answered
<1>12. Tidy'
  BY <1>1, <1>3 DEF Tidy, NotRepeated, NoLitter
<1>13. BestFirst' /\ Accounted'
  BY <1>3, NotDone
<1>14. QED
  BY <1>7, <1>8, <1>9, <1>10, <1>11, <1>12, <1>13 DEF TuningInv

\* A step of the measurement that only counts: no list changes.
LEMMA CountKeeps ==
  ASSUME TuningInv, pc \in Measuring, pc' \in Measuring, pc = "measure" => More, pc # "rename",
         inputs' = inputs, files' = files, temps' = temps, session' = session,
         evidence \subseteq evidence', at' \in 1 .. Len(Cands) + 1, at <= at', job' \in Jobs,
         report' \in Reports, SameLists(report'), Blames(report') = Blames(report),
         Progress', Spending', NotRepeated', pc' # "rename",
         OnlyEvidence' => Evident'
  PROVE  TuningInv'
<1>1. Typed /\ Filling /\ RefusedForCause /\ Evident /\ Tidy
  BY DEF TuningInv
<1>2. Typed'
  <2>1. Cands' = Cands /\ pc' \in {"idle", "admit", "finish", "cleanup", "done", "failed"} \cup Measuring
    BY OptionsKept
  <2>2. QED
    BY <1>1, <2>1 DEF Typed
<1>3. Filling' /\ RefusedForCause'
  <2>1. Blames(report) \in Nat /\ Blames(report') >= Blames(report) /\ Blames(report') \in Nat
    BY <1>1, ListTypes DEF Typed
  <2>2. at' \in Nat /\ pc' \in Measuring \cup {"failed"}
    BY <1>1, SessionFacts DEF Typed
  <2>3. QED
    BY <1>1, <2>1, <2>2, ListsKept
<1>4. Evident'
  BY <1>1, EvidenceSame DEF Evident, SameLists
<1>5. Tidy'
  <2>1. pc # "idle" /\ session \notin temps
    BY <1>1 DEF Tidy, NoLitter, Measuring, Working, Answered
  <2>2. QED
    BY <2>1 DEF Tidy, NoLitter
<1>6. BestFirst' /\ Accounted'
  BY NotDone DEF Measuring, Working, Answered
<1>7. QED
  BY <1>2, <1>3, <1>4, <1>5, <1>6 DEF TuningInv

LEMMA PrepareKeeps ==
  ASSUME TuningInv, Prepare
  PROVE  TuningInv'
<1>1. /\ pc = "measure" /\ More /\ pc \in Measuring /\ report \in Reports
      /\ inputs' = inputs /\ files' = files /\ temps' = temps /\ evidence' = evidence
      /\ session' = session
  BY DEF Prepare, TuningInv, Typed, Measuring
<1>2. Typed /\ Progress /\ Spending /\ Evident
  BY DEF TuningInv
<1>3. /\ at \in Nat /\ Limit \in Nat /\ at <= Limit /\ Len(Cands) \in Nat
      /\ report.attempts \in Nat /\ report.hits \in Nat /\ report.attempts + report.hits <= at - 1
      /\ at \in 1 .. Len(Cands) + 1
  BY <1>1, <1>2, HereIsRanked DEF Spending, Measuring, Answered, Typed, Reports
<1>4. report.attempts + report.hits <= at
  BY <1>3
<1>5. CASE Reject(report)
  BY <1>1, <1>4, <1>5, ListTypes, RejectKeeps DEF SameLists, SameCounts
<1>6. CASE Reject([report EXCEPT !.byCompile = @ + 1])
  <2> DEFINE blamed == [report EXCEPT !.byCompile = @ + 1]
  <2>1. /\ blamed \in Reports /\ SameLists(blamed) /\ SameCounts(blamed)
        /\ Blames(blamed) = Blames(report) + 1 /\ Blames(report) \in Nat
        /\ blamed.attempts = report.attempts /\ blamed.written = report.written
        /\ blamed.completed = report.completed
    BY <1>1, CountingSteps, ListTypes
  <2>2. Reject(blamed)
    BY <1>6
  <2> HIDE DEF blamed
  <2>3. blamed.attempts + blamed.hits <= at /\ Blames(blamed) >= Blames(report)
    BY <1>4, <2>1 DEF SameCounts
  <2>4. QED
    BY <1>1, <2>1, <2>2, <2>3, RejectKeeps
<1>7. CASE pc' = Source /\ UNCHANGED <<at, job, report>>
  <2>1. pc' \in {"lookup", "time"} /\ pc' \in Measuring /\ pc' \in Working /\ (pc' = "time" => ~Opt.reuse)
    BY <1>7 DEF Source, Measuring, Working
  <2>2. /\ This' = This /\ Key' = Key /\ Limit' = Limit /\ Opt' = Opt /\ Cands' = Cands
        /\ (MeasuredObjective <=> MeasuredObjective')
    BY <1>1, <1>7, KeyKept, LimitKept, OptionsKept
  <2>3. Progress'
    <3>1. Completions' = Completions /\ Completions < Opt.measureTop
      BY <1>1, <1>7, <2>2 DEF Completions, More
    <3>2. QED
      BY <1>1, <1>2, <1>3, <1>7, <2>1, <2>2, <3>1 DEF Progress
  <2>4. Spending'
    <3>1. Budget'
      BY <1>2, <1>7, <2>2 DEF Spending, Budget
    <3>2. QED
      BY <1>3, <1>7, <2>1, <3>1 DEF Spending, Answered
  <2>5. NotRepeated'
    BY <2>1, <2>2 DEF NotRepeated
  <2>6. OnlyEvidence' => Evident'
    BY <2>1 DEF Evident, Answered
  <2>7. SameLists(report') /\ Blames(report') = Blames(report) /\ job' \in Jobs /\ at' = at
    BY <1>2, <1>7 DEF SameLists, Typed
  <2>8. QED
    BY <1>1, <1>3, <1>7, <2>1, <2>3, <2>4, <2>5, <2>6, <2>7, CountKeeps
<1>8. QED
  BY <1>5, <1>6, <1>7 DEF Prepare

LEMMA LookupKeeps ==
  ASSUME TuningInv, Lookup
  PROVE  TuningInv'
<1>1. /\ pc = "lookup" /\ pc \in Measuring /\ pc \in Working /\ report \in Reports
      /\ inputs' = inputs /\ files' = files /\ temps' = temps /\ evidence' = evidence
      /\ session' = session /\ at' = at
      /\ Typed /\ Progress /\ Spending /\ Evident
  BY DEF Lookup, TuningInv, Typed, Measuring, Working
<1>2. /\ at \in Nat /\ Limit \in Nat /\ at <= Limit /\ at \in 1 .. Len(Cands) + 1
      /\ report.attempts + report.hits <= at - 1 /\ Key \in DOMAIN Digest
  BY <1>1, HereIsRanked DEF Spending, Answered, Typed
<1>3. CASE Stored(Key) # Absent
  <2> DEFINE k == Key
  <2>1. /\ pc' = "recheck" /\ report' = report
        /\ job' = [NoJob EXCEPT !.cached = TRUE, !.ns = Stored(k).ns]
    BY <1>3 DEF Lookup
  <2>2. /\ Stored(k) = files[Digest[k]] /\ Stored(k) \in Records /\ Stored(k).key = k
        /\ Digest[k] \in DOMAIN files
    <3>1. Stored(k) = files[Digest[k]] /\ files[Digest[k]] # Absent /\ files[Digest[k]].key = k
      BY <1>3 DEF Stored
    <3>2. Digest[k] \in Names /\ files \in [Names -> Records \cup {Absent}]
      BY <1>1, <1>2 DEF Names, Typed
    <3>3. QED
      BY <3>1, <3>2
  <2>3. job'.cached = TRUE /\ job'.ns = Stored(k).ns /\ job' \in Jobs /\ job'.ns \in Times
    BY <2>1, <2>2 DEF NoJob, Jobs, Records
  <2>4. Verified(k, Stored(k).ns)
    BY <1>1, <1>3, <2>2 DEF Evident, OnlyEvidence, Verified
  <2>5. /\ This' = This /\ Key' = Key /\ Limit' = Limit /\ Opt' = Opt /\ Cands' = Cands
        /\ (MeasuredObjective <=> MeasuredObjective')
    BY <1>1, <2>1, KeyKept, LimitKept, OptionsKept
  <2>6. Progress'
    BY <1>1, <2>1, <2>5 DEF Progress, Completions, Measuring, Working
  <2>7. Spending'
    <3>1. Budget'
      BY <1>1, <2>1, <2>5 DEF Spending, Budget
    <3>2. QED
      BY <1>1, <1>2, <2>1, <3>1 DEF Spending, Answered
  <2>8. NotRepeated'
    BY <2>1 DEF NotRepeated
  <2>9. OnlyEvidence' => Evident'
    BY <1>1, <2>1, <2>3, <2>4, <2>5 DEF Evident, Verified, Answered
  <2>10. SameLists(report') /\ Blames(report') = Blames(report) /\ pc' \in Measuring
    BY <2>1 DEF SameLists, Measuring, Working
  <2>11. QED
    BY <1>1, <1>2, <2>1, <2>3, <2>6, <2>7, <2>8, <2>9, <2>10, CountKeeps
<1>4. CASE Stored(Key) = Absent
  <2> DEFINE miss == [report EXCEPT !.misses = @ + 1]
  <2>1. pc' = "time" /\ report' = miss /\ job' = job
    BY <1>4 DEF Lookup
  <2>2. /\ miss \in Reports /\ SameLists(miss) /\ SameCounts(miss) /\ Blames(miss) = Blames(report)
        /\ miss.attempts = report.attempts /\ miss.written = report.written
        /\ miss.completed = report.completed
    BY <1>1, CountingSteps
  <2> HIDE DEF miss
  <2>3. /\ report'.ranked = report.ranked /\ report'.hits = report.hits
        /\ report'.measured = report.measured /\ report'.attempts = report.attempts
        /\ report'.written = report.written /\ report'.completed = report.completed
    BY <2>1, <2>2 DEF SameLists, SameCounts
  <2>4. /\ This' = This /\ Key' = Key /\ Limit' = Limit /\ Opt' = Opt /\ Cands' = Cands
        /\ (MeasuredObjective <=> MeasuredObjective')
    BY <1>1, <2>3, KeyKept, LimitKept, OptionsKept
  <2>5. Progress'
    BY <1>1, <2>1, <2>3, <2>4 DEF Progress, Completions, Measuring, Working
  <2>6. Spending'
    <3>1. Budget'
      BY <1>1, <2>3, <2>4 DEF Spending, Budget
    <3>2. QED
      BY <1>1, <1>2, <2>1, <2>3, <3>1 DEF Spending, Answered
  <2>7. NotRepeated'
    BY <1>1, <1>4, <2>4 DEF NotRepeated, Stored
  <2>8. OnlyEvidence' => Evident'
    BY <2>1 DEF Evident, Answered
  <2>9. pc' \in Measuring /\ job' \in Jobs
    BY <1>1, <2>1 DEF Measuring, Working, Typed
  <2>10. QED
    BY <1>1, <1>2, <2>1, <2>2, <2>5, <2>6, <2>7, <2>8, <2>9, CountKeeps
<1>5. QED
  BY <1>3, <1>4

LEMMA RecheckKeeps ==
  ASSUME TuningInv, Recheck
  PROVE  TuningInv'
<1>1. /\ pc = "recheck" /\ pc \in Measuring /\ pc \in Working /\ report \in Reports
      /\ inputs' = inputs /\ files' = files /\ temps' = temps /\ evidence' = evidence
      /\ session' = session
      /\ Typed /\ Progress /\ Spending /\ Evident
  BY DEF Recheck, TuningInv, Typed, Measuring, Working
<1>2. /\ at \in Nat /\ Limit \in Nat /\ at <= Limit /\ at \in 1 .. Len(Cands) + 1
      /\ report.attempts \in Nat /\ report.hits \in Nat
      /\ report.attempts + report.hits <= at - 1 /\ job.cached
  BY <1>1, HereIsRanked DEF Spending, Answered, Typed, Reports, Evident
<1>3. CASE Reject(report)
  <2>1. report.attempts + report.hits <= at
    BY <1>2
  <2>2. QED
    BY <1>1, <1>3, <2>1, ListTypes, RejectKeeps DEF SameLists, SameCounts
<1>4. CASE pc' = "verify" /\ UNCHANGED <<at, job, report>>
  <2>1. at' = at /\ job' = job /\ report' = report /\ pc' = "verify" /\ pc' \in Measuring
    BY <1>4 DEF Measuring, Working, Answered
  <2>2. /\ This' = This /\ Key' = Key /\ Limit' = Limit /\ Opt' = Opt /\ Cands' = Cands
        /\ (MeasuredObjective <=> MeasuredObjective')
    BY <2>1, <1>1, KeyKept, LimitKept, OptionsKept
  <2>3. Progress'
    BY <1>1, <2>1, <2>2 DEF Progress, Completions
  <2>4. Spending'
    <3>1. Budget'
      BY <1>1, <2>1, <2>2 DEF Spending, Budget
    <3>2. QED
      BY <1>2, <2>1, <3>1 DEF Spending
  <2>5. NotRepeated' /\ (OnlyEvidence' => Evident')
    BY <1>1, <2>1, <2>2 DEF NotRepeated, Evident, Verified, Answered
  <2>6. SameLists(report') /\ Blames(report') = Blames(report) /\ job' \in Jobs
    BY <1>1, <2>1 DEF SameLists, Typed
  <2>7. QED
    BY <1>1, <1>2, <2>1, <2>3, <2>4, <2>5, <2>6, CountKeeps
<1>5. QED
  BY <1>3, <1>4 DEF Recheck

LEMMA TimeKeeps ==
  ASSUME TuningInv, Time
  PROVE  TuningInv'
<1> DEFINE counted == [report EXCEPT !.attempts = @ + 1]
           tried == [counted EXCEPT !.completed = @ + 1]
<1>1. /\ pc = "time" /\ pc \in Measuring /\ pc \in Working /\ report \in Reports
      /\ inputs' = inputs /\ files' = files /\ temps' = temps /\ evidence' = evidence
      /\ session' = session
      /\ Typed /\ Progress /\ Spending /\ Evident
  BY DEF Time, TuningInv, Typed, Measuring, Working
<1>2. /\ at \in Nat /\ Limit \in Nat /\ at <= Limit /\ at \in 1 .. Len(Cands) + 1
      /\ at + 1 \in 1 .. Len(Cands) + 1
      /\ report.attempts \in Nat /\ report.hits \in Nat /\ report.written \in Nat
      /\ report.completed \in Nat /\ report.attempts + report.hits <= at - 1
      /\ Opt.maxAttempts # 0 => at <= Opt.maxAttempts
      /\ Opt.maxAttempts \in Nat
  <2>1. /\ at \in Nat /\ Limit \in Nat /\ at <= Limit /\ at <= Len(Cands) /\ Len(Cands) \in Nat
        /\ Opt.maxAttempts # 0 => at <= Opt.maxAttempts
        /\ Opt.maxAttempts \in Nat
    BY <1>1, HereIsRanked
  <2>2. at + 1 \in 1 .. Len(Cands) + 1
    BY <2>1
  <2>3. /\ report.attempts \in Nat /\ report.hits \in Nat /\ report.written \in Nat
        /\ report.completed \in Nat /\ report.attempts + report.hits <= at - 1
        /\ at \in 1 .. Len(Cands) + 1
    BY <1>1 DEF Spending, Answered, Typed, Reports
  <2>4. QED
    BY <2>1, <2>2, <2>3
<1>3. /\ counted \in Reports /\ SameLists(counted) /\ SameCounts(counted)
      /\ Blames(counted) = Blames(report)
      /\ counted.attempts = report.attempts + 1 /\ counted.written = report.written
      /\ counted.completed = report.completed
      /\ tried \in Reports /\ SameLists(tried) /\ SameCounts(tried)
      /\ Blames(tried) = Blames(report)
      /\ tried.attempts = report.attempts + 1 /\ tried.written = report.written
      /\ tried.completed = report.completed + 1
  BY <1>1, CountingSteps
<1>4. \/ Reject(counted)
      \/ /\ report' = IF MeasuredObjective THEN counted ELSE tried
         /\ at' = at + 1 /\ pc' = "measure" /\ UNCHANGED job
      \/ \E ns \in Times, rate \in Rates \cup {Absent}, sampled \in BOOLEAN :
           /\ report' = counted
           /\ job' = [cached |-> FALSE, ns |-> ns, rate |-> rate, sampled |-> sampled]
           /\ pc' = "verify" /\ UNCHANGED at
  BY DEF Time
<1> HIDE DEF counted, tried
<1>5. /\ report.written <= report.attempts /\ report.hits <= report.completed
      /\ MeasuredObjective => report.measured <= Opt.measureTop
  BY <1>1 DEF Spending, Budget
<1>6. CASE Reject(counted)
  <2>1. counted.attempts + counted.hits <= at /\ Blames(report) \in Nat
    BY SMTT(30), <1>1, <1>2, <1>3, ListTypes DEF SameCounts
  <2>2. QED
    BY <1>1, <1>3, <1>6, <2>1, RejectKeeps
<1>7. ASSUME report' \in {counted, tried}
      PROVE  /\ report' \in Reports /\ SameLists(report') /\ Blames(report') = Blames(report)
             /\ report'.hits = report.hits /\ report'.measured = report.measured
             /\ report'.attempts = report.attempts + 1 /\ report'.written = report.written
             /\ report.completed <= report'.completed /\ report'.completed \in Nat
             /\ report'.ranked = report.ranked
             /\ Limit' = Limit /\ Opt' = Opt /\ Cands' = Cands
             /\ (MeasuredObjective <=> MeasuredObjective') /\ Budget'
             /\ report'.attempts + report'.hits <= at /\ report'.written < report'.attempts
  <2>1. /\ report' \in Reports /\ SameLists(report') /\ Blames(report') = Blames(report)
        /\ report'.hits = report.hits /\ report'.measured = report.measured
        /\ report'.attempts = report.attempts + 1 /\ report'.written = report.written
        /\ report.completed <= report'.completed /\ report'.completed \in Nat
        /\ report'.ranked = report.ranked
    BY SMTT(30), <1>2, <1>3, <1>7 DEF SameLists, SameCounts
  <2>2. /\ Limit' = Limit /\ Opt' = Opt /\ Cands' = Cands
        /\ (MeasuredObjective <=> MeasuredObjective')
    BY <1>1, <2>1, LimitKept, OptionsKept
  <2>3. report'.attempts + report'.hits <= at /\ report'.written < report'.attempts
    BY SMTT(30), <1>2, <1>5, <2>1
  <2>4. Opt.maxAttempts # 0 => report'.attempts + report'.hits <= Opt.maxAttempts
    BY <1>2, <2>1, <2>3
  <2>5. report'.hits <= report'.completed /\ report'.written <= report'.attempts
    BY SMTT(30), <1>2, <1>5, <2>1
  <2>6. Budget'
    BY <1>5, <2>1, <2>2, <2>4, <2>5 DEF Budget
  <2>7. QED
    BY <2>1, <2>2, <2>3, <2>6
<1>8. CASE /\ report' = IF MeasuredObjective THEN counted ELSE tried
           /\ at' = at + 1 /\ pc' = "measure" /\ UNCHANGED job
  <2>1. report' \in {counted, tried} /\ pc' = "measure" /\ pc' \in Measuring /\ job' = job
    BY <1>8 DEF Measuring
  <2>2. Progress'
    <3>1. Len(report.ranked) <= Len(Cands) /\ session # 0
      BY <1>1 DEF Progress
    <3>2. at' <= Limit + 1
      BY <1>2, <1>8
    <3>3. QED
      BY <1>1, <1>7, <2>1, <3>1, <3>2 DEF Progress, Working, Answered
  <2>3. Spending'
    <3>1. report'.attempts + report'.hits <= at' - 1
      BY <1>2, <1>7, <1>8, <2>1
    <3>2. QED
      BY <1>7, <2>1, <3>1 DEF Spending, Answered
  <2>4. NotRepeated' /\ (OnlyEvidence' => Evident')
    BY <2>1 DEF NotRepeated, Evident, Answered
  <2>5. at' \in 1 .. Len(Cands) + 1 /\ at <= at' /\ job' \in Jobs
    BY <1>1, <1>2, <1>8, <2>1 DEF Typed
  <2>6. QED
    BY <1>1, <1>7, <2>1, <2>2, <2>3, <2>4, <2>5, CountKeeps
<1>9. ASSUME NEW ns \in Times, NEW rate \in Rates \cup {Absent}, NEW sampled \in BOOLEAN,
             report' = counted, pc' = "verify", at' = at,
             job' = [cached |-> FALSE, ns |-> ns, rate |-> rate, sampled |-> sampled]
      PROVE  TuningInv'
  <2>1. report' \in {counted, tried} /\ pc' \in Measuring /\ ~job'.cached /\ job' \in Jobs
        /\ job'.ns \in Times
    BY <1>9 DEF Measuring, Working, Answered, Jobs
  <2>2. Progress'
    <3>1. Completions' = Completions
      BY <1>3, <1>7, <1>9, <2>1 DEF Completions
    <3>2. QED
      BY <1>1, <1>7, <1>9, <2>1, <3>1 DEF Progress
  <2>3. Spending'
    BY <1>7, <1>9, <2>1 DEF Spending, Answered
  <2>4. NotRepeated' /\ (OnlyEvidence' => Evident')
    BY <1>9, <2>1 DEF NotRepeated, Evident
  <2>5. at' \in 1 .. Len(Cands) + 1 /\ at <= at'
    BY <1>2, <1>9
  <2>6. QED
    BY <1>1, <1>7, <1>9, <2>1, <2>2, <2>3, <2>4, <2>5, CountKeeps
<1>10. QED
  BY <1>4, <1>6, <1>8, <1>9

LEMMA VerifyKeeps ==
  ASSUME TuningInv, Verify
  PROVE  TuningInv'
<1>1. /\ pc = "verify" /\ pc \in Measuring /\ pc \in Working /\ pc \in Answered
      /\ report \in Reports /\ job \in Jobs
      /\ inputs' = inputs /\ files' = files /\ temps' = temps /\ session' = session
      /\ Typed /\ Progress /\ Spending /\ Evident
  BY DEF Verify, TuningInv, Typed, Measuring, Working, Answered
<1>2. /\ at \in Nat /\ at \in 1 .. Len(Cands) + 1
      /\ report.attempts \in Nat /\ report.hits \in Nat
      /\ report.attempts + report.hits <= IF job.cached THEN at - 1 ELSE at
      /\ ~job.cached => report.written < report.attempts
  BY <1>1, HereIsRanked DEF Spending, Typed, Reports
<1>3. CASE Reject(report) /\ UNCHANGED evidence
  <2>1. report.attempts + report.hits <= at
    BY <1>2
  <2>2. QED
    BY <1>1, <1>3, <2>1, ListTypes, RejectKeeps DEF SameLists, SameCounts
<1>4. CASE /\ Valid
           /\ evidence' = evidence \cup (IF job.cached THEN {} ELSE {<<Key, job.ns, job.sampled>>})
           /\ pc' = IF Persistent THEN "check" ELSE "accept"
           /\ UNCHANGED <<at, job, report>>
  <2>1. /\ at' = at /\ job' = job /\ report' = report /\ pc' \in {"check", "accept"}
        /\ pc' \in Measuring /\ pc' \in Working /\ pc' \in Answered
    BY <1>4 DEF Measuring, Working, Answered
  <2>2. /\ This' = This /\ Key' = Key /\ Limit' = Limit /\ Opt' = Opt /\ Cands' = Cands
        /\ (MeasuredObjective <=> MeasuredObjective')
    BY <2>1, <1>1, KeyKept, LimitKept, OptionsKept
  <2>3. Progress'
    BY <1>1, <2>1, <2>2 DEF Progress, Completions
  <2>4. pc' = "check" => ~job.cached /\ job.sampled /\ job.ns # 0
    BY <1>4 DEF Persistent, Valid
  <2>5. Spending'
    <3>1. Budget'
      BY <1>1, <2>1, <2>2 DEF Spending, Budget
    <3>2. QED
      BY <1>2, <2>1, <2>4, <3>1 DEF Spending
  <2>6. evidence \subseteq evidence' /\ (~job.cached => <<Key, job.ns, job.sampled>> \in evidence')
    BY <1>4
  <2>7. Verified(Key, job.ns)'
    <3>1. CASE job.cached
      <4>1. Verified(Key, job.ns)
        BY <1>1, <3>1 DEF Evident
      <4>2. QED
        BY <2>1, <2>2, <2>6, <4>1 DEF Verified
    <3>2. CASE ~job.cached
      BY <1>1, <2>1, <2>2, <2>6, <3>2 DEF Verified, Jobs
    <3>3. QED
      BY <3>1, <3>2
  <2>8. pc' = "check" => job.ns # 0 /\ <<Key, job.ns, TRUE>> \in evidence' /\ job.sampled
    <3>1. job.sampled \in BOOLEAN
      BY <1>1 DEF Jobs
    <3>2. pc' = "check" => job.sampled = TRUE
      BY <2>4, <3>1
    <3>3. QED
      BY <2>4, <2>6, <3>2
  <2>9. OnlyEvidence' => Evident'
    <3>1. job'.ns \in Times
      BY <1>1, <2>1 DEF Evident
    <3>2. QED
      BY <2>1, <2>2, <2>7, <2>8, <3>1 DEF Evident
  <2>10. NotRepeated'
    BY <2>1 DEF NotRepeated
  <2>11. SameLists(report') /\ Blames(report') = Blames(report)
    BY <2>1 DEF SameLists
  <2>12. QED
    BY <1>1, <1>2, <2>1, <2>3, <2>5, <2>6, <2>9, <2>10, <2>11, CountKeeps
<1>5. QED
  BY <1>3, <1>4 DEF Verify

LEMMA RenameKeeps ==
  ASSUME TuningInv, Rename
  PROVE  TuningInv'
<1> DEFINE filed == [report EXCEPT !.written = @ + 1]
           rec == [key |-> Key, ns |-> job.ns, sampled |-> job.sampled]
           d == Digest[Key]
<1>1. /\ pc = "rename" /\ pc \in Measuring /\ pc \in Working /\ pc \in Answered
      /\ report \in Reports /\ job \in Jobs /\ ~job.cached
      /\ inputs' = inputs /\ session' = session /\ at' = at /\ job' = job /\ evidence' = evidence
      /\ pc' \in {"accept", "failed"} /\ temps' = temps \ {session} /\ report' = filed
      /\ files' = [files EXCEPT ![d] = rec]
      /\ Typed /\ Progress /\ Spending /\ Filling /\ RefusedForCause /\ Evident
  BY DEF Rename, TuningInv, Typed, Spending, Measuring, Working, Answered
<1>2. /\ at \in Nat /\ Key \in DOMAIN Digest
      /\ report.attempts + report.hits <= at /\ report.written < report.attempts
      /\ report.written \in Nat /\ report.attempts \in Nat
      /\ job.ns \in Times /\ job.ns # 0 /\ <<Key, job.ns, TRUE>> \in evidence
  BY <1>1, HereIsRanked DEF Spending, Reports, Evident
<1>3. /\ filed \in Reports /\ SameLists(filed) /\ SameCounts(filed)
      /\ Blames(filed) = Blames(report)
      /\ filed.attempts = report.attempts /\ filed.written = report.written + 1
      /\ filed.completed = report.completed
  BY <1>1, CountingSteps
<1> HIDE DEF filed
<1>4. /\ report'.ranked = report.ranked /\ report'.unrankable = report.unrankable
      /\ report'.hits = report.hits /\ report'.measured = report.measured
      /\ report'.attempts = report.attempts /\ report'.written = report.written + 1
      /\ report'.completed = report.completed
  BY <1>1, <1>3 DEF SameLists, SameCounts
<1>5. /\ This' = This /\ Key' = Key /\ Limit' = Limit /\ Opt' = Opt /\ Cands' = Cands
      /\ (MeasuredObjective <=> MeasuredObjective')
  BY <1>1, <1>4, KeyKept, LimitKept, OptionsKept
<1>6. Typed'
  <2>1. rec \in Records
    BY <1>1, <1>2 DEF Records, Jobs
  <2>2. files \in [Names -> Records \cup {Absent}]
    BY <1>1 DEF Typed
  <2> HIDE DEF rec, d
  <2>3. files' \in [Names -> Records \cup {Absent}]
    BY <1>1, <2>1, <2>2
  <2>4. temps' \subseteq 1 .. session /\ pc' \in {"failed"} \cup Measuring
    BY <1>1 DEF Typed, Measuring, Working, Answered
  <2>5. QED
    BY <1>1, <1>3, <1>5, <2>3, <2>4 DEF Typed
<1>7. Progress'
  BY <1>1, <1>4, <1>5 DEF Progress, Completions, Measuring, Working, Answered
<1>8. Spending'
  <2>1. report'.written <= report'.attempts
    BY <1>2, <1>4
  <2>2. Budget'
    BY <1>1, <1>4, <1>5, <2>1 DEF Spending, Budget
  <2>3. QED
    BY <1>1, <1>2, <1>4, <2>2 DEF Spending, Measuring, Working, Answered
<1>9. Filling' /\ RefusedForCause'
  <2>1. Blames(report') \in Nat /\ Blames(report') >= Blames(report) /\ at <= at'
    BY <1>1, <1>2, <1>3, ListTypes
  <2>2. SameLists(report') /\ pc' \in Measuring \cup {"failed"}
    BY <1>1, <1>3 DEF Measuring, Working, Answered
  <2>3. QED
    BY <1>1, <1>2, <2>1, <2>2, ListsKept
<1>10. Evident'
  <2>1. \A f \in DOMAIN files' : f \in DOMAIN files /\ (f # d => files'[f] = files[f])
    BY <1>1
  <2>2. d \in DOMAIN files => files'[d] = rec
    BY <1>1
  <2>3. <<rec.key, rec.ns, TRUE>> \in evidence'
    BY <1>1, <1>2
  <2> HIDE DEF rec, d
  <2>4. \A f \in DOMAIN files' : \/ f \in DOMAIN files /\ files'[f] = files[f]
                                 \/ <<files'[f].key, files'[f].ns, TRUE>> \in evidence'
    BY <2>1, <2>2, <2>3
  <2>5. OnlyEvidence'
    BY <1>1, <1>4, <2>4, EvidenceKept DEF Evident
  <2>6. Verified(Key, job.ns)'
    BY <1>1, <1>2, <1>5 DEF Verified
  <2>7. QED
    BY <1>1, <1>2, <2>5, <2>6 DEF Evident, Answered
<1>11. Tidy'
  BY <1>1 DEF Tidy, NotRepeated, NoLitter
<1>12. BestFirst' /\ Accounted'
  BY <1>1, NotDone
<1>13. QED
  BY <1>6, <1>7, <1>8, <1>9, <1>10, <1>11, <1>12 DEF TuningInv

\* Accepting a measurement leaves who is ranked and who is rejected alone.
LEMMA AcceptKeepsLists ==
  ASSUME Typed, Filling, RefusedForCause, inputs' = inputs, at \in DOMAIN report.ranked,
         AcceptedNow(report'), pc \in Measuring, pc' = "measure", at' = at + 1
  PROVE  Filling' /\ RefusedForCause'
<1> DEFINE new == report'.ranked
<1>1. /\ DOMAIN new = DOMAIN report.ranked
      /\ \A i \in DOMAIN report.ranked : new[i].id = report.ranked[i].id
      /\ report'.rejected = report.rejected /\ report'.dropped = report.dropped
      /\ report'.unrankable = report.unrankable /\ Blames(report') = Blames(report)
  BY DEF AcceptedNow, This
<1>2. /\ Listed /\ OneEach(report.ranked) /\ OneEach(report.rejected) /\ Dropped
      /\ pc # "admit" /\ pc' # "admit" /\ pc' # "finish"
  BY DEF Filling, Measuring, Working, Answered
<1>3. RefusedForCause'
  BY <1>1, OptionsKept DEF RefusedForCause, Realizes
<1>4. OneEach(report.ranked)' /\ OneEach(report.rejected)'
  BY <1>1, <1>2 DEF OneEach
<1>5. Dropped'
  <2>1. /\ at \in Int /\ at' = at + 1
        /\ \A i \in DOMAIN report.dropped : report.dropped[i] \in Nat
    BY SMTT(30), ListTypes, ElementOfSeq, SessionFacts DEF Typed
  <2>2. \A i \in DOMAIN report.dropped : report.dropped[i] \in DOMAIN report.ranked /\ report.dropped[i] < at'
    BY <1>2, <2>1 DEF Dropped
  <2>3. QED
    BY <1>1, <1>2, <2>2 DEF Dropped
<1>6. Listed'
  <2>1. Seen' = Seen
    BY <1>2 DEF Seen, Cands
  <2>2. Ids(report.ranked)' = Ids(report.ranked) /\ Ids(report.rejected)' = Ids(report.rejected)
    BY <1>1 DEF Ids
  <2>3. ToSet(report.dropped)' = ToSet(report.dropped)
    BY <1>1 DEF ToSet
  <2>4. QED
    BY <1>1, <1>2, <2>1, <2>2, <2>3 DEF Listed
<1>7. Cardinality(Unmeasured(report.rejected))' <= Refusers'
  BY <1>1 DEF Filling, Unmeasured, Refusers, Blames
<1>8. QED
  BY <1>3, <1>4, <1>5, <1>6, <1>7 DEF Filling

LEMMA AcceptKeeps ==
  ASSUME TuningInv, Accept
  PROVE  TuningInv'
<1>1. /\ pc = "accept" /\ pc \in Measuring /\ pc \in Working /\ pc \in Answered
      /\ report \in Reports /\ job \in Jobs
      /\ inputs' = inputs /\ files' = files /\ temps' = temps /\ session' = session
      /\ evidence' = evidence /\ at' = at + 1 /\ pc' = "measure" /\ job' = NoJob
      /\ Typed /\ Progress /\ Spending /\ Filling /\ RefusedForCause /\ Evident /\ Tidy
  BY DEF Accept, TuningInv, Typed, Measuring, Working, Answered
<1>2. /\ at \in DOMAIN report.ranked /\ at \in Nat /\ This \in Entries /\ at <= Len(Cands)
      /\ Opt.maxAttempts \in Nat /\ Opt.measureTop \in Nat
      /\ Opt.maxAttempts # 0 => at <= Opt.maxAttempts
      /\ Limit \in Nat /\ at <= Limit /\ Len(Cands) \in Nat
  BY <1>1, HereIsRanked
<1>3. report' \in Reports /\ AcceptedNow(report')
  BY <1>1, <1>2, AcceptNotes
<1>4. /\ Len(report'.ranked) = Len(report.ranked) /\ DOMAIN report'.ranked = DOMAIN report.ranked
      /\ report'.unrankable = report.unrankable
      /\ report'.attempts = report.attempts /\ report'.written = report.written
      /\ report'.hits = report.hits + (IF job.cached THEN 1 ELSE 0)
      /\ report'.measured \in {report.measured, report.measured + 1}
      /\ report'.completed = report.completed + 1
  BY <1>3 DEF AcceptedNow
<1>5. Opt' = Opt /\ Cands' = Cands /\ (MeasuredObjective <=> MeasuredObjective') /\ Limit' = Limit
  BY <1>1, <1>4, OptionsKept, LimitKept
<1>6. Typed'
  <2>1. at' \in 1 .. Len(Cands) + 1
    BY <1>1, <1>2
  <2>2. NoJob \in Jobs /\ pc' \in Measuring
    BY <1>1 DEF NoJob, Jobs, Measuring
  <2>3. QED
    BY <1>1, <1>3, <1>5, <2>1, <2>2 DEF Typed
<1>7. Progress'
  <2>1. Len(report.ranked) <= Len(Cands) /\ session # 0
    BY <1>1 DEF Progress
  <2>2. at' <= Limit + 1
    BY <1>1, <1>2
  <2>3. QED
    BY <1>1, <1>4, <1>5, <2>1, <2>2 DEF Progress, Working, Answered
<1>8. Spending'
  <2>1. /\ report.attempts \in Nat /\ report.hits \in Nat /\ report.written \in Nat
        /\ report.measured \in Nat /\ report.completed \in Nat
        /\ report.attempts + report.hits <= IF job.cached THEN at - 1 ELSE at
        /\ report.written <= report.attempts /\ report.hits <= report.completed
    BY <1>1 DEF Spending, Budget, Reports
  <2>2. report'.attempts + report'.hits <= at
    BY <1>2, <1>4, <2>1
  <2>3. Opt.maxAttempts # 0 => report'.attempts + report'.hits <= Opt.maxAttempts
    BY SMTT(30), <1>2, <1>4, <2>1, <2>2
  <2>4. MeasuredObjective => report'.measured <= Opt.measureTop
    <3>1. MeasuredObjective => report.measured < Opt.measureTop
      BY <1>1 DEF Progress, Completions
    <3>2. QED
      BY SMTT(30), <1>2, <1>4, <2>1, <3>1
  <2>5. report'.hits <= report'.completed /\ report'.written <= report'.attempts
    BY <1>4, <2>1
  <2>6. Budget'
    BY <1>5, <2>3, <2>4, <2>5 DEF Budget
  <2>7. report'.attempts + report'.hits <= at' - 1
    BY <1>1, <1>2, <2>2
  <2>8. QED
    BY <1>1, <2>6, <2>7 DEF Spending, Answered
<1>9. Filling' /\ RefusedForCause'
  BY <1>1, <1>2, <1>3, AcceptKeepsLists
<1>10. Evident'
  <2>1. Verified(Key, job.ns)
    BY <1>1 DEF Evident
  <2>2. ASSUME NEW r \in ToSet(report'.ranked), r.ns # Absent
        PROVE  r \in ToSet(report.ranked) \/ \E s \in BOOLEAN : <<r.key, r.ns, s>> \in evidence'
    <3>1. PICK i \in DOMAIN report.ranked : r = report'.ranked[i]
      BY <1>4 DEF ToSet
    <3>2. CASE i = at
      BY <1>1, <1>3, <2>1, <3>1, <3>2 DEF AcceptedNow, Verified
    <3>3. CASE i # at
      BY <1>3, <3>1, <3>3 DEF AcceptedNow, ToSet
    <3>4. QED
      BY <3>2, <3>3
  <2>3. OnlyEvidence'
    BY <1>1, <1>4, <2>2, EvidenceKept DEF Evident
  <2>4. QED
    BY <1>1, <2>3 DEF Evident, Answered
<1>11. Tidy'
  BY <1>1 DEF Tidy, NotRepeated, NoLitter
<1>12. BestFirst' /\ Accounted'
  BY <1>1, NotDone
<1>13. QED
  BY <1>6, <1>7, <1>8, <1>9, <1>10, <1>11, <1>12 DEF TuningInv

\* One more entry in a list.
LEMMA AppendId ==
  ASSUME NEW S, NEW s \in Seq(S), NEW e \in S
  PROVE  /\ Append(s, e) \in Seq(S) /\ Len(Append(s, e)) = Len(s) + 1
         /\ DOMAIN Append(s, e) = 1 .. Len(s) + 1 /\ DOMAIN s = 1 .. Len(s) /\ Len(s) \in Nat
         /\ Append(s, e)[Len(s) + 1] = e /\ \A i \in DOMAIN s : Append(s, e)[i] = s[i]
         /\ Ids(Append(s, e)) = Ids(s) \cup {e.id}
         /\ OneEach(s) /\ e.id \notin Ids(s) => OneEach(Append(s, e))
<1> DEFINE t == Append(s, e)
           n == Len(s) + 1
<1>1. /\ t \in Seq(S) /\ Len(t) = n /\ DOMAIN t = 1 .. n /\ DOMAIN s = 1 .. Len(s)
      /\ Len(s) \in Nat /\ t[n] = e /\ \A i \in DOMAIN s : t[i] = s[i]
  BY AppendProperties, LenProperties
<1> HIDE DEF t
<1>2. /\ \A i \in DOMAIN t : i \in DOMAIN s \/ i = n
      /\ \A i \in DOMAIN s : i \in DOMAIN t /\ i # n
      /\ n \in DOMAIN t
  BY <1>1
<1>3. Ids(t) = Ids(s) \cup {e.id}
  <2>1. ASSUME NEW x \in Ids(t) PROVE x \in Ids(s) \cup {e.id}
    BY <1>1, <1>2 DEF Ids
  <2>2. ASSUME NEW x \in Ids(s) PROVE x \in Ids(t)
    <3>1. PICK i \in DOMAIN s : x = s[i].id
      BY DEF Ids
    <3>2. QED
      BY <1>1, <1>2, <3>1 DEF Ids
  <2>3. e.id \in Ids(t)
    BY <1>1, <1>2 DEF Ids
  <2>4. QED
    BY <2>1, <2>2, <2>3
<1>4. OneEach(s) /\ e.id \notin Ids(s) => OneEach(t)
  <2>1. SUFFICES ASSUME OneEach(s), e.id \notin Ids(s) PROVE OneEach(t)
    OBVIOUS
  <2>2. \A i \in DOMAIN s : s[i].id # e.id
    BY <2>1 DEF Ids
  <2>3. QED
    BY <1>1, <1>2, <2>1, <2>2 DEF OneEach
<1>5. QED
  BY <1>1, <1>3, <1>4 DEF t

\* Looking at one more candidate.
LEMMA AdmitKeepsLists ==
  ASSUME Typed, Filling, RefusedForCause, inputs' = inputs, pc = "admit", pc' = "admit",
         at <= Len(Cands), at' = at + 1, Cands[at] \in CandidateInputs, Admitted(report', Cands[at])
  PROVE  /\ Filling' /\ RefusedForCause'
         /\ Len(report'.ranked) \in {Len(report.ranked), Len(report.ranked) + 1}
         /\ \A r \in ToSet(report'.ranked) : r.ns # Absent => r \in ToSet(report.ranked)
<1> DEFINE c == Cands[at]
<1>1. /\ report.ranked \in Seq(Entries) /\ report.rejected \in Seq(Refusals)
      /\ Cands' = Cands /\ at \in Nat /\ at >= 1 /\ Len(Cands) \in Nat /\ DOMAIN Cands = 1 .. Len(Cands)
      /\ \A i, j \in DOMAIN Cands : Cands[i].id = Cands[j].id => i = j
      /\ Cands[at] = c /\ at \in DOMAIN Cands /\ c \in CandidateInputs /\ c.id \in Nat
  BY ListTypes, SessionFacts, OptionsKept DEF Typed, CandidateInputs
<1>2. /\ Listed /\ OneEach(report.ranked) /\ OneEach(report.rejected) /\ Dropped
      /\ report.dropped = <<>> /\ ToSet(<<>>) = {} /\ DOMAIN <<>> = {}
  BY DEF Filling, Dropped, ToSet
<1>3. /\ report'.unrankable = <<>> /\ report'.dropped = <<>>
      /\ RankedNow(report', c) \/ RefusedNow(report', c)
  BY <1>2 DEF Admitted, KeptBooks, Listed
<1> HIDE DEF c
<1>4. Seen' = Seen \cup {c.id} /\ c.id \notin Seen
  <2>1. Seen = {Cands[i].id : i \in 1 .. at - 1} /\ Seen' = {Cands[i].id : i \in 1 .. at}
    <3>1. at' - 1 = at
      BY <1>1
    <3>2. QED
      BY <1>1, <3>1 DEF Seen
  <2>2. \A i \in 1 .. at : i \in 1 .. at - 1 \/ i = at
    BY <1>1
  <2>3. \A i \in 1 .. at - 1 : i \in 1 .. at /\ i \in DOMAIN Cands /\ i # at
    BY <1>1
  <2>4. at \in 1 .. at
    BY <1>1
  <2>5. Seen' = Seen \cup {c.id}
    BY <1>1, <2>1, <2>2, <2>3, <2>4
  <2>6. c.id \notin Seen
    BY <1>1, <2>1, <2>3
  <2>7. QED
    BY <2>5, <2>6
<1>5. /\ Ids(report.ranked) \cup Ids(report.rejected) = Seen
      /\ c.id \notin Ids(report.ranked) /\ c.id \notin Ids(report.rejected)
      /\ \A i \in DOMAIN report.ranked : report.ranked[i].id \notin Ids(report.rejected)
  BY <1>2, <1>4 DEF Listed
<1>6. Dropped' /\ ToSet(report.dropped)' = {}
  BY <1>2, <1>3 DEF Dropped, ToSet
<1>7. Cardinality(Unmeasured(report.rejected)) <= Blames(report) /\ Blames(report) \in Nat
  BY ListTypes DEF Filling, Refusers, Blames, Typed
<1>8. CASE RankedNow(report', c)
  <2>1. PICK e \in Entries : e.id = c.id /\ e.ns = Absent /\ report'.ranked = Append(report.ranked, e)
    BY <1>8 DEF RankedNow
  <2>2. report'.rejected = report.rejected /\ Blames(report') = Blames(report)
    BY <1>8 DEF RankedNow
  <2> DEFINE n == Len(report.ranked) + 1
             ranked == Append(report.ranked, e)
  <2>3. /\ Len(ranked) = n /\ DOMAIN ranked = 1 .. n /\ DOMAIN report.ranked = 1 .. Len(report.ranked)
        /\ Len(report.ranked) \in Nat
        /\ ranked[n] = e /\ \A i \in DOMAIN report.ranked : ranked[i] = report.ranked[i]
        /\ Ids(ranked) = Ids(report.ranked) \cup {c.id} /\ OneEach(ranked)
    BY <1>1, <1>2, <1>5, <2>1, AppendId
  <2>4. \A i \in DOMAIN ranked : i \in DOMAIN report.ranked \/ i = n
    BY <2>3
  <2>5. report'.ranked = ranked
    BY <2>1
  <2> HIDE DEF ranked, n
  <2>6. OneEach(report.ranked)' /\ OneEach(report.rejected)'
    BY <1>2, <2>2, <2>3, <2>5 DEF OneEach
  <2>7. \A i \in DOMAIN ranked : ranked[i].id \notin Ids(report.rejected)
    BY <1>5, <2>1, <2>3, <2>4
  <2>8. Ids(ranked) \cup Ids(report.rejected) = Seen'
    BY <1>4, <1>5, <2>3
  <2>9. Ids(report.ranked)' = Ids(ranked) /\ Ids(report.rejected)' = Ids(report.rejected)
    BY <2>2, <2>5 DEF Ids
  <2>10. Listed'
    BY <1>3, <1>6, <2>5, <2>7, <2>8, <2>9 DEF Listed
  <2>11. Cardinality(Unmeasured(report.rejected))' <= Refusers'
    BY <1>7, <2>2 DEF Unmeasured, Refusers, Blames
  <2>12. RefusedForCause'
    BY <1>1, <2>2 DEF RefusedForCause, Realizes
  <2>13. \A r \in ToSet(ranked) : r.ns # Absent => r \in ToSet(report.ranked)
    BY <2>1, <2>3, <2>4 DEF ToSet
  <2>14. QED
    BY <1>6, <2>3, <2>5, <2>6, <2>10, <2>11, <2>12, <2>13 DEF Filling, n
<1>9. CASE RefusedNow(report', c)
  <2>1. PICK why \in {"source", "legality", "mapping", "compile"} :
          /\ report'.rejected = Append(report.rejected, [id |-> c.id, why |-> why])
          /\ why = "mapping" => \A p \in ToSet(c.plans) : ~Realizes(p)
    BY <1>9 DEF RefusedNow
  <2>2. report'.ranked = report.ranked /\ Blames(report') = Blames(report) + 1
    BY <1>9 DEF RefusedNow
  <2> DEFINE e == [id |-> c.id, why |-> why]
             n == Len(report.rejected) + 1
             rejected == Append(report.rejected, e)
  <2>3. e \in Refusals /\ e.id = c.id /\ e.why = why /\ e.why # "measurement"
    BY <1>1 DEF Refusals
  <2> HIDE DEF e
  <2>4. /\ DOMAIN rejected = 1 .. n /\ DOMAIN report.rejected = 1 .. Len(report.rejected)
        /\ Len(report.rejected) \in Nat
        /\ rejected[n] = e /\ \A i \in DOMAIN report.rejected : rejected[i] = report.rejected[i]
        /\ Ids(rejected) = Ids(report.rejected) \cup {c.id} /\ OneEach(rejected)
    BY <1>1, <1>2, <1>5, <2>3, AppendId
  <2>5. /\ Cardinality(Unmeasured(rejected)) = Cardinality(Unmeasured(report.rejected)) + 1
        /\ Cardinality(Unmeasured(report.rejected)) \in Nat
    BY <1>1, <2>3, RejectedOneMore
  <2>6. \A i \in DOMAIN rejected : i \in DOMAIN report.rejected \/ i = n
    BY <2>4
  <2>7. report'.rejected = rejected
    BY <2>1 DEF e
  <2> HIDE DEF rejected, n
  <2>8. OneEach(report.ranked)' /\ OneEach(report.rejected)'
    BY <1>2, <2>2, <2>4, <2>7 DEF OneEach
  <2>9. \A i \in DOMAIN report.ranked : report.ranked[i].id \notin Ids(rejected)
    <3>1. \A i \in DOMAIN report.ranked : report.ranked[i].id # c.id
      BY <1>5 DEF Ids
    <3>2. QED
      BY <1>5, <2>4, <3>1
  <2>10. Ids(report.ranked) \cup Ids(rejected) = Seen'
    BY <1>4, <1>5, <2>4
  <2>11. Ids(report.ranked)' = Ids(report.ranked) /\ Ids(report.rejected)' = Ids(rejected)
    BY <2>2, <2>7 DEF Ids
  <2>12. Listed'
    BY <1>3, <1>6, <2>2, <2>9, <2>10, <2>11 DEF Listed
  <2>13. Cardinality(Unmeasured(report.rejected))' <= Refusers'
    <3>1. Unmeasured(report.rejected)' = Unmeasured(rejected) /\ Refusers' = Blames(report')
      BY <2>7 DEF Unmeasured, Refusers, Blames
    <3>2. QED
      BY <1>7, <2>2, <2>5, <3>1
  <2>14. RefusedForCause'
    <3>1. ASSUME NEW i \in DOMAIN rejected, NEW d \in ToSet(Cands), d.id = rejected[i].id,
                 rejected[i].why = "mapping", NEW p \in ToSet(d.plans)
          PROVE  ~Realizes(p)
      <4>1. CASE i \in DOMAIN report.rejected
        BY <2>4, <3>1, <4>1 DEF RefusedForCause
      <4>2. CASE i = n
        <5>1. d.id = c.id /\ why = "mapping"
          BY <2>3, <2>4, <3>1, <4>2
        <5>2. d = c
          BY <1>1, <5>1 DEF ToSet
        <5>3. QED
          BY <2>1, <3>1, <5>1, <5>2
      <4>3. QED
        BY <2>6, <4>1, <4>2
    <3>2. QED
      BY <1>1, <2>7, <3>1 DEF RefusedForCause, Realizes
  <2>15. QED
    BY <1>6, <2>2, <2>8, <2>12, <2>13, <2>14 DEF Filling
<1>10. QED
  BY <1>3, <1>8, <1>9

LEMMA AdmitKeeps ==
  ASSUME TuningInv, Admit
  PROVE  TuningInv'
<1>1. /\ pc = "admit" /\ pc' = "admit" /\ at <= Len(Cands) /\ at' = at + 1 /\ job' = job
      /\ report \in Reports
      /\ inputs' = inputs /\ files' = files /\ temps' = temps /\ session' = session
      /\ evidence' = evidence
      /\ Typed /\ Progress /\ Spending /\ Filling /\ RefusedForCause /\ Evident /\ Tidy
  BY DEF Admit, TuningInv, Typed
<1>2. pc' \notin Measuring /\ pc' # "done"
  BY <1>1 DEF Measuring, Working, Answered
<1>3. /\ at \in 1 .. Len(Cands) + 1 /\ Len(Cands) \in Nat /\ at \in Nat
      /\ Cands[at] \in CandidateInputs /\ Admitted(report', Cands[at])
  BY <1>1, SessionFacts, AdmitAdmits DEF Typed
<1>4. /\ Filling' /\ RefusedForCause'
      /\ Len(report'.ranked) \in {Len(report.ranked), Len(report.ranked) + 1}
      /\ \A r \in ToSet(report'.ranked) : r.ns # Absent => r \in ToSet(report.ranked)
  BY <1>1, <1>3, AdmitKeepsLists
<1>5. /\ report' \in Reports /\ report'.unrankable = report.unrankable
      /\ report'.attempts = report.attempts /\ report'.hits = report.hits
      /\ report'.written = report.written /\ report'.measured = report.measured
      /\ report'.completed = report.completed
  BY <1>3 DEF Admitted, KeptBooks
<1>6. Opt' = Opt /\ Cands' = Cands /\ (MeasuredObjective <=> MeasuredObjective')
  BY <1>1, OptionsKept
<1>7. Typed'
  <2>1. at' \in 1 .. Len(Cands) + 1
    BY <1>1, <1>3
  <2>2. QED
    BY <1>1, <1>5, <1>6, <2>1 DEF Typed
<1>8. Progress'
  <2>1. Len(report.ranked) <= at - 1 /\ session # 0 /\ Len(report.ranked) \in Nat
    BY <1>1, ListTypes DEF Progress
  <2>2. Len(report'.ranked) <= at' - 1
    BY <1>1, <1>3, <1>4, <2>1
  <2>3. QED
    BY <1>1, <1>2, <2>1, <2>2 DEF Progress, Measuring
<1>9. Spending'
  <2>1. Budget'
    BY <1>1, <1>5, <1>6 DEF Spending, Budget
  <2>2. QED
    BY <1>1, <1>5, <2>1 DEF Spending, Measuring, Working, Answered
<1>10. Evident'
  <2>1. OnlyEvidence'
    BY <1>1, <1>4, <1>5, EvidenceKept DEF Evident
  <2>2. QED
    BY <1>1, <2>1 DEF Evident, Answered
<1>11. Tidy'
  BY <1>1 DEF Tidy, NotRepeated, NoLitter
<1>12. BestFirst' /\ Accounted'
  BY <1>2, NotDone
<1>13. QED
  BY <1>4, <1>7, <1>8, <1>9, <1>10, <1>11, <1>12 DEF TuningInv

LEMMA RankReportKeeps ==
  ASSUME TuningInv, RankReport
  PROVE  TuningInv'
<1>1. /\ pc = "admit" /\ pc' \in {"finish", "measure"} /\ at > Len(Cands) /\ at' = 1 /\ job' = job
      /\ report \in Reports
      /\ inputs' = inputs /\ files' = files /\ temps' = temps /\ session' = session
      /\ evidence' = evidence
      /\ Typed /\ Progress /\ Spending /\ Filling /\ RefusedForCause /\ Evident /\ Tidy
  BY DEF RankReport, TuningInv, Typed
<1>2. /\ Listed /\ OneEach(report.ranked) /\ OneEach(report.rejected) /\ report.dropped = <<>>
      /\ ToSet(<<>>) = {} /\ DOMAIN <<>> = {}
  BY <1>1 DEF Filling, Dropped, ToSet
<1>3. report' \in Reports /\ RankedNew(report')
  BY <1>1, <1>2, RankNotes DEF Typed
<1>4. /\ report'.ranked \in Seq(Entries) /\ Takes(report'.ranked, report.ranked, DOMAIN report.ranked)
      /\ report'.rejected = report.rejected /\ report'.dropped = <<>>
      /\ report'.unrankable = report.unrankable /\ Blames(report') = Blames(report)
      /\ report'.attempts = report.attempts /\ report'.written = report.written
      /\ report'.hits = report.hits /\ report'.measured = report.measured
      /\ report'.completed = report.completed
  BY <1>2, <1>3 DEF RankedNew
<1>5. Opt' = Opt /\ Cands' = Cands /\ (MeasuredObjective <=> MeasuredObjective')
  BY <1>1, OptionsKept
<1>6. /\ Len(Cands) \in Nat /\ at = Len(Cands) + 1 /\ at - 1 = Len(Cands)
      /\ 1 \in 1 .. Len(Cands) + 1 /\ Opt.maxAttempts \in Nat
  <2>1. Len(Cands) \in Nat /\ at \in 1 .. Len(Cands) + 1 /\ Opt.maxAttempts \in Nat
    BY <1>1, SessionFacts DEF Typed, OptionInputs
  <2>2. QED
    BY <1>1, <2>1
<1>7. Len(report'.ranked) = Len(report.ranked) /\ Len(report.ranked) \in Nat
  BY <1>1, <1>4, ListTypes, DomainFinite DEF Takes
<1>8. \A r : r \in ToSet(report'.ranked) <=> r \in ToSet(report.ranked)
  <2>1. /\ \A n \in DOMAIN report'.ranked : \E i \in DOMAIN report.ranked : report'.ranked[n] = report.ranked[i]
        /\ \A i \in DOMAIN report.ranked : \E n \in DOMAIN report'.ranked : report'.ranked[n] = report.ranked[i]
    BY <1>4 DEF Takes
  <2>2. QED
    BY <2>1 DEF ToSet
<1>9. Ids(report'.ranked) = Ids(report.ranked)
  <2>1. \A s : Ids(s) = {r.id : r \in ToSet(s)}
    BY DEF Ids, ToSet
  <2>2. ToSet(report'.ranked) = ToSet(report.ranked)
    BY <1>8
  <2>3. QED
    BY <2>1, <2>2
<1>10. Typed'
  <2>1. pc' \in {"finish"} \cup Measuring
    BY <1>1 DEF Measuring
  <2>2. QED
    BY <1>1, <1>3, <1>5, <1>6, <2>1 DEF Typed
<1>11. Progress'
  <2>1. Len(report.ranked) <= Len(Cands) /\ session # 0
    BY <1>1, <1>6 DEF Progress
  <2>2. Limit' \in Nat
    BY <1>5, <1>6, <1>7 DEF Limit, Smaller
  <2>3. at' <= Limit' + 1
    <3> DEFINE m == Limit'
    <3>1. m \in Nat
      BY <2>2
    <3> HIDE DEF m
    <3>2. 1 <= m + 1
      BY ONLY <3>1
    <3>3. QED
      BY <1>1, <3>2 DEF m
  <2>4. QED
    BY <1>1, <1>5, <1>7, <2>1, <2>3 DEF Progress, Working, Answered
<1>12. Spending'
  <2>1. Budget'
    BY <1>1, <1>4, <1>5 DEF Spending, Budget
  <2>2. report'.attempts + report'.hits <= at' - 1
    BY <1>1, <1>4 DEF Spending
  <2>3. QED
    BY <1>1, <2>1, <2>2 DEF Spending, Answered
<1>13. Filling'
  <2>1. Seen' = Seen
    BY <1>1, <1>5, <1>6 DEF Seen
  <2>2. OneEach(report.ranked)' /\ OneEach(report.rejected)'
    <3>1. OneEach(report'.ranked)
      BY <1>2, <1>4 DEF Takes
    <3>2. QED
      BY <1>2, <1>4, <3>1 DEF OneEach
  <2>3. Dropped'
    BY <1>1, <1>2, <1>4 DEF Dropped
  <2>4. Ids(report.ranked)' = Ids(report.ranked) /\ Ids(report.rejected)' = Ids(report.rejected)
    BY <1>4, <1>9 DEF Ids
  <2>5. \A n \in DOMAIN report'.ranked : report'.ranked[n].id \notin Ids(report.rejected)
    <3>1. \A i \in DOMAIN report.ranked : report.ranked[i].id \notin Ids(report.rejected)
      BY <1>2 DEF Listed
    <3>2. QED
      BY <1>4, <3>1 DEF Takes
  <2>6. ToSet(report.dropped)' = {}
    BY <1>4 DEF ToSet
  <2>7. Listed'
    BY <1>2, <1>4, <2>1, <2>4, <2>5, <2>6 DEF Listed
  <2>8. Cardinality(Unmeasured(report.rejected))' <= Refusers'
    BY <1>1, <1>4 DEF Filling, Unmeasured, Refusers, Blames
  <2>9. QED
    BY <2>2, <2>3, <2>7, <2>8 DEF Filling
<1>14. RefusedForCause'
  BY <1>1, <1>4, <1>5 DEF RefusedForCause, Realizes
<1>15. Evident'
  <2>1. OnlyEvidence'
    BY <1>1, <1>4, <1>8, EvidenceKept DEF Evident
  <2>2. QED
    BY <1>1, <2>1 DEF Evident, Answered
<1>16. Tidy'
  BY <1>1 DEF Tidy, NotRepeated, NoLitter
<1>17. BestFirst' /\ Accounted'
  BY <1>1, NotDone
<1>18. QED
  BY <1>10, <1>11, <1>12, <1>13, <1>14, <1>15, <1>16, <1>17 DEF TuningInv

\* A list without repetition has as many entries as ids.
LEMMA IdsCount ==
  ASSUME NEW S, NEW s \in Seq(S), OneEach(s)
  PROVE  IsFiniteSet(Ids(s)) /\ Cardinality(Ids(s)) = Len(s) /\ Len(s) \in Nat
<1> DEFINE t == [i \in 1 .. Len(s) |-> s[i].id]
<1>1. Len(s) \in Nat /\ DOMAIN s = 1 .. Len(s)
  BY LenProperties
<1>2. t \in [1 .. Len(s) -> Ids(s)] /\ \A y \in Ids(s) : \E i \in 1 .. Len(s) : t[i] = y
  BY <1>1 DEF Ids
<1>3. \A i, j \in 1 .. Len(s) : t[i] = t[j] => i = j
  BY <1>1 DEF OneEach
<1> HIDE DEF t
<1>4. t \in Bijection(1 .. Len(s), Ids(s))
  BY <1>2, <1>3, Fun_IsBij
<1>5. ExistsBijection(1 .. Len(s), Ids(s))
  BY <1>4 DEF ExistsBijection
<1>6. IsFiniteSet(Ids(s)) /\ Cardinality(Ids(s)) = Len(s)
  <2>1. IsFiniteSet(1 .. Len(s))
    BY <1>1, FS_Interval
  <2>2. IsFiniteSet(Ids(s))
    BY <1>5, <2>1, FS_Bijection
  <2>3. QED
    BY <1>1, <1>5, <2>2, FS_CountingElements
<1>7. QED
  BY <1>1, <1>6

\* Three finite sets that do not meet.
Apart(A, B, C) ==
  /\ IsFiniteSet(A) /\ IsFiniteSet(B) /\ IsFiniteSet(C)
  /\ A \cap B = {} /\ A \cap C = {} /\ B \cap C = {}
Count3(A, B, C) ==
  Cardinality(A \cup B \cup C) = Cardinality(A) + Cardinality(B) + Cardinality(C)

LEMMA DisjointCount ==
  ASSUME NEW A, NEW B, NEW C, Apart(A, B, C)
  PROVE  Count3(A, B, C)
<1>0. /\ IsFiniteSet(A) /\ IsFiniteSet(B) /\ IsFiniteSet(C)
      /\ A \cap B = {} /\ A \cap C = {} /\ B \cap C = {}
  BY DEF Apart
<1>1. /\ IsFiniteSet(A \cup B) /\ Cardinality(A \cup B) = Cardinality(A) + Cardinality(B) - Cardinality(A \cap B)
  BY <1>0, FS_Union
<1>2. Cardinality((A \cup B) \cup C)
        = Cardinality(A \cup B) + Cardinality(C) - Cardinality((A \cup B) \cap C)
  BY <1>0, <1>1, FS_Union
<1>3. /\ Cardinality(A \cap B) = 0 /\ Cardinality((A \cup B) \cap C) = 0
  <2>1. A \cap B = {} /\ (A \cup B) \cap C = {}
    BY <1>0
  <2>2. Cardinality({}) = 0
    BY FS_EmptySet
  <2>3. QED
    BY <2>1, <2>2, Zenon
<1>4. Cardinality(A) \in Nat /\ Cardinality(B) \in Nat /\ Cardinality(C) \in Nat
  BY <1>0, FS_CardinalityType
<1>5. Cardinality(A \cup B) = Cardinality(A) + Cardinality(B)
  BY <1>1, <1>3, <1>4
<1>6. Cardinality((A \cup B) \cup C) = Cardinality(A) + Cardinality(B) + Cardinality(C)
  BY <1>2, <1>3, <1>4, <1>5
<1>7. QED
  BY <1>6 DEF Count3

\* The final lists account for everything that was listed.
LEMMA FinalAccounts ==
  ASSUME Typed, Listed, OneEach(report.rejected), pc # "admit", inputs' = inputs,
         report' \in Reports, SameBooks(report'),
         Final(report', DOMAIN report.ranked \ ToSet(report.dropped)),
         Cardinality(Unmeasured(report.rejected)) <= Refusers
  PROVE  Accounted'
<1> DEFINE A == Ids(report'.ranked)
           B == Ids(report'.rejected)
           C == Ids(report'.unrankable)
           Kept == DOMAIN report.ranked \ ToSet(report.dropped)
<1>1. /\ report'.ranked \in Seq(Entries) /\ report'.unrankable \in Seq(Entries)
      /\ report'.rejected \in Seq(Refusals)
  BY DEF Reports
<1>2. report'.rejected = report.rejected /\ B = Ids(report.rejected)
  BY DEF SameBooks
<1>3. /\ Ids(report.ranked) \cup B = Seen
      /\ \A i \in DOMAIN report.ranked : report.ranked[i].id \in B <=> i \in ToSet(report.dropped)
  BY <1>2 DEF Listed
<1> HIDE DEF B
<1>4. /\ \A n \in DOMAIN report'.ranked : \E i \in Kept : report'.ranked[n] = report.ranked[i]
      /\ \A n \in DOMAIN report'.unrankable : \E i \in Kept : report'.unrankable[n] = report.ranked[i]
      /\ \A m \in DOMAIN report'.ranked, n \in DOMAIN report'.unrankable :
           report'.ranked[m].id # report'.unrankable[n].id
      /\ \A i \in Kept : \/ Len(report'.ranked) = Opt.topK
                         \/ \E n \in DOMAIN report'.ranked : report'.ranked[n] = report.ranked[i]
                         \/ \E n \in DOMAIN report'.unrankable : report'.unrankable[n] = report.ranked[i]
      /\ OneEach(report'.ranked) /\ OneEach(report'.unrankable)
  BY DEF Final
<1>5. \A i \in Kept : report.ranked[i].id \notin B /\ report.ranked[i].id \in Ids(report.ranked)
  BY <1>3 DEF Ids
<1>6. A \cap B = {} /\ C \cap B = {} /\ A \cap C = {}
  <2>1. \A x \in A : x \notin B /\ x \notin C /\ x \in Ids(report.ranked)
    BY <1>4, <1>5 DEF Ids
  <2>2. \A x \in C : x \notin B /\ x \in Ids(report.ranked)
    BY <1>4, <1>5 DEF Ids
  <2>3. QED
    BY <2>1, <2>2
<1>7. A \subseteq Ids(report.ranked) /\ C \subseteq Ids(report.ranked)
  BY <1>4 DEF Ids
<1>8. Cardinality(A \cup B \cup C) = Len(report'.ranked) + Len(report'.rejected) + Len(report'.unrankable)
  <2>1. IsFiniteSet(A) /\ Cardinality(A) = Len(report'.ranked)
    BY <1>1, <1>4, IdsCount
  <2>2. IsFiniteSet(B) /\ Cardinality(B) = Len(report'.rejected)
    BY <1>1, <1>2, IdsCount
  <2>3. IsFiniteSet(C) /\ Cardinality(C) = Len(report'.unrankable)
    BY <1>1, <1>4, IdsCount
  <2> HIDE DEF A, C
  <2>4. B \cap C = {}
    BY <1>6
  <2>5. Apart(A, B, C)
    BY <1>6, <2>1, <2>2, <2>3, <2>4 DEF Apart
  <2>6. Count3(A, B, C)
    BY ONLY <2>5, DisjointCount
  <2>7. QED
    BY <2>1, <2>2, <2>3, <2>6 DEF Count3
<1>9. Seen = AllIds
  BY SessionFacts DEF Seen, AllIds, Ids, Typed
<1>10. Len(report'.ranked) # Opt.topK => A \cup B \cup C = AllIds
  <2>1. SUFFICES ASSUME Len(report'.ranked) # Opt.topK PROVE A \cup B \cup C = AllIds
    OBVIOUS
  <2>2. ASSUME NEW x \in Ids(report.ranked) PROVE x \in A \cup B \cup C
    <3>1. PICK i \in DOMAIN report.ranked : x = report.ranked[i].id
      BY DEF Ids
    <3>2. CASE i \in ToSet(report.dropped)
      BY <1>3, <3>1, <3>2
    <3>3. CASE i \in Kept
      BY <1>4, <2>1, <3>1, <3>3 DEF Ids
    <3>4. QED
      BY <3>2, <3>3
  <2> HIDE DEF A, C
  <2>3. QED
    BY <1>3, <1>7, <1>9, <2>2
<1> DEFINE lists == <<A, B, C>>
<1>11. DOMAIN lists = 1 .. 3 /\ lists[1] = A /\ lists[2] = B /\ lists[3] = C
  OBVIOUS
<1>12. UNION ToSet(lists) = A \cup B \cup C
  <2> HIDE DEF A, C
  <2>1. ToSet(lists) = {A, B, C}
    BY <1>11 DEF ToSet
  <2>2. QED
    BY <2>1
<1>13. \A i, j \in DOMAIN lists : i # j => lists[i] \cap lists[j] = {}
  <2> HIDE DEF A, C
  <2>1. \A i \in DOMAIN lists : i = 1 \/ i = 2 \/ i = 3
    BY <1>11
  <2> HIDE DEF lists
  <2>2. B \cap A = {} /\ C \cap A = {} /\ B \cap C = {}
    BY <1>6
  <2>3. QED
    BY <1>6, <1>11, <2>1, <2>2
<1>14. Opt' = Opt /\ AllIds' = AllIds
  BY OptionsKept DEF AllIds, Ids
<1>15. Cardinality(Unmeasured(report'.rejected))
         <= report'.bySource + report'.byLegality + report'.byMapping + report'.byCompile
  BY <1>2 DEF SameBooks, Blames, Refusers, Unmeasured
<1>16. <<Ids(report.ranked)', Ids(report.rejected)', Ids(report.unrankable)'>> = lists
  BY DEF B, Ids
<1> HIDE DEF A, C, lists
<1>17. QED
  BY <1>8, <1>10, <1>12, <1>13, <1>14, <1>15, <1>16 DEF Accounted, Unmeasured

\* The order of the results depends on the objective alone.
LEMMA RanksKept ==
  ASSUME Opt' = Opt
  PROVE  \A a, b : RanksBefore(a, b) => RanksBefore(a, b)'
<1>1. ASSUME NEW a, NEW b, RanksBefore(a, b) PROVE RanksBefore(a, b)'
  <2>1. CASE \E i \in DOMAIN Opt.metrics :
              /\ Ahead(Opt.metrics[i], a, b)
              /\ \A j \in 1 .. i - 1 : Level(Opt.metrics[j], a, b)
    BY <2>1 DEF RanksBefore
  <2>2. CASE /\ \A i \in DOMAIN Opt.metrics : Level(Opt.metrics[i], a, b)
             /\ a.id < b.id \/ (a.id = b.id /\ a.plan < b.plan)
    BY <2>2 DEF RanksBefore
  <2>3. QED
    BY <1>1, <2>1, <2>2 DEF RanksBefore
<1>2. QED
  BY <1>1

LEMMA FinishKeeps ==
  ASSUME TuningInv, Finish
  PROVE  TuningInv'
<1> DEFINE Kept == DOMAIN report.ranked \ ToSet(report.dropped)
<1>1. /\ pc \in {"finish", "measure"} /\ pc' = "done" /\ at' = at /\ job' = job
      /\ report \in Reports
      /\ inputs' = inputs /\ files' = files /\ temps' = temps /\ session' = session
      /\ evidence' = evidence
      /\ Typed /\ Progress /\ Spending /\ Filling /\ RefusedForCause /\ Evident /\ Tidy
  BY DEF Finish, TuningInv, Typed
<1>2. /\ Listed /\ OneEach(report.ranked) /\ OneEach(report.rejected) /\ Dropped
      /\ Cardinality(Unmeasured(report.rejected)) <= Refusers
  BY <1>1 DEF Filling, Measuring
<1>3. Positions(report.dropped, report.ranked)
  BY <1>2 DEF Dropped, Positions
<1>4. /\ report' \in Reports /\ report'.dropped = <<>> /\ SameBooks(report')
      /\ Final(report', Kept) /\ Sorted(report'.ranked)
  BY <1>1, <1>2, <1>3, FinishLists DEF Typed
<1>5. /\ report'.rejected = report.rejected /\ Blames(report') = Blames(report)
      /\ report'.attempts = report.attempts /\ report'.hits = report.hits
      /\ report'.written = report.written /\ report'.measured = report.measured
      /\ report'.completed = report.completed
  BY <1>4 DEF SameBooks
<1>6. Opt' = Opt /\ Cands' = Cands /\ (MeasuredObjective <=> MeasuredObjective')
  BY <1>1, OptionsKept
<1>7. pc' \notin Measuring
  BY <1>1 DEF Measuring, Working, Answered
<1>8. Typed'
  BY <1>1, <1>4, <1>6 DEF Typed
<1>9. Progress'
  BY <1>1, <1>7 DEF Progress, Measuring
<1>10. Spending'
  <2>1. Budget'
    BY <1>1, <1>5, <1>6 DEF Spending, Budget
  <2>2. QED
    BY <1>1, <1>7, <2>1 DEF Spending, Measuring, Working, Answered
<1>11. Filling'
  <2>1. OneEach(report.ranked)' /\ OneEach(report.rejected)'
    BY <1>2, <1>4, <1>5 DEF Final, OneEach
  <2>2. DOMAIN <<>> = {}
    OBVIOUS
  <2>3. Dropped'
    BY <1>4, <2>2 DEF Dropped
  <2>4. Cardinality(Unmeasured(report.rejected))' <= Refusers'
    BY <1>2, <1>5 DEF Unmeasured, Refusers, Blames
  <2>5. QED
    BY <1>1, <1>7, <2>1, <2>3, <2>4 DEF Filling
<1>12. RefusedForCause'
  BY <1>1, <1>5, <1>6 DEF RefusedForCause, Realizes
<1>13. Evident'
  <2>1. \A r \in ToSet(report'.ranked) \cup ToSet(report'.unrankable) : r \in ToSet(report.ranked)
    <3>1. \A i \in Kept : report.ranked[i] \in ToSet(report.ranked)
      BY DEF ToSet
    <3>2. QED
      BY <1>4, <3>1 DEF Final, ToSet
  <2>2. OnlyEvidence'
    BY <1>1, <2>1, EvidenceKept DEF Evident
  <2>3. QED
    BY <1>1, <2>2 DEF Evident, Answered
<1>14. Tidy'
  BY <1>1 DEF Tidy, NotRepeated, NoLitter
<1>15. BestFirst'
  <2>1. \A a, b : RanksBefore(a, b) => RanksBefore(a, b)'
    BY <1>6, RanksKept
  <2>2. \A r : Available(r) => Available(r)'
    BY <1>6 DEF Available
  <2>3. \A r \in ToSet(report'.ranked) : \E n \in DOMAIN report'.ranked : r = report'.ranked[n]
    BY DEF ToSet
  <2>4. QED
    BY <1>4, <1>6, <2>1, <2>2, <2>3 DEF BestFirst, Sorted
<1>16. Accounted'
  BY <1>1, <1>2, <1>4, FinalAccounts
<1>17. QED
  BY <1>8, <1>9, <1>10, <1>11, <1>12, <1>13, <1>14, <1>15, <1>16 DEF TuningInv

-----------------------------------------------------------------------------
(* The session's properties                                                *)

LEMMA StepKeeps ==
  ASSUME TuningInv, [NextTuning]_tuningVars
  PROVE  TuningInv'
<1>1. CASE NextTuning
  BY <1>1, StartKeeps, CrashKeeps, AdmitKeeps, RankReportKeeps, PrepareKeeps, LookupKeeps,
     LookupFailsKeeps, RecheckKeeps, TimeKeeps, VerifyKeeps, AcceptKeeps, WriteTempKeeps,
     RenameKeeps, RenameFailsKeeps, CleanupKeeps, FinishKeeps DEF NextTuning
<1>2. CASE UNCHANGED tuningVars
  <2>1. /\ inputs' = inputs /\ files' = files /\ temps' = temps /\ evidence' = evidence
        /\ session' = session /\ pc' = pc /\ at' = at /\ job' = job /\ report' = report
    BY <1>2 DEF tuningVars
  <2>2. /\ Opt' = Opt /\ Cands' = Cands /\ (MeasuredObjective <=> MeasuredObjective')
        /\ This' = This /\ Key' = Key /\ Limit' = Limit /\ AllIds' = AllIds
    BY <2>1, OptionsKept, KeyKept, LimitKept DEF AllIds, Ids
  <2>3. Typed' /\ Progress' /\ Spending'
    BY <2>1, <2>2 DEF TuningInv, Typed, Progress, Completions, Spending, Budget
  <2>4. Filling' /\ RefusedForCause'
    <3>1. Seen' = Seen
      BY <2>1, <2>2 DEF Seen
    <3>2. Listed => Listed'
      BY <2>1, <3>1 DEF Listed, Ids, ToSet
    <3>3. Dropped => Dropped'
      BY <2>1 DEF Dropped
    <3>4. QED
      BY <2>1, <2>2, <3>2, <3>3
         DEF TuningInv, Filling, OneEach, Unmeasured, Refusers, RefusedForCause, Realizes
  <2>5. Evident' /\ Tidy'
    <3>1. OnlyEvidence'
      BY <2>1, EvidenceSame DEF TuningInv, Evident
    <3>2. QED
      BY <2>1, <2>2, <3>1 DEF TuningInv, Evident, Verified, Tidy, NotRepeated, NoLitter, Stored, Foreign
  <2>6. BestFirst'
    <3>1. \A a, b : RanksBefore(a, b) => RanksBefore(a, b)'
      BY <2>2, RanksKept
    <3>2. \A r : Available(r) => Available(r)'
      BY <2>2 DEF Available
    <3>3. Done' => Done /\ BestFirst
      BY <2>1 DEF Done, TuningInv
    <3>4. QED
      BY <2>1, <2>2, <3>1, <3>2, <3>3 DEF BestFirst
  <2>7. Accounted'
    <3>1. \A s : Ids(s)' = Ids(s)
      BY DEF Ids
    <3>2. Accounted
      BY DEF TuningInv
    <3>3. QED
      BY <2>1, <2>2, <3>1, <3>2, Zenon DEF Accounted, Done
  <2>8. QED
    BY <2>3, <2>4, <2>5, <2>6, <2>7 DEF TuningInv
<1>3. QED
  BY <1>1, <1>2

\* The bookkeeping of a session is right in every state: how far it is, what it
\* spent, which candidates it listed and what every number rests on.
THEOREM TuningInvariant == SpecTuning => []TuningInv
<1>1. InitTuning => TuningInv
  BY InitTuningInv
<1>2. TuningInv /\ [NextTuning]_tuningVars => TuningInv'
  BY StepKeeps
<1>3. QED
  BY <1>1, <1>2, PTL DEF SpecTuning

LEMMA TypesFollow ==
  ASSUME TuningInv
  PROVE  TuningTypeOK
<1>1. Typed /\ Dropped
  BY DEF TuningInv, Filling
<1>2. ASSUME NEW d \in DOMAIN files
      PROVE  files[d] = Absent \/ (files[d].key \in DOMAIN Digest /\ files[d].ns \in Times \ {0})
  BY <1>1 DEF Typed, Records
<1>3. ToSet(report.dropped) \subseteq DOMAIN report.ranked
  BY <1>1 DEF Dropped, ToSet
<1>4. QED
  BY <1>1, <1>2, <1>3 DEF TuningTypeOK, Typed, Measuring, Working, Answered

\* Every session is typed: its position is in the list of candidates, every
\* stored record is of a key and a positive duration, and the positions to be
\* erased are positions of the ranked list.
THEOREM TuningTypes == SpecTuning => []TuningTypeOK
  BY TuningInvariant, TypesFollow, PTL

\* The report of every session is right as a whole: each candidate is reported
\* once, as ranked, rejected or without the measurement the objective wants; the
\* ranked ones are in the objective's order; a candidate is refused for want of
\* a plan only when it has none; both budgets hold, nothing stored is measured
\* again under exact reuse, every reported or stored duration was measured and
\* verified for its key, and a session that goes on after a store, or reports,
\* has left no temporary file of its own.
THEOREM SessionIsSound == SpecTuning => []SessionSound
<1>1. TuningInv => SessionSound
  BY TypesFollow DEF TuningInv, SessionSound, Evident, Spending, Tidy
<1>2. QED
  BY <1>1, TuningInvariant, PTL

\* No write replaces the record of another key, and no failure or crash takes
\* a record away.
Stay == \A d \in DOMAIN files : files[d] # Absent => files'[d] # Absent /\ files'[d].key = files[d].key

THEOREM RecordsAreKept == SpecTuning => RecordsStay
<1>1. ASSUME TuningInv, Rename PROVE Stay
  <2> DEFINE rec == [key |-> Key, ns |-> job.ns, sampled |-> job.sampled]
             d == Digest[Key]
  <2>1. /\ pc = "rename" /\ files' = [files EXCEPT ![d] = rec] /\ ~Foreign(Key)
        /\ Typed /\ Progress /\ Evident /\ job.ns \in Times /\ job \in Jobs
    BY <1>1 DEF Rename, TuningInv, Tidy, Typed, Evident, Answered
  <2>2. Key \in DOMAIN Digest
    BY <2>1, HereIsRanked DEF Working, Answered
  <2>3. rec \in [key : DOMAIN Digest, ns : Nat, sampled : BOOLEAN]
    BY <2>1, <2>2, TuningAssumption DEF Jobs
  <2>4. rec # Absent /\ rec.key = Key
    BY <2>3, TuningAssumption
  <2>5. files[d] # Absent => files[d].key = Key
    BY <2>1 DEF Foreign
  <2> HIDE DEF rec, d
  <2>6. ASSUME NEW f \in DOMAIN files, files[f] # Absent
        PROVE  files'[f] # Absent /\ files'[f].key = files[f].key
    BY <2>1, <2>4, <2>5, <2>6
  <2>7. QED
    BY <2>6 DEF Stay
<1>2. ASSUME TuningInv, [NextTuning]_tuningVars PROVE Stay
  <2>1. Rename \/ files' = files
    BY <1>2 DEF NextTuning, tuningVars, Start, Crash, Admit, RankReport, Prepare, Lookup, LookupFails,
       Recheck, Time, Verify, Accept, WriteTemp, RenameFails, Cleanup, Finish
  <2>2. QED
    BY <1>1, <1>2, <2>1 DEF Stay
<1>3. TuningInv /\ [NextTuning]_tuningVars => [Stay]_tuningVars
  BY <1>2
<1>4. QED
  BY <1>3, TuningInvariant, PTL DEF SpecTuning, RecordsStay, Stay

-----------------------------------------------------------------------------
(* Instances of a source                                                   *)

\* A version a contract may have is read back as it is.
LEMMA VersionReadsBack ==
  ASSUME NEW v \in 1 .. SupportedVersion
  PROVE  v % VersionModulus = v
<1>1. VersionModulus \in Nat /\ VersionModulus > 2 /\ v \in Nat /\ v <= 2 /\ v >= 1
  BY WidthsAssumption DEF SupportedVersion
<1>2. QED
  BY <1>1

\* What a valid contract is retained as decodes to the contract.
LEMMA RetainedDecodes ==
  ASSUME NEW c, IsContract(c), ValidContract(c)
  PROVE  DecodeContract(EncodeContract(c)[1]) = <<c>>
<1> DEFINE attr == [k \in EncodedKeys(c) |->
                      IF k = "symbols" THEN [s \in DOMAIN c.symbols |-> EncodedSymbol(c.symbols[s])]
                      ELSE c[k]]
<1>1. EncodeContract(c)[1] = attr
  BY DEF EncodeContract
<1>2. /\ DOMAIN attr = EncodedKeys(c)
      /\ attr.version = c.version /\ attr.ports = c.ports /\ attr.axes = c.axes
      /\ attr.numerical_contract = c.numerical_contract
      /\ attr.required_primitives = c.required_primitives
      /\ "symbols" \in DOMAIN attr <=> c.version # 1
      /\ c.version # 1 => attr.symbols = [s \in DOMAIN c.symbols |-> EncodedSymbol(c.symbols[s])]
  BY DEF EncodedKeys
<1> HIDE DEF attr
<1>3. ASSUME NEW s \in DOMAIN c.symbols
      PROVE  DecodedSymbol(EncodedSymbol(c.symbols[s])) = c.symbols[s]
  <2> DEFINE b == c.symbols[s]
             e == EncodedSymbol(b)
  <2>1. b = [min |-> b.min, multiple_of |-> b.multiple_of, max |-> b.max]
    BY DEF IsContract
  <2>2. b.max # <<>> => b.max = <<b.max[1]>>
    BY DEF IsContract, Unset
  <2> HIDE DEF b
  <2>3. e.min = b.min /\ e.multiple_of = b.multiple_of /\ ("max" \in DOMAIN e <=> b.max # <<>>)
    BY DEF EncodedSymbol
  <2>4. b.max # <<>> => e.max = b.max[1]
    BY DEF EncodedSymbol
  <2> HIDE DEF e
  <2>5. DecodedSymbol(e) = [min |-> b.min, multiple_of |-> b.multiple_of, max |-> b.max]
    BY <2>2, <2>3, <2>4 DEF DecodedSymbol
  <2>6. QED
    BY <2>1, <2>5 DEF b, e
<1>4. DecodedSymbols(attr) = c.symbols
  <2>1. CASE c.version = 1
    <3>1. DOMAIN c.symbols = {}
      BY <2>1 DEF ValidContract
    <3>2. c.symbols = [s \in {} |-> s]
      BY <3>1 DEF IsContract
    <3>3. <<>> = [s \in {} |-> s]
      OBVIOUS
    <3>4. QED
      BY <1>2, <2>1, <3>2, <3>3 DEF DecodedSymbols
  <2>2. CASE c.version # 1
    <3> DEFINE d == DecodedSymbols(attr)
    <3>1. d = [s \in DOMAIN c.symbols |-> DecodedSymbol(attr.symbols[s])]
      BY <1>2, <2>2 DEF DecodedSymbols
    <3>2. \A s \in DOMAIN c.symbols : d[s] = c.symbols[s]
      BY <1>2, <1>3, <2>2, <3>1
    <3>3. c.symbols = [s \in DOMAIN c.symbols |-> c.symbols[s]]
      BY DEF IsContract
    <3>4. QED
      BY <3>1, <3>2, <3>3
  <2>3. QED
    BY <2>1, <2>2
<1>5. WellFormedContract(attr)
  <2>1. {"version", "ports", "axes", "numerical_contract", "required_primitives"} \subseteq DOMAIN attr
    BY <1>2 DEF EncodedKeys
  <2>2. "symbols" \in DOMAIN attr =>
          \A s \in DOMAIN attr.symbols : {"min", "multiple_of"} \subseteq DOMAIN attr.symbols[s]
    <3>1. ASSUME NEW b PROVE {"min", "multiple_of"} \subseteq DOMAIN EncodedSymbol(b)
      BY DEF EncodedSymbol
    <3> SUFFICES ASSUME "symbols" \in DOMAIN attr, NEW s \in DOMAIN attr.symbols
                 PROVE  {"min", "multiple_of"} \subseteq DOMAIN attr.symbols[s]
      OBVIOUS
    <3>2. s \in DOMAIN c.symbols /\ attr.symbols[s] = EncodedSymbol(c.symbols[s])
      BY <1>2
    <3>3. QED
      BY <3>1, <3>2
  <2>3. QED
    BY <1>2, <2>1, <2>2 DEF WellFormedContract, IsContract
<1>6. c.version % VersionModulus = c.version
  BY VersionReadsBack DEF ValidContract
<1>7. [version |-> attr.version % VersionModulus, ports |-> attr.ports, axes |-> attr.axes,
       symbols |-> DecodedSymbols(attr), numerical_contract |-> attr.numerical_contract,
       required_primitives |-> attr.required_primitives] = c
  <2>1. c = [version |-> c.version, ports |-> c.ports, axes |-> c.axes, symbols |-> c.symbols,
             numerical_contract |-> c.numerical_contract, required_primitives |-> c.required_primitives]
    BY DEF IsContract
  <2>2. QED
    BY <1>2, <1>4, <1>6, <2>1
<1>8. QED
  BY <1>1, <1>5, <1>7 DEF DecodeContract

\* As many places as entries, one for each entry.
LEMMA AsManyPlaces ==
  ASSUME NEW n \in Nat, NEW P, NEW seat \in [1 .. n -> P],
         \A p, q \in 1 .. n : seat[p] = seat[q] => p = q,
         \A x \in P : \E p \in 1 .. n : seat[p] = x
  PROVE  Cardinality(P) = n /\ {seat[p] : p \in 1 .. n} = P
<1>1. seat \in Bijection(1 .. n, P)
  BY DEF Bijection, Injection, Surjection, IsInjective
<1>2. IsFiniteSet(1 .. n) /\ Cardinality(1 .. n) = n
  BY FS_Interval
<1>3. Cardinality(P) = n
  <2>1. ExistsBijection(1 .. n, P)
    BY <1>1 DEF ExistsBijection
  <2>2. QED
    BY <1>2, <2>1, FS_Bijection
<1>4. QED
  BY <1>3

\* What the retained attribute of a kernel says does not change the rest.
LEMMA RetainingKeeps ==
  ASSUME NEW k, NEW c, NEW e, IsKernel(k), IsContract(c), ValidContract(c), VerifyConcreteContract(k, c),
         e = [k EXCEPT !.retained = EncodeContract(c)]
  PROVE  VerifyConcreteContract(e, c) /\ e.retained = EncodeContract(c) /\ IsKernel(e)
<1>1. /\ e.inputs = k.inputs /\ e.results = k.results /\ e.argument_bindings = k.argument_bindings
      /\ e.result_bindings = k.result_bindings /\ e.used = k.used /\ e.numerical = k.numerical
      /\ e.operations = k.operations /\ e.retained = EncodeContract(c) /\ DOMAIN e = DOMAIN k
  BY DEF IsKernel
<1>2. RetainedFits(e, c)
  BY <1>1, RetainedDecodes DEF RetainedFits, Unset
<1>3. \A i : /\ ArgumentPort(e, i) = ArgumentPort(k, i) /\ ArgumentIsOutput(e, i) = ArgumentIsOutput(k, i)
             /\ ResultPort(e, i) = ResultPort(k, i)
  BY <1>1 DEF ArgumentPort, ArgumentIsOutput, ResultPort, HasBindings
<1>4. HasBindings(e) = HasBindings(k) /\ BindingsCover(e, c.ports) = BindingsCover(k, c.ports)
  BY <1>1 DEF HasBindings, BindingsCover
<1>5. NumericalFits(e, c) = NumericalFits(k, c)
  BY <1>1 DEF NumericalFits
<1>6. VerifyConcreteContract(e, c)
  BY <1>1, <1>2, <1>3, <1>4, <1>5, Zenon DEF VerifyConcreteContract
<1>7. QED
  BY <1>1, <1>6 DEF IsKernel

\* A port a place fits is one that caller can pass the place's buffer for.
LEMMA FitsAsType ==
  ASSUME NEW port, NEW output \in BOOLEAN, NEW type, DecodesPort(port), PortFits(port, output, type)
  PROVE  /\ (port.direction = "output") = output
         /\ Len(type.shape) = Len(port.shape) /\ type.element_type = port.element_type
         /\ \A d \in DOMAIN port.shape : IsSymbol(port.shape[d]) <=> type.shape[d] = <<"dynamic">>
         /\ output => port.effect # "none"
<1>1. ASSUME NEW d \in DOMAIN port.shape
      PROVE  IsSymbol(port.shape[d]) <=> type.shape[d] = <<"dynamic">>
  <2>1. DimensionFits(type.shape[d], port.shape[d])
    BY DEF PortFits
  <2>2. CASE type.shape[d] = <<"dynamic">>
    BY <2>1, <2>2 DEF DimensionFits
  <2>3. CASE type.shape[d] # <<"dynamic">>
    <3>1. port.shape[d] = <<"constant", type.shape[d][2]>>
      BY <2>1, <2>3 DEF DimensionFits
    <3>2. port.shape[d][1] = "constant"
      BY <3>1
    <3>3. QED
      BY <2>3, <3>2 DEF IsSymbol
  <2>4. QED
    BY <2>2, <2>3
<1>2. QED
  BY <1>1 DEF PortFits

\* Two equal pairs agree in the second place.
LEMMA SecondOfPair ==
  ASSUME NEW t, NEW x, NEW y, <<t, x>> = <<t, y>>
  PROVE  x = y
<1>1. <<t, x>>[2] = x /\ <<t, y>>[2] = y
  OBVIOUS
<1>2. QED
  BY <1>1

\* The checked kernel of a contract implements it: with bindings every
\* argument has a port of its own, and the ports are as many; without, the
\* places follow the ports.
LEMMA CheckedImplements ==
  ASSUME NEW k, NEW c, IsKernel(k), IsContract(c), VerifyConcreteContract(k, c)
  PROVE  Implements(k, c)
<1> DEFINE n == Len(c.ports)
           places == {<<"argument", i>> : i \in DOMAIN k.inputs}
                        \cup (IF HasBindings(k) THEN {} ELSE {<<"result", i>> : i \in DOMAIN k.results})
           Stands(p, place) ==
             /\ (c.ports[p].direction = "output") = Destination(k, place)
             /\ Len(TypeAt(k, place).shape) = Len(c.ports[p].shape)
             /\ TypeAt(k, place).element_type = c.ports[p].element_type
             /\ \A d \in DOMAIN c.ports[p].shape :
                   IsSymbol(c.ports[p].shape[d]) <=> TypeAt(k, place).shape[d] = <<"dynamic">>
             /\ c.ports[p].effect = "none" => place[2] \notin k.used
<1>1. /\ n \in Nat /\ DOMAIN c.ports = 1 .. n
      /\ Len(k.inputs) \in Nat /\ DOMAIN k.inputs = 1 .. Len(k.inputs)
      /\ Len(k.results) \in Nat /\ DOMAIN k.results = 1 .. Len(k.results)
  BY LenProperties DEF IsKernel, IsContract, IsList
<1>2. \A p \in 1 .. n : DecodesPort(c.ports[p])
  BY <1>1 DEF IsContract
<1> SUFFICES \E seat \in [1 .. n -> places] :
               /\ \A p, q \in 1 .. n : seat[p] = seat[q] => p = q
               /\ \A x \in places : \E p \in 1 .. n : seat[p] = x
               /\ \A p \in 1 .. n : Stands(p, seat[p])
  <2>1. PICK seat \in [1 .. n -> places] :
               /\ \A p, q \in 1 .. n : seat[p] = seat[q] => p = q
               /\ \A x \in places : \E p \in 1 .. n : seat[p] = x
               /\ \A p \in 1 .. n : Stands(p, seat[p])
    OBVIOUS
  <2> HIDE DEF places, Stands
  <2>2. Cardinality(places) = n /\ {seat[p] : p \in 1 .. n} = places
    BY <1>1, <2>1, AsManyPlaces
  <2>3. \A p \in DOMAIN c.ports : Stands(p, seat[p])
    BY <1>1, <2>1
  <2>4. seat \in [DOMAIN c.ports -> places] /\ {seat[p] : p \in DOMAIN c.ports} = places
        /\ Cardinality(places) = Len(c.ports)
    BY <1>1, <2>1, <2>2
  <2>5. QED
    BY <2>3, <2>4, Zenon DEF Implements, places, Stands
<1>3. ASSUME NEW i \in DOMAIN k.inputs, ArgumentPort(k, i) \in 1 .. n
      PROVE  Stands(ArgumentPort(k, i), <<"argument", i>>)
  <2> DEFINE p == ArgumentPort(k, i)
  <2>1. /\ PortFits(c.ports[p], ArgumentIsOutput(k, i), k.inputs[i])
        /\ ~ArgumentIsOutput(k, i) /\ c.ports[p].effect = "none" => i \notin k.used
    BY DEF VerifyConcreteContract
  <2>2. TypeAt(k, <<"argument", i>>) = k.inputs[i]
    BY DEF TypeAt
  <2>3. Destination(k, <<"argument", i>>) = ArgumentIsOutput(k, i)
    BY DEF Destination, ArgumentIsOutput
  <2>4. ArgumentIsOutput(k, i) \in BOOLEAN
    BY DEF ArgumentIsOutput
  <2>5. DecodesPort(c.ports[p])
    BY <1>2, <1>3
  <2> HIDE DEF p
  <2>6. QED
    BY <2>1, <2>2, <2>3, <2>4, <2>5, FitsAsType DEF p
<1>4. CASE HasBindings(k)
  <2> DEFINE arguments == k.argument_bindings[1]
  <2>1. /\ Len(arguments) = n /\ Len(k.inputs) = n /\ arguments \in Seq(Range(arguments))
        /\ \A i \in DOMAIN arguments : arguments[i].port \in 0 .. n - 1
        /\ \A i, j \in DOMAIN arguments : arguments[i].port = arguments[j].port => i = j
    BY <1>4 DEF VerifyConcreteContract, BindingsCover, IsKernel, IsList, HasBindings
  <2>2. DOMAIN arguments = 1 .. n
    BY <2>1, LenProperties
  <2>3. \A i \in 1 .. n : ArgumentPort(k, i) = arguments[i].port + 1 /\ ArgumentPort(k, i) \in 1 .. n
    BY <1>1, <1>4, <2>1, <2>2 DEF ArgumentPort
  <2>4. \A i, j \in 1 .. n : ArgumentPort(k, i) = ArgumentPort(k, j) => i = j
    <3> SUFFICES ASSUME NEW i \in 1 .. n, NEW j \in 1 .. n, ArgumentPort(k, i) = ArgumentPort(k, j) PROVE i = j
      OBVIOUS
    <3>1. arguments[i].port \in Int /\ arguments[j].port \in Int
      BY <1>1, <2>1, <2>2
    <3>2. arguments[i].port + 1 = arguments[j].port + 1
      BY <2>3
    <3>3. arguments[i].port = arguments[j].port
      BY SMTT(30), <3>1, <3>2
    <3>4. QED
      BY <2>1, <2>2, <3>3
  <2> HIDE DEF arguments
  <2> DEFINE pos == [i \in 1 .. n |-> ArgumentPort(k, i)]
  <2>5. \A p \in 1 .. n : \E i \in 1 .. n : ArgumentPort(k, i) = p
    <3>1. pos \in [1 .. n -> 1 .. n] /\ \A i, j \in 1 .. n : pos[i] = pos[j] => i = j
      BY <2>3, <2>4
    <3> HIDE DEF pos
    <3>2. pos \in Seq(1 .. n) /\ Len(pos) = n /\ IsInjective(pos)
      BY <1>1, <3>1 DEF IsInjective
    <3>3. IsFiniteSet(ToSet(pos)) /\ Cardinality(ToSet(pos)) = n
      BY <3>2, InjectiveCount
    <3>4. ToSet(pos) \subseteq 1 .. n
      BY <3>1 DEF ToSet
    <3>i. IsFiniteSet(1 .. n) /\ Cardinality(1 .. n) = n
      <4>1. n \in Int /\ 1 \in Int /\ (IF 1 > n THEN 0 ELSE n - 1 + 1) = n
        BY <1>1
      <4> HIDE DEF n
      <4>2. QED
        BY <4>1, FS_Interval
    <3>5. ToSet(pos) = 1 .. n
      <4> HIDE DEF n
      <4>1. QED
        BY <3>3, <3>4, <3>i, FS_Subset
    <3>6. QED
      BY <3>1, <3>5 DEF ToSet, pos
  <2> DEFINE seat == [p \in 1 .. n |-> <<"argument", CHOOSE i \in 1 .. n : ArgumentPort(k, i) = p>>]
  <2>6. ASSUME NEW p \in 1 .. n
        PROVE  \E i \in 1 .. n : ArgumentPort(k, i) = p /\ seat[p] = <<"argument", i>>
    BY <2>5
  <2>7. places = {<<"argument", i>> : i \in 1 .. n}
    BY <1>1, <1>4, <2>1
  <2> HIDE DEF seat, places, Stands
  <2>8. seat \in [1 .. n -> places]
    <3>1. \A p \in 1 .. n : seat[p] \in places
      BY <2>6, <2>7
    <3>2. seat = [p \in 1 .. n |-> seat[p]]
      BY DEF seat
    <3>3. QED
      BY <3>1, <3>2
  <2>9. \A p, q \in 1 .. n : seat[p] = seat[q] => p = q
    <3> SUFFICES ASSUME NEW p \in 1 .. n, NEW q \in 1 .. n, seat[p] = seat[q] PROVE p = q
      OBVIOUS
    <3>1. PICK i \in 1 .. n : ArgumentPort(k, i) = p /\ seat[p] = <<"argument", i>>
      BY <2>6
    <3>2. PICK j \in 1 .. n : ArgumentPort(k, j) = q /\ seat[q] = <<"argument", j>>
      BY <2>6
    <3>3. <<"argument", i>> = <<"argument", j>>
      BY <3>1, <3>2
    <3>4. i = j
      BY <3>3, SecondOfPair
    <3>5. QED
      BY <3>1, <3>2, <3>4
  <2>10. \A x \in places : \E p \in 1 .. n : seat[p] = x
    <3> SUFFICES ASSUME NEW i \in 1 .. n PROVE \E p \in 1 .. n : seat[p] = <<"argument", i>>
      BY <2>7
    <3>1. PICK j \in 1 .. n : ArgumentPort(k, j) = ArgumentPort(k, i) /\ seat[ArgumentPort(k, i)] = <<"argument", j>>
      BY <2>3, <2>6
    <3>2. QED
      BY <2>3, <2>4, <3>1
  <2>11. ASSUME NEW p \in 1 .. n PROVE Stands(p, seat[p])
    <3>1. PICK i \in 1 .. n : ArgumentPort(k, i) = p /\ seat[p] = <<"argument", i>>
      BY <2>6
    <3>2. i \in DOMAIN k.inputs
      BY <1>1, <2>1
    <3>3. QED
      BY <1>3, <3>1, <3>2
  <2>12. QED
    BY <2>8, <2>9, <2>10, <2>11
<1>5. CASE ~HasBindings(k)
  <2> DEFINE m == Len(k.inputs)
             l == Len(k.results)
             seat == [p \in 1 .. n |-> IF p <= m THEN <<"argument", p>> ELSE <<"result", p - m>>]
  <2>1. n = m + l /\ n \in Nat /\ m \in Nat /\ l \in Nat /\ DOMAIN k.inputs = 1 .. m /\ DOMAIN k.results = 1 .. l
    BY <1>1, <1>5 DEF VerifyConcreteContract
  <2>2. places = {<<"argument", i>> : i \in 1 .. m} \cup {<<"result", i>> : i \in 1 .. l}
    BY <1>1, <1>5
  <2>r. \A i : ResultPort(k, i) = m + i
    BY <1>5 DEF ResultPort
  <2> HIDE DEF places, Stands, m, l, n
  <2>3. seat \in [1 .. n -> places]
    <3>1. ASSUME NEW p \in 1 .. n PROVE seat[p] \in places
      <4>1. CASE p <= m
        BY <1>1, <2>2, <4>1
      <4>2. CASE ~(p <= m)
        <5>1. p - m \in 1 .. l
          BY <2>1, <4>2
        <5>2. QED
          BY <2>2, <4>2, <5>1
      <4>3. QED
        BY <4>1, <4>2
    <3>2. QED
      BY <3>1
  <2>4. \A p, q \in 1 .. n : seat[p] = seat[q] => p = q
    <3> SUFFICES ASSUME NEW p \in 1 .. n, NEW q \in 1 .. n, seat[p] = seat[q] PROVE p = q
      OBVIOUS
    <3>1. seat[p][1] = seat[q][1] /\ seat[p][2] = seat[q][2]
      OBVIOUS
    <3>2. p \in Int /\ q \in Int /\ m \in Int
      BY <2>1
    <3>3. QED
      BY <3>1, <3>2
  <2>5. \A x \in places : \E p \in 1 .. n : seat[p] = x
    <3>1. ASSUME NEW i \in 1 .. m PROVE i \in 1 .. n /\ seat[i] = <<"argument", i>>
      BY <2>1
    <3>2. ASSUME NEW i \in 1 .. l PROVE m + i \in 1 .. n /\ seat[m + i] = <<"result", i>>
      BY <2>1
    <3> HIDE DEF seat
    <3>3. QED
      BY <2>2, <3>1, <3>2
  <2>6. ASSUME NEW p \in 1 .. n PROVE Stands(p, seat[p])
    <3>1. CASE p <= m
      <4>1. p \in DOMAIN k.inputs /\ ArgumentPort(k, p) = p
        BY <1>5, <2>1, <3>1 DEF ArgumentPort
      <4>2. Stands(p, <<"argument", p>>)
        BY <1>3, <4>1
      <4>3. QED
        BY <3>1, <4>2
    <3>2. CASE ~(p <= m)
      <4> DEFINE i == p - m
      <4>1. i \in DOMAIN k.results /\ ResultPort(k, i) = p
        BY <2>1, <2>r, <3>2
      <4>2. PortFits(c.ports[p], TRUE, k.results[i])
        BY <4>1 DEF VerifyConcreteContract
      <4>3. TypeAt(k, <<"result", i>>) = k.results[i] /\ Destination(k, <<"result", i>>) = TRUE
        BY <1>5 DEF TypeAt, Destination
      <4>4. Stands(p, <<"result", i>>)
        <5>1. DecodesPort(c.ports[p])
          BY <1>2
        <5> HIDE DEF i
        <5>2. QED
          BY <4>2, <4>3, <5>1, FitsAsType DEF Stands
      <4>5. QED
        BY <3>2, <4>4
    <3>3. QED
      BY <3>1, <3>2
  <2>7. QED
    BY <2>3, <2>4, <2>5, <2>6
<1>6. QED
  BY <1>4, <1>5

\* An optional that holds a value is not Unset.
LEMMA HoldsIt ==
  ASSUME NEW x
  PROVE  <<x>> # Unset /\ <<x>>[1] = x
BY DEF Unset

\* Where the selected root stands: in the function the request names, or in the
\* only one, as the accepted root that many others precede.
RootStands(m, a, i, r) ==
  /\ i \in Named(m, "func", a.symbol) /\ i = Min(Named(m, "func", a.symbol))
  /\ a.symbol = "" => Named(m, "func", a.symbol) = {i}
  /\ r \in Counted(a.registry, m.items[i], a.key, a.ordinal)
  /\ r = Min(Counted(a.registry, m.items[i], a.key, a.ordinal))
  /\ i \in DOMAIN m.items /\ r \in DOMAIN m.items[i].roots /\ <<i, r>> \in Places(m)

SelectedAs(s, m, a, i, r) ==
  /\ RootStands(m, a, i, r)
  /\ s.root = RootAt(m, <<i, r>>) /\ s.symbol = m.items[i].symbol
  /\ s.adapter = ResolveAdapter(a.registry, s.root, a.key)[1] /\ s.adapter \in DOMAIN s.root.by

LEMMA SelectedStands ==
  ASSUME NEW m, NEW a, IsModule(m), SelectSourceRoot(m, a) # Unset
  PROVE  \E i, r : SelectedAs(SelectSourceRoot(m, a)[1], m, a, i, r)
<1> DEFINE named == Named(m, "func", a.symbol)
           i == Min(named)
           roots == Counted(a.registry, m.items[i], a.key, a.ordinal)
           r == Min(roots)
           root == m.items[i].roots[r]
           adapters == ResolveAdapter(a.registry, root, a.key)
<1>1. DOMAIN m.items = 1 .. Len(m.items) /\ Len(m.items) \in Nat
  BY LenProperties DEF IsModule, IsList
<1>2. named \subseteq DOMAIN m.items /\ IsFiniteSet(named) /\ named \subseteq Nat
  <2>1. IsFiniteSet(1 .. Len(m.items)) /\ 1 .. Len(m.items) \subseteq Nat
    BY <1>1, FS_Interval
  <2>2. named \subseteq DOMAIN m.items
    BY DEF Named
  <2> HIDE DEF named
  <2>3. QED
    BY <1>1, <2>1, <2>2, FS_Subset
<1>3. /\ named # {} /\ (a.symbol = "" => Cardinality(named) = 1)
      /\ ResolveFunction(m, a.symbol) = <<m.items[i]>>
  <2>1. ResolveFunction(m, a.symbol) # Unset
    BY DEF SelectSourceRoot
  <2>2. QED
    BY <2>1 DEF ResolveFunction, Unset
<1>4. i \in named
  <2> HIDE DEF named
  <2>1. QED
    BY <1>2, <1>3, MinMember
<1>5. a.symbol = "" => named = {i}
  <2> HIDE DEF named, i
  <2>1. ASSUME a.symbol = "" PROVE \E x : named = {x}
    BY <1>2, <1>3, <2>1, FS_Singleton
  <2>2. QED
    BY <1>4, <2>1
<1>6. roots # {} /\ SelectSourceRoot(m, a) =
        IF adapters = Unset THEN Unset
        ELSE <<[root |-> root, adapter |-> adapters[1], symbol |-> m.items[i].symbol]>>
  <2>1. ResolveFunction(m, a.symbol) # Unset /\ ResolveFunction(m, a.symbol)[1] = m.items[i]
    <3> DEFINE f == m.items[i]
    <3>1. ResolveFunction(m, a.symbol) = <<f>>
      BY <1>3
    <3> HIDE DEF f
    <3>2. QED
      BY <3>1, HoldsIt DEF f
  <2> HIDE DEF i
  <2>2. QED
    BY <2>1 DEF SelectSourceRoot
<1>7. i \in DOMAIN m.items
  BY <1>2, <1>4
<1>8. DOMAIN m.items[i].roots = 1 .. Len(m.items[i].roots) /\ Len(m.items[i].roots) \in Nat
  BY <1>7, LenProperties DEF IsModule, IsList
<1>9. roots \subseteq AcceptedRoots(a.registry, m.items[i], a.key)
  BY DEF Counted
<1>10. AcceptedRoots(a.registry, m.items[i], a.key) \subseteq DOMAIN m.items[i].roots
  BY DEF AcceptedRoots
<1>11. r \in roots
  <2>1. roots \subseteq Nat
    BY <1>8, <1>9, <1>10
  <2> HIDE DEF roots
  <2>2. QED
    BY <1>6, <2>1, MinMember
<1>12. r \in DOMAIN m.items[i].roots /\ ~root.terminator
  BY <1>9, <1>11 DEF AcceptedRoots
<1>13. <<i, r>> \in Places(m)
  BY <1>7, <1>12 DEF Places
<1>14. adapters # Unset
  BY <1>6
<1>15. adapters[1] \in DOMAIN root.by
  <2> HIDE DEF root
  <2>1. CASE a.key # ""
    BY <1>14, <2>1 DEF ResolveAdapter, Accepting, Unset
  <2>2. CASE a.key = ""
    <3>1. Cardinality(Accepting(a.registry, root)) = 1
      BY <1>14, <2>2 DEF ResolveAdapter
    <3>2. Accepting(a.registry, root) # {}
      BY <3>1, FS_EmptySet
    <3>3. (CHOOSE k \in Accepting(a.registry, root) : TRUE) \in Accepting(a.registry, root)
      BY <3>2
    <3>4. QED
      BY <2>2, <3>1, <3>3 DEF ResolveAdapter, Accepting
  <2>3. QED
    BY <2>1, <2>2
<1>16. SelectSourceRoot(m, a)[1] = [root |-> root, adapter |-> adapters[1], symbol |-> m.items[i].symbol]
  BY <1>6, <1>14
<1>17. RootStands(m, a, i, r)
  BY <1>4, <1>5, <1>7, <1>11, <1>12, <1>13 DEF RootStands
<1>18. root = RootAt(m, <<i, r>>)
  BY DEF RootAt
<1> HIDE DEF i, r, root, adapters
<1>19. /\ SelectSourceRoot(m, a)[1].root = root /\ SelectSourceRoot(m, a)[1].symbol = m.items[i].symbol
       /\ SelectSourceRoot(m, a)[1].adapter = adapters[1]
  BY <1>16
<1>20. QED
  BY <1>14, <1>15, <1>17, <1>18, <1>19 DEF adapters, SelectedAs

\* Where an instance comes from, and what names it.
Provenance(i) ==
  LET m == i.ask.module
      picked == SelectSourceRoot(m, i.ask) IN
  \/ /\ i.ask.mode = "concrete"
     /\ i.identity = <<"concrete-micro-v1", SourceText(m), CanonicalContract(i.ask.contract), i.root>>
  \/ /\ i.ask.mode = "semantic"
     /\ picked # Unset /\ i.root = picked[1].root.id
     /\ i.identity = <<"source-adapter-v1", SourceText(m), CanonicalContract(i.ask.contract),
                       picked[1].adapter, picked[1].symbol, i.ask.ordinal>>

\* Two sources of the same text have the same symbols.
LEMMA SameTextSameItems ==
  ASSUME NEW m, NEW n, IsModule(m), IsModule(n), SourceText(m) = SourceText(n)
  PROVE  m.items = n.items
<1>1. SourceText(m).items = m.items /\ SourceText(n).items = n.items
  BY DEF SourceText, IsModule
<1>2. QED
  BY <1>1

\* Requests that count roots alike share an identity exactly when they are
\* schedules of one root: the symbol and the ordinal of an identity find the
\* root again, and a root is found under one symbol and one ordinal only.
LEMMA IdentityNamesSource ==
  ASSUME NEW a, NEW b, IsAsk(a.ask), IsAsk(b.ask), Provenance(a), Provenance(b),
         a.contract = <<a.ask.contract>>, b.contract = <<b.ask.contract>>, CountedAlike(a, b)
  PROVE  a.identity = b.identity <=> SameSource(a, b)
<1> DEFINE m == a.ask.module
           n == b.ask.module
           s == SelectSourceRoot(m, a.ask)
           t == SelectSourceRoot(n, b.ask)
           texts == SourceText(m) = SourceText(n)
           canons == CanonicalContract(a.ask.contract) = CanonicalContract(b.ask.contract)
<1>1. IsModule(m) /\ IsModule(n)
  BY DEF IsAsk
<1>2. SameSource(a, b) <=> a.ask.mode = b.ask.mode /\ a.root = b.root /\ texts /\ canons
  <2>1. a.contract # Unset /\ a.contract[1] = a.ask.contract
    BY HoldsIt
  <2>2. b.contract # Unset /\ b.contract[1] = b.ask.contract
    BY HoldsIt
  <2>3. QED
    BY <2>1, <2>2 DEF SameSource
<1>3. CASE a.ask.mode = "concrete" /\ b.ask.mode = "concrete"
  <2>1. /\ a.identity = <<"concrete-micro-v1", SourceText(m), CanonicalContract(a.ask.contract), a.root>>
        /\ b.identity = <<"concrete-micro-v1", SourceText(n), CanonicalContract(b.ask.contract), b.root>>
    BY <1>3 DEF Provenance
  <2>2. a.identity = b.identity <=> texts /\ canons /\ a.root = b.root
    BY <2>1
  <2>3. QED
    BY <1>2, <1>3, <2>2
<1>4. CASE a.ask.mode # b.ask.mode
  <2>1. a.identity[1] # b.identity[1]
    BY <1>4 DEF Provenance
  <2>2. QED
    BY <1>2, <1>4, <2>1
<1>5. CASE a.ask.mode = "semantic" /\ b.ask.mode = "semantic"
  <2>1. /\ s # Unset /\ a.root = s[1].root.id
        /\ a.identity = <<"source-adapter-v1", SourceText(m), CanonicalContract(a.ask.contract),
                          s[1].adapter, s[1].symbol, a.ask.ordinal>>
        /\ t # Unset /\ b.root = t[1].root.id
        /\ b.identity = <<"source-adapter-v1", SourceText(n), CanonicalContract(b.ask.contract),
                          t[1].adapter, t[1].symbol, b.ask.ordinal>>
    BY <1>5 DEF Provenance
  <2>2. a.identity = b.identity <=> /\ texts /\ canons /\ s[1].adapter = t[1].adapter
                                    /\ s[1].symbol = t[1].symbol /\ a.ask.ordinal = b.ask.ordinal
    BY <2>1
  <2>3. PICK i, r : SelectedAs(s[1], m, a.ask, i, r)
    <3> HIDE DEF m, n
    <3>1. QED
      BY <1>1, <2>1, SelectedStands
  <2>4. PICK j, q : SelectedAs(t[1], n, b.ask, j, q)
    <3> HIDE DEF m, n
    <3>1. QED
      BY <1>1, <2>1, SelectedStands
  <2>5. a.ask.key = b.ask.key /\ a.ask.registry = b.ask.registry
    BY DEF CountedAlike
  <2> HIDE DEF m, n, s, t
  <2>6. ASSUME m.items = n.items
        PROVE  /\ \A p : RootAt(m, p) = RootAt(n, p)
               /\ Places(m) = Places(n)
               /\ \A x : Named(m, "func", x) = Named(n, "func", x)
    BY <2>6 DEF RootAt, Places, Named
  <2>7. ASSUME texts, s[1].symbol = t[1].symbol, a.ask.ordinal = b.ask.ordinal
        PROVE  a.root = b.root
    <3>1. m.items = n.items
      BY <1>1, <2>7, SameTextSameItems
    <3>2. i = j
      <4>1. CASE a.ask.symbol = b.ask.symbol
        BY <2>3, <2>4, <2>6, <3>1, <4>1 DEF SelectedAs, RootStands
      <4>2. CASE a.ask.symbol = "" /\ b.ask.symbol # ""
        <5>1. Named(m, "func", "") = {i} /\ j \in Named(n, "func", b.ask.symbol)
          BY <2>3, <2>4, <4>2 DEF SelectedAs, RootStands
        <5>2. j \in Named(n, "func", "")
          BY <5>1 DEF Named
        <5>3. QED
          BY <2>6, <3>1, <5>1, <5>2
      <4>3. CASE a.ask.symbol # "" /\ b.ask.symbol = ""
        <5>1. Named(n, "func", "") = {j} /\ i \in Named(m, "func", a.ask.symbol)
          BY <2>3, <2>4, <4>3 DEF SelectedAs, RootStands
        <5>2. i \in Named(m, "func", "")
          BY <5>1 DEF Named
        <5>3. QED
          BY <2>6, <3>1, <5>1, <5>2
      <4>4. CASE a.ask.symbol # "" /\ b.ask.symbol # ""
        <5>1. m.items[i].symbol = a.ask.symbol /\ n.items[j].symbol = b.ask.symbol
          BY <2>3, <2>4, <4>4 DEF SelectedAs, RootStands, Named
        <5>2. a.ask.symbol = b.ask.symbol
          BY <2>3, <2>4, <2>7, <5>1 DEF SelectedAs
        <5>3. QED
          BY <4>1, <5>2
      <4>5. QED
        BY <4>1, <4>2, <4>3, <4>4
    <3>3. r = q
      BY <2>3, <2>4, <2>5, <2>7, <3>1, <3>2 DEF SelectedAs, RootStands
    <3>4. QED
      BY <2>1, <2>3, <2>4, <2>6, <3>1, <3>2, <3>3 DEF SelectedAs
  <2>8. ASSUME texts, a.root = b.root
        PROVE  /\ s[1].adapter = t[1].adapter /\ s[1].symbol = t[1].symbol /\ a.ask.ordinal = b.ask.ordinal
    <3>1. m.items = n.items
      BY <1>1, <2>8, SameTextSameItems
    <3>2. <<i, r>> = <<j, q>>
      <4>1. <<i, r>> \in Places(m) /\ <<j, q>> \in Places(m)
        BY <2>3, <2>4, <2>6, <3>1 DEF SelectedAs, RootStands
      <4>2. RootAt(m, <<i, r>>).id = RootAt(m, <<j, q>>).id
        BY <2>1, <2>3, <2>4, <2>6, <2>8, <3>1 DEF SelectedAs
      <4>3. QED
        BY <1>1, <4>1, <4>2 DEF IsModule
    <3>3. i = j /\ r = q
      BY <3>2
    <3>4. s[1].root = t[1].root
      BY <2>3, <2>4, <2>6, <3>1, <3>3 DEF SelectedAs
    <3>5. a.ask.ordinal = b.ask.ordinal
      BY <2>3, <2>4, <2>5, <3>1, <3>3 DEF SelectedAs, RootStands, Counted
    <3>6. QED
      BY <2>3, <2>4, <2>5, <3>1, <3>3, <3>4, <3>5 DEF SelectedAs
  <2>9. QED
    BY <1>2, <1>5, <2>2, <2>7, <2>8
<1>6. QED
  BY <1>3, <1>4, <1>5 DEF Provenance

\* Who realized the parameters of an instance.
OwnersNamed(i) == \A j \in DOMAIN i.schema : i.schema[j].owner \in {"source", "mapping"}
Realized(i) ==
  /\ Range(i.receipt.source) \cap Range(i.receipt.mapping) = {}
  /\ \A p \in Range(i.receipt.source) : ParamOf(i.ask.space, p).kind \notin MappingKinds
  /\ i.complete => Range(i.receipt.source) \cup Range(i.receipt.mapping) = ParamNames(i.ask.space)

\* A receipt that is valid for a schema realizes every parameter once, by the
\* owner it has there.
LEMMA ValidReceiptRealizes ==
  ASSUME NEW space, NEW candidate, NEW schema, NEW receipt, NEW stage,
         ReceiptValid(space, candidate, schema, receipt, stage),
         \A j \in DOMAIN schema : schema[j].owner \in {"source", "mapping"}
  PROVE  /\ Range(receipt.source) \cap Range(receipt.mapping) = {}
         /\ \A p \in Range(receipt.source) : ParamOf(space, p).kind \notin MappingKinds
         /\ stage = "complete" => Range(receipt.source) \cup Range(receipt.mapping) = ParamNames(space)
<1>1. /\ Range(receipt.source) = OwnedBy(schema, "source")
      /\ Range(receipt.mapping) = IF stage = "complete" THEN OwnedBy(schema, "mapping") ELSE {}
      /\ SchemaValid(space, schema)
  BY DEF ReceiptValid
<1>2. OwnedBy(schema, "source") \cap OwnedBy(schema, "mapping") = {}
  BY ZenonT(30), <1>1 DEF OwnedBy, SchemaValid
<1>3. OwnedBy(schema, "source") \cup OwnedBy(schema, "mapping") = ParamNames(space)
  BY <1>1 DEF OwnedBy, SchemaValid
<1>4. ASSUME NEW p \in OwnedBy(schema, "source") PROVE ParamOf(space, p).kind \notin MappingKinds
  <2>1. PICK j \in DOMAIN schema : schema[j].owner = "source" /\ schema[j].parameter = p
    BY DEF OwnedBy
  <2>2. OwnerAgrees(ParamOf(space, p), schema[j])
    BY <1>1, <2>1 DEF SchemaValid
  <2>3. QED
    BY <2>1, <2>2 DEF OwnerAgrees
<1>5. QED
  BY <1>1, <1>2, <1>3, <1>4

\* What holds of an instance that was handed out.
InstanceFields == {"ask", "root", "contract", "kernel", "schema", "receipt", "complete", "identity"}
Handed(i) ==
  /\ InstanceFields \subseteq DOMAIN i
  /\ IsAsk(i.ask) /\ OwnersNamed(i) /\ Realized(i)
  /\ i.contract # Unset =>
       /\ i.contract = <<i.ask.contract>> /\ Provenance(i)
       /\ Implements(i.kernel, i.contract[1]) /\ Replayable(i)
  /\ i.ask.by = "shape" /\ i.ask.mode # "synthetic" =>
       (i.contract = Unset => i.kernel.original = <<i.ask.shape>>)

\* A kernel that passed the check, with the contract retained, keeps it.
LEMMA CheckedIsHanded ==
  ASSUME NEW i, NEW k, IsAsk(i.ask), IsKernel(k), ValidContract(i.ask.contract),
         VerifyConcreteContract(k, i.ask.contract), i.contract = <<i.ask.contract>>,
         i.kernel = [k EXCEPT !.retained = EncodeContract(i.ask.contract)]
  PROVE  i.contract # Unset /\ Implements(i.kernel, i.contract[1]) /\ Replayable(i)
<1> DEFINE c == i.ask.contract
           e == i.kernel
<1>1. IsContract(c)
  BY DEF IsAsk
<1>2. VerifyConcreteContract(e, c) /\ e.retained = EncodeContract(c) /\ IsKernel(e)
  <2>1. e = [k EXCEPT !.retained = EncodeContract(c)]
    OBVIOUS
  <2> HIDE DEF c, e
  <2>2. QED
    BY <1>1, <2>1, RetainingKeeps DEF c
<1>3. Implements(e, c)
  <2> HIDE DEF c, e
  <2>1. QED
    BY <1>1, <1>2, CheckedImplements
<1>4. DecodeContract(e.retained[1]) = <<c>>
  BY <1>1, <1>2, RetainedDecodes
<1>5. i.contract # Unset /\ i.contract[1] = c
  BY HoldsIt
<1>6. DecodeContract(e.retained[1]) # Unset /\ DecodeContract(e.retained[1])[1] = c
  <2> HIDE DEF c, e
  <2>1. QED
    BY <1>4, HoldsIt
<1>7. Replayable(i)
  BY <1>2, <1>5, <1>6 DEF Replayable
<1>8. QED
  BY <1>3, <1>5, <1>7

SourceInv ==
  /\ IsAsk(ask)
  /\ sstep \in {"concrete", "root", "realize"} => ValidContract(ask.contract)
  /\ sstep = "concrete" => ask.mode = "concrete"
  /\ sstep \in {"translate", "root", "realize"} => ask.mode = "semantic"
  /\ sstep = "realize" =>
       /\ chosen = SelectSourceRoot(Module, ask) /\ chosen # Unset
       /\ chosen[1].root.by[chosen[1].adapter].schema # Unset
  /\ made \in Seq(Range(made)) /\ \A n \in DOMAIN made : Handed(made[n])
  /\ sstep = "made" => made # <<>> /\ Last(made).ask = ask

\* Nothing was handed out when the first request comes.
LEMMA SourceInitInv == SourceInit => SourceInv
BY AsksAssumption DEF SourceInit, SourceInv

\* Handing out an instance.
LEMMA GiveKeeps ==
  ASSUME SourceInv, NEW i, Handed(i), i.ask = ask, Give(i)
  PROVE  SourceInv'
<1>1. made \in Seq(Range(made)) /\ made' = Append(made, i) /\ ask' = ask /\ sstep' = "made"
  BY DEF SourceInv, Give
<1>2. made \in Seq(Range(made) \cup {i})
  BY <1>1
<1>3. /\ made' \in Seq(Range(made) \cup {i}) /\ Len(made') = Len(made) + 1 /\ Len(made) \in Nat
      /\ made'[Len(made) + 1] = i /\ \A n \in 1 .. Len(made) : made'[n] = made[n]
      /\ DOMAIN made' = 1 .. Len(made) + 1 /\ DOMAIN made = 1 .. Len(made)
  BY <1>1, <1>2, AppendProperties, LenProperties
<1>4. \A n \in DOMAIN made' : Handed(made'[n])
  <2> SUFFICES ASSUME NEW n \in 1 .. Len(made) + 1 PROVE Handed(made'[n])
    BY <1>3
  <2>1. CASE n = Len(made) + 1
    BY <1>3, <2>1
  <2>2. CASE n # Len(made) + 1
    <3>1. n \in 1 .. Len(made)
      BY <1>3, <2>2
    <3>2. QED
      BY <1>3, <3>1 DEF SourceInv
  <2>3. QED
    BY <2>1, <2>2
<1>5. made' \in Seq(Range(made'))
  BY <1>3 DEF Range
<1>6. made' # <<>> /\ Last(made') = i
  BY <1>3 DEF Last
<1>7. QED
  BY <1>1, <1>4, <1>5, <1>6 DEF SourceInv

\* What an adapter answered of the selected root.
LEMMA SelectedAnswers ==
  ASSUME NEW a, IsAsk(a), SelectSourceRoot(a.module, a) # Unset
  PROVE  LET s == SelectSourceRoot(a.module, a)[1] IN IsAnswer(s.root.by[s.adapter])
<1> DEFINE m == a.module
           s == SelectSourceRoot(m, a)[1]
<1>1. IsModule(m)
  BY DEF IsAsk
<1>2. PICK i, r : SelectedAs(s, m, a, i, r)
  <2> HIDE DEF m
  <2>1. QED
    BY <1>1, SelectedStands DEF m
<1>3. <<i, r>> \in Places(m) /\ s.root = RootAt(m, <<i, r>>) /\ s.adapter \in DOMAIN s.root.by
  BY <1>2 DEF SelectedAs, RootStands
<1> HIDE DEF m, s
<1>4. IsAnswer(s.root.by[s.adapter])
  BY <1>1, <1>3 DEF IsModule
<1>5. QED
  BY <1>4 DEF m, s

\* Nothing is handed out: the request may have changed its contract.
LEMMA NothingGiven ==
  ASSUME SourceInv, made' = made, IsAsk(ask)', sstep' \notin {"concrete", "root", "realize", "translate", "made"}
  PROVE  SourceInv'
BY DEF SourceInv

LEMMA BeginAskKeeps ==
  ASSUME SourceInv, BeginAsk
  PROVE  SourceInv'
<1>1. made' = made /\ ask' = ask
  BY DEF BeginAsk, RefuseAsk
<1>2. CASE sstep' = "refused"
  BY <1>1, <1>2, NothingGiven DEF SourceInv
<1>3. CASE sstep' # "refused"
  <2>1. /\ ask.by = "contract" => ask.mode # "synthetic" /\ ValidContract(ask.contract)
        /\ sstep' = CASE ask.by = "contract" -> IF ask.mode = "concrete" THEN "concrete" ELSE "root"
                      [] ask.by = "shape" /\ ask.mode = "semantic" -> "translate"
                      [] OTHER -> "direct"
    BY <1>3 DEF BeginAsk, RefuseAsk
  <2>2. ask.mode \in {"concrete", "semantic", "synthetic"}
    BY DEF SourceInv, IsAsk
  <2>3. CASE ask.by = "contract"
    <3>1. sstep' = IF ask.mode = "concrete" THEN "concrete" ELSE "root"
      BY <2>1, <2>3
    <3>2. QED
      BY <1>1, <2>1, <2>2, <2>3, <3>1 DEF SourceInv
  <2>4. CASE ask.by = "shape" /\ ask.mode = "semantic"
    <3>1. sstep' = "translate"
      BY <2>1, <2>4
    <3>2. QED
      BY <1>1, <2>4, <3>1 DEF SourceInv
  <2>5. CASE ask.by # "contract" /\ ~(ask.by = "shape" /\ ask.mode = "semantic")
    <3>1. sstep' = "direct"
      BY <2>1, <2>5
    <3>2. QED
      BY <1>1, <3>1 DEF SourceInv
  <2>6. QED
    BY <2>3, <2>4, <2>5
<1>4. QED
  BY <1>2, <1>3

LEMMA RefuseKeeps ==
  ASSUME SourceInv, RefuseAsk
  PROVE  SourceInv'
BY NothingGiven DEF RefuseAsk, SourceInv

LEMMA TakeConcreteKeeps ==
  ASSUME SourceInv, TakeConcrete
  PROVE  SourceInv'
<1> DEFINE kernels == SelectConcreteKernel(Module, ask)
           i == [ask |-> ask, root |-> kernels[1].symbol, contract |-> <<ask.contract>>,
                 kernel |-> [kernels[1].kernel EXCEPT !.retained = EncodeContract(ask.contract)],
                 schema |-> <<>>, receipt |-> [source |-> <<>>, mapping |-> <<>>],
                 binding |-> <<ask.candidate.id, <<>>, <<>>>>, complete |-> FALSE,
                 identity |-> <<"concrete-micro-v1", SourceText(Module),
                                CanonicalContract(ask.contract), kernels[1].symbol>>]
<1>1. CASE RefuseAsk
  BY <1>1, RefuseKeeps
<1>2. CASE ~RefuseAsk
  <2>1. /\ kernels # Unset /\ VerifyConcreteContract(kernels[1].kernel, ask.contract) /\ Give(i)
        /\ sstep = "concrete"
    BY <1>2 DEF TakeConcrete
  <2>2. IsKernel(kernels[1].kernel)
    <3> DEFINE named == Named(Module, "kernel", ask.symbol)
    <3>1. kernels = <<Module.items[Min(named)]>> /\ Cardinality(named) = 1
      BY <2>1 DEF SelectConcreteKernel
    <3>2. IsModule(Module)
      BY DEF SourceInv, IsAsk, Module
    <3>3. DOMAIN Module.items \subseteq Nat
      BY <3>2, LenProperties DEF IsModule, IsList
    <3>4. named \subseteq DOMAIN Module.items
      BY DEF Named
    <3> HIDE DEF named
    <3>5. named # {}
      BY <3>1, FS_EmptySet
    <3>6. Min(named) \in DOMAIN Module.items
      BY <3>3, <3>4, <3>5, MinMember
    <3>7. kernels[1] = Module.items[Min(named)]
      BY <3>1
    <3> HIDE DEF kernels
    <3>8. QED
      BY <3>2, <3>6, <3>7 DEF IsModule
  <2>3. /\ InstanceFields \subseteq DOMAIN i /\ i.ask = ask /\ i.contract = <<ask.contract>>
        /\ i.schema = <<>> /\ i.receipt.source = <<>> /\ i.receipt.mapping = <<>> /\ i.complete = FALSE
        /\ i.kernel = [kernels[1].kernel EXCEPT !.retained = EncodeContract(ask.contract)]
        /\ i.root = kernels[1].symbol
        /\ i.identity = <<"concrete-micro-v1", SourceText(Module),
                                CanonicalContract(ask.contract), kernels[1].symbol>>
    BY DEF InstanceFields
  <2> HIDE DEF i, kernels
  <2>4. i.contract # Unset /\ Implements(i.kernel, i.contract[1]) /\ Replayable(i)
    BY <2>1, <2>2, <2>3, CheckedIsHanded DEF SourceInv
  <2>5. Provenance(i)
    BY <2>1, <2>3 DEF Provenance, SourceInv, Module
  <2>6. OwnersNamed(i) /\ Realized(i)
    BY <2>3 DEF OwnersNamed, Realized, Range
  <2>7. Handed(i)
    BY <2>3, <2>4, <2>5, <2>6 DEF Handed, SourceInv
  <2>8. QED
    BY <2>1, <2>3, <2>7, GiveKeeps
<1>3. QED
  BY <1>1, <1>2

LEMMA TranslateKeeps ==
  ASSUME SourceInv, TranslateShape
  PROVE  SourceInv'
<1> DEFINE roots == SelectSourceRoot(Module, ask)
           answers == roots[1].root.by[roots[1].adapter]
<1>1. CASE RefuseAsk
  BY <1>1, RefuseKeeps
<1>2. CASE ~RefuseAsk
  <2>1. /\ sstep = "translate" /\ roots # Unset /\ answers.contract # Unset /\ ValidContract(answers.contract[1])
        /\ ask' = [ask EXCEPT !.contract = answers.contract[1]] /\ sstep' = "root" /\ made' = made
    BY <1>2 DEF TranslateShape
  <2>2. IsAnswer(answers)
    BY <2>1, SelectedAnswers DEF SourceInv, Module
  <2>3. IsContract(answers.contract[1])
    BY <2>1, <2>2 DEF IsAnswer
  <2> HIDE DEF answers
  <2>4. /\ ask'.contract = answers.contract[1] /\ DOMAIN ask' = DOMAIN ask
        /\ ask'.mode = ask.mode /\ ask'.module = ask.module
    BY <2>1 DEF SourceInv, IsAsk
  <2>5. IsAsk(ask)'
    BY <2>3, <2>4 DEF SourceInv, IsAsk
  <2>6. QED
    BY <2>1, <2>4, <2>5 DEF SourceInv
<1>3. QED
  BY <1>1, <1>2

LEMMA SelectRootKeeps ==
  ASSUME SourceInv, SelectRoot
  PROVE  SourceInv'
<1> DEFINE roots == SelectSourceRoot(Module, ask)
<1>1. CASE RefuseAsk
  BY <1>1, RefuseKeeps
<1>2. CASE ~RefuseAsk
  <2>1. /\ sstep = "root" /\ roots # Unset /\ roots[1].root.by[roots[1].adapter].schema # Unset
        /\ sstep' = "realize" /\ chosen' = roots /\ ask' = ask /\ made' = made
    BY <1>2 DEF SelectRoot
  <2>2. chosen' = SelectSourceRoot(Module, ask)'
    BY <2>1 DEF Module
  <2> HIDE DEF roots
  <2>3. QED
    BY <2>1, <2>2 DEF SourceInv
<1>3. QED
  BY <1>1, <1>2

LEMMA RealizeKeeps ==
  ASSUME SourceInv, Realize
  PROVE  SourceInv'
<1> DEFINE answers == chosen[1].root.by[chosen[1].adapter]
           i == [ask |-> ask, root |-> chosen[1].root.id, contract |-> <<ask.contract>>,
                 kernel |-> [answers.kernel[1] EXCEPT !.retained = EncodeContract(ask.contract)],
                 schema |-> answers.schema[1], receipt |-> answers.receipt,
                 binding |-> BindingHash(ask.candidate), complete |-> FALSE,
                 identity |-> <<"source-adapter-v1", SourceText(Module),
                                CanonicalContract(ask.contract), chosen[1].adapter,
                                chosen[1].symbol, ask.ordinal>>]
<1>1. CASE RefuseAsk
  BY <1>1, RefuseKeeps
<1>2. CASE ~RefuseAsk
  <2>1. /\ answers.kernel # Unset /\ VerifyConcreteContract(answers.kernel[1], ask.contract) /\ Give(i)
        /\ ReceiptValid(ask.space, ask.candidate, answers.schema[1], answers.receipt, "source")
        /\ sstep = "realize"
    BY <1>2 DEF Realize
  <2>2. chosen = SelectSourceRoot(Module, ask) /\ chosen # Unset /\ answers.schema # Unset
    BY <2>1 DEF SourceInv
  <2>3. IsAnswer(answers)
    BY <2>2, SelectedAnswers DEF SourceInv, Module
  <2>4. IsKernel(answers.kernel[1]) /\ \A j \in DOMAIN answers.schema[1] : answers.schema[1][j].owner \in {"source", "mapping"}
    BY <2>1, <2>2, <2>3 DEF IsAnswer
  <2> HIDE DEF answers
  <2>5. /\ InstanceFields \subseteq DOMAIN i /\ i.ask = ask /\ i.contract = <<ask.contract>>
        /\ i.schema = answers.schema[1] /\ i.receipt = answers.receipt /\ i.complete = FALSE
        /\ i.kernel = [answers.kernel[1] EXCEPT !.retained = EncodeContract(ask.contract)]
        /\ i.root = chosen[1].root.id
        /\ i.identity = <<"source-adapter-v1", SourceText(Module),
                                CanonicalContract(ask.contract), chosen[1].adapter,
                                chosen[1].symbol, ask.ordinal>>
    BY DEF InstanceFields
  <2> HIDE DEF i
  <2>6. i.contract # Unset /\ Implements(i.kernel, i.contract[1]) /\ Replayable(i)
    BY <2>1, <2>4, <2>5, CheckedIsHanded DEF SourceInv
  <2>7. Provenance(i)
    BY <2>1, <2>2, <2>5 DEF Provenance, SourceInv, Module
  <2>8. OwnersNamed(i) /\ Realized(i)
    BY <2>1, <2>4, <2>5, ValidReceiptRealizes DEF OwnersNamed, Realized
  <2>9. Handed(i)
    BY <2>5, <2>6, <2>7, <2>8 DEF Handed, SourceInv
  <2>10. QED
    BY <2>1, <2>5, <2>9, GiveKeeps
<1>3. QED
  BY <1>1, <1>2

LEMMA TakeDirectKeeps ==
  ASSUME SourceInv, TakeDirect
  PROVE  SourceInv'
<1> DEFINE kernels == DirectKernels
           i == [ask |-> ask, root |-> "", contract |-> Unset, kernel |-> kernels[1],
                 schema |-> <<>>, receipt |-> [source |-> <<>>, mapping |-> <<>>],
                 binding |-> BindingHash(ask.candidate), complete |-> FALSE,
                 identity |-> <<"graph", kernels[1].nodes>>]
<1>1. CASE kernels = Unset
  BY <1>1, RefuseKeeps DEF TakeDirect
<1>2. CASE kernels # Unset
  <2>1. Give(i)
    BY <1>2 DEF TakeDirect
  <2>2. ask.mode # "synthetic" => kernels[1].original = <<ask.shape>>
    BY <1>2 DEF DirectKernels
  <2> HIDE DEF kernels
  <2>3. /\ InstanceFields \subseteq DOMAIN i /\ i.ask = ask /\ i.contract = Unset /\ i.kernel = kernels[1]
        /\ i.schema = <<>> /\ i.receipt.source = <<>> /\ i.receipt.mapping = <<>> /\ i.complete = FALSE
    BY DEF InstanceFields
  <2> HIDE DEF i
  <2>4. OwnersNamed(i) /\ Realized(i)
    BY <2>3 DEF OwnersNamed, Realized, Range
  <2>5. Handed(i)
    BY <2>2, <2>3, <2>4 DEF Handed, SourceInv
  <2>6. QED
    BY <2>1, <2>3, <2>5, GiveKeeps
<1>3. QED
  BY <1>1, <1>2

LEMMA CompleteKeeps ==
  ASSUME SourceInv, CompleteReceipt
  PROVE  SourceInv'
<1> DEFINE n == Len(made)
           i == made[n]
<1>1. PICK receipt : /\ ReceiptValid(ask.space, ask.candidate, Last(made).schema, receipt, "complete")
                     /\ made' = [made EXCEPT ![n] = [made[n] EXCEPT !.receipt = receipt, !.complete = TRUE]]
  BY DEF CompleteReceipt
<1>2. sstep = "made" /\ ask' = ask /\ sstep' = sstep /\ chosen' = chosen
  BY DEF CompleteReceipt
<1>3. /\ DOMAIN made = 1 .. n /\ n \in Nat /\ made # <<>> /\ Last(made) = i /\ i.ask = ask
      /\ \A k \in 1 .. n : Handed(made[k])
  BY <1>2, LenProperties DEF SourceInv, Last
<1>4. n >= 1
  BY <1>3, EmptySeq DEF SourceInv
<1> HIDE DEF n, i
<1> DEFINE j == [i EXCEPT !.receipt = receipt, !.complete = TRUE]
<1>5. Handed(i)
  BY <1>3, <1>4 DEF i
<1>6. /\ DOMAIN j = DOMAIN i /\ j.receipt = receipt /\ j.complete = TRUE /\ j.ask = i.ask /\ j.root = i.root
      /\ j.contract = i.contract /\ j.kernel = i.kernel /\ j.schema = i.schema /\ j.identity = i.identity
  BY <1>5 DEF Handed, InstanceFields
<1> HIDE DEF j
<1>7. OwnersNamed(j)
  BY <1>5, <1>6 DEF Handed, OwnersNamed
<1>8. Realized(j)
  BY <1>1, <1>3, <1>6, <1>7, ValidReceiptRealizes DEF Realized, OwnersNamed
<1>9. Provenance(j) <=> Provenance(i)
  BY <1>6 DEF Provenance
<1>10. Handed(j)
  BY <1>5, <1>6, <1>7, <1>8, <1>9 DEF Handed, Replayable
<1>11. made' = [made EXCEPT ![n] = j]
  BY <1>1 DEF j, i
<1>12. DOMAIN made' = 1 .. n /\ made'[n] = j /\ \A k \in 1 .. n : k # n => made'[k] = made[k]
  BY <1>3, <1>4, <1>11
<1>13. \A k \in DOMAIN made' : Handed(made'[k])
  BY <1>3, <1>10, <1>12
<1>14. made' \in Seq(Range(made')) /\ Len(made') = n
  <2>1. made' \in [1 .. n -> Range(made')]
    <3>1. made' = [k \in 1 .. n |-> made'[k]]
      BY <1>3, <1>11
    <3>2. QED
      BY <1>12, <3>1 DEF Range
  <2>2. QED
    BY <1>3, <2>1
<1>15. made' # <<>> /\ Last(made') = j
  BY <1>4, <1>12, <1>14 DEF Last
<1>16. QED
  BY <1>2, <1>3, <1>6, <1>13, <1>14, <1>15 DEF SourceInv

LEMMA AskAgainKeeps ==
  ASSUME SourceInv, AskAgain
  PROVE  SourceInv'
<1>1. IsAsk(ask)' /\ made' = made /\ sstep' = "begin"
  BY AsksAssumption DEF AskAgain
<1>2. QED
  BY <1>1 DEF SourceInv

LEMMA SourceNextInv ==
  ASSUME SourceInv, [SourceNext]_sourceVars
  PROVE  SourceInv'
<1>1. CASE UNCHANGED sourceVars
  BY <1>1 DEF SourceInv, sourceVars, Module
<1>2. CASE SourceDone
  BY <1>2 DEF SourceInv, SourceDone, sourceVars, Module
<1>3. QED
  BY <1>1, <1>2, BeginAskKeeps, TakeConcreteKeeps, TranslateKeeps, SelectRootKeeps, RealizeKeeps,
     TakeDirectKeeps, CompleteKeeps, AskAgainKeeps DEF SourceNext

\* Instances handed out are sound: a kernel made for a contract implements it
\* and can be handed back as a source, every parameter is realized once, by its
\* owner, and an identity is that of one root of one source.
LEMMA HandedAreSound == SourceInv => InstantiateSound
<1> SUFFICES ASSUME SourceInv PROVE InstantiateSound
  OBVIOUS
<1>1. ASSUME NEW n \in DOMAIN made
      PROVE  LET i == made[n] IN
          /\ i.contract # Unset => Implements(i.kernel, i.contract[1]) /\ Replayable(i)
          /\ Range(i.receipt.source) \cap Range(i.receipt.mapping) = {}
          /\ \A p \in Range(i.receipt.source) : ParamOf(i.ask.space, p).kind \notin MappingKinds
          /\ i.complete => Range(i.receipt.source) \cup Range(i.receipt.mapping) = ParamNames(i.ask.space)
          /\ i.ask.by = "shape" /\ i.ask.mode # "synthetic" =>
                (i.contract = Unset => i.kernel.original = <<i.ask.shape>>)
  <2> DEFINE i == made[n]
  <2>1. Handed(i)
    BY DEF SourceInv
  <2> HIDE DEF i
  <2>2. QED
    BY <2>1 DEF Handed, Realized, i
<1>2. ASSUME NEW n \in DOMAIN made, NEW m \in DOMAIN made,
             made[n].contract # Unset, made[m].contract # Unset, CountedAlike(made[n], made[m])
      PROVE  made[n].identity = made[m].identity <=> SameSource(made[n], made[m])
  <2> DEFINE a == made[n]
             b == made[m]
  <2>1. Handed(a) /\ Handed(b)
    BY DEF SourceInv
  <2> HIDE DEF a, b
  <2>2. /\ IsAsk(a.ask) /\ IsAsk(b.ask) /\ Provenance(a) /\ Provenance(b)
        /\ a.contract = <<a.ask.contract>> /\ b.contract = <<b.ask.contract>>
    BY <1>2, <2>1 DEF Handed, a, b
  <2>3. CountedAlike(a, b)
    BY <1>2 DEF a, b
  <2>4. a.identity = b.identity <=> SameSource(a, b)
    BY <2>2, <2>3, IdentityNamesSource
  <2>5. QED
    BY <2>4 DEF a, b
<1>3. QED
  BY <1>1, <1>2 DEF InstantiateSound

\* Whatever modules, adapters and requests there are, an instance
\* CandidateInstantiation.cpp hands out implements its contract and can be
\* replayed, its receipt realizes every parameter once and by the owner
\* BindingSchema.cpp gives it, and no other instance whose ordinal was counted
\* alike (CandidateInstantiation.cpp:454) has its identity unless it is of the
\* same root of the same source.
THEOREM InstantiationIsSound == SourceSpec => []InstantiateSound
BY SourceInitInv, SourceNextInv, HandedAreSound, PTL DEF SourceSpec

-----------------------------------------------------------------------------
(* Regrouping                                                              *)

\* The members of a set of numbers in order, each once.
Ascends(s, K) ==
  /\ s \in Seq(K) /\ Len(s) = Cardinality(K) /\ Range(s) = K
  /\ \A m, n \in DOMAIN s : m < n => s[m] < s[n]

LEMMA SmallestFirstAscends ==
  ASSUME NEW K, K \subseteq Nat, IsFiniteSet(K)
  PROVE  Ascends(SmallestFirst(K), K)
<1> DEFINE before == [i \in K |-> {j \in K : j < i}]
           order == SmallestFirst(K)
           member(n) == CHOOSE i \in K : Cardinality({j \in K : j < i}) = n - 1
           place(n) == CHOOSE i \in DOMAIN before : Cardinality(before[i]) = n - 1
<1>0. DOMAIN before = K /\ \A i \in K : before[i] = {j \in K : j < i} /\ i \in Nat
  OBVIOUS
<1>1. order = [n \in 1 .. Cardinality(K) |-> member(n)] /\ order = Arranged(before)
  <2>1. order = [n \in 1 .. Cardinality(K) |-> member(n)]
    BY DEF SmallestFirst
  <2>2. Arranged(before) = [n \in 1 .. Cardinality(K) |-> place(n)]
    <3>1. Arranged(before) = [n \in 1 .. Cardinality(DOMAIN before) |-> place(n)]
      BY DEF Arranged
    <3> HIDE DEF before, place
    <3>2. QED
      BY <1>0, <3>1
  <2>3. ASSUME NEW n \in 1 .. Cardinality(K) PROVE member(n) = place(n)
    <3> HIDE DEF before
    <3>1. \A i : (i \in K /\ Cardinality({j \in K : j < i}) = n - 1)
                   <=> (i \in DOMAIN before /\ Cardinality(before[i]) = n - 1)
      BY <1>0
    <3>2. QED
      BY <3>1, Zenon
  <2> HIDE DEF before, order, member, place
  <2>4. QED
    BY <2>1, <2>2, <2>3
<1> HIDE DEF order, member, place
<1>2. /\ before \in [K -> SUBSET K]
      /\ \A i \in K : i \notin before[i]
      /\ \A i \in K : \A j \in before[i] : before[j] \subseteq before[i]
      /\ \A i, j \in K : i # j => i \in before[j] \/ j \in before[i]
      /\ \A i \in K : \A j \in before[i] : j < i
  <2>1. before \in [K -> SUBSET K]
    OBVIOUS
  <2> HIDE DEF before
  <2>2. \A i \in K : \A j \in before[i] : j < i /\ j \in K
    BY <1>0
  <2>3. \A i \in K : i \notin before[i]
    BY <1>0
  <2>4. ASSUME NEW i \in K, NEW j \in before[i], NEW k \in before[j] PROVE k \in before[i]
    <3>1. j \in K /\ k \in K /\ k < j /\ j < i /\ i \in Nat /\ j \in Nat /\ k \in Nat
      BY <1>0, <2>2
    <3>2. k < i
      BY ONLY <3>1
    <3>3. QED
      BY <1>0, <3>1, <3>2
  <2>5. \A i, j \in K : i # j => i \in before[j] \/ j \in before[i]
    BY <1>0
  <2>6. QED
    BY <2>1, <2>2, <2>3, <2>4, <2>5
<1> HIDE DEF before
<1>3. Follows(order, K, before)
  <2>1. order = Arranged(before) /\ IsFiniteSet(K)
    BY <1>1
  <2>2. Follows(Arranged(before), K, before)
    BY ONLY <1>2, <2>1, ArrangedFollows
  <2>3. QED
    BY ONLY <2>1, <2>2
<1>4. DOMAIN order = 1 .. Cardinality(K) /\ Cardinality(K) \in Nat /\ \A n \in DOMAIN order : order[n] \in K
  BY <1>3, FS_CardinalityType DEF Follows
<1>5. order = [n \in 1 .. Cardinality(K) |-> order[n]]
  BY <1>1
<1>6. order \in [1 .. Cardinality(K) -> K]
  BY <1>4, <1>5
<1>7. order \in Seq(K) /\ Len(order) = Cardinality(K)
  BY <1>4, <1>6, IsASeq, LenProperties
<1>8. \A i \in K : \E n \in DOMAIN order : order[n] = i
  BY <1>3 DEF Follows
<1>9. Range(order) = K
  BY <1>4, <1>8 DEF Range
<1>10. \A m, n \in DOMAIN order : m < n => order[m] < order[n]
  BY <1>2, <1>3 DEF Follows
<1>11. QED
  BY <1>7, <1>9, <1>10 DEF Ascends, order

\* Two walks that take the same steps are the same.
LEMMA StepByStep ==
  ASSUME NEW L \in Nat, NEW g, NEW h, g[0] = h[0],
         \A n \in 1 .. L : g[n - 1] = h[n - 1] => g[n] = h[n]
  PROVE  \A n \in 0 .. L : g[n] = h[n]
<1> DEFINE T == {n \in Nat : n <= L => g[n] = h[n]}
<1>1. 0 \in T
  OBVIOUS
<1>2. ASSUME NEW n \in Nat, n \in T PROVE n + 1 \in T
  <2>1. CASE n + 1 <= L
    <3>1. n + 1 \in 1 .. L /\ (n + 1) - 1 = n /\ g[n] = h[n]
      BY <1>2, <2>1
    <3>2. QED
      BY <3>1
  <2>2. CASE ~(n + 1 <= L)
    BY <2>2
  <2>3. QED
    BY <2>1, <2>2
<1>3. \A n \in Nat : n \in T
  <2> HIDE DEF T
  <2>1. QED
    BY <1>1, <1>2, NaturalsAllIn
<1>4. QED
  BY <1>3

\* The first entries of a list.
First(s, n) == [k \in 1 .. n |-> s[k]]

LEMMA FirstGrows ==
  ASSUME NEW D, NEW s \in Seq(D), NEW n \in 1 .. Len(s)
  PROVE  /\ First(s, n - 1) \in Seq(D) /\ Append(First(s, n - 1), s[n]) = First(s, n)
         /\ Range(First(s, n - 1)) = {s[k] : k \in 1 .. n - 1}
         /\ First(s, 0) = <<>> /\ First(s, Len(s)) = s
<1>1. Len(s) \in Nat /\ DOMAIN s = 1 .. Len(s) /\ \A k \in 1 .. Len(s) : s[k] \in D
  BY LenProperties, ElementOfSeq
<1>2. First(s, n - 1) \in Seq(D) /\ Len(First(s, n - 1)) = n - 1 /\ First(s, n) \in Seq(D) /\ Len(First(s, n)) = n
  <2>1. n - 1 \in Nat /\ n \in Nat /\ First(s, n - 1) \in [1 .. n - 1 -> D] /\ First(s, n) \in [1 .. n -> D]
    BY <1>1 DEF First
  <2>2. QED
    BY <2>1, IsASeq, LenProperties
<1>3. Append(First(s, n - 1), s[n]) = First(s, n)
  <2> DEFINE a == Append(First(s, n - 1), s[n])
             b == First(s, n)
  <2>1. /\ a \in Seq(D) /\ Len(a) = n
        /\ \A k \in 1 .. n : a[k] = IF k = n THEN s[n] ELSE First(s, n - 1)[k]
    BY <1>1, <1>2, AppendProperties
  <2>2. \A k \in 1 .. n : a[k] = b[k]
    BY <1>1, <2>1 DEF First
  <2> HIDE DEF a, b
  <2>3. a = b
    BY <1>2, <2>1, <2>2, SeqEqual DEF b
  <2>4. QED
    BY <2>3 DEF a, b
<1>4. First(s, 0) = <<>> /\ First(s, Len(s)) = s
  <2>1. First(s, Len(s)) = s
    BY <1>1 DEF First
  <2>2. First(s, 0) = <<>>
    BY DEF First
  <2>3. QED
    BY <2>1, <2>2
<1>5. QED
  BY <1>1, <1>2, <1>3, <1>4 DEF First, Range

\* Every member can be taken in its turn when it needs earlier members only.
InSourceOrder(source, K) ==
  /\ Ascends(source, K) /\ K \subseteq Nat /\ IsFiniteSet(K)
  /\ \A i \in K : \A j \in Operands(i) : j < i

LEMMA TakesInOrder ==
  ASSUME NEW source, NEW K, InSourceOrder(source, K)
  PROVE  TakeReady(source, <<>>) = source
<1> DEFINE L == Len(source)
           taken == <<>>
           step(h, n) == IF Ready(source[n], source, h[n - 1]) THEN Append(h[n - 1], source[n]) ELSE h[n - 1]
           Is(h) == h = [n \in 0 .. L |-> IF n = 0 THEN taken ELSE step(h, n)]
           walk == [n \in 0 .. L |-> First(source, n)]
<1>1. /\ source \in Seq(K) /\ L \in Nat /\ DOMAIN source = 1 .. L /\ Range(source) = K
      /\ \A n \in 1 .. L : source[n] \in K /\ source[n] \in Nat
      /\ \A m, n \in 1 .. L : m < n => source[m] < source[n]
  BY LenProperties, ElementOfSeq DEF InSourceOrder, Ascends
<1>2. ASSUME NEW n \in 1 .. L PROVE step(walk, n) = walk[n]
  <2>1. n - 1 \in 0 .. L /\ n \in 0 .. L
    BY <1>1
  <2>2. walk[n - 1] = First(source, n - 1) /\ walk[n] = First(source, n)
    BY <2>1
  <2> HIDE DEF walk
  <2>3. Range(walk[n - 1]) = {source[k] : k \in 1 .. n - 1} /\ Append(walk[n - 1], source[n]) = walk[n]
    <3>1. source \in Seq(K) /\ n \in 1 .. Len(source)
      BY <1>1
    <3>2. /\ Append(First(source, n - 1), source[n]) = First(source, n)
          /\ Range(First(source, n - 1)) = {source[k] : k \in 1 .. n - 1}
      BY ONLY <3>1, FirstGrows
    <3>3. QED
      BY <2>2, <3>2
  <2>4. source[n] \notin Range(walk[n - 1])
    BY <1>1, <2>3
  <2>5. ASSUME NEW j \in Operands(source[n]), j \in Range(source) PROVE j \in Range(walk[n - 1])
    <3>1. PICK k \in 1 .. L : j = source[k]
      BY <1>1, <2>5 DEF Range
    <3>2. j < source[n]
      BY <1>1, <2>5 DEF InSourceOrder
    <3>3. k < n
      BY <1>1, <3>1, <3>2
    <3>4. QED
      BY <1>1, <2>3, <3>1, <3>3
  <2>6. Ready(source[n], source, walk[n - 1])
    BY <2>4, <2>5 DEF Ready
  <2>7. QED
    BY <2>3, <2>6
<1>3. walk[0] = <<>> /\ walk[L] = source
  BY <1>1, FirstGrows DEF First
<1>4. Is(walk)
  <2>1. ASSUME NEW n \in 0 .. L PROVE walk[n] = IF n = 0 THEN taken ELSE step(walk, n)
    <3>1. n # 0 => n \in 1 .. L
      BY <1>1
    <3> HIDE DEF walk, step
    <3>2. QED
      BY <1>2, <1>3, <3>1
  <2>2. walk = [n \in 0 .. L |-> walk[n]]
    OBVIOUS
  <2> HIDE DEF walk, step, taken
  <2>3. QED
    BY <2>1, <2>2
<1> DEFINE upTo == CHOOSE h : Is(h)
<1>5. TakeReady(source, <<>>) = upTo[L]
  BY DEF TakeReady
<1>6. Is(upTo)
  <2> HIDE DEF Is
  <2>1. QED
    BY <1>4
<1> HIDE DEF upTo, walk
<1>7. upTo[0] = <<>> /\ \A n \in 1 .. L : upTo[n] = step(upTo, n)
  <2>1. 0 \in 0 .. L /\ \A n \in 1 .. L : n \in 0 .. L /\ n # 0
    BY <1>1
  <2> HIDE DEF step
  <2>2. QED
    BY <1>6, <2>1
<1>8. \A n \in 1 .. L : upTo[n - 1] = walk[n - 1] => upTo[n] = walk[n]
  BY <1>2, <1>7
<1>9. QED
  <2>1. \A n \in 0 .. L : upTo[n] = walk[n]
    <3>1. upTo[0] = walk[0] /\ L \in Nat
      BY <1>1, <1>3, <1>7
    <3> HIDE DEF L
    <3>2. QED
      BY ONLY <1>8, <3>1, StepByStep
  <2>2. L \in 0 .. L
    BY <1>1
  <2>3. QED
    BY <1>3, <1>5, <2>1, <2>2

\* Nothing is taken twice.
LEMMA TakesNoMore ==
  ASSUME NEW D, NEW source \in Seq(D)
  PROVE  TakeReady(source, source) = source
<1> DEFINE L == Len(source)
           step(h, n) == IF Ready(source[n], source, h[n - 1]) THEN Append(h[n - 1], source[n]) ELSE h[n - 1]
           Is(h) == h = [n \in 0 .. L |-> IF n = 0 THEN source ELSE step(h, n)]
           walk == [n \in 0 .. L |-> source]
           upTo == CHOOSE h : Is(h)
<1>1. L \in Nat /\ DOMAIN source = 1 .. L
  BY LenProperties
<1>2. ASSUME NEW n \in 1 .. L PROVE step(walk, n) = source /\ walk[n - 1] = source /\ walk[n] = source
  <2>1. n - 1 \in 0 .. L /\ n \in 0 .. L
    BY <1>1
  <2>2. walk[n - 1] = source /\ walk[n] = source
    BY <2>1
  <2>3. source[n] \in Range(source)
    BY <1>1 DEF Range
  <2> HIDE DEF walk
  <2>4. ~Ready(source[n], source, walk[n - 1])
    BY <2>2, <2>3 DEF Ready
  <2>5. QED
    BY <2>2, <2>4
<1>3. Is(walk)
  <2>1. ASSUME NEW n \in 0 .. L PROVE source = IF n = 0 THEN source ELSE step(walk, n)
    <3>1. n # 0 => n \in 1 .. L
      BY <1>1
    <3> HIDE DEF walk, step
    <3>2. QED
      BY <1>2, <3>1
  <2> HIDE DEF step
  <2>2. QED
    BY <2>1
<1>4. TakeReady(source, source) = upTo[L]
  BY DEF TakeReady
<1>5. Is(upTo)
  <2> HIDE DEF Is
  <2>1. QED
    BY <1>3
<1> HIDE DEF upTo
<1>6. upTo[0] = source /\ \A n \in 1 .. L : upTo[n] = step(upTo, n)
  <2>1. 0 \in 0 .. L /\ \A n \in 1 .. L : n \in 0 .. L /\ n # 0
    BY <1>1
  <2> HIDE DEF step
  <2>2. QED
    BY <1>5, <2>1
<1>7. ASSUME NEW n \in 1 .. L, upTo[n - 1] = walk[n - 1] PROVE upTo[n] = walk[n]
  <2>1. upTo[n - 1] = source /\ walk[n] = source
    BY <1>2, <1>7
  <2>2. ~Ready(source[n], source, upTo[n - 1])
    <3>1. source[n] \in Range(source)
      BY <1>1 DEF Range
    <3>2. QED
      BY <2>1, <3>1 DEF Ready
  <2>3. QED
    BY <1>6, <2>1, <2>2
<1>8. walk[0] = source /\ L \in 0 .. L /\ walk[L] = source
  BY <1>1
<1> HIDE DEF walk, step
<1>9. QED
  <2>1. \A n \in 0 .. L : upTo[n] = walk[n]
    <3>1. upTo[0] = walk[0] /\ L \in Nat
      BY <1>1, <1>6, <1>8
    <3>2. \A n \in 1 .. L : upTo[n - 1] = walk[n - 1] => upTo[n] = walk[n]
      BY <1>7
    <3> HIDE DEF L
    <3>3. QED
      BY ONLY SMTT(30), <3>1, <3>2, StepByStep
  <2>2. QED
    BY <1>4, <1>8, <2>1

\* Operations in source order are a group in that order.
LEMMA RegroupsAsFound ==
  ASSUME NEW source, NEW K, InSourceOrder(source, K)
  PROVE  Regroup(source) = source
<1> DEFINE L == Len(source)
           Is(h) == h = [n \in 0 .. L |-> IF n = 0 THEN <<>> ELSE TakeReady(source, h[n - 1])]
           walk == [n \in 0 .. L |-> IF n = 0 THEN <<>> ELSE source]
           round == CHOOSE h : Is(h)
<1>1. L \in Nat /\ DOMAIN source = 1 .. L /\ source \in Seq(K) /\ (L = 0 => source = <<>>)
  <2>1. source \in Seq(K)
    BY DEF InSourceOrder, Ascends
  <2>2. QED
    BY <2>1, LenProperties, EmptySeq
<1>2. ASSUME NEW n \in 1 .. L
      PROVE  TakeReady(source, walk[n - 1]) = source /\ walk[n] = source
  <2>1. n - 1 \in 0 .. L /\ n \in 0 .. L /\ n # 0
    BY <1>1
  <2>2. walk[n] = source
    BY <2>1
  <2>3. walk[n - 1] \in {<<>>, source}
    BY <2>1
  <2> HIDE DEF walk
  <2>4. QED
    BY <1>1, <2>2, <2>3, TakesInOrder, TakesNoMore
<1>3. Is(walk)
  <2>1. ASSUME NEW n \in 0 .. L
        PROVE (IF n = 0 THEN <<>> ELSE source) = IF n = 0 THEN <<>> ELSE TakeReady(source, walk[n - 1])
    <3>1. n # 0 => n \in 1 .. L
      BY <1>1
    <3> HIDE DEF walk
    <3>2. QED
      BY <1>2, <3>1
  <2>2. QED
    BY <2>1
<1>4. Regroup(source) = round[L]
  BY DEF Regroup
<1>5. Is(round)
  <2> HIDE DEF Is
  <2>1. QED
    BY <1>3
<1> HIDE DEF round
<1>6. round[0] = <<>> /\ \A n \in 1 .. L : round[n] = TakeReady(source, round[n - 1])
  <2>1. 0 \in 0 .. L /\ \A n \in 1 .. L : n \in 0 .. L /\ n # 0
    BY <1>1
  <2>2. QED
    BY <1>5, <2>1
<1>7. \A n \in 1 .. L : round[n - 1] = walk[n - 1] => round[n] = walk[n]
  <2> HIDE DEF walk
  <2>1. QED
    BY <1>2, <1>6
<1>8. walk[0] = <<>> /\ L \in 0 .. L /\ walk[L] = source
  BY <1>1
<1> HIDE DEF walk
<1>9. QED
  <2>1. \A n \in 0 .. L : round[n] = walk[n]
    <3>1. round[0] = walk[0] /\ L \in Nat
      BY <1>1, <1>6, <1>8
    <3>2. \A n \in 1 .. L : round[n - 1] = walk[n - 1] => round[n] = walk[n]
      BY <1>7
    <3> HIDE DEF L
    <3>3. QED
      BY ONLY <3>1, <3>2, StepByStep
  <2>2. QED
    BY <1>4, <1>8, <2>1

-----------------------------------------------------------------------------
(* What operations need                                                    *)

\* Operands come from earlier operations.
LEMMA OperandsEarlier ==
  ASSUME IsBody(clone), NEW i \in DOMAIN clone
  PROVE  /\ DOMAIN clone \subseteq Nat \ {0} /\ IsFiniteSet(DOMAIN clone)
         /\ Operands(i) \subseteq {j \in DOMAIN clone : j < i}
<1>1. /\ Len(clone) \in Nat /\ DOMAIN clone = 1 .. Len(clone) /\ IsOperation(clone, i)
      /\ IsFiniteSet(DOMAIN clone)
  BY LenProperties, DomainFinite DEF IsBody
<1>2. ASSUME NEW j \in Operands(i) PROVE j \in DOMAIN clone /\ j < i
  <2>1. PICK a \in DOMAIN clone[i].args : j = clone[i].args[a][1] /\ j # 0
    BY DEF Operands
  <2>2. j \in 0 .. i - 1
    BY <1>1, <2>1 DEF IsOperation
  <2>3. QED
    BY <1>1, <2>1, <2>2
<1>3. QED
  BY <1>1, <1>2

LEMMA BeforeIsEarlier ==
  ASSUME IsBody(clone), NEW i \in DOMAIN clone
  PROVE  /\ Before(i) \subseteq {j \in DOMAIN clone : j < i}
         /\ 1 .. i - 1 = {j \in DOMAIN clone : j < i}
<1>1. i \in Nat /\ Operands(i) \subseteq {j \in DOMAIN clone : j < i}
  BY OperandsEarlier
<1>2. Len(clone) \in Nat /\ DOMAIN clone = 1 .. Len(clone)
  BY LenProperties DEF IsBody
<1>3. 1 .. i - 1 = {j \in DOMAIN clone : j < i}
  BY <1>1, <1>2
<1>4. Before(i) \subseteq Operands(i) \cup (1 .. i - 1)
  BY DEF Before
<1>5. QED
  BY <1>1, <1>3, <1>4

\* The needed operations are the smallest set that holds the operands and
\* those of its members.
LEMMA BeforeIsLeast ==
  ASSUME IsBody(clone), NEW i \in DOMAIN clone, NEW s \in SUBSET (1 .. i - 1),
         Operands(i) \subseteq s, \A k \in s : Operands(k) \subseteq s
  PROVE  Before(i) \subseteq s
<1> DEFINE read == Operands(i)
           r == s \ read
<1>1. r \in SUBSET ((1 .. i - 1) \ read) /\ read \cup r = s
  OBVIOUS
<1>2. \A k \in read \cup r : Operands(k) \subseteq read \cup r
  BY <1>1
<1> HIDE DEF r
<1>3. Before(i) \subseteq read \cup r
  BY <1>1, <1>2 DEF Before
<1>4. QED
  BY <1>1, <1>3

\* Operands are needed, and what is needed for what is needed.
LEMMA BeforeHolds ==
  ASSUME IsBody(clone), NEW i \in DOMAIN clone
  PROVE  /\ Operands(i) \subseteq Before(i)
         /\ \A j \in Before(i) : Operands(j) \subseteq Before(i) /\ Before(j) \subseteq Before(i)
<1>1. /\ Before(i) \subseteq 1 .. i - 1 /\ 1 .. i - 1 \subseteq DOMAIN clone
      /\ \A j \in 1 .. i - 1 : j \in DOMAIN clone /\ j < i
  BY BeforeIsEarlier
<1>2. Operands(i) \subseteq Before(i)
  BY DEF Before
<1>3. ASSUME NEW j \in Before(i) PROVE Operands(j) \subseteq Before(i)
  <2> DEFINE read == Operands(i)
             rest == (1 .. i - 1) \ read
  <2> SUFFICES ASSUME NEW k \in Operands(j), k \notin read PROVE k \in Before(i)
    BY <1>2
  <2>1. j \in DOMAIN clone /\ j \in Nat /\ j < i /\ i \in Nat /\ k \in DOMAIN clone /\ k \in Nat \ {0} /\ k < j
    BY <1>1, OperandsEarlier
  <2>2. k \in rest
    BY <2>1
  <2>3. ASSUME NEW r \in SUBSET rest, \A l \in read \cup r : Operands(l) \subseteq read \cup r
        PROVE  k \in r
    <3>1. j \in read \cup r
      BY <2>3 DEF Before
    <3>2. QED
      BY <2>3, <3>1
  <2>4. QED
    BY <2>2, <2>3 DEF Before
<1>4. ASSUME NEW j \in Before(i) PROVE Before(j) \subseteq Before(i)
  <2>1. j \in DOMAIN clone /\ j \in Nat /\ j < i /\ i \in Nat
    BY <1>1, OperandsEarlier
  <2> DEFINE s == Before(i) \cap (1 .. j - 1)
  <2>2. s \in SUBSET (1 .. j - 1)
    OBVIOUS
  <2>3. Operands(j) \subseteq s
    BY <1>3, <2>1, OperandsEarlier, BeforeIsEarlier
  <2>4. ASSUME NEW k \in s PROVE Operands(k) \subseteq s
    <3>1. /\ k \in DOMAIN clone /\ k \in Nat /\ k < j
          /\ Operands(k) \subseteq {l \in DOMAIN clone : l < k} /\ DOMAIN clone \subseteq Nat \ {0}
      BY <1>1, <2>1, OperandsEarlier
    <3>2. Operands(k) \subseteq Before(i)
      BY <1>3
    <3>3. QED
      BY <2>1, <3>1, <3>2
  <2> HIDE DEF s
  <2>5. Before(j) \subseteq s
    BY <2>1, <2>2, <2>3, <2>4, BeforeIsLeast
  <2>6. QED
    BY <2>5 DEF s
<1>5. QED
  BY <1>2, <1>3, <1>4

\* What is needed is an operand of the operation or of something it needs.
LEMMA BeforeIsRead ==
  ASSUME IsBody(clone), NEW i \in DOMAIN clone, NEW a \in Before(i)
  PROVE  \E y \in Before(i) \cup {i} : a \in Operands(y)
<1> SUFFICES ASSUME \A y \in Before(i) \cup {i} : a \notin Operands(y) PROVE FALSE
  OBVIOUS
<1> DEFINE s == Before(i) \ {a}
<1>1. s \in SUBSET (1 .. i - 1)
  BY BeforeIsEarlier
<1>2. Operands(i) \subseteq s /\ \A k \in s : Operands(k) \subseteq s
  BY BeforeHolds
<1> HIDE DEF s
<1>3. a \in s
  BY <1>1, <1>2, BeforeIsLeast
<1>4. QED
  BY <1>3 DEF s

\* A set of operations has a last one.
LEMMA LastOf ==
  ASSUME IsBody(clone), NEW T, T \subseteq DOMAIN clone, T # {}
  PROVE  \E x \in T : \A y \in T : y <= x
<1>1. Len(clone) \in Nat /\ DOMAIN clone = 1 .. Len(clone)
  BY LenProperties DEF IsBody
<1>2. Max(T) \in T /\ \A x \in T : x <= Max(T)
  BY <1>1, MaxMember
<1>3. QED
  BY <1>2

\* Who reads a value of an operation needs the operation.
LEMMA UsersNeed ==
  ASSUME IsBody(clone), NEW i \in DOMAIN clone
  PROVE  /\ \A v \in Results(i) : \A y \in Users(v) : y \in DOMAIN clone /\ i \in Operands(y)
         /\ \A y \in DOMAIN clone : i \in Operands(y) => \E v \in Results(i) : y \in Users(v)
<1>1. DOMAIN clone \subseteq Nat \ {0} /\ \A y \in DOMAIN clone : IsOperation(clone, y)
  BY OperandsEarlier DEF IsBody
<1>2. ASSUME NEW v \in Results(i), NEW y \in Users(v) PROVE y \in DOMAIN clone /\ i \in Operands(y)
  <2>1. v[1] = i /\ i # 0
    BY <1>1 DEF Results
  <2>2. y \in DOMAIN clone /\ \E a \in DOMAIN clone[y].args : clone[y].args[a] = v
    BY DEF Users, Range
  <2>3. QED
    BY <2>1, <2>2 DEF Operands
<1>3. ASSUME NEW y \in DOMAIN clone, i \in Operands(y) PROVE \E v \in Results(i) : y \in Users(v)
  <2>1. PICK a \in DOMAIN clone[y].args : clone[y].args[a][1] = i /\ i # 0
    BY <1>3 DEF Operands
  <2> DEFINE v == clone[y].args[a]
  <2>2. v = <<v[1], v[2]>> /\ (v[1] # 0 => v[2] \in 1 .. clone[v[1]].results)
    BY <1>1 DEF IsOperation
  <2>3. y \in Users(v)
    BY DEF Users, Range
  <2> HIDE DEF v
  <2>4. v = <<i, v[2]>> /\ v[2] \in 1 .. clone[i].results
    BY <2>1, <2>2 DEF v
  <2>5. v \in Results(i)
    BY <2>4 DEF Results
  <2>6. QED
    BY <2>3, <2>5
<1>4. QED
  BY <1>2, <1>3

\* No operation lies between two members of a group that ends in one: what
\* it needs of the group would end the group, and so does what the group
\* still computes from it.
LEMMA NothingBetween ==
  ASSUME IsBody(clone), NEW ids, Range(ids) \subseteq DOMAIN clone, ~LiveOutside(ids),
         Cardinality(Exits(ids)) = 1, NEW j \in DOMAIN clone \ Range(ids),
         Before(j) \cap Range(ids) # {}, NEW m \in Range(ids), j \in Before(m)
  PROVE  FALSE
<1> DEFINE M == Range(ids)
           needed == Before(j) \cap M
           later == {x \in M : x = m \/ m \in Before(x)}
<1>1. DOMAIN clone \subseteq Nat
  BY OperandsEarlier
<1>2. PICK a \in needed : \A y \in needed : y <= a
  <2>1. needed \subseteq DOMAIN clone /\ needed # {}
    OBVIOUS
  <2> HIDE DEF needed
  <2>2. QED
    BY <2>1, LastOf
<1>3. PICK y \in Before(j) \cup {j} : a \in Operands(y)
  BY BeforeIsRead
<1>4. y \in DOMAIN clone /\ a < y /\ a \in DOMAIN clone
  BY <1>3, BeforeIsEarlier, OperandsEarlier
<1>5. y \notin M
  BY <1>1, <1>2, <1>3, <1>4
<1>6. a \in Exits(ids)
  <2>1. PICK v \in Results(a) : y \in Users(v)
    BY <1>3, <1>4, UsersNeed
  <2>2. Users(v) \cap M = {}
    BY <1>5, <2>1 DEF LiveOutside
  <2>3. QED
    BY <2>1, <2>2 DEF Exits
<1>7. PICK x \in later : \A z \in later : z <= x
  <2>1. later \subseteq DOMAIN clone /\ later # {}
    OBVIOUS
  <2> HIDE DEF later
  <2>2. QED
    BY <2>1, LastOf
<1>8. x \in Exits(ids)
  <2> SUFFICES ASSUME NEW v \in Results(x), NEW z \in Users(v) \cap M PROVE FALSE
    BY DEF Exits
  <2>1. z \in DOMAIN clone /\ x \in Operands(z)
    BY UsersNeed
  <2>2. x \in Before(z) /\ Before(x) \subseteq Before(z) /\ x < z
    BY <2>1, BeforeHolds, OperandsEarlier
  <2>3. z \in later
    BY <1>7, <2>2
  <2>4. QED
    BY <1>1, <1>7, <2>1, <2>2, <2>3
<1>9. a < j /\ j < m /\ m <= x
  <2>1. a < j /\ j < m
    BY BeforeIsEarlier
  <2>2. x \in DOMAIN clone /\ (x = m \/ m < x)
    BY <1>7, BeforeIsEarlier
  <2>3. QED
    BY <1>1, <2>1, <2>2
<1>10. a # x
  BY <1>1, <1>4, <1>7, <1>9
<1>11. IsFiniteSet(Exits(ids))
  <2>1. Exits(ids) \in SUBSET DOMAIN clone /\ IsFiniteSet(DOMAIN clone)
    BY OperandsEarlier DEF Exits
  <2>2. QED
    BY ONLY <2>1, FS_Subset
<1>12. \E e : Exits(ids) = {e}
  BY <1>11, FS_Singleton
<1>13. QED
  BY <1>6, <1>8, <1>10, <1>12

-----------------------------------------------------------------------------
(* Groups                                                                  *)

\* The operations recorded on an instance.
MembersAt(instance) == {i \in Mapped : Mapping(i).instance = instance}

\* They are grouped in the order of the walk.
LEMMA MembersInOrder ==
  ASSUME IsBody(clone), NEW instance
  PROVE  /\ Ascends(MembersOf(instance), MembersAt(instance))
         /\ GroupOf(instance).ids = MembersOf(instance)
<1> DEFINE K == MembersAt(instance)
<1>1. K \subseteq DOMAIN clone
  BY DEF MembersAt, Mapped
<1>2. DOMAIN clone \subseteq Nat /\ (K # {} => IsFiniteSet(DOMAIN clone))
  BY <1>1, OperandsEarlier DEF IsBody
<1>3. K \subseteq Nat /\ IsFiniteSet(K)
  <2>1. IsFiniteSet(DOMAIN clone)
    BY DomainFinite DEF IsBody
  <2>2. K \in SUBSET DOMAIN clone
    BY <1>1
  <2>3. IsFiniteSet(K)
    BY ONLY <2>1, <2>2, FS_Subset
  <2>4. DOMAIN clone \subseteq Nat
    BY LenProperties DEF IsBody
  <2> HIDE DEF K
  <2>5. QED
    BY <1>1, <2>3, <2>4
<1>4. MembersOf(instance) = SmallestFirst(K)
  BY DEF MembersOf, MembersAt
<1>5. \A i \in K : \A j \in Operands(i) : j < i
  BY <1>1, OperandsEarlier
<1> HIDE DEF K
<1>6. InSourceOrder(MembersOf(instance), K)
  BY <1>3, <1>4, <1>5, SmallestFirstAscends DEF InSourceOrder
<1>7. Regroup(MembersOf(instance)) = MembersOf(instance)
  BY <1>6, RegroupsAsFound
<1>8. QED
  BY <1>6, <1>7 DEF InSourceOrder, GroupOf, K

\* The placement of a placed node.
LEMMA PlacementOfNode ==
  ASSUME RecordsAgree, NEW i \in DOMAIN Placements
  PROVE  PlacementOf(Placements[i].node) = Placements[i]
BY DEF RecordsAgree, PlacementOf

\* A record stands for the placement of its node.
LEMMA RecordsStand ==
  ASSUME RecordsAgree
  PROVE  /\ \A k \in Mapped : \E i \in DOMAIN Placements :
              /\ Placements[i].node = Mapping(k).node /\ Placements[i].instance = Mapping(k).instance
              /\ Placements[i].bundle = Mapping(k).bundle
         /\ \A i \in DOMAIN Placements : \E k \in Mapped :
              /\ Placements[i].node = Mapping(k).node /\ Placements[i].instance = Mapping(k).instance
              /\ Placements[i].bundle = Mapping(k).bundle
<1>1. ASSUME NEW k \in Mapped
      PROVE  \E i \in DOMAIN Placements :
              /\ Placements[i].node = Mapping(k).node /\ Placements[i].instance = Mapping(k).instance
              /\ Placements[i].bundle = Mapping(k).bundle
  <2>1. PICK i \in DOMAIN Placements : Placements[i].node = Mapping(k).node
    BY DEF RecordsAgree, PlacedNodes
  <2>2. PlacementOf(Mapping(k).node) = Placements[i]
    BY <2>1, PlacementOfNode
  <2>3. QED
    BY <2>1, <2>2 DEF RecordsAgree
<1>2. ASSUME NEW i \in DOMAIN Placements
      PROVE  \E k \in Mapped :
              /\ Placements[i].node = Mapping(k).node /\ Placements[i].instance = Mapping(k).instance
              /\ Placements[i].bundle = Mapping(k).bundle
  <2>1. Placements[i].node \in {Mapping(k).node : k \in Mapped}
    BY DEF RecordsAgree, PlacedNodes
  <2>2. PICK k \in Mapped : Placements[i].node = Mapping(k).node
    BY <2>1
  <2>3. PlacementOf(Mapping(k).node) = Placements[i]
    BY <2>2, PlacementOfNode
  <2>4. QED
    BY <2>2, <2>3 DEF RecordsAgree
<1>3. QED
  BY <1>1, <1>2

\* The bundle of an instance is that of each of its placements.
LEMMA OneBundle ==
  ASSUME RecordsAgree, NEW i \in DOMAIN Placements
  PROVE  BundleOf(Placements[i].instance) = Placements[i].bundle
<1> DEFINE on == PlacedOn(Placements[i].instance)
<1>1. i \in on
  BY DEF PlacedOn
<1>2. PICK j \in on : BundleOf(Placements[i].instance) = Placements[j].bundle
  BY <1>1 DEF BundleOf
<1>3. j \in DOMAIN Placements /\ Placements[j].instance = Placements[i].instance
  BY <1>2 DEF PlacedOn
<1>4. PICK k \in Mapped : Placements[i].instance = Mapping(k).instance /\ Placements[i].bundle = Mapping(k).bundle
  BY RecordsStand
<1>5. PICK l \in Mapped : Placements[j].instance = Mapping(l).instance /\ Placements[j].bundle = Mapping(l).bundle
  BY <1>3, RecordsStand
<1>6. QED
  BY <1>2, <1>3, <1>4, <1>5 DEF RecordsAgree

\* A valid group is handed over whole, in order, and can be computed at once.
WholeGroup(h) ==
  /\ NodesOf(h.ids) = {Placements[i].node : i \in PlacedOn(h.instance)}
  /\ Len(h.ids) = Cardinality(PlacedOn(h.instance))
  /\ \A a, b \in DOMAIN h.ids : h.ids[a] \in Before(h.ids[b]) => a < b
  /\ Cardinality(Exits(h.ids)) = 1 =>
        \A j \in DOMAIN clone \ Range(h.ids) :
            Before(j) \cap Range(h.ids) = {} \/ \A m \in Range(h.ids) : j \notin Before(m)

LEMMA ValidGroupIsWhole ==
  ASSUME IsBody(clone), RecordsAgree, NEW instance, NEW h, h = GroupOf(instance),
         GroupValid(instance, h.ids)
  PROVE  WholeGroup(h)
<1> DEFINE K == MembersAt(instance)
<1>1. h.ids = MembersOf(instance) /\ h.instance = instance
  BY MembersInOrder DEF GroupOf
<1>2. Ascends(h.ids, K)
  BY <1>1, MembersInOrder
<1>3. Range(h.ids) = K /\ K \subseteq DOMAIN clone
  BY <1>2 DEF Ascends, MembersAt, Mapped
<1>4. NodesOf(h.ids) = {Placements[i].node : i \in PlacedOn(instance)}
  <2>1. ASSUME NEW k \in K PROVE Mapping(k).node \in {Placements[i].node : i \in PlacedOn(instance)}
    <3>1. k \in Mapped /\ Mapping(k).instance = instance
      BY DEF MembersAt
    <3>2. QED
      BY <3>1, RecordsStand DEF PlacedOn
  <2>2. ASSUME NEW i \in PlacedOn(instance) PROVE Placements[i].node \in {Mapping(k).node : k \in K}
    <3>1. i \in DOMAIN Placements /\ Placements[i].instance = instance
      BY DEF PlacedOn
    <3>2. QED
      BY <3>1, RecordsStand DEF MembersAt
  <2> HIDE DEF K
  <2>3. QED
    BY <1>3, <2>1, <2>2 DEF NodesOf
<1>5. Len(h.ids) = Cardinality(PlacedOn(instance)) /\ ~LiveOutside(h.ids)
  BY DEF GroupValid
<1>6. ASSUME NEW a \in DOMAIN h.ids, NEW b \in DOMAIN h.ids, h.ids[a] \in Before(h.ids[b])
      PROVE  a < b
  <2>1. h.ids[a] \in K /\ h.ids[b] \in K /\ DOMAIN h.ids = 1 .. Len(h.ids) /\ Len(h.ids) \in Nat
    BY <1>2, <1>3, LenProperties, ElementOfSeq DEF Ascends
  <2>2. h.ids[a] < h.ids[b] /\ h.ids[a] \in Nat /\ h.ids[b] \in Nat
    BY <1>3, <1>6, <2>1, BeforeIsEarlier, OperandsEarlier
  <2>3. b < a => h.ids[b] < h.ids[a]
    BY <1>2 DEF Ascends
  <2>4. QED
    BY <2>1, <2>2, <2>3
<1>7. ASSUME Cardinality(Exits(h.ids)) = 1, NEW j \in DOMAIN clone \ Range(h.ids),
             Before(j) \cap Range(h.ids) # {}, NEW m \in Range(h.ids), j \in Before(m)
      PROVE  FALSE
  BY <1>3, <1>5, <1>7, NothingBetween
<1>8. QED
  BY <1>1, <1>4, <1>5, <1>6, <1>7 DEF WholeGroup

-----------------------------------------------------------------------------
(* The inductive invariant of a compilation                                *)

Found == {GroupOf(i) : i \in Instances}
CompileSteps ==
  {"begin", "bind", "cover", "verify", "group", "resolve", "lower", "finish", "backend", "entry", "stopped", "failed"}
Tallies == [verified : Nat, target : Nat, reference : Nat, reference_groups : Nat, realized : Nat]

Stops == {"mapped_micro", "target_lowered", "lowered", "executable"}
Outcomes == [stopped : Stops \cup {"none"}, module : BOOLEAN, executable : BOOLEAN]

CompileTyped ==
  /\ task \in Tasks /\ cstep \in CompileSteps /\ IsBody(clone)
  /\ groups \in Seq(Found) /\ handed \in Seq(Found) /\ tally \in Tallies
  /\ outcome \in Outcomes

\* Nothing is done to the operations before they are grouped.
Fresh ==
  cstep \in {"begin", "bind", "cover", "verify", "group"} => groups = <<>> /\ handed = <<>> /\ tally = NoTally

\* What is in either list was validated, and is handed over only after every
\* bundle was verified.
AllBundlesVerify == \A instance \in Instances : BundleVerifies(BundleOf(instance))
Accepted ==
  /\ groups # <<>> \/ handed # <<>> => RecordsAgree
  /\ \A h \in Range(groups) \cup Range(handed) : GroupValid(h.instance, h.ids)
  /\ cstep = "lower" \/ handed # <<>> => AllBundlesVerify

\* The placements whose groups are done are the ones counted.
Lowering == cstep \in {"resolve", "lower"}
Lowered ==
  \/ cstep \in {"finish", "backend", "entry"}
  \/ cstep = "stopped" /\ outcome.stopped # "mapped_micro"
Pending == {groups[g].instance : g \in DOMAIN groups}
Settled == {i \in DOMAIN Placements : Placements[i].instance \notin Pending}
HandedTo == {handed[h].instance : h \in DOMAIN handed}
Books ==
  /\ RecordsAgree
  /\ \A g, h \in DOMAIN groups : groups[g].instance = groups[h].instance => g = h
  /\ tally.target + tally.reference = Cardinality(Settled)
  /\ tally.reference_groups = 0 => tally.reference = 0 /\ HandedTo = Instances \ Pending
  /\ cstep = "resolve" => Pending = Instances
  /\ Lowered => groups = <<>>
Booked == task.entry # "concrete" /\ (Lowering \/ Lowered) => Books

\* Past a check, what it checked holds.
Covered ==
  task.entry = "mapped"
    /\ cstep \in {"verify", "group", "resolve", "lower", "finish", "backend", "entry", "stopped"} => TargetCovers
Checked ==
  task.stop = "executable" /\ (cstep \in {"backend", "entry"} \/ outcome.executable) => ExecutableContract
Credited ==
  Selected /\ (cstep = "entry" \/ outcome.stopped \in {"lowered", "executable"}) =>
    tally.realized # 0 /\ tally.reference_groups = 0

\* Which of the stops are still ahead, and what the caller holds at one.
StillAhead ==
  /\ cstep \in {"verify", "group", "resolve", "lower", "finish", "backend", "entry"} /\ task.entry # "hook" =>
        task.stop # "mapped_micro"
  /\ cstep \in {"finish", "backend", "entry"} =>
        /\ task.entry # "hook" /\ task.stop # "target_lowered"
        /\ task.entry = "concrete" => ~Selected
  /\ cstep = "entry" => task.stop = "executable"
  /\ cstep \in {"bind", "cover", "verify"} => task.entry = "mapped"
  /\ cstep \in {"group", "resolve", "lower"} => task.entry # "concrete"
Held ==
  /\ cstep # "stopped" => outcome = NoOutcome
  /\ cstep = "stopped" =>
        /\ outcome.stopped # "none" /\ outcome.module = ~outcome.executable
        /\ outcome.executable <=> outcome.stopped = "executable"
        /\ task.entry = "hook" => outcome.stopped = "target_lowered"
        /\ task.entry # "hook" => outcome.stopped = task.stop
        /\ task.entry = "concrete" => ~Selected

CompileInv ==
  CompileTyped /\ Fresh /\ Accepted /\ Booked /\ Covered /\ Checked /\ Credited /\ StillAhead /\ Held

\* What a handed group is.
LEMMA HandedGroup ==
  ASSUME CompileInv, NEW h \in Range(handed)
  PROVE  /\ \E instance \in Instances : h = GroupOf(instance)
         /\ h = GroupOf(h.instance) /\ h.instance \in Instances /\ RecordsAgree /\ WholeGroup(h)
         /\ Ascends(h.ids, MembersAt(h.instance)) /\ h.ids = MembersOf(h.instance)
<1>1. IsBody(clone) /\ handed \in Seq(Found) /\ RecordsAgree /\ GroupValid(h.instance, h.ids)
  <2>1. handed # <<>>
    BY DEF Range
  <2>2. QED
    BY <2>1 DEF CompileInv, CompileTyped, Accepted
<1>2. PICK instance \in Instances : h = GroupOf(instance)
  BY <1>1, ElementOfSeq, LenProperties DEF Range, Found
<1>3. h.instance = instance
  BY <1>2 DEF GroupOf
<1>4. QED
  BY <1>1, <1>2, <1>3, ValidGroupIsWhole, MembersInOrder

LEMMA EmitterNeeds ==
  ASSUME CompileInv
  PROVE  HandedWhole /\ NothingHalfResolved
<1>1. HandedWhole
  BY HandedGroup DEF WholeGroup, HandedWhole
<1>2. ASSUME handed # <<>>, NEW i \in DOMAIN Placements
      PROVE  Placements[i].bundle.emitter \in DOMAIN Target.emitters /\ Placements[i].bundle.parameters # "other"
  <2>1. RecordsAgree /\ AllBundlesVerify /\ Placements[i].instance \in Instances
    BY <1>2 DEF CompileInv, Accepted, Instances
  <2>2. BundleVerifies(Placements[i].bundle)
    BY <2>1, OneBundle DEF AllBundlesVerify
  <2>3. QED
    BY <2>2 DEF BundleVerifies, HasEmitter
<1>3. QED
  BY <1>1, <1>2 DEF NothingHalfResolved

LEMMA StopIsAsAsked ==
  ASSUME CompileInv
  PROVE  AsAsked
<1>1. CASE cstep = "stopped"
  BY <1>1 DEF CompileInv, Held, CompileTyped, AsAsked
<1>2. CASE cstep # "stopped"
  BY <1>2 DEF CompileInv, Held, CompileTyped, AsAsked, NoOutcome
<1>3. QED
  BY <1>1, <1>2

LEMMA LoweringIsAccounted ==
  ASSUME CompileInv
  PROVE  LoweringAccounted
<1> SUFFICES ASSUME task.entry # "concrete", cstep = "stopped", outcome.stopped # "mapped_micro"
             PROVE  tally.target + tally.reference = Len(Placements)
  BY DEF LoweringAccounted
<1>1. Books /\ groups = <<>>
  BY DEF CompileInv, Booked, Lowered, Books
<1>2. Pending = {}
  BY <1>1 DEF Pending
<1>3. Settled = DOMAIN Placements
  BY <1>2 DEF Settled
<1>4. Placements \in Seq(Range(Placements))
  BY TasksAssumption DEF CompileInv, CompileTyped, IsTask, IsPlan, Placements
<1>5. Cardinality(DOMAIN Placements) = Len(Placements)
  BY <1>4, DomainFinite
<1>6. QED
  BY <1>1, <1>3, <1>5 DEF Books

\* An access the target covers has its bounded form where it may fall short.
LEMMA ShortAccessBounded ==
  ASSUME IsBody(clone), NEW ids, NEW bundle, BoundaryVerifies(bundle, ids), NEW i \in Range(ids), i \in DOMAIN clone,
         NEW e \in DOMAIN clone[i].valid, clone[i].valid[e] # <<"constant", clone[i].capacity[e]>>
  PROVE  BoundedForm[clone[i].op] \in Target.emitters[bundle.emitter].bounded
<1>1. clone[i].op \in {"tile_load", "tile_store", "mma"}
  <2>1. clone[i].op \in DOMAIN BoundedForm
    BY DEF IsBody, IsOperation
  <2>2. QED
    BY <2>1 DEF BoundedForm
<1>2. NeedsBounded(clone[i].valid, clone[i].capacity) /\ clone[i].valid # <<>>
  <2>1. NeedsBounded(clone[i].valid, clone[i].capacity)
    BY DEF NeedsBounded, ProvenFull
  <2>2. clone[i].valid # <<>>
    OBVIOUS
  <2>3. QED
    BY <2>1, <2>2
<1>3. OperationBoundary(clone[i]) = {BoundedForm[clone[i].op]}
  BY <1>1, <1>2 DEF OperationBoundary, BoundedForm
<1>4. BoundedForm[clone[i].op] \in BoundaryRequirements(ids)
  BY <1>3 DEF BoundaryRequirements
<1>5. QED
  BY <1>4 DEF BoundaryVerifies

LEMMA SelectedIsOfTarget ==
  ASSUME CompileInv
  PROVE  SelectedIsTarget
<1> SUFFICES ASSUME Selected, outcome.stopped \in {"lowered", "executable"}
             PROVE  /\ UNION {NodesOf(handed[h].ids) : h \in DOMAIN handed} = PlacedNodes
                    /\ tally.target = Len(Placements) /\ tally.realized # 0
                    /\ \A h \in Range(handed) : \A i \in Range(h.ids) : \A e \in DOMAIN clone[i].valid :
                          clone[i].valid[e] # <<"constant", clone[i].capacity[e]>> =>
                              BoundedForm[clone[i].op] \in Target.emitters[h.bundle.emitter].bounded
  BY DEF SelectedIsTarget
<1>1. /\ cstep = "stopped" /\ task.entry = "mapped" /\ outcome.stopped # "mapped_micro"
      /\ IsBody(clone) /\ tally \in Tallies
  BY TasksAssumption DEF CompileInv, Held, NoOutcome, CompileTyped, IsTask
<1>2. Books /\ groups = <<>> /\ TargetCovers /\ tally.realized # 0 /\ tally.reference_groups = 0
  BY <1>1 DEF CompileInv, Booked, Lowered, Books, Covered, Credited
<1>3. Pending = {}
  BY <1>2 DEF Pending
<1>4. HandedTo = Instances /\ tally.reference = 0
  BY <1>2, <1>3 DEF Books
<1>5. tally.target = Len(Placements)
  <2>1. tally.target + tally.reference = Len(Placements)
    BY <1>1, LoweringIsAccounted DEF LoweringAccounted
  <2>2. tally.target \in Nat
    BY <1>1 DEF Tallies
  <2>3. QED
    BY <1>4, <2>1, <2>2
<1>6. UNION {NodesOf(handed[h].ids) : h \in DOMAIN handed} = PlacedNodes
  <2>1. ASSUME NEW h \in DOMAIN handed
        PROVE  NodesOf(handed[h].ids) = {Placements[i].node : i \in PlacedOn(handed[h].instance)}
    <3>1. handed[h] \in Range(handed)
      BY DEF Range
    <3>2. QED
      BY <3>1, HandedGroup DEF WholeGroup
  <2>2. ASSUME NEW h \in DOMAIN handed, NEW n \in NodesOf(handed[h].ids) PROVE n \in PlacedNodes
    BY <2>1 DEF PlacedNodes, PlacedOn
  <2>3. ASSUME NEW i \in DOMAIN Placements
        PROVE  \E h \in DOMAIN handed : Placements[i].node \in NodesOf(handed[h].ids)
    <3>1. PICK h \in DOMAIN handed : handed[h].instance = Placements[i].instance
      BY <1>4 DEF HandedTo, Instances
    <3>2. i \in PlacedOn(handed[h].instance)
      BY <3>1 DEF PlacedOn
    <3>3. QED
      BY <2>1, <3>2
  <2>4. QED
    BY <2>2, <2>3 DEF PlacedNodes
<1>7. ASSUME NEW h \in Range(handed), NEW i \in Range(h.ids), NEW e \in DOMAIN clone[i].valid,
             clone[i].valid[e] # <<"constant", clone[i].capacity[e]>>
      PROVE  BoundedForm[clone[i].op] \in Target.emitters[h.bundle.emitter].bounded
  <2>1. /\ h = GroupOf(h.instance) /\ h.instance \in Instances /\ h.ids = MembersOf(h.instance)
        /\ Ascends(h.ids, MembersAt(h.instance))
    BY HandedGroup
  <2>2. h.bundle = BundleOf(h.instance) /\ BoundaryVerifies(BundleOf(h.instance), h.ids)
    BY <1>2, <2>1 DEF GroupOf, TargetCovers
  <2>3. i \in DOMAIN clone
    BY <2>1 DEF Ascends, MembersAt, Mapped
  <2>4. QED
    BY <1>1, <1>7, <2>2, <2>3, ShortAccessBounded
<1>8. QED
  BY <1>2, <1>5, <1>6, <1>7

\* The contract that was checked is that of the entry, when it kept one.
LEMMA EntryContractFits ==
  ASSUME CompileInv
  PROVE  EntryFits
<1> SUFFICES ASSUME outcome.executable, NEW k \in Range(task.kernels), k.symbol = task.symbol, k.contract # <<>>
             PROVE  /\ DecodeContract(k.contract[1]) # <<>>
                    /\ LET c == DecodeContract(k.contract[1])[1] IN
                       Len(c.ports) <= MaxDescriptors /\ \A p \in Range(c.ports) : DescriptorFits(c, p)
  BY DEF EntryFits
<1> DEFINE with == {i \in DOMAIN task.kernels : task.kernels[i].contract # <<>>}
           entry == {i \in with : task.kernels[i].symbol = task.symbol}
<1>1. ExecutableContract
  <2>1. cstep = "stopped" /\ outcome.stopped = "executable"
    BY DEF CompileInv, Held, NoOutcome
  <2>2. task.entry # "hook" /\ task.stop = "executable"
    BY <2>1 DEF CompileInv, Held
  <2>3. QED
    BY <2>2 DEF CompileInv, Checked
<1>2. /\ task.kernels \in Seq(Range(task.kernels))
      /\ \A i, j \in DOMAIN task.kernels : task.kernels[i].symbol = task.kernels[j].symbol => i = j
  BY TasksAssumption DEF CompileInv, CompileTyped, IsTask
<1>3. PICK n \in DOMAIN task.kernels : k = task.kernels[n]
  BY DEF Range
<1>4. n \in entry /\ entry # {} /\ with # {}
  BY <1>3
<1>5. Max(entry) \in entry
  <2>1. Len(task.kernels) \in Nat /\ DOMAIN task.kernels = 1 .. Len(task.kernels)
    BY <1>2, LenProperties
  <2>2. entry \subseteq 1 .. Len(task.kernels)
    BY <2>1
  <2> HIDE DEF entry
  <2>3. QED
    BY <1>4, <2>1, <2>2, MaxMember
<1>6. CheckedContract = task.kernels[Max(entry)].contract
  BY <1>4 DEF CheckedContract
<1>7. Max(entry) = n
  BY <1>2, <1>3, <1>5
<1>8. CheckedContract = k.contract /\ CheckedContract # <<>>
  BY <1>3, <1>6, <1>7
<1>9. QED
  BY <1>1, <1>8 DEF ExecutableContract, Range

-----------------------------------------------------------------------------
(* The steps                                                               *)

\* What is said of the module and the plan stays while they do.
LEMMA SameModule ==
  ASSUME task' = task, clone' = clone
  PROVE  /\ Found' = Found /\ Instances' = Instances /\ Placements' = Placements
         /\ RecordsAgree' = RecordsAgree /\ TargetCovers' = TargetCovers
         /\ AllBundlesVerify' = AllBundlesVerify /\ ExecutableContract' = ExecutableContract
         /\ Selected' = Selected
<1>1. /\ Instances' = Instances /\ Placements' = Placements /\ Selected' = Selected
  BY DEF Instances, Placements, Selected
<1>2. Found' = Found
  <2>1. \A i : GroupOf(i)' = GroupOf(i)
    BY SMT DEF GroupOf, Regroup, TakeReady, MembersOf, SmallestFirst, BundleOf, Touching, Mapped, Mapping,
               PlacedOn, Placements, PlacedNodes, PlacementOf, Ready, Operands
  <2>2. QED
    BY <1>1, <2>1 DEF Found
<1>3. RecordsAgree' = RecordsAgree
  BY SMT DEF RecordsAgree, Mapped, Mapping, PlacedNodes, PlacementOf, Placements
<1>4. TargetCovers' = TargetCovers
  BY SMT DEF TargetCovers, RecordsAgree, Mapped, Mapping, PlacedNodes, PlacementOf, Placements, Instances,
             MembersOf, SmallestFirst, PlacedOn, CoversOperations, BundleOf, BoundaryVerifies, BundleVerifies,
             HasEmitter, Target, BoundaryRequirements, OperationBoundary
<1>5. AllBundlesVerify' = AllBundlesVerify
  BY SMT DEF AllBundlesVerify, BundleVerifies, BundleOf, HasEmitter, Target, Instances, PlacedOn, Placements
<1>6. ExecutableContract' = ExecutableContract
  BY SMT DEF ExecutableContract, CheckedContract
<1>7. QED
  BY <1>1, <1>2, <1>3, <1>4, <1>5, <1>6

LEMMA SameValidity ==
  ASSUME task' = task, clone' = clone, NEW instance, NEW ids
  PROVE  GroupValid(instance, ids)' = GroupValid(instance, ids)
BY SMT DEF GroupValid, MembersOf, SmallestFirst, Mapped, Mapping, PlacedOn, Placements, LiveOutside, EffectBetween,
           Users, Results

\* A step that leaves the lists alone.
LEMMA ListsStay ==
  ASSUME CompileInv, UNCHANGED <<task, clone, groups, handed>>, cstep' = "lower" => cstep = "lower"
  PROVE  /\ task' \in Tasks /\ IsBody(clone)' /\ groups' \in Seq(Found)' /\ handed' \in Seq(Found)'
         /\ Accepted'
<1>1. /\ task' \in Tasks /\ IsBody(clone)' /\ groups' \in Seq(Found)' /\ handed' \in Seq(Found)'
  <2>1. IsBody(clone)' = IsBody(clone)
    BY SMT DEF IsBody, IsOperation
  <2>2. QED
    BY <2>1, SameModule DEF CompileInv, CompileTyped
<1>2. Accepted'
  <2>1. Range(groups)' = Range(groups) /\ Range(handed)' = Range(handed)
    BY DEF Range
  <2>2. \A h : GroupValid(h.instance, h.ids)' = GroupValid(h.instance, h.ids)
    BY SameValidity
  <2>3. QED
    BY <2>1, <2>2, SameModule DEF CompileInv, Accepted
<1>3. QED
  BY <1>1, <1>2

\* What the caller holds after any step.
LEMMA OutcomesHold ==
  /\ NoOutcome \in Outcomes
  /\ \A stop \in Stops : \A module \in BOOLEAN :
        [stopped |-> stop, module |-> module, executable |-> ~module] \in Outcomes
<1>1. NoOutcome \in Outcomes
  BY DEF NoOutcome, Outcomes
<1>2. QED
  BY <1>1 DEF Outcomes

\* Nothing is kept of a compilation that failed but the lists.
LEMMA FailKeeps ==
  ASSUME CompileInv, UNCHANGED <<task, clone, groups, handed>>, Fail, tally' \in Tallies
  PROVE  CompileInv'
<1>1. cstep' = "failed" /\ outcome' = NoOutcome
  BY DEF Fail
<1>2. /\ task' \in Tasks /\ IsBody(clone)' /\ groups' \in Seq(Found)' /\ handed' \in Seq(Found)'
      /\ Accepted'
  BY <1>1, ListsStay
<1>3. CompileTyped'
  BY <1>1, <1>2, OutcomesHold DEF CompileTyped, CompileSteps
<1>4. Fresh' /\ Booked' /\ Covered' /\ Checked' /\ Credited' /\ StillAhead' /\ Held'
  BY <1>1 DEF Fresh, Booked, Lowering, Lowered, Covered, Checked, Credited, StillAhead, Held, NoOutcome
<1>5. QED
  BY <1>2, <1>3, <1>4 DEF CompileInv

LEMMA BeginCompileKeeps ==
  ASSUME CompileInv, BeginCompile
  PROVE  CompileInv'
<1>1. UNCHANGED <<task, clone, funcs, groups, handed, tally>> /\ cstep = "begin" /\ outcome = NoOutcome
  BY DEF BeginCompile, CompileInv, Held
<1>2. /\ task \in Tasks /\ tally \in Tallies /\ groups = <<>> /\ handed = <<>> /\ tally = NoTally
      /\ outcome \in Outcomes
      /\ task.entry \in {"mapped", "concrete", "hook"}
  BY <1>1, TasksAssumption DEF CompileInv, CompileTyped, Fresh, IsTask
<1>3. CASE Fail
  BY <1>1, <1>2, <1>3, FailKeeps
<1>4. CASE /\ UNCHANGED outcome
           /\ \/ cstep' = "bind" /\ task.entry = "mapped"
              \/ cstep' = "group" /\ task.entry = "hook"
              \/ cstep' = "finish" /\ task.entry = "concrete" /\ ~Selected
                   /\ task.stop \notin {"mapped_micro", "target_lowered"}
  <2>1. /\ task' \in Tasks /\ IsBody(clone)' /\ groups' \in Seq(Found)' /\ handed' \in Seq(Found)'
        /\ Accepted'
    BY <1>1, <1>4, ListsStay
  <2>2. CompileTyped' /\ Fresh'
    BY <1>1, <1>2, <1>4, <2>1 DEF CompileTyped, CompileSteps, Fresh, NoTally
  <2>3. Booked' /\ Covered' /\ Checked' /\ Credited' /\ Held'
    BY <1>1, <1>4 DEF Booked, Lowering, Lowered, Covered, Checked, Credited, Held, NoOutcome
  <2>4. StillAhead'
    BY <1>1, <1>4, SameModule DEF StillAhead
  <2>5. QED
    BY <2>1, <2>2, <2>3, <2>4 DEF CompileInv
<1>5. QED
  BY <1>1, <1>2, <1>3, <1>4 DEF BeginCompile

\* Stamping changes what an operation is mapped to and nothing else.
LEMMA BindKeeps ==
  ASSUME CompileInv, BindAndCover
  PROVE  CompileInv'
<1>1. UNCHANGED <<task, funcs, groups, handed, tally>> /\ cstep = "bind" /\ outcome = NoOutcome
  BY DEF BindAndCover, CompileInv, Held
<1>2. task \in Tasks /\ tally \in Tallies /\ groups = <<>> /\ handed = <<>> /\ tally = NoTally
      /\ task.entry = "mapped"
  BY <1>1 DEF CompileInv, CompileTyped, Fresh, StillAhead
<1>3. DOMAIN clone' = DOMAIN clone /\ IsBody(clone)
  BY DEF BindAndCover, CompileInv, CompileTyped
<1>4. IsBody(clone')
  <2>1. Len(clone) \in Nat /\ DOMAIN clone = 1 .. Len(clone)
    BY <1>3, LenProperties DEF IsBody
  <2>2. ASSUME NEW i \in DOMAIN clone
        PROVE  /\ DOMAIN clone'[i] = DOMAIN clone[i] /\ clone'[i].results = clone[i].results
               /\ clone'[i].args = clone[i].args /\ clone'[i].valid = clone[i].valid /\ clone'[i].op = clone[i].op
    <3>1. {"node", "op", "args", "results", "pure", "block", "valid", "capacity", "mapping"} \subseteq DOMAIN clone[i]
      BY <1>3 DEF IsBody, IsOperation
    <3>2. CASE clone[i].node \notin PlacedNodes
      <4>1. clone'[i] = clone[i]
        BY <3>2 DEF BindAndCover
      <4>2. QED
        BY <4>1
    <3>3. CASE clone[i].node \in PlacedNodes
      <4>1. \E record : clone'[i] = [clone[i] EXCEPT !.mapping = record]
        BY <3>3 DEF BindAndCover
      <4>2. QED
        BY <3>1, <4>1
    <3>4. QED
      BY <3>2, <3>3
  <2>3. clone' \in Seq(Range(clone'))
    <3>1. clone' = [i \in 1 .. Len(clone) |-> clone'[i]]
      BY <1>3, <2>1 DEF BindAndCover
    <3>2. \A i \in 1 .. Len(clone) : clone'[i] \in Range(clone')
      BY <1>3, <2>1 DEF Range
    <3>3. clone' \in [1 .. Len(clone) -> Range(clone')]
      BY <3>1, <3>2
    <3>4. QED
      BY <2>1, <3>3, IsASeq
  <2>4. ASSUME NEW i \in DOMAIN clone' PROVE IsOperation(clone', i)
    <3>1. i \in DOMAIN clone /\ IsOperation(clone, i) /\ i \in Nat
      BY <1>3, <2>1 DEF IsBody
    <3>2. ASSUME NEW a \in DOMAIN clone[i].args, clone[i].args[a][1] # 0
          PROVE  clone[i].args[a][1] \in DOMAIN clone
      <4>1. clone[i].args[a][1] \in 0 .. i - 1
        BY <3>1 DEF IsOperation
      <4>2. QED
        BY <2>1, <3>1, <3>2, <4>1
    <3>3. QED
      BY <2>2, <3>1, <3>2 DEF IsOperation
  <2>5. QED
    BY <2>3, <2>4 DEF IsBody
<1>5. Accepted' /\ groups' \in Seq(Found)' /\ handed' \in Seq(Found)'
  <2>1. Range(<<>>) = {} /\ groups' = <<>> /\ handed' = <<>> /\ cstep' # "lower"
    BY <1>1, <1>2 DEF Range, BindAndCover, Fail
  <2>2. QED
    BY <2>1, EmptySeq DEF Accepted
<1>6. cstep' \in {"cover", "failed"} /\ outcome' = NoOutcome
  BY <1>1 DEF BindAndCover, Fail
<1>7. CompileTyped' /\ Fresh'
  BY <1>1, <1>2, <1>4, <1>5, <1>6, OutcomesHold DEF CompileTyped, CompileSteps, Fresh
<1>8. Booked' /\ Covered' /\ Checked' /\ Credited' /\ Held' /\ StillAhead'
  BY <1>1, <1>2, <1>6 DEF Booked, Lowering, Lowered, Covered, Checked, Credited, Held, NoOutcome, StillAhead
<1>9. QED
  BY <1>5, <1>7, <1>8 DEF CompileInv

LEMMA CoverKeeps ==
  ASSUME CompileInv, CoverOperations \/ VerifyMapped
  PROVE  CompileInv'
<1>1. /\ UNCHANGED <<task, clone, funcs, groups, handed, tally>> /\ cstep \in {"cover", "verify"} /\ outcome = NoOutcome
      /\ task.entry = "mapped"
  BY DEF CoverOperations, VerifyMapped, CompileInv, Held, StillAhead
<1>2. task \in Tasks /\ tally \in Tallies /\ groups = <<>> /\ handed = <<>> /\ tally = NoTally
  BY <1>1 DEF CompileInv, CompileTyped, Fresh
<1>3. CASE Fail
  BY <1>1, <1>2, <1>3, FailKeeps
<1>4. CASE /\ TargetCovers
           /\ \/ cstep' = "verify" /\ outcome' = outcome /\ task.stop # "mapped_micro"
              \/ cstep' = "group" /\ outcome' = outcome /\ task.stop # "mapped_micro"
              \/ task.stop = "mapped_micro" /\ Stopped("mapped_micro", TRUE)
  <2> DEFINE stop == [stopped |-> "mapped_micro", module |-> TRUE, executable |-> ~TRUE]
  <2>1. \/ cstep' \in {"verify", "group"} /\ outcome' = NoOutcome /\ task.stop # "mapped_micro"
        \/ cstep' = "stopped" /\ outcome' = stop /\ task.stop = "mapped_micro"
    BY <1>1, <1>4 DEF Stopped
  <2>2. /\ task' \in Tasks /\ IsBody(clone)' /\ groups' \in Seq(Found)' /\ handed' \in Seq(Found)'
        /\ Accepted'
    BY <1>1, <2>1, ListsStay
  <2>3. CompileTyped' /\ Fresh'
    <3>1. stop \in Outcomes /\ NoOutcome \in Outcomes
      BY OutcomesHold DEF Stops
    <3> HIDE DEF stop
    <3>2. cstep' \in CompileSteps /\ outcome' \in Outcomes
      BY <2>1, <3>1 DEF CompileSteps
    <3>3. QED
      BY <1>1, <1>2, <2>1, <2>2, <3>2 DEF CompileTyped, Fresh
  <2>4. Booked' /\ Checked' /\ Credited' /\ Held' /\ StillAhead'
    <3>1. CASE cstep' \in {"verify", "group"} /\ outcome' = NoOutcome /\ task.stop # "mapped_micro"
      BY <1>1, <3>1 DEF Booked, Lowering, Lowered, Checked, Credited, Held, NoOutcome, StillAhead
    <3>2. CASE cstep' = "stopped" /\ outcome' = stop /\ task.stop = "mapped_micro"
      BY <1>1, <3>2 DEF Booked, Lowering, Lowered, Checked, Credited, Held, StillAhead
    <3>3. QED
      BY <2>1, <3>1, <3>2
  <2>5. Covered'
    BY <1>1, <1>4, SameModule DEF Covered
  <2>6. QED
    BY <2>2, <2>3, <2>4, <2>5 DEF CompileInv
<1>5. QED
  <2>1. CASE CoverOperations
    BY <1>1, <1>3, <1>4, <2>1 DEF CoverOperations, ReachStop
  <2>2. CASE VerifyMapped
    BY <1>1, <1>3, <1>4, <2>2 DEF VerifyMapped, CompileInv, Covered, StillAhead
  <2>3. QED
    BY <2>1, <2>2

\* The instances of a plan in order.
LEMMA InstancesInOrder ==
  ASSUME task \in Tasks
  PROVE  Ascends(SmallestFirst(Instances), Instances)
<1>1. Placements \in Seq(Range(Placements)) /\ \A i \in DOMAIN Placements : Placements[i].instance \in Nat
  BY TasksAssumption DEF IsTask, IsPlan, Placements
<1>2. Instances \subseteq Nat
  BY <1>1 DEF Instances
<1>3. IsFiniteSet(Instances)
  <2> DEFINE f == [i \in DOMAIN Placements |-> Placements[i].instance]
  <2>1. IsFiniteSet(DOMAIN Placements)
    BY <1>1, DomainFinite
  <2>2. f \in Surjection(DOMAIN Placements, Instances)
    BY DEF Surjection, Instances
  <2>3. QED
    BY ONLY <2>1, <2>2, FS_Surjection
<1>4. QED
  BY <1>2, <1>3, SmallestFirstAscends

LEMMA GroupKeeps ==
  ASSUME CompileInv, GroupOperations
  PROVE  CompileInv'
<1>1. /\ UNCHANGED <<task, clone, funcs, handed, tally>> /\ cstep = "group" /\ outcome = NoOutcome
      /\ task.entry # "concrete" /\ IsBody(clone)
  BY DEF GroupOperations, CompileInv, Held, StillAhead, CompileTyped
<1>2. task \in Tasks /\ tally \in Tallies /\ groups = <<>> /\ handed = <<>> /\ tally = NoTally
  BY <1>1 DEF CompileInv, CompileTyped, Fresh
<1>3. CASE Fail /\ UNCHANGED groups
  BY <1>1, <1>2, <1>3, FailKeeps
<1>4. CASE ~(Fail /\ UNCHANGED groups)
  <2> DEFINE order == SmallestFirst(Instances)
             found == [g \in DOMAIN order |-> GroupOf(order[g])]
  <2>1. /\ RecordsAgree /\ groups' = found /\ cstep' = "resolve" /\ outcome' = outcome
        /\ \A g \in DOMAIN found : GroupValid(found[g].instance, found[g].ids)
    BY <1>4 DEF GroupOperations
  <2>2. /\ order \in Seq(Instances) /\ Range(order) = Instances
        /\ \A m, n \in DOMAIN order : m < n => order[m] < order[n]
        /\ DOMAIN order = 1 .. Len(order) /\ Len(order) \in Nat
        /\ \A g \in DOMAIN order : order[g] \in Instances
    BY <1>2, InstancesInOrder, LenProperties, ElementOfSeq DEF Ascends
  <2> HIDE DEF order
  <2>3. DOMAIN found = DOMAIN order /\ \A g \in DOMAIN order : found[g] = GroupOf(order[g]) /\ found[g].instance = order[g]
    BY DEF GroupOf
  <2>4. found \in Seq(Found)
    <3>1. found \in [1 .. Len(order) -> Found]
      BY <2>2 DEF Found
    <3> HIDE DEF found
    <3>2. QED
      BY <2>2, <3>1, IsASeq
  <2> HIDE DEF found
  <2>5. Pending' = Instances
    <3>1. Pending' = {order[g] : g \in DOMAIN order}
      BY <2>1, <2>3 DEF Pending
    <3>2. QED
      BY <2>2, <3>1 DEF Range
  <2>6. ASSUME NEW g \in DOMAIN groups', NEW h \in DOMAIN groups', groups'[g].instance = groups'[h].instance
        PROVE  g = h
    <3>1. /\ g \in DOMAIN order /\ h \in DOMAIN order /\ order[g] = order[h]
      BY <2>1, <2>3, <2>6
    <3>2. order[g] \in Nat
      <4>1. Instances \subseteq Nat
        BY <1>2, TasksAssumption DEF IsTask, IsPlan, Placements, Instances
      <4>2. QED
        BY <2>2, <3>1, <4>1
    <3>3. QED
      BY <2>2, <3>1, <3>2
  <2>7. Settled' = {}
    BY <1>1, <2>5, SameModule DEF Settled, Instances
  <2>8. HandedTo' = {} /\ tally' = NoTally
    BY <1>1, <1>2 DEF HandedTo
  <2>9. Books'
    <3>1. Cardinality(Settled') = 0
      BY <2>7, FS_EmptySet
    <3>2. RecordsAgree' /\ Instances' = Instances
      BY <1>1, <2>1, SameModule
    <3>3. ~Lowered'
      BY <2>1 DEF Lowered
    <3>4. QED
      BY <2>5, <2>6, <2>8, <3>1, <3>2, <3>3 DEF Books, NoTally
  <2>10. Accepted'
    <3>1. Range(handed') = {} /\ handed' = <<>>
      BY <1>1, <1>2 DEF Range
    <3>2. \A h \in Range(groups') : GroupValid(h.instance, h.ids)
      BY <2>1 DEF Range
    <3>3. RecordsAgree' /\ \A h : GroupValid(h.instance, h.ids)' = GroupValid(h.instance, h.ids)
      BY <1>1, <2>1, SameModule, SameValidity
    <3>4. cstep' = "resolve"
      BY <2>1
    <3>5. QED
      BY <3>1, <3>2, <3>3, <3>4 DEF Accepted
  <2>11. CompileTyped'
    <3>1. IsBody(clone)' /\ Found' = Found
      BY <1>1, SameModule
    <3>2. handed' \in Seq(Found')
      BY <1>1, <1>2, EmptySeq
    <3>3. QED
      BY <1>1, <1>2, <2>1, <2>4, <3>1, <3>2, OutcomesHold DEF CompileTyped, CompileSteps
  <2>12. Fresh' /\ Booked' /\ Checked' /\ Credited' /\ Held' /\ StillAhead'
    BY <1>1, <2>1, <2>9 DEF Fresh, Booked, Checked, Credited, Held, NoOutcome, StillAhead, CompileInv
  <2>13. Covered'
    BY <1>1, <2>1, SameModule DEF Covered, CompileInv
  <2>14. QED
    BY <2>10, <2>11, <2>12, <2>13 DEF CompileInv
<1>5. QED
  BY <1>3, <1>4

\* Every group's bundle is that of its instance, and every instance has one.
LEMMA ResolveKeeps ==
  ASSUME CompileInv, ResolveEmitters
  PROVE  CompileInv'
<1>1. /\ UNCHANGED <<task, clone, funcs, groups, handed>> /\ cstep = "resolve" /\ outcome = NoOutcome
      /\ task.entry # "concrete"
  BY DEF ResolveEmitters, CompileInv, Held, StillAhead
<1>2. task \in Tasks /\ tally \in Tallies /\ groups \in Seq(Found) /\ Books
  BY <1>1 DEF CompileInv, CompileTyped, Booked, Lowering
<1>3. CASE Fail /\ UNCHANGED tally
  BY <1>1, <1>2, <1>3, FailKeeps
<1>4. CASE ~(Fail /\ UNCHANGED tally)
  <2>1. /\ \A g \in DOMAIN groups : BundleVerifies(groups[g].bundle)
        /\ tally' = [tally EXCEPT !.verified = @ + Len(groups)]
        /\ cstep' = "lower" /\ UNCHANGED outcome
    BY <1>4 DEF ResolveEmitters
  <2>2. tally' \in Tallies /\ tally'.target = tally.target /\ tally'.reference = tally.reference
        /\ tally'.reference_groups = tally.reference_groups /\ tally'.realized = tally.realized
    <3>1. Len(groups) \in Nat
      BY <1>2, LenProperties
    <3>2. QED
      BY <1>2, <2>1, <3>1 DEF Tallies
  <2>3. task.stop # "mapped_micro" \/ task.entry = "hook"
    BY <1>1 DEF CompileInv, StillAhead
  <2>4. AllBundlesVerify
    <3> SUFFICES ASSUME NEW instance \in Instances PROVE BundleVerifies(BundleOf(instance))
      BY DEF AllBundlesVerify
    <3>1. PICK g \in DOMAIN groups : groups[g].instance = instance
      BY <1>1, <1>2 DEF Pending, Books
    <3>2. groups[g] \in Found
      BY <1>2, <3>1, ElementOfSeq, LenProperties
    <3>3. groups[g].bundle = BundleOf(instance)
      BY <3>1, <3>2 DEF Found, GroupOf
    <3>4. QED
      BY <2>1, <3>1, <3>3
  <2>5. CompileTyped' /\ Accepted'
    <3>1. IsBody(clone)' /\ Found' = Found /\ AllBundlesVerify' /\ (RecordsAgree' <=> RecordsAgree)
      BY <1>1, <2>4, SameModule DEF CompileInv, CompileTyped
    <3>2. \A h : GroupValid(h.instance, h.ids)' = GroupValid(h.instance, h.ids)
      BY <1>1, SameValidity
    <3>3. Range(groups') = Range(groups) /\ Range(handed') = Range(handed)
      BY <1>1
    <3>4. Accepted'
      BY <1>1, <3>1, <3>2, <3>3 DEF CompileInv, Accepted
    <3>5. CompileTyped'
      BY <1>1, <1>2, <2>1, <2>2, <3>1 DEF CompileInv, CompileTyped, CompileSteps
    <3>6. QED
      BY <3>4, <3>5
  <2>6. Booked'
    <3>1. Settled' = Settled /\ Pending' = Pending /\ HandedTo' = HandedTo /\ Instances' = Instances
      BY <1>1, SameModule DEF Settled, Pending, HandedTo
    <3>2. RecordsAgree' /\ ~Lowered' /\ cstep' # "resolve"
      BY <1>1, <1>2, <2>1, SameModule DEF Books, Lowered
    <3>3. Books'
      BY <1>1, <1>2, <2>2, <3>1, <3>2 DEF Books
    <3>4. QED
      BY <3>3 DEF Booked
  <2>7. Fresh' /\ Checked' /\ Credited' /\ StillAhead' /\ Held'
    BY <1>1, <2>1, <2>3 DEF Fresh, Checked, Credited, Held, NoOutcome, StillAhead, CompileInv
  <2>8. Covered'
    BY <1>1, <2>1, SameModule DEF Covered, CompileInv
  <2>9. QED
    BY <2>5, <2>6, <2>7, <2>8 DEF CompileInv
<1>5. QED
  BY <1>3, <1>4

\* The group an emitter is asked about next, and what is left after it.
LEMMA NextGroup ==
  ASSUME CompileInv, cstep = "lower", groups # <<>>, NEW g, g = Head(groups), NEW rest, rest = Tail(groups)
  PROVE  /\ g \in Found /\ g \in Range(groups) /\ g.instance \in Instances /\ Len(g.ids) \in Nat
         /\ rest \in Seq(Found) /\ Range(rest) \subseteq Range(groups)
         /\ g.instance \in Pending /\ {rest[k].instance : k \in DOMAIN rest} = Pending \ {g.instance}
         /\ \A k, l \in DOMAIN rest : rest[k].instance = rest[l].instance => k = l
         /\ Cardinality({i \in DOMAIN Placements : Placements[i].instance \notin Pending \ {g.instance}})
              = Cardinality(Settled) + Len(g.ids)
         /\ Cardinality(Settled) \in Nat
<1>1. task \in Tasks /\ groups \in Seq(Found) /\ Books
  BY DEF CompileInv, CompileTyped, Booked, Lowering, StillAhead
<1> HIDE DEF Found
<1>2. /\ rest \in Seq(Found) /\ Len(groups) \in Nat /\ Len(groups) > 0 /\ DOMAIN groups = 1 .. Len(groups)
      /\ DOMAIN rest = 1 .. Len(groups) - 1 /\ g = groups[1]
      /\ \A k \in 1 .. Len(groups) - 1 : rest[k] = groups[k + 1]
  BY <1>1, HeadTailProperties, LenProperties, EmptySeq
<1>3. 1 \in DOMAIN groups /\ g \in Range(groups) /\ g \in Found
  BY <1>1, <1>2, ElementOfSeq DEF Range
<1>4. \A k \in DOMAIN rest : k + 1 \in DOMAIN groups /\ k + 1 # 1 /\ rest[k] = groups[k + 1]
  BY <1>2
<1>5. \A n \in DOMAIN groups : n # 1 => n - 1 \in DOMAIN rest /\ rest[n - 1] = groups[n]
  BY <1>2
<1>6. Range(rest) \subseteq Range(groups)
  BY <1>4 DEF Range
<1>7. \A n, m \in DOMAIN groups : groups[n].instance = groups[m].instance => n = m
  BY <1>1 DEF Books
<1>8. {rest[k].instance : k \in DOMAIN rest} = Pending \ {g.instance}
  <2>1. ASSUME NEW k \in DOMAIN rest PROVE rest[k].instance \in Pending \ {g.instance}
    BY <1>2, <1>3, <1>4, <1>7 DEF Pending
  <2>2. ASSUME NEW x \in Pending \ {g.instance} PROVE \E k \in DOMAIN rest : rest[k].instance = x
    <3>1. PICK n \in DOMAIN groups : groups[n].instance = x
      BY DEF Pending
    <3>2. n # 1
      BY <1>2, <3>1
    <3>3. QED
      BY <1>5, <3>1, <3>2
  <2>3. QED
    BY <2>1, <2>2
<1>9. \A k, l \in DOMAIN rest : rest[k].instance = rest[l].instance => k = l
  <2> SUFFICES ASSUME NEW k \in DOMAIN rest, NEW l \in DOMAIN rest, rest[k].instance = rest[l].instance
               PROVE  k = l
    OBVIOUS
  <2>1. k + 1 = l + 1
    BY <1>4, <1>7
  <2>2. QED
    BY <1>2, <2>1
<1>10. g.instance \in Pending /\ g.instance \in Instances
  BY <1>2, <1>3 DEF Pending, Found, GroupOf
<1>11. Len(g.ids) = Cardinality(PlacedOn(g.instance))
  BY <1>3 DEF CompileInv, Accepted, GroupValid
<1>12. IsFiniteSet(DOMAIN Placements)
  BY <1>1, DomainFinite, TasksAssumption DEF IsTask, IsPlan, Placements
<1>13. /\ IsFiniteSet(PlacedOn(g.instance)) /\ IsFiniteSet(Settled)
  <2>1. PlacedOn(g.instance) \in SUBSET DOMAIN Placements /\ Settled \in SUBSET DOMAIN Placements
    BY DEF PlacedOn, Settled
  <2>2. QED
    BY ONLY <1>12, <2>1, FS_Subset
<1>14. {i \in DOMAIN Placements : Placements[i].instance \notin Pending \ {g.instance}} = Settled \cup PlacedOn(g.instance)
  BY <1>10 DEF Settled, PlacedOn
<1>15. Settled \cap PlacedOn(g.instance) = {}
  BY <1>10 DEF Settled, PlacedOn
<1>16. Cardinality(Settled \cup PlacedOn(g.instance)) = Cardinality(Settled) + Cardinality(PlacedOn(g.instance))
  <2> DEFINE A == Settled
             B == PlacedOn(g.instance)
  <2>1. IsFiniteSet(A) /\ IsFiniteSet(B) /\ A \cap B = {}
    BY <1>13, <1>15
  <2> HIDE DEF A, B
  <2>2. Cardinality(A) \in Nat /\ Cardinality(B) \in Nat
    BY ONLY <2>1, FS_CardinalityType
  <2>3. Cardinality(A \cup B) = Cardinality(A) + Cardinality(B) - Cardinality(A \cap B)
    BY ONLY <2>1, FS_Union
  <2>4. Cardinality(A \cap B) = 0
    BY ONLY <2>1, FS_EmptySet
  <2>5. Cardinality(A \cup B) = Cardinality(A) + Cardinality(B)
    BY ONLY <2>2, <2>3, <2>4
  <2>6. QED
    BY <2>5 DEF A, B
<1>17. Len(g.ids) \in Nat /\ Cardinality(Settled) \in Nat
  BY <1>11, <1>13, FS_CardinalityType
<1>18. QED
  BY <1>2, <1>3, <1>6, <1>8, <1>9, <1>10, <1>11, <1>14, <1>16, <1>17

\* One group is done: rewritten, or left to the bridge, or the compilation failed.
LEMMA LowerGroupKeeps ==
  ASSUME CompileInv, LowerGroup
  PROVE  CompileInv'
<1> DEFINE g == Head(groups)
           rest == Tail(groups)
<1>1. /\ UNCHANGED <<task, clone, funcs>> /\ cstep = "lower" /\ outcome = NoOutcome /\ groups # <<>>
      /\ groups' = rest /\ task.entry # "concrete"
  BY DEF LowerGroup, CompileInv, Held, StillAhead
<1>2. /\ task \in Tasks /\ tally \in Tallies /\ handed \in Seq(Found) /\ Books /\ AllBundlesVerify /\ IsBody(clone)
  BY <1>1 DEF CompileInv, CompileTyped, Booked, Lowering, Accepted
<1> HIDE DEF g, rest, Found
<1>3. /\ g \in Found /\ g \in Range(groups) /\ g.instance \in Instances /\ Len(g.ids) \in Nat
      /\ rest \in Seq(Found) /\ Range(rest) \subseteq Range(groups)
      /\ g.instance \in Pending /\ {rest[k].instance : k \in DOMAIN rest} = Pending \ {g.instance}
      /\ \A k, l \in DOMAIN rest : rest[k].instance = rest[l].instance => k = l
      /\ Cardinality({i \in DOMAIN Placements : Placements[i].instance \notin Pending \ {g.instance}})
           = Cardinality(Settled) + Len(g.ids)
      /\ Cardinality(Settled) \in Nat
  BY <1>1, NextGroup DEF g, rest
<1> DEFINE bridged == [tally EXCEPT !.reference = @ + Len(g.ids), !.reference_groups = @ + 1]
           rewritten == [tally EXCEPT !.target = @ + Len(g.ids)]
<1>4. /\ bridged \in Tallies /\ rewritten \in Tallies
      /\ bridged.reference_groups = tally.reference_groups + 1 /\ tally.reference_groups \in Nat
      /\ bridged.target + bridged.reference = tally.target + tally.reference + Len(g.ids)
      /\ rewritten.target + rewritten.reference = tally.target + tally.reference + Len(g.ids)
      /\ rewritten.reference_groups = tally.reference_groups /\ rewritten.reference = tally.reference
  <2> DEFINE n == Len(g.ids)
  <2>1. /\ tally.reference \in Nat /\ tally.target \in Nat /\ tally.reference_groups \in Nat /\ n \in Nat
        /\ DOMAIN tally = {"verified", "target", "reference", "reference_groups", "realized"}
    BY <1>2, <1>3 DEF Tallies
  <2> HIDE DEF n
  <2>2. /\ bridged = [tally EXCEPT !.reference = @ + n, !.reference_groups = @ + 1]
        /\ rewritten = [tally EXCEPT !.target = @ + n]
    BY DEF n
  <2> HIDE DEF bridged, rewritten
  <2>3. /\ bridged.reference = tally.reference + n /\ bridged.reference_groups = tally.reference_groups + 1
        /\ bridged.target = tally.target
    BY <2>1, <2>2
  <2>4. /\ rewritten.reference = tally.reference /\ rewritten.reference_groups = tally.reference_groups
        /\ rewritten.target = tally.target + n
    BY <2>1, <2>2
  <2>5. bridged \in Tallies /\ rewritten \in Tallies
    <3>1. tally.verified \in Nat /\ tally.realized \in Nat
      BY <1>2 DEF Tallies
    <3>2. bridged = [verified |-> tally.verified, target |-> tally.target, reference |-> tally.reference + n,
                     reference_groups |-> tally.reference_groups + 1, realized |-> tally.realized]
      BY <1>2, <2>1, <2>2 DEF Tallies
    <3>3. rewritten = [verified |-> tally.verified, target |-> tally.target + n, reference |-> tally.reference,
                       reference_groups |-> tally.reference_groups, realized |-> tally.realized]
      BY <1>2, <2>1, <2>2 DEF Tallies
    <3>4. /\ tally.reference + n \in Nat /\ tally.reference_groups + 1 \in Nat /\ tally.target + n \in Nat
      BY <2>1
    <3>5. QED
      BY <2>1, <3>1, <3>2, <3>3, <3>4 DEF Tallies
  <2>6. QED
    BY <2>1, <2>3, <2>4, <2>5 DEF n
<1>5. \/ tally' = bridged /\ UNCHANGED <<cstep, handed, outcome>>
      \/ Fail /\ UNCHANGED <<tally, handed>>
      \/ handed' = Append(handed, g) /\ tally' = rewritten /\ UNCHANGED <<cstep, outcome>>
  BY DEF LowerGroup, g, bridged, rewritten
<1> HIDE DEF bridged, rewritten
<1>6. /\ handed' \in Seq(Found) /\ Range(handed') \subseteq Range(handed) \cup {g}
      /\ handed' = Append(handed, g) => HandedTo' = HandedTo \cup {g.instance}
  <2>1. CASE handed' = handed
    <3>1. handed' # Append(handed, g)
      BY <1>2, <1>3, <2>1, AppendProperties, LenProperties
    <3>2. QED
      BY <1>2, <2>1, <3>1
  <2>2. CASE handed' = Append(handed, g)
    <3>1. /\ handed' \in Seq(Found) /\ DOMAIN handed = 1 .. Len(handed) /\ Len(handed) \in Nat
          /\ DOMAIN handed' = 1 .. Len(handed) + 1
          /\ \A k \in 1 .. Len(handed) : handed'[k] = handed[k]
          /\ handed'[Len(handed) + 1] = g
      BY <1>2, <1>3, <2>2, AppendProperties, LenProperties
    <3>2. \A k \in DOMAIN handed' : (k \in DOMAIN handed /\ handed'[k] = handed[k]) \/ k = Len(handed) + 1
      BY <3>1
    <3>3. \A k \in DOMAIN handed : k \in DOMAIN handed' /\ handed'[k] = handed[k]
      BY <3>1
    <3>4. Len(handed) + 1 \in DOMAIN handed'
      BY <3>1
    <3>5. HandedTo' = HandedTo \cup {g.instance}
      BY <3>1, <3>2, <3>3, <3>4 DEF HandedTo
    <3>6. QED
      BY <3>1, <3>2, <3>5 DEF Range
  <2>3. QED
    BY <1>5, <2>1, <2>2
<1>7. Found' = Found /\ Instances' = Instances /\ RecordsAgree' /\ AllBundlesVerify' /\ IsBody(clone)'
  BY <1>1, <1>2, SameModule DEF Books
<1>8. Accepted'
  <2>1. \A h : GroupValid(h.instance, h.ids)' = GroupValid(h.instance, h.ids)
    BY <1>1, SameValidity
  <2>2. \A h \in Range(groups) \cup Range(handed) : GroupValid(h.instance, h.ids)
    BY DEF CompileInv, Accepted
  <2>3. Range(groups') \cup Range(handed') \subseteq Range(groups) \cup Range(handed)
    BY <1>1, <1>3, <1>6
  <2>4. QED
    BY <1>7, <2>1, <2>2, <2>3 DEF Accepted
<1>9. CASE Fail
  <2>1. cstep' = "failed" /\ outcome' = NoOutcome
    BY <1>9 DEF Fail
  <2>2. CompileTyped'
    BY <1>1, <1>2, <1>3, <1>5, <1>4, <1>6, <1>7, <2>1, OutcomesHold DEF CompileTyped, CompileSteps
  <2>3. Fresh' /\ Booked' /\ Covered' /\ Checked' /\ Credited' /\ StillAhead' /\ Held'
    BY <2>1 DEF Fresh, Booked, Lowering, Lowered, Covered, Checked, Credited, StillAhead, Held, NoOutcome
  <2>4. QED
    BY <1>8, <2>2, <2>3 DEF CompileInv
<1>10. CASE cstep' = "lower" /\ outcome' = outcome
                /\ ~(tally' = tally /\ handed' = handed)
  <2>1. CompileTyped'
    BY <1>1, <1>2, <1>3, <1>5, <1>4, <1>6, <1>7, <1>10, OutcomesHold DEF CompileTyped, CompileSteps
  <2>2. Pending' = Pending \ {g.instance}
    BY <1>1, <1>3 DEF Pending
  <2>3. Settled' = {i \in DOMAIN Placements : Placements[i].instance \notin Pending \ {g.instance}}
    BY <1>1, <2>2 DEF Settled, Placements
  <2>4. Books'
    <3>1. tally'.target + tally'.reference = tally.target + tally.reference + Len(g.ids)
      BY <1>5, <1>4, <1>10 DEF Fail
    <3>2. tally'.target + tally'.reference = Cardinality(Settled')
      BY <1>2, <1>3, <2>3, <3>1 DEF Books
    <3>3. tally'.reference_groups = 0 => tally'.reference = 0 /\ HandedTo' = Instances \ Pending'
      <4>1. CASE tally' = bridged
        BY <1>4, <4>1
      <4>2. CASE handed' = Append(handed, g) /\ tally' = rewritten
        <5>1. tally'.reference_groups = tally.reference_groups /\ tally'.reference = tally.reference
          BY <1>4, <4>2
        <5>2. HandedTo' = HandedTo \cup {g.instance}
          BY <1>6, <4>2
        <5>3. QED
          BY <1>2, <1>3, <2>2, <5>1, <5>2 DEF Books
      <4>3. QED
        BY <1>5, <1>10, <4>1, <4>2 DEF Fail
    <3>4. ~Lowered'
      BY <1>10 DEF Lowered
    <3>5. QED
      BY <1>1, <1>3, <1>7, <1>10, <3>2, <3>3, <3>4 DEF Books
  <2>5. Fresh' /\ Booked' /\ Checked' /\ Credited' /\ StillAhead' /\ Held'
    BY <1>1, <1>10, <2>4 DEF Fresh, Booked, Checked, Credited, StillAhead, Held, NoOutcome, CompileInv
  <2>6. Covered'
    BY <1>1, <1>10, SameModule DEF Covered, CompileInv
  <2>7. QED
    BY <1>8, <2>1, <2>5, <2>6 DEF CompileInv
<1>11. QED
  <2>1. CASE tally' = bridged /\ UNCHANGED <<cstep, handed, outcome>>
    <3>1. tally' # tally
      BY <1>4, <2>1
    <3>2. QED
      BY <1>1, <1>10, <2>1, <3>1
  <2>2. CASE handed' = Append(handed, g) /\ UNCHANGED <<cstep, outcome>>
    <3>1. handed' # handed
      BY <1>2, <1>3, <2>2, AppendProperties, LenProperties
    <3>2. QED
      BY <1>1, <1>10, <2>2, <3>1
  <2>3. QED
    BY <1>5, <1>9, <2>1, <2>2

\* A step after the last group leaves the groups and their count as they are.
LEMMA CountStays ==
  ASSUME CompileInv, UNCHANGED <<task, clone, groups, handed>>,
         cstep \in {"lower", "finish", "backend", "entry"}, cstep = "lower" => groups = <<>>,
         cstep' \in {"finish", "backend", "entry", "stopped"}, outcome' \in Outcomes, tally' \in Tallies,
         tally'.target = tally.target, tally'.reference = tally.reference,
         tally'.reference_groups = tally.reference_groups
  PROVE  CompileTyped' /\ Fresh' /\ Accepted' /\ Booked' /\ Covered'
<1>1. /\ task' \in Tasks /\ IsBody(clone)' /\ groups' \in Seq(Found)' /\ handed' \in Seq(Found)'
      /\ Accepted'
  BY ListsStay
<1>2. CompileTyped' /\ Fresh'
  BY <1>1 DEF CompileTyped, CompileSteps, Fresh
<1>3. Covered'
  BY SameModule DEF Covered, CompileInv
<1>4. Booked'
  <2> SUFFICES ASSUME task.entry # "concrete" PROVE Books'
    BY DEF Booked
  <2>1. Books /\ groups = <<>>
    BY DEF CompileInv, Booked, Lowering, Lowered, Books
  <2>2. Settled' = Settled /\ Pending' = Pending /\ HandedTo' = HandedTo /\ Instances' = Instances
    BY SameModule DEF Settled, Pending, HandedTo
  <2>3. RecordsAgree'
    BY <2>1, SameModule DEF Books
  <2>4. cstep' # "resolve" /\ groups' = <<>>
    BY <2>1
  <2>5. QED
    BY <2>1, <2>2, <2>3, <2>4 DEF Books
<1>5. QED
  BY <1>1, <1>2, <1>3, <1>4

LEMMA EndLoweringKeeps ==
  ASSUME CompileInv, EndLowering
  PROVE  CompileInv'
<1> DEFINE stop == [stopped |-> "target_lowered", module |-> TRUE, executable |-> ~TRUE]
<1>1. /\ UNCHANGED <<task, clone, funcs, groups, handed, tally>> /\ cstep = "lower" /\ outcome = NoOutcome
      /\ groups = <<>> /\ task.entry # "concrete"
  BY DEF EndLowering, CompileInv, Held, StillAhead
<1>2. \/ cstep' = "finish" /\ outcome' = NoOutcome /\ task.stop # "target_lowered" /\ task.entry # "hook"
      \/ cstep' = "stopped" /\ outcome' = stop /\ (task.entry = "hook" \/ task.stop = "target_lowered")
  BY <1>1 DEF EndLowering, ReachStop, Stopped
<1>3. tally \in Tallies /\ outcome' \in Outcomes
  <2>1. stop \in Outcomes /\ NoOutcome \in Outcomes
    BY OutcomesHold DEF Stops
  <2> HIDE DEF stop
  <2>2. QED
    BY <1>2, <2>1 DEF CompileInv, CompileTyped
<1>4. CompileTyped' /\ Fresh' /\ Accepted' /\ Booked' /\ Covered'
  <2> HIDE DEF stop
  <2>1. cstep' \in {"finish", "backend", "entry", "stopped"}
    BY <1>2
  <2>2. QED
    BY <1>1, <1>3, <2>1, CountStays
<1>5. Checked' /\ Credited' /\ StillAhead' /\ Held'
  <2>1. CASE cstep' = "finish" /\ outcome' = NoOutcome /\ task.stop # "target_lowered" /\ task.entry # "hook"
    BY <1>1, <2>1 DEF Checked, Credited, StillAhead, Held, NoOutcome, CompileInv
  <2>2. CASE cstep' = "stopped" /\ outcome' = stop /\ (task.entry = "hook" \/ task.stop = "target_lowered")
    BY <1>1, <2>2 DEF Checked, Credited, StillAhead, Held
  <2>3. QED
    BY <1>2, <2>1, <2>2
<1>6. QED
  BY <1>4, <1>5 DEF CompileInv

LEMMA StripAndCheckKeeps ==
  ASSUME CompileInv, StripAndCheck
  PROVE  CompileInv'
<1>1. /\ UNCHANGED <<task, clone, groups, handed, tally>> /\ cstep = "finish" /\ outcome = NoOutcome
      /\ tally \in Tallies
  BY DEF StripAndCheck, CompileInv, Held, CompileTyped
<1>2. CASE Fail
  BY <1>1, <1>2, FailKeeps
<1>3. CASE cstep' = "backend" /\ outcome' = outcome /\ (task.stop = "executable" => ExecutableContract)
  <2>1. CompileTyped' /\ Fresh' /\ Accepted' /\ Booked' /\ Covered'
    BY <1>1, <1>3, CountStays, OutcomesHold
  <2>2. Checked' /\ Credited' /\ StillAhead' /\ Held'
    BY <1>1, <1>3, SameModule DEF Checked, Credited, StillAhead, Held, NoOutcome, CompileInv
  <2>3. QED
    BY <2>1, <2>2 DEF CompileInv
<1>4. QED
  BY <1>2, <1>3 DEF StripAndCheck

\* The count of what the backend realized is all that is added to the tally.
LEMMA LowerToBackendKeeps ==
  ASSUME CompileInv, LowerToBackend
  PROVE  CompileInv'
<1> DEFINE stop == [stopped |-> "lowered", module |-> TRUE, executable |-> ~TRUE]
<1>1. /\ UNCHANGED <<task, clone, funcs, groups, handed>> /\ cstep = "backend" /\ outcome = NoOutcome
      /\ tally \in Tallies /\ handed \in Seq(Found) /\ task \in Tasks
  BY DEF LowerToBackend, CompileInv, Held, CompileTyped
<1>2. PICK realized \in Nat :
        /\ tally' = [tally EXCEPT !.realized = realized]
        /\ \/ Fail
           \/ /\ ReachStop("lowered", "entry")
              /\ Selected => realized # 0 /\ tally.reference_groups = 0
  <2>1. PICK realized \in IF Selected THEN 0 .. Len(handed) ELSE {0} :
          /\ tally' = [tally EXCEPT !.realized = realized]
          /\ \/ Fail
             \/ /\ ReachStop("lowered", "entry")
                /\ Selected => realized # 0 /\ tally.reference_groups = 0
    BY Zenon DEF LowerToBackend
  <2>2. Len(handed) \in Nat
    BY <1>1, LenProperties
  <2>3. realized \in Nat
    BY <2>2
  <2>4. QED
    BY <2>1, <2>3
<1>3. /\ tally' \in Tallies /\ tally'.target = tally.target /\ tally'.reference = tally.reference
      /\ tally'.reference_groups = tally.reference_groups /\ tally'.realized = realized
  BY <1>1, <1>2 DEF Tallies
<1>4. CASE Fail
  BY <1>1, <1>3, <1>4, FailKeeps
<1>5. CASE ReachStop("lowered", "entry") /\ (Selected => realized # 0 /\ tally.reference_groups = 0)
  <2>1. \/ cstep' = "entry" /\ outcome' = NoOutcome /\ task.stop # "lowered"
        \/ cstep' = "stopped" /\ outcome' = stop /\ task.stop = "lowered"
    BY <1>1, <1>5 DEF ReachStop, Stopped
  <2>2. outcome' \in Outcomes
    <3>1. stop \in Outcomes /\ NoOutcome \in Outcomes
      BY OutcomesHold DEF Stops
    <3> HIDE DEF stop
    <3>2. QED
      BY <2>1, <3>1
  <2>3. CompileTyped' /\ Fresh' /\ Accepted' /\ Booked' /\ Covered'
    <3> HIDE DEF stop
    <3>1. cstep' \in {"finish", "backend", "entry", "stopped"}
      BY <2>1
    <3>2. QED
      BY <1>1, <1>3, <2>2, <3>1, CountStays
  <2>4. Credited'
    BY <1>1, <1>3, <1>5, SameModule DEF Credited
  <2>5. Checked' /\ StillAhead' /\ Held'
    <3>1. /\ task.entry # "hook" /\ task.stop # "target_lowered" /\ task.stop # "mapped_micro"
          /\ task.entry = "concrete" => ~Selected
          /\ task.stop = "executable" => ExecutableContract
      BY <1>1 DEF CompileInv, StillAhead, Checked
    <3>2. Selected' = Selected /\ ExecutableContract' = ExecutableContract /\ task' = task
      BY <1>1, SameModule
    <3>3. CASE cstep' = "entry" /\ outcome' = NoOutcome /\ task.stop # "lowered"
      <4>1. task.stop = "executable"
        BY <1>1, <3>1, <3>3, TasksAssumption DEF IsTask
      <4>2. QED
        BY <3>1, <3>2, <3>3, <4>1 DEF Checked, StillAhead, Held, NoOutcome
    <3>4. CASE cstep' = "stopped" /\ outcome' = stop /\ task.stop = "lowered"
      BY <3>1, <3>2, <3>4 DEF Checked, StillAhead, Held
    <3>5. QED
      BY <2>1, <3>3, <3>4
  <2>6. QED
    BY <2>3, <2>4, <2>5 DEF CompileInv
<1>6. QED
  BY <1>2, <1>4, <1>5

LEMMA MakeExecutableKeeps ==
  ASSUME CompileInv, MakeExecutable
  PROVE  CompileInv'
<1> DEFINE stop == [stopped |-> "executable", module |-> FALSE, executable |-> ~FALSE]
<1>1. /\ UNCHANGED <<task, clone, funcs, groups, handed, tally>> /\ cstep = "entry" /\ outcome = NoOutcome
      /\ tally \in Tallies
  BY DEF MakeExecutable, CompileInv, Held, CompileTyped
<1>2. CASE Fail
  BY <1>1, <1>2, FailKeeps
<1>3. CASE Stopped("executable", FALSE)
  <2>1. cstep' = "stopped" /\ outcome' = stop
    BY <1>3 DEF Stopped
  <2>2. outcome' \in Outcomes
    BY <2>1, OutcomesHold DEF Stops
  <2>3. CompileTyped' /\ Fresh' /\ Accepted' /\ Booked' /\ Covered'
    BY <1>1, <2>1, <2>2, CountStays
  <2>4. /\ task.entry # "hook" /\ task.stop = "executable" /\ ExecutableContract
        /\ task.entry = "concrete" => ~Selected
        /\ Selected => tally.realized # 0 /\ tally.reference_groups = 0
    BY <1>1 DEF CompileInv, StillAhead, Checked, Credited
  <2>5. Selected' = Selected /\ ExecutableContract' = ExecutableContract /\ task' = task /\ tally' = tally
    BY <1>1, SameModule
  <2>6. Checked' /\ Credited' /\ StillAhead' /\ Held'
    BY <2>1, <2>4, <2>5 DEF Checked, Credited, StillAhead, Held
  <2>7. QED
    BY <2>3, <2>6 DEF CompileInv
<1>4. QED
  BY <1>2, <1>3 DEF MakeExecutable

LEMMA CompileInitInv ==
  ASSUME CompileInit
  PROVE  CompileInv
<1>1. /\ task \in Tasks /\ cstep = "begin" /\ clone = task.ops /\ groups = <<>> /\ handed = <<>>
      /\ tally = NoTally /\ outcome = NoOutcome
  BY DEF CompileInit
<1>2. IsBody(clone)
  BY <1>1, TasksAssumption DEF IsTask
<1>3. CompileTyped
  <2>1. NoTally \in Tallies
    BY DEF NoTally, Tallies
  <2>2. groups \in Seq(Found) /\ handed \in Seq(Found)
    BY <1>1, EmptySeq
  <2>3. QED
    BY <1>1, <1>2, <2>1, <2>2, OutcomesHold DEF CompileTyped, CompileSteps
<1>4. Accepted
  <2>1. Range(<<>>) = {}
    BY EmptySeq DEF Range
  <2>2. QED
    BY <1>1, <2>1 DEF Accepted
<1>5. Fresh /\ Booked /\ Covered /\ Checked /\ Credited /\ StillAhead /\ Held
  BY <1>1 DEF Fresh, Booked, Lowering, Lowered, Covered, Checked, Credited, StillAhead, Held, NoOutcome
<1>6. QED
  BY <1>3, <1>4, <1>5 DEF CompileInv

LEMMA CompileStays ==
  ASSUME CompileInv, UNCHANGED compileVars
  PROVE  CompileInv'
<1>1. UNCHANGED <<task, cstep, clone, funcs, groups, handed, tally, outcome>>
  BY DEF compileVars
<1>2. /\ task' \in Tasks /\ IsBody(clone)' /\ groups' \in Seq(Found)' /\ handed' \in Seq(Found)'
      /\ Accepted'
  BY <1>1, ListsStay
<1>3. CompileTyped' /\ Fresh'
  BY <1>1, <1>2 DEF CompileTyped, Fresh, CompileInv
<1>4. Covered' /\ Checked' /\ Credited' /\ StillAhead' /\ Held'
  BY <1>1, SameModule DEF Covered, Checked, Credited, StillAhead, Held, CompileInv, NoOutcome
<1>5. Booked'
  <2>1. Settled' = Settled /\ Pending' = Pending /\ HandedTo' = HandedTo /\ Instances' = Instances
    BY <1>1, SameModule DEF Settled, Pending, HandedTo
  <2>2. (RecordsAgree' <=> RecordsAgree) /\ (Lowered' <=> Lowered) /\ (Lowering' <=> Lowering)
    BY <1>1, SameModule DEF Lowered, Lowering
  <2>3. Books' <=> Books
    BY <1>1, <2>1, <2>2 DEF Books
  <2>4. QED
    BY <1>1, <2>2, <2>3 DEF Booked, CompileInv
<1>6. QED
  BY <1>2, <1>3, <1>4, <1>5 DEF CompileInv

LEMMA CompileNextInv ==
  ASSUME CompileInv, [CompileNext]_compileVars
  PROVE  CompileInv'
<1>1. CASE UNCHANGED compileVars
  BY <1>1, CompileStays
<1>2. CASE CompileNext
  BY <1>2, BeginCompileKeeps, BindKeeps, CoverKeeps, GroupKeeps, ResolveKeeps, LowerGroupKeeps,
     EndLoweringKeeps, StripAndCheckKeeps, LowerToBackendKeeps, MakeExecutableKeeps, CompileStays
     DEF CompileNext, CompileDone
<1>3. QED
  BY <1>1, <1>2

LEMMA CompileInvSuffices ==
  ASSUME CompileInv
  PROVE  CompileSound
BY EmitterNeeds, StopIsAsAsked, SelectedIsOfTarget, EntryContractFits, LoweringIsAccounted DEF CompileSound

\* Whatever the module, the plan, the target and the request: emitters are
\* handed whole groups, in an order they can be computed in and only after
\* every bundle was verified; the caller gets the stop it asked for; code is
\* credited to the target only with all that its emitters rewrote; and an
\* executable's own contract fits the descriptors (lowerSelectedOperations and
\* finishCompilation in MappedCompilation.cpp).
THEOREM CompilationIsSound == CompileSpec => []CompileSound
<1>1. CompileInit => CompileInv
  BY CompileInitInv
<1>2. CompileInv /\ [CompileNext]_compileVars => CompileInv'
  BY CompileNextInv
<1>3. CompileInv => CompileSound
  BY CompileInvSuffices
<1>4. QED
  BY <1>1, <1>2, <1>3, PTL DEF CompileSpec

=============================================================================
