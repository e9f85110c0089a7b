---------------------------- MODULE MappedTuning ----------------------------
(***************************************************************************)
(* The mapped tuning session (lib/Conversion/MicroMapping/                 *)
(* MappedTuningSession.cpp) over the durable measurement store             *)
(* (MeasurementStore.cpp).  A session admits the generated candidates one  *)
(* by one (source, mapping search with receipts, compilation), ranks them, *)
(* measures the best ones or reuses a stored measurement, and reports.     *)
(*                                                                         *)
(* Sessions run one after the other over one store directory: the store is *)
(* single-writer.  A session can be killed between any two steps; the      *)
(* files stay, and so does a temporary file that a failed write could not  *)
(* remove.  The providers (timer, verifier, buffers) are the caller's, so  *)
(* each of their answers is possible at each call.                        *)
(***************************************************************************)
EXTENDS Integers, Sequences, FiniteSets, SequencesExt

CONSTANTS
  Sessions,       \* the sessions' inputs and options
  Digest,       \* [lookup keys -> file names]: the content hash may collide
  Times,        \* durations the timer reports; 0 is an invalid one
  Rates,        \* throughputs the timer reports
  MaxSessions,  \* bound: sessions over one store
  Absent

\* What runMappedTuningSessionImpl refuses before it starts.
Refused(s) ==
  \/ (s.options.store \/ s.options.reuse) /\ (s.options.provider = "none" \/ s.options.measureTop = 0)
  \/ s.options.reuse /\ ~s.options.store
  \/ s.options.provider = "none" /\ ToSet(s.options.metrics) \cap {"ns", "rate"} # {}

\* A covering plan of a candidate, and a candidate of the generator.
PlanInputs == [id : Nat, cycles : Nat, receipt : BOOLEAN, compiles : BOOLEAN]
CandidateInputs ==
  [id : Nat, source : {"ok", "source", "legality"}, plans : Seq(PlanInputs), key : DOMAIN Digest]
OptionInputs ==
  [metrics : Seq({"cycles", "ns", "rate"}), provider : {"none", "aggregate", "detailed"},
   store : BOOLEAN, reuse : BOOLEAN, backend : BOOLEAN,
   plans : Nat, maxAttempts : Nat, measureTop : Nat, topK : Nat]

\* What a session is given: the generator gives each candidate an id of its own.
Given(s) ==
  /\ s.candidates \in Seq(CandidateInputs) /\ s.options \in OptionInputs
  /\ \A i, j \in DOMAIN s.candidates : s.candidates[i].id = s.candidates[j].id => i = j

ASSUME TuningAssumption ==
  /\ \A s \in Sessions : Given(s) /\ ~Refused(s)
  /\ Times \subseteq Nat /\ Rates \subseteq Nat /\ MaxSessions \in Nat
  /\ Absent \notin Nat /\ Absent \notin [key : DOMAIN Digest, ns : Nat, sampled : BOOLEAN]

VARIABLES
  inputs,     \* the candidates and the options
  files,     \* file name -> record [key, ns], or Absent
  temps,     \* sessions that left a temporary file
  evidence,  \* history: the <<key, duration>> pairs that passed verification
  session,   \* number of the current session
  pc, at, job,
  report     \* MappedTuningReport

tuningVars == <<inputs, files, temps, evidence, session, pc, at, job, report>>

Opt == inputs.options
Cands == inputs.candidates
Smaller(a, b) == IF a < b THEN a ELSE b
NoJob == [cached |-> FALSE, ns |-> Absent, rate |-> Absent, sampled |-> FALSE]
EmptyReport ==
  [ranked |-> <<>>, rejected |-> <<>>, unrankable |-> <<>>, dropped |-> <<>>,
   bySource |-> 0, byLegality |-> 0, byMapping |-> 0, byCompile |-> 0, failedCompiles |-> 0,
   attempts |-> 0, hits |-> 0, misses |-> 0, written |-> 0,
   measured |-> 0, completed |-> 0, truncated |-> FALSE]

InitTuning ==
  /\ inputs \in Sessions
  /\ files = [d \in {Digest[k] : k \in DOMAIN Digest} |-> Absent]
  /\ temps = {} /\ evidence = {} /\ session = 0
  /\ pc = "idle" /\ at = 1 /\ job = NoJob /\ report = EmptyReport

\* A session begins; an earlier one ended, failed or was killed.
Start ==
  /\ pc \in {"idle", "done", "failed"} /\ session < MaxSessions
  /\ session' = session + 1
  /\ pc' = "admit" /\ at' = 1 /\ job' = NoJob /\ report' = EmptyReport
  /\ UNCHANGED <<inputs, files, temps, evidence>>

\* The process is killed.
Crash ==
  /\ pc \notin {"idle", "done", "failed"}
  /\ pc' = "idle" /\ job' = NoJob /\ report' = EmptyReport /\ at' = 1
  /\ UNCHANGED <<inputs, files, temps, evidence, session>>
-----------------------------------------------------------------------------
(* Ranking                                                                 *)

\* resolveMetric / compare: a missing metric ranks last, throughput downwards.
Ahead(m, a, b) ==
  /\ a[m] # Absent
  /\ b[m] # Absent => IF m = "rate" THEN a[m] > b[m] ELSE a[m] < b[m]

Level(m, a, b) == ~Ahead(m, a, b) /\ ~Ahead(m, b, a)

\* ranksBefore: the primary metric, the secondary ones, the ids.
RanksBefore(a, b) ==
  \/ \E i \in DOMAIN Opt.metrics :
       /\ Ahead(Opt.metrics[i], a, b)
       /\ \A j \in 1 .. i - 1 : Level(Opt.metrics[j], a, b)
  \/ /\ \A i \in DOMAIN Opt.metrics : Level(Opt.metrics[i], a, b)
     /\ a.id < b.id \/ (a.id = b.id /\ a.plan < b.plan)

\* The members of a set in an order, given the set of those before each.
Arranged(before) ==
  [n \in 1 .. Cardinality(DOMAIN before) |->
     CHOOSE i \in DOMAIN before : Cardinality(before[i]) = n - 1]

\* The list sorted by ranksBefore, which orders any two candidates.
RankedPlans(s) ==
  LET order == Arranged([i \in DOMAIN s |-> {j \in DOMAIN s : RanksBefore(s[j], s[i])}])
  IN  [n \in DOMAIN order |-> s[order[n]]]

\* objectiveUsesMeasuredMetric
MeasuredObjective == ToSet(Opt.metrics) \cap {"ns", "rate"} # {}

\* The candidate has a value for every metric of the objective.
Available(r) == \A m \in ToSet(Opt.metrics) : r[m] # Absent

\* The members of the list at some positions, in the list's order.
Picked(s, places) ==
  LET order == Arranged([i \in places |-> {j \in places : j < i}])
  IN  [n \in DOMAIN order |-> s[order[n]]]
-----------------------------------------------------------------------------
(* Admission                                                               *)

\* The plan's resolved layouts, owners and memory path consume the choices the
\* candidate makes for the mapping.
Realizes(p) == p.receipt

\* The plans the mapping search returns: a proposal whose plan does not
\* consume the candidate's mapping choices is rejected by the completion
\* evaluator, so the cut to the best plans only sees valid ones; 0 is no cut.
Retained(c) ==
  LET valid == Picked(c.plans, {i \in DOMAIN c.plans : Realizes(c.plans[i])})
  IN  IF Opt.plans = 0 THEN valid ELSE SubSeq(valid, 1, Smaller(Opt.plans, Len(valid)))

Refuse(c, reason) ==
  [report EXCEPT !.rejected = Append(@, [id |-> c.id, why |-> reason]),
                 !.bySource = @ + (IF reason = "source" THEN 1 ELSE 0),
                 !.byLegality = @ + (IF reason = "legality" THEN 1 ELSE 0),
                 !.byMapping = @ + (IF reason = "mapping" THEN 1 ELSE 0),
                 !.byCompile = @ + (IF reason = "compile" THEN 1 ELSE 0)]

\* The retained plans in order until one compiles; the search may be cut.
Select(c) ==
  LET kept == Retained(c)
      good == {i \in DOMAIN kept : kept[i].compiles}
      first == CHOOSE i \in good : \A j \in good : i <= j
      tried == IF good = {} THEN Len(kept) ELSE first - 1
      base == IF kept = <<>> THEN Refuse(c, "mapping")
              ELSE IF good = {} THEN Refuse(c, "compile")
              ELSE [report EXCEPT !.ranked =
                      Append(@, [id |-> c.id, plan |-> kept[first].id, cycles |-> kept[first].cycles,
                                 ns |-> Absent, rate |-> Absent, origin |-> "static", key |-> c.key])]
  IN  [base EXCEPT !.failedCompiles = @ + tried,
                   !.truncated = @ \/ Len(kept) < Cardinality({i \in DOMAIN c.plans : Realizes(c.plans[i])})]

Admit ==
  /\ pc = "admit" /\ at <= Len(Cands)
  /\ LET c == Cands[at]
     IN  report' = IF ~Opt.backend THEN Refuse(c, "compile")
                   ELSE IF c.source # "ok" THEN Refuse(c, c.source) ELSE Select(c)
  /\ at' = at + 1
  /\ UNCHANGED <<inputs, files, temps, evidence, session, pc, job>>

\* All candidates were looked at: rank them, measure the best.
RankReport ==
  /\ pc = "admit" /\ at > Len(Cands)
  /\ report' = [report EXCEPT !.ranked = RankedPlans(@)]
  /\ pc' = IF Opt.provider = "none" THEN "finish" ELSE "measure"
  /\ at' = 1
  /\ UNCHANGED <<inputs, files, temps, evidence, session, job>>
-----------------------------------------------------------------------------
(* Measurement                                                             *)

\* attemptLimit
Limit ==
  IF Opt.maxAttempts = 0 THEN Len(report.ranked)
  ELSE Smaller(Opt.maxAttempts, Len(report.ranked))

\* The loop goes on to the next ranked candidate.
More ==
  /\ at <= Limit
  /\ (IF MeasuredObjective THEN report.measured ELSE report.completed) < Opt.measureTop

This == report.ranked[at]

\* The identity a measurement of the candidate is kept under: source, plan,
\* target, backend, ABI, compiler, environment, protocol and fixture in full.
Key == This.key

\* reject and continue with the next candidate; it is erased at the end.
Reject(r) ==
  /\ report' = [r EXCEPT !.rejected = Append(@, [id |-> This.id, why |-> "measurement"]),
                         !.dropped = Append(@, at)]
  /\ at' = at + 1 /\ pc' = "measure" /\ job' = NoJob

\* Where the measurement comes from.
Source == IF Opt.reuse THEN "lookup" ELSE "time"

\* The candidate is instantiated, searched and compiled again and its buffers
\* are made; any of that may fail or no longer give the ranked plan.
Prepare ==
  /\ pc = "measure" /\ More
  /\ \/ pc' = Source /\ UNCHANGED <<at, job, report>>
     \/ Reject(report)
     \/ Reject([report EXCEPT !.byCompile = @ + 1])
  /\ UNCHANGED <<inputs, files, temps, evidence, session>>

\* lookup: the record at the digest's path, if its full key is the one wanted.
Stored(k) == IF files[Digest[k]] # Absent /\ files[Digest[k]].key = k THEN files[Digest[k]] ELSE Absent

Lookup ==
  /\ pc = "lookup"
  /\ IF Stored(Key) # Absent
       THEN /\ job' = [NoJob EXCEPT !.cached = TRUE, !.ns = Stored(Key).ns]
            /\ pc' = "recheck" /\ UNCHANGED report
       ELSE report' = [report EXCEPT !.misses = @ + 1] /\ pc' = "time" /\ UNCHANGED job
  /\ UNCHANGED <<inputs, files, temps, evidence, session, at>>

\* The store cannot be read: the whole session fails.
LookupFails ==
  /\ pc = "lookup"
  /\ pc' = "failed"
  /\ UNCHANGED <<inputs, files, temps, evidence, session, at, job, report>>

\* One untimed invocation, to verify the fixture with the current executable.
Recheck ==
  /\ pc = "recheck"
  /\ (pc' = "verify" /\ UNCHANGED <<at, job, report>>) \/ Reject(report)
  /\ UNCHANGED <<inputs, files, temps, evidence, session>>

\* The provider: an error, no observation, or an observation.
Time ==
  /\ pc = "time"
  /\ LET counted == [report EXCEPT !.attempts = @ + 1]
     IN  \/ Reject(counted)
         \/ /\ report' = IF MeasuredObjective THEN counted ELSE [counted EXCEPT !.completed = @ + 1]
            /\ at' = at + 1 /\ pc' = "measure" /\ UNCHANGED job
         \/ \E ns \in Times, rate \in Rates \cup {Absent}, sampled \in BOOLEAN :
              /\ report' = counted
              /\ job' = [cached |-> FALSE, ns |-> ns, rate |-> rate, sampled |-> sampled]
              /\ pc' = "verify" /\ UNCHANGED at
  /\ UNCHANGED <<inputs, files, temps, evidence, session>>

\* The measurement goes into the store.
Persistent == ~job.cached /\ Opt.provider = "detailed" /\ Opt.store

\* The duration is positive; a detailed provider's samples are consistent
\* with it (a median of so many positive samples, the expected protocol).
Valid == job.ns # 0 /\ (~job.cached /\ Opt.provider = "detailed" => job.sampled)

\* The outputs are verified, then the numbers are; either may be rejected.
Verify ==
  /\ pc = "verify"
  /\ \/ Reject(report) /\ UNCHANGED evidence
     \/ /\ Valid
        /\ evidence' = evidence \cup (IF job.cached THEN {} ELSE {<<Key, job.ns, job.sampled>>})
        /\ pc' = IF Persistent THEN "check" ELSE "accept"
        /\ UNCHANGED <<at, job, report>>
  /\ UNCHANGED <<inputs, files, temps, session>>

\* The candidate carries its measurement.
Accept ==
  /\ pc = "accept"
  /\ LET r == [This EXCEPT !.ns = job.ns, !.rate = job.rate,
                           !.origin = IF job.cached THEN "record" ELSE "runtime"]
     IN  report' = [report EXCEPT !.ranked[at] = r,
                                  !.hits = @ + (IF job.cached THEN 1 ELSE 0),
                                  !.measured = @ + (IF Available(r) THEN 1 ELSE 0),
                                  !.completed = @ + 1]
  /\ at' = at + 1 /\ pc' = "measure" /\ job' = NoJob
  /\ UNCHANGED <<inputs, files, temps, evidence, session>>
-----------------------------------------------------------------------------
(* MeasurementStore::write; an error of it is an error of the session      *)

\* MUTANT of Foreign: a file of another key may be replaced.
ForeignNever(k) == FALSE

\* The path holds a record with another complete key.
Foreign(k) == files[Digest[k]] # Absent /\ files[Digest[k]].key # k

\* The path is looked at; then the temporary file is made and filled, whole or
\* in part.  Before there is a file every failure ends the call.
WriteTemp ==
  /\ pc = "check"
  /\ \/ pc' = "failed" /\ UNCHANGED temps
     \/ ~Foreign(Key) /\ pc' \in {"rename", "cleanup"} /\ temps' = temps \cup {session}
  /\ UNCHANGED <<inputs, files, evidence, session, at, job, report>>

\* rename is atomic; the observer runs after it and may fail.
Rename ==
  /\ pc = "rename"
  /\ files' = [files EXCEPT ![Digest[Key]] =
                 [key |-> Key, ns |-> job.ns, sampled |-> job.sampled]]
  /\ temps' = temps \ {session}
  /\ report' = [report EXCEPT !.written = @ + 1]
  /\ pc' \in {"accept", "failed"}
  /\ UNCHANGED <<inputs, evidence, session, at, job>>

\* rename failed: whatever is at the path stays.
RenameFails ==
  /\ pc = "rename"
  /\ pc' = "cleanup"
  /\ UNCHANGED <<inputs, files, temps, evidence, session, at, job, report>>

\* The call removes its own temporary file, which may fail too, and reports.
Cleanup ==
  /\ pc = "cleanup"
  /\ pc' = "failed" /\ temps' \in {temps, temps \ {session}}
  /\ UNCHANGED <<inputs, files, evidence, session, at, job, report>>
-----------------------------------------------------------------------------
(* The report                                                              *)

\* MUTANT of Erase: the positions are taken front to back.
EraseForward(s, dropped) == FoldLeft(LAMBDA acc, i : RemoveAt(acc, i), s, dropped)

\* The rejected positions are erased back to front.
Erase(s, dropped) == FoldLeft(LAMBDA acc, i : RemoveAt(acc, i), s, Reverse(dropped))

\* options.topK
Cut(s) == IF Opt.topK # 0 /\ Len(s) > Opt.topK THEN SubSeq(s, 1, Opt.topK) ELSE s

\* Measurement is over: erase, set the unmeasured aside, rank and cut.
Finish ==
  /\ pc = "finish" \/ (pc = "measure" /\ ~More)
  /\ LET left == Erase(report.ranked, report.dropped)
         aside == {i \in DOMAIN left : MeasuredObjective /\ ~Available(left[i])}
     IN  report' = [report EXCEPT
           !.ranked = Cut(RankedPlans(Picked(left, DOMAIN left \ aside))), !.dropped = <<>>,
           !.unrankable = Picked(left, aside)]
  /\ pc' = "done"
  /\ UNCHANGED <<inputs, files, temps, evidence, session, at, job>>

NextTuning ==
  \/ Start \/ Crash \/ Admit \/ RankReport \/ Prepare \/ Lookup \/ LookupFails \/ Recheck \/ Time
  \/ Verify \/ Accept \/ WriteTemp \/ Rename \/ RenameFails \/ Cleanup \/ Finish

SpecTuning == InitTuning /\ [][NextTuning]_tuningVars
-----------------------------------------------------------------------------
(* Properties                                                              *)

Ids(s) == {s[i].id : i \in DOMAIN s}
AllIds == Ids(Cands)
Done == pc = "done"

\* Type invariant.
TuningTypeOK ==
  /\ pc \in {"idle", "admit", "measure", "lookup", "recheck", "time", "verify", "check",
            "rename", "cleanup", "accept", "finish", "done", "failed"}
  /\ at \in 1 .. Len(Cands) + 1 /\ session \in 0 .. MaxSessions /\ temps \subseteq 1 .. session
  /\ \A d \in DOMAIN files : files[d] = Absent \/ (files[d].key \in DOMAIN Digest /\ files[d].ns \in Times \ {0})
  /\ ToSet(report.dropped) \subseteq DOMAIN report.ranked

\* A report tells of every candidate once: as ranked, rejected or unrankable.
\* Only the top-K cut leaves candidates out, and only when the list is full.
Accounted ==
  Done =>
    LET lists == <<Ids(report.ranked), Ids(report.rejected), Ids(report.unrankable)>>
    IN  /\ \A i, j \in DOMAIN lists : i # j => lists[i] \cap lists[j] = {}
        /\ Len(report.ranked) + Len(report.rejected) + Len(report.unrankable)
             = Cardinality(UNION ToSet(lists))
        /\ UNION ToSet(lists) # AllIds => Len(report.ranked) = Opt.topK
        /\ Cardinality({i \in DOMAIN report.rejected : report.rejected[i].why # "measurement"})
             <= report.bySource + report.byLegality + report.byMapping + report.byCompile

\* A candidate is refused for want of a plan only when none of the plans the
\* search proposes realizes its choices, however the list of plans is cut.
RefusedForCause ==
  \A i \in DOMAIN report.rejected : \A c \in ToSet(Cands) :
    c.id = report.rejected[i].id /\ report.rejected[i].why = "mapping"
      => \A p \in ToSet(c.plans) : ~Realizes(p)

\* Only evidence is reported and stored: a duration in the report or in a file
\* was measured, for that very key, by an execution whose outputs passed the
\* verifier and, when stored, whose samples are consistent, in this session or
\* in an earlier one, killed or not.
OnlyEvidence ==
  /\ \A r \in ToSet(report.ranked) \cup ToSet(report.unrankable) :
       r.ns # Absent => \E s \in BOOLEAN : <<r.key, r.ns, s>> \in evidence
  /\ \A d \in DOMAIN files :
       files[d] # Absent => <<files[d].key, files[d].ns, TRUE>> \in evidence

\* The report is in the objective's order, and a measured objective only
\* ranks candidates that have every metric it names.
BestFirst ==
  Done => /\ \A i, j \in DOMAIN report.ranked :
               i < j => RanksBefore(report.ranked[i], report.ranked[j])
          /\ MeasuredObjective => \A r \in ToSet(report.ranked) : Available(r)

\* The measurement budgets: provider calls and reused records together stay
\* within maxMeasurementAttempts, and complete measurements within measureTop.
Budget ==
  /\ Opt.maxAttempts # 0 => report.attempts + report.hits <= Opt.maxAttempts
  /\ MeasuredObjective => report.measured <= Opt.measureTop
  /\ report.hits <= report.completed /\ report.written <= report.attempts

\* A stored measurement is reused, not repeated, when exact reuse is on.
NotRepeated == pc = "time" /\ Opt.reuse => Stored(Key) = Absent

\* "A write never overwrites" the record of another key, and no failure or
\* crash loses a record.
RecordsStay ==
  [][\A d \in DOMAIN files : files[d] # Absent => files'[d] # Absent /\ files'[d].key = files[d].key]_tuningVars

\* A session that goes on after a store, and one that reports, has left no
\* temporary file: only one that was killed or that failed in the store may.
NoLitter == session \in temps => pc \in {"idle", "rename", "cleanup", "failed"}

\* The report of a session is right as a whole: every candidate is accounted
\* for once and in order, refused only for cause, within both budgets, without
\* repeating a stored measurement and on evidence alone; and a session that
\* reports has left no temporary file.
SessionSound ==
  TuningTypeOK /\ OnlyEvidence /\ Accounted /\ RefusedForCause /\ BestFirst /\ Budget /\ NotRepeated /\ NoLitter
=============================================================================
