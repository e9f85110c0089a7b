------------------------- MODULE SpecializationCache -------------------------
(***************************************************************************)
(* The Python frontend's specialization cache (python/llk/runtime/         *)
(* _cache.py) with the ownership layers under it: the compiled-kernel      *)
(* wrappers and their shared reference count (_ffi.py), and the native     *)
(* handle's own reference count behind the C ABI (lib/CAPI/Frontend.cpp).  *)
(*                                                                         *)
(* Threads look up, compile, wait for one another's compilation, invoke    *)
(* and close leases.  A section under one lock is one step; compile_fn and *)
(* the native call run outside the cache lock and take time of their own.  *)
(* invoke holds its wrapper's lock for the whole native call.              *)
(***************************************************************************)
EXTENDS Integers, Sequences, FiniteSets, SequencesExt

CONSTANTS
  Threads,
  Ids,          \* full request identities
  Digest,       \* [Ids -> digests]: SHA-256 may collide
  MaxEntries,   \* max_entries
  MaxCalls,     \* bound: get_or_compile calls
  MaxUses,      \* bound: invocations of leases
  None

ASSUME CacheAssumption ==
  /\ IsFiniteSet(Threads) /\ MaxEntries \in Nat \ {0}
  /\ MaxCalls \in Nat /\ MaxUses \in Nat
  /\ None \notin Threads /\ None \notin Nat

VARIABLES
  entries,  \* every _Entry made: [id, state, kernel]
  filed,    \* the entries in _buckets
  lru,      \* _lru, oldest first
  exes,     \* every _ExecutableHandle: [id, refs, held, native, calls]
  wraps,    \* every CompiledKernel: [exe, open, holder]
  handed,   \* the wrappers callers own: the leases returned
  pc, want, mine, stale, result,  \* per thread
  calls, uses                     \* bounds

vars == <<entries, filed, lru, exes, wraps, handed, pc, want, mine, stale, result, calls, uses>>
cacheVars == <<entries, filed, lru>>
callVars == <<want, mine, stale, result>>

Init ==
  /\ entries = <<>> /\ filed = {} /\ lru = <<>>
  /\ exes = <<>> /\ wraps = <<>> /\ handed = {}
  /\ pc = [t \in Threads |-> "idle"] /\ want = [t \in Threads |-> None]
  /\ mine = [t \in Threads |-> 0] /\ stale = [t \in Threads |-> <<>>]
  /\ result = [t \in Threads |-> None] /\ calls = 0 /\ uses = 0

Goto(t, l) == pc' = [pc EXCEPT ![t] = l]
-----------------------------------------------------------------------------
(* The wrappers and the shared reference count                             *)

\* lease(): retain the executable and wrap it once more.
Leased(x, es) == [es EXCEPT ![x].refs = @ + 1]
NewWrap(x) == [exe |-> x, open |-> TRUE, holder |-> None]

\* MUTANT of Released: every close takes the handle.
ReleasedAlways(x) == [exes EXCEPT ![x].refs = @ - 1, ![x].held = FALSE]

\* release() of the wrapper's reference: the last one takes the handle away.
Released(x) == [exes EXCEPT ![x].refs = @ - 1, ![x].held = @ /\ exes[x].refs # 1]

\* close() returns early on a closed wrapper.
Closing(w) == wraps[w].open

\* close(): drop the wrapper's reference, and with the last one go on to
\* release the native handle under the same wrapper lock.
CloseWrapper(t, w, next) ==
  LET x == wraps[w].exe
      last == Closing(w) /\ exes[x].held /\ ~Released(x)[x].held
  IN  /\ wraps[w].holder = None
      /\ exes' = IF Closing(w) THEN Released(x) ELSE exes
      /\ wraps' = [wraps EXCEPT ![w].open = FALSE, ![w].holder = IF last THEN t ELSE None]
      /\ mine' = [mine EXCEPT ![t] = IF last THEN w ELSE @]
      /\ Goto(t, IF last THEN "release" ELSE next)

\* dropReference: the native object goes with the last reference to it.
Dropped(x, es) == [es EXCEPT ![x].native = @ - 1]

\* native_release, and what the thread does next.
NativeRelease(t) ==
  /\ pc[t] = "release"
  /\ exes' = Dropped(wraps[mine[t]].exe, exes)
  /\ wraps' = [wraps EXCEPT ![mine[t]].holder = None]
  /\ Goto(t, IF result[t] # None THEN "closing" ELSE "idle")
  /\ UNCHANGED <<cacheVars, handed, want, mine, stale, result, calls, uses>>

-----------------------------------------------------------------------------
(* get_or_compile                                                          *)

Call(t) ==
  /\ pc[t] = "idle" /\ calls < MaxCalls
  /\ \E id \in Ids : want' = [want EXCEPT ![t] = id]
  /\ calls' = calls + 1
  /\ Goto(t, "lookup")
  /\ UNCHANGED <<cacheVars, exes, wraps, handed, mine, stale, result, uses>>

\* MUTANT of Find: trust the digest.
FindDigest(id) == {e \in filed : Digest[entries[e].id] = Digest[id]}

\* _find: the bucket of the digest, then the full identity.
Find(id) == {e \in filed : Digest[entries[e].id] = Digest[id] /\ entries[e].id = id}

\* The rest of _lru (move_to_end, and the pop of _discard).
Without(e) == RemoveFirst(lru, e)

Hit(t, e) ==
  /\ entries[e].state = "ready"
  /\ lru' = Append(Without(e), e)
  /\ LET x == wraps[entries[e].kernel].exe
     IN  exes' = Leased(x, exes) /\ wraps' = Append(wraps, NewWrap(x))
  /\ handed' = handed \cup {Len(wraps) + 1}
  /\ Goto(t, "idle")
  /\ UNCHANGED <<entries, filed, mine>>

\* Somebody compiles this identity: sleep on the entry's condition.
Join(t, e) ==
  /\ entries[e].state = "pending"
  /\ mine' = [mine EXCEPT ![t] = e]
  /\ Goto(t, "asleep")
  /\ UNCHANGED <<cacheVars, exes, wraps, handed>>

\* Nobody does: file a pending entry and compile.
Begin(t) ==
  /\ entries' = Append(entries, [id |-> want[t], state |-> "pending", kernel |-> 0])
  /\ filed' = filed \cup {Len(entries) + 1}
  /\ mine' = [mine EXCEPT ![t] = Len(entries) + 1]
  /\ Goto(t, "compile")
  /\ UNCHANGED <<lru, exes, wraps, handed>>

Lookup(t) ==
  /\ pc[t] = "lookup"
  /\ \/ \E e \in Find(want[t]) : Hit(t, e) \/ Join(t, e)
     \/ Find(want[t]) = {} /\ Begin(t)
  /\ UNCHANGED <<want, stale, result, calls, uses>>

\* MUTANT of Notified: nobody is told.
NotifiedNobody(e, f) == f

\* notify_all on the entry: its sleepers look again.
Notified(e, f) == [t \in Threads |-> IF pc[t] = "asleep" /\ mine[t] = e THEN "lookup" ELSE f[t]]

\* compile_fn raised: the entry goes, so that a later call can retry.
CompileFail(t) ==
  /\ pc[t] = "compile"
  /\ entries' = [entries EXCEPT ![mine[t]].state = "failed"]
  /\ filed' = filed \ {mine[t]}
  /\ pc' = Notified(mine[t], [pc EXCEPT ![t] = "idle"])
  /\ UNCHANGED <<lru, exes, wraps, handed, callVars, calls, uses>>

\* compile_fn returned an owned kernel, which nobody else knows yet.
Compile(t) ==
  /\ pc[t] = "compile"
  /\ exes' = Append(exes, [id |-> want[t], refs |-> 1, held |-> TRUE, native |-> 1, calls |-> 0])
  /\ wraps' = Append(wraps, NewWrap(Len(exes) + 1))
  /\ result' = [result EXCEPT ![t] = Len(wraps) + 1]
  /\ Goto(t, "publish")
  /\ UNCHANGED <<cacheVars, handed, want, mine, stale, calls, uses>>

\* _evict: how many of the oldest entries go.
Excess(s) == IF Len(s) > MaxEntries THEN Len(s) - MaxEntries ELSE 0

\* MUTANT of Orphans: an unusable kernel is forgotten.
OrphansKept(out, ready, usable, w) == [i \in DOMAIN out |-> ready[out[i]].kernel]

\* The owners the caller closes afterwards: the evicted entries' kernels, then
\* its own when no lease of it can be had.
Orphans(out, ready, usable, w) ==
  [i \in DOMAIN out |-> ready[out[i]].kernel] \o (IF usable THEN <<>> ELSE <<w>>)

\* The section that makes the entry ready, evicts, and leases the kernel for
\* the caller; an artifact that cannot be leased (usable = FALSE) is not kept.
Publish(t, usable) ==
  LET e == mine[t]
      w == result[t]
      x == wraps[w].exe
      all == Append(lru, e)
      out == SubSeq(all, 1, Excess(all))
      kept == SubSeq(all, Excess(all) + 1, Len(all))
      gone == ToSet(out) \cup (IF usable THEN {} ELSE {e})
      ready == [entries EXCEPT ![e].kernel = w, ![e].state = IF usable THEN "ready" ELSE "failed"]
  IN  /\ pc[t] = "publish"
      /\ entries' = [k \in DOMAIN ready |->
                       IF k \in ToSet(out) THEN [ready[k] EXCEPT !.kernel = 0, !.state = "evicted"]
                       ELSE ready[k]]
      /\ filed' = filed \ gone
      /\ lru' = IF usable THEN kept ELSE RemoveFirst(kept, e)
      /\ stale' = [stale EXCEPT ![t] = Orphans(out, ready, usable, w)]
      /\ IF usable
           THEN /\ exes' = Leased(x, exes)
                /\ wraps' = Append(wraps, NewWrap(x))
                /\ handed' = handed \cup {Len(wraps) + 1}
           ELSE UNCHANGED <<exes, wraps, handed>>
      /\ pc' = Notified(e, [pc EXCEPT ![t] = "closing"])
      /\ UNCHANGED <<want, mine, result, calls, uses>>

\* The loop that closes the evicted owners, and the unusable kernel last.
CloseStale(t) ==
  /\ pc[t] = "closing" /\ stale[t] # <<>>
  /\ CloseWrapper(t, Head(stale[t]), "closing")
  /\ stale' = [stale EXCEPT ![t] = Tail(@)]
  /\ UNCHANGED <<cacheVars, handed, want, result, calls, uses>>

Return(t) ==
  /\ pc[t] = "closing" /\ stale[t] = <<>>
  /\ result' = [result EXCEPT ![t] = None]
  /\ Goto(t, "idle")
  /\ UNCHANGED <<cacheVars, exes, wraps, handed, want, mine, stale, calls, uses>>

-----------------------------------------------------------------------------
(* Callers use and close their leases                                      *)

\* invoke: take the wrapper lock, check it is open and read the handle.
Invoke(t) ==
  /\ pc[t] = "idle" /\ uses < MaxUses
  /\ \E w \in handed :
       /\ wraps[w].holder = None /\ wraps[w].open /\ exes[wraps[w].exe].held
       /\ wraps' = [wraps EXCEPT ![w].holder = t]
       /\ mine' = [mine EXCEPT ![t] = w]
  /\ uses' = uses + 1
  /\ Goto(t, "enter")
  /\ UNCHANGED <<cacheVars, exes, handed, want, stale, result, calls>>

\* HandleReference: one more native reference for the length of the call.
EnterNative(t) ==
  /\ pc[t] = "enter"
  /\ exes' = [exes EXCEPT ![wraps[mine[t]].exe].native = @ + 1,
                          ![wraps[mine[t]].exe].calls = @ + 1]
  /\ Goto(t, "native")
  /\ UNCHANGED <<cacheVars, wraps, handed, callVars, calls, uses>>

LeaveNative(t) ==
  /\ pc[t] = "native"
  /\ LET x == wraps[mine[t]].exe
     IN  exes' = [Dropped(x, exes) EXCEPT ![x].calls = @ - 1]
  /\ wraps' = [wraps EXCEPT ![mine[t]].holder = None]
  /\ Goto(t, "idle")
  /\ UNCHANGED <<cacheVars, handed, callVars, calls, uses>>

\* close(), or the finalizer of a lease; a caller may close twice.
Close(t) ==
  /\ pc[t] = "idle"
  /\ \E w \in handed :
       CloseWrapper(t, w, "idle")
  /\ UNCHANGED <<cacheVars, handed, want, stale, result, calls, uses>>

-----------------------------------------------------------------------------
Step(t) ==
  \/ Lookup(t) \/ CompileFail(t) \/ Compile(t) \/ Publish(t, TRUE) \/ Publish(t, FALSE)
  \/ CloseStale(t) \/ Return(t) \/ NativeRelease(t) \/ EnterNative(t) \/ LeaveNative(t)

Next == \E t \in Threads : Call(t) \/ Invoke(t) \/ Close(t) \/ Step(t)

Spec == Init /\ [][Next]_vars

\* A thread inside a call keeps running; calls, uses and closes are not forced.
FairSpec == Spec /\ \A t \in Threads : WF_vars(Step(t))
-----------------------------------------------------------------------------
(* Properties                                                              *)

Labels == {"idle", "lookup", "asleep", "compile", "publish", "closing", "release",
           "enter", "native"}

\* Type invariant.
TypeOK ==
  /\ \A e \in DOMAIN entries :
       /\ entries[e].id \in Ids /\ entries[e].state \in {"pending", "ready", "failed", "evicted"}
       /\ entries[e].kernel \in 0 .. Len(wraps)
  /\ filed \subseteq DOMAIN entries /\ ToSet(lru) \subseteq filed /\ IsInjective(lru)
  /\ \A x \in DOMAIN exes : exes[x].refs >= 0 /\ exes[x].native >= 0 /\ exes[x].held \in BOOLEAN
  /\ \A w \in DOMAIN wraps : wraps[w].exe \in DOMAIN exes /\ wraps[w].holder \in Threads \cup {None}
  /\ handed \subseteq DOMAIN wraps /\ pc \in [Threads -> Labels]

\* "Identical concurrent misses share one compilation": no two threads compile
\* the same identity, and an identity is filed at most once.
SingleFlight ==
  /\ \A s, t \in Threads :
       s # t /\ {pc[s], pc[t]} \subseteq {"compile", "publish"} => want[s] # want[t]
  /\ \A d, e \in filed : entries[d].id = entries[e].id => d = e

\* "A digest collision must never return another request's artifact": the lease
\* a call returns wraps an executable compiled for the identity it asked for,
\* also when the call slept through a failure, a retry or an eviction.
OwnArtifact ==
  [][\A w \in handed' \ handed : \E t \in Threads :
       pc[t] \in {"lookup", "publish"} /\ pc'[t] # pc[t] /\ exes'[wraps'[w].exe].id = want[t]]_vars

\* Nothing runs in, or is about to enter, a native executable that is freed,
\* whoever closes or evicts its other owners meanwhile: the "ownership rule"
\* that the C ABI leaves to its caller.
NoUseAfterFree ==
  \A t \in Threads : pc[t] \in {"enter", "native"} => exes[wraps[mine[t]].exe].native > 0

\* The two reference counts are exact: the Python one counts open wrappers, the
\* native one the owner and the calls in flight, so an executable is freed
\* once, as soon as its last owner and its last call are gone.
RefsExact ==
  \A x \in DOMAIN exes :
    /\ exes[x].refs = Cardinality({w \in DOMAIN wraps : wraps[w].exe = x /\ wraps[w].open})
    /\ exes[x].held = (exes[x].refs > 0)
    /\ exes[x].native = exes[x].calls +
         (IF exes[x].held \/ \E t \in Threads : pc[t] = "release" /\ wraps[mine[t]].exe = x
          THEN 1 ELSE 0)

\* Whoever still owns an executable when no call is under way is the cache or
\* a caller: nothing is leaked, whether it was evicted, unusable or closed.
NothingLeaks ==
  (\A t \in Threads : pc[t] = "idle") =>
    \A w \in DOMAIN wraps : wraps[w].open =>
      w \in handed \/ \E e \in ToSet(lru) : entries[e].kernel = w

\* The cache retains at most max_entries ready entries, all of them usable.
Bounded ==
  /\ Len(lru) <= MaxEntries
  /\ \A e \in filed : entries[e].state = "pending" \/ (e \in ToSet(lru) /\ wraps[entries[e].kernel].open)

\* Every call returns or raises, also one that waits for a compilation that
\* fails or whose entry is evicted before the waiter runs.
Answered == \A t \in Threads : pc[t] = "lookup" ~> pc[t] = "idle"

\* The cache keeps no more than it may, and nobody else keeps anything: the
\* bound holds through failures and evictions, no executable is orphaned, and
\* identical concurrent misses share one compilation.
CacheSound == TypeOK /\ Bounded /\ NothingLeaks /\ SingleFlight

\* Native code outlives its users: the counts are exact, and nothing runs in,
\* or is about to enter, an executable that is freed.
HandlesSound == NoUseAfterFree /\ RefsExact
=============================================================================
