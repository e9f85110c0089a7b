------------------------------ MODULE JitCache ------------------------------
(***************************************************************************)
(* JitCache of runtime/JitCache.cpp: lookupOrCompile, the variant cache    *)
(* and clear, beside one of its four levels (LruLevel; the others have     *)
(* their own mutex and behave the same).  The map of compiled kernels is   *)
(* read under a shared lock and written under an exclusive one; between    *)
(* the two the caller lowers its module, adds it to the one ORC library of *)
(* the cache and resolves the entry symbol, with no lock held.  The        *)
(* library (LLJIT, external) refuses a second definition of a symbol.      *)
(* clear empties the maps under their lock and then each level under its   *)
(* own; other threads run in between.                                      *)
(***************************************************************************)
EXTENDS LruLevel, Functions

CONSTANTS Symbol,     \* the entry symbol of each key's module
          Variants,   \* canonical variant identities
          Unnamed,    \* the empty canonical string, a member of Variants
          NoCode,       \* no answer, no code
          Failed,     \* an llvm::Error
          MaxCalls    \* bound: calls of lookupOrCompile in a behaviour

ASSUME CacheAssumption ==
  /\ DOMAIN Symbol = CacheKeys /\ MaxCalls \in Nat
  /\ Unnamed \in Variants /\ NoCode # Failed

VARIABLES
  cache,    \* cache_: key -> code
  variant,  \* variant_cache_: canonical identity -> code
  library,  \* the JIT's symbols: symbol -> code
  pc, key,  \* where each thread is, and the key it asked for
  answer,   \* what each thread's last call returned
  lowered,  \* history: whether the module of each thread's last call compiles
  calls,    \* history: calls so far, which numbers the compiled modules
  serial,   \* history: the number of each thread's call
  handed    \* history: every kernel any call returned, with its key

kernelVars == <<cache, variant, library, pc, key, answer, lowered, calls, serial, handed>>
jitVars == <<levelVars, kernelVars>>

Empty == [x \in {} |-> NoCode]

EmptyCache ==
  /\ EmptyLevel
  /\ cache = Empty /\ variant = Empty /\ library = Empty
  /\ pc = [t \in Threads |-> "idle"] /\ key = [t \in Threads |-> NoCode]
  /\ answer = [t \in Threads |-> NoCode] /\ lowered = [t \in Threads |-> TRUE]
  /\ calls = 0 /\ serial = [t \in Threads |-> 0] /\ handed = {}

JitInit == max \in MaxSizes /\ clock = 0 /\ EmptyCache

\* Return from the call with code c.
Return(t, c) ==
  /\ answer' = [answer EXCEPT ![t] = c]
  /\ handed' = IF c = Failed THEN handed ELSE handed \cup {<<key'[t], c>>}
  /\ pc' = [pc EXCEPT ![t] = "idle"]

\* A thread in no call.
Idle(t) == pc[t] = "idle" /\ ptr[t] = Null

\* The check under the shared lock.
LookupOrCompile(t, k) ==
  /\ Idle(t) /\ calls < MaxCalls /\ calls + clock < MaxOps
  /\ calls' = calls + 1
  /\ serial' = [serial EXCEPT ![t] = calls']
  /\ key' = [key EXCEPT ![t] = k]
  /\ lowered' = [lowered EXCEPT ![t] = TRUE]
  /\ \/ k \in DOMAIN cache /\ Return(t, cache[k])
     \/ /\ k \notin DOMAIN cache
        /\ pc' = [pc EXCEPT ![t] = "lower"]
        /\ answer' = [answer EXCEPT ![t] = NoCode]
        /\ UNCHANGED handed
  /\ UNCHANGED <<cache, variant, library>>

\* The pass pipeline, the translation and the search for an entry symbol, each
\* of which may return an error.
Lower(t) ==
  /\ pc[t] = "lower"
  /\ \/ /\ pc' = [pc EXCEPT ![t] = "add"]
        /\ UNCHANGED <<answer, lowered, handed>>
     \/ /\ lowered' = [lowered EXCEPT ![t] = FALSE]
        /\ UNCHANGED key /\ Return(t, Failed)
  /\ UNCHANGED <<cache, variant, library, key, calls, serial>>

\* MUTANT of Defines: a library where a key's module can be defined again.
DefinesOwn(s, k) == s \in DOMAIN library => library[s].of = k

\* LLJIT accepts a module whose symbol is new to the library.
Defines(s, k) == s \notin DOMAIN library

\* jit_->addIRModule, whose error is returned.
AddModule(t) ==
  /\ pc[t] = "add" /\ UNCHANGED key
  /\ LET s == Symbol[key[t]]
     IN \/ /\ Defines(s, key[t])
           /\ library' = Update(library, s, [of |-> key[t], compiled |-> serial[t]])
           /\ pc' = [pc EXCEPT ![t] = "resolve"]
           /\ UNCHANGED <<answer, handed>>
        \/ /\ ~Defines(s, key[t])
           /\ UNCHANGED library /\ Return(t, Failed)
  /\ UNCHANGED <<cache, variant, lowered, calls, serial>>

\* jit_->lookup, which may return an error, and the store of the code under the
\* exclusive lock.
StoreCode(t) ==
  /\ pc[t] = "resolve" /\ UNCHANGED key
  /\ \/ /\ Symbol[key[t]] \in DOMAIN library
        /\ LET c == library[Symbol[key[t]]]
           IN cache' = Update(cache, key[t], c) /\ Return(t, c)
        /\ UNCHANGED lowered
     \/ /\ lowered' = [lowered EXCEPT ![t] = FALSE]
        /\ Return(t, Failed)
        /\ UNCHANGED cache
  /\ UNCHANGED <<variant, library, calls, serial>>

\* An identity whose canonical string is not empty.
Names(v) == v # Unnamed

\* insertVariantObjectCode, for code some call returned.
InsertVariant(v) ==
  /\ \E h \in handed : variant' = IF Names(v) THEN Update(variant, v, h[2]) ELSE variant
  /\ UNCHANGED <<cache, library, pc, key, answer, lowered, calls, serial, handed>>

\* JitCache::clear, which leaves the library as it is: the maps,
Clear(t) ==
  /\ Idle(t) /\ clock + calls < MaxOps /\ Enter(t)
  /\ cache' = Empty /\ variant' = Empty
  /\ pc' = [pc EXCEPT ![t] = "clear"]
  /\ UNCHANGED <<library, key, answer, lowered, calls, serial, handed>>
  /\ UNCHANGED <<list, entry, index, max, stats, ptr, touched, latest, pushed, dropped>>

\* and then the levels.
ClearLevels(t) ==
  /\ pc[t] = "clear"
  /\ ClearLevel
  /\ pc' = [pc EXCEPT ![t] = "idle"]
  /\ UNCHANGED <<cache, variant, library, key, answer, lowered, calls, serial, handed>>

\* A call on the level.
UseLevel(t) ==
  /\ pc[t] = "idle" /\ (ptr[t] # Null \/ clock + calls < MaxOps)
  /\ LevelStep(t)
  /\ UNCHANGED kernelVars

JitNext ==
  \/ \E t \in Threads :
       \/ UseLevel(t) \/ Clear(t) \/ ClearLevels(t)
       \/ (\E k \in CacheKeys : LookupOrCompile(t, k)) /\ UNCHANGED levelVars
       \/ (Lower(t) \/ AddModule(t) \/ StoreCode(t)) /\ UNCHANGED levelVars
  \/ (\E v \in Variants : InsertVariant(v)) /\ UNCHANGED levelVars

JitSpec == JitInit /\ [][JitNext]_jitVars
-----------------------------------------------------------------------------
(* Properties                                                              *)

Code == [of : CacheKeys, compiled : 1 .. MaxCalls]

\* Type invariant.
JitTypeOK ==
  /\ LevelTypeOK
  /\ DOMAIN cache \subseteq CacheKeys /\ Range(cache) \subseteq Code
  /\ DOMAIN variant \subseteq Variants \ {Unnamed} /\ Range(variant) \subseteq Code
  /\ DOMAIN library \subseteq Range(Symbol) /\ Range(library) \subseteq Code
  /\ pc \in [Threads -> {"idle", "lower", "add", "resolve", "clear"}]
  /\ key \in [Threads -> CacheKeys \cup {NoCode}] /\ calls \in 0 .. MaxCalls
  /\ answer \in [Threads -> Code \cup {NoCode, Failed}]

\* A kernel cached under a key was compiled from that key's module, although
\* modules of different keys may share the entry symbol through which the
\* code is found and threads compile concurrently.
CachedIsOwn == \A k \in DOMAIN cache : cache[k].of = k

\* All kernels ever returned for a key are the same entry point: neither a
\* race of two compilations nor clear() makes two live versions of a kernel.
OneKernelPerKey == \A g, h \in handed : g[1] = h[1] => g[2] = h[2]

\* A call whose module compiles returns a kernel.
Answers == \A t \in Threads : answer[t] = Failed => ~lowered[t]

\* The level keeps its books: list, index, recency and counters describe one
\* cache after every interleaving of lookups, inserts, evictions and clears,
\* and a hit yields the value last inserted for its key.
LevelSound ==
  JitTypeOK /\ IndexMatchesList /\ RecencyOrder /\ SizeBounded /\ EvictionsCounted /\ HoldsLatest

\* Both levels of caching are right: the entries, and the kernels behind them.
\* Every kernel cached or ever returned for a key is that key's, and always the
\* same one: modules of different keys may share the entry symbol through
\* which code is found, and threads compile concurrently.
KernelsSound == LevelSound /\ CachedIsOwn /\ OneKernelPerKey
=============================================================================
