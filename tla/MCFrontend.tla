----------------------------- MODULE MCFrontend -----------------------------
(* The request of a frontend: its program is imported, and the compiled       *)
(* result is shared by a cache of specializations.  Two threads and two       *)
(* identities whose digests collide; each part is walked while the other      *)
(* rests.                                                                     *)
EXTENDS SpecializationCache, MCImport
CONSTANTS t1, t2, idA, idB

MCThreads == {t1, t2}
MCIds == {idA, idB}
MCDigest == [id \in MCIds |-> 1]

RestingImport ==
  /\ program = Nothing /\ importPc = "idle" /\ at = 0 /\ facts = <<>> /\ meaning = <<>>
  /\ recovered = Nothing /\ refusal = Nothing
FrontendInit == Init /\ (RestingImport \/ MCImportInit)
FrontendNext ==
  \/ importPc = "idle" /\ Next /\ UNCHANGED importVars
  \/ ImportNext /\ UNCHANGED vars
FrontendSpec ==
  /\ FrontendInit /\ [][FrontendNext]_<<vars, importVars>>
  /\ \A t \in Threads : WF_vars(importPc = "idle" /\ Step(t))
=============================================================================
