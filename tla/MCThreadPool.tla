---------------------------- MODULE MCThreadPool ----------------------------
(* Two workers and the caller.  INT64_MAX is scaled down to 10, so that     *)
(* [total |-> 3, grain |-> 2] is the largest job that still fits (and leaves *)
(* a short last chunk).                                                     *)
EXTENDS ThreadPool

CONSTANTS w1, w2

MCWorkers == {w1, w2}

FittingJobs == { [total |-> 3, grain |-> 2], [total |-> 0, grain |-> 1],
                 [total |-> 2, grain |-> 0] }

=============================================================================
