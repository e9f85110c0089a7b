----------------------------- MODULE MCJitCache -----------------------------
(* Model-checking instance of JitCache: two shapes of one operation share an *)
(* entry symbol, a kernel of another operation has its own.                  *)
EXTENDS JitCache
CONSTANTS shapeA, shapeB, third, swiglu, rope
MCSymbol == [k \in {shapeA, shapeB, third} |-> IF k = third THEN rope ELSE swiglu]
Symmetry == Permutations({shapeA, shapeB}) \cup Permutations(Values) \cup Permutations(Threads)
=============================================================================
