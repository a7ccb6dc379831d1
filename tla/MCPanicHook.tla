---------------------------- MODULE MCPanicHook ----------------------------
(* Instances of PanicHook for TLC: top-level runs t1..t5 on threads of     *)
(* their own, n1 nested in the body of t1 and m1 in the body of n1.        *)
EXTENDS PanicHook

CONSTANTS t1, n1, m1

MCOuter == [r \in Runs |-> IF r = n1 THEN t1 ELSE IF r = m1 THEN n1 ELSE NoRun]
=============================================================================
