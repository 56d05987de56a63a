------------------------------ MODULE MCLocks ------------------------------
(* Instances of Locks for TLC: r is a recursive lock, e an error-check lock. *)
EXTENDS Locks
CONSTANTS initial, a, r, e, t1, t2

MCProcesses == {initial, a}
MCRecursive == {r}
MCErrorCheck == {e}
MCBoth == {r, e}
MCNone == {}
MCOneTimer == {t1}
MCTwoTimers == {t1, t2}
=============================================================================
