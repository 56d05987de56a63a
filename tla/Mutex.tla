------------------------------- MODULE Mutex -------------------------------
(***************************************************************************)
(* What with-lock-held (code/multi-proc.lisp) promises: the bodies of one  *)
(* lock exclude each other, whoever runs them and however they end.        *)
(***************************************************************************)
CONSTANTS Processes, Locks
VARIABLE inside         \* the processes that execute a body of each lock

Init == inside = [l \in Locks |-> {}]

Enter(p, l) ==
  /\ inside[l] = {}
  /\ inside' = [inside EXCEPT ![l] = {p}]

Leave(p, l) ==
  /\ inside[l] = {p}
  /\ inside' = [inside EXCEPT ![l] = {}]

\* A throw may leave the bodies of several locks at once.
Abandon(p) ==
  \E ls \in SUBSET {l \in Locks : inside[l] = {p}} :
    inside' = [l \in Locks |-> IF l \in ls THEN {} ELSE inside[l]]

Next == \E p \in Processes : Abandon(p) \/ \E l \in Locks : Enter(p, l) \/ Leave(p, l)
Spec == Init /\ [][Next]_inside
=============================================================================
