------------------------------ MODULE SealedLog ------------------------------
(***************************************************************************)
(* What the audit table promises: rows are only ever added at the end, a   *)
(* sealed row never changes, and a row that is sealed, when it is added or *)
(* by a later repair, is linked to the row before it.                      *)
(***************************************************************************)
EXTENDS HashChain

VARIABLE log

Init == Gaps(log) = 1..Len(log)

\* The rows of S are linked in the log as it is after the step.
LinkedAfter(S) == \A i \in S : Linked(log', i)

AppendRows ==
    /\ Len(log) < Len(log')
    /\ \A i \in 1..Len(log) : log'[i] = log[i]
    /\ LinkedAfter((Len(log) + 1)..Len(log'))

\* Repair seals every row, so no gap is left before a row that was sealed.
Repair ==
    /\ Len(log') = Len(log)
    /\ \A i \in 1..Len(log) : /\ Sealed(log[i]) => log'[i] = log[i]
                              /\ log'[i].id = log[i].id /\ log'[i].val = log[i].val
    /\ Gaps(log') = {}
    /\ LinkedAfter(1..Len(log))

Next == AppendRows \/ Repair

Spec == Init /\ [][Next]_log
=============================================================================
