---------------------------- MODULE MCE2eeDevices ----------------------------
(* Model-checking instances of E2eeDevices.                                *)
EXTENDS E2eeDevices, TLC

CONSTANTS c1, c2, c3, k1, k2, r1, r2

\* One account has all devices.
OneUser == [d \in Devices |-> 1]

\* No definition tells two challenges, two requests or two prekeys apart.
Symmetry == Permutations(Challenges) \cup Permutations(Reqs) \cup Permutations(Prekeys)
=============================================================================
