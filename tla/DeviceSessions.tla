--------------------------- MODULE DeviceSessions ---------------------------
(***************************************************************************)
(* What the session store promises a device, without requests, clocks or   *)
(* revocation rows: a device session is opened by a sign-in under the id   *)
(* of its first token, is held by exactly one token at a time, may hand    *)
(* over to a token never seen before, and once ended is never held again.  *)
(***************************************************************************)
CONSTANTS Tokens, NoToken

VARIABLES
    spent,      \* token ids minted so far
    opened,     \* device sessions opened so far, named after their first token
    holder      \* by device session: the token that holds it, or NoToken

dvars == <<spent, opened, holder>>

Init ==
    /\ spent = {}
    /\ opened = {}
    /\ holder = [f \in Tokens |-> NoToken]

Open(f) ==
    /\ f \notin spent
    /\ spent' = spent \cup {f}
    /\ opened' = opened \cup {f}
    /\ holder' = [holder EXCEPT ![f] = f]

Rotate(f, n) ==
    /\ holder[f] # NoToken
    /\ n \notin spent
    /\ spent' = spent \cup {n}
    /\ holder' = [holder EXCEPT ![f] = n]
    /\ UNCHANGED opened

\* One request may end one device session, or all those of an account.
End(F) ==
    /\ holder' = [f \in Tokens |-> IF f \in F THEN NoToken ELSE holder[f]]
    /\ UNCHANGED <<spent, opened>>

Next ==
    \/ \E f \in Tokens : Open(f)
    \/ \E f, n \in Tokens : Rotate(f, n)
    \/ \E F \in SUBSET opened : End(F)

Spec == Init /\ [][Next]_dvars
=============================================================================
