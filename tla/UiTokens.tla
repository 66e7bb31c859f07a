------------------------------- MODULE UiTokens ------------------------------
(***************************************************************************)
(* The tabs of one browser, the access token each of them holds, and the   *)
(* server-side store that hands the token over a page reload and leads a   *)
(* stale tab to the newest token of its login (src/app/ui_session.py and   *)
(* the session callbacks of src/app/gradio_ui.py).                         *)
(*                                                                         *)
(* A callback is one thread: the calls it makes to the API and to the      *)
(* store are steps of their own, and callbacks of other tabs come between  *)
(* them.  The API is the one of AuthSessions, reduced to which token of a  *)
(* login is live; a rotated token that comes back after the grace period   *)
(* ends its login, and the callback that rotated it is over by then.       *)
(***************************************************************************)
EXTENDS Naturals, FiniteSets

CONSTANTS
    Tabs,
    MaxToken,        \* bound: tokens ever issued
    MaxLogin,        \* bound: sign-ins
    MaxTickets,      \* max_tickets
    MaxSuccessors    \* four times max_sessions

ASSUME UiTokensAssumption == MaxToken \in Nat /\ MaxLogin \in Nat

VARIABLES
    tab,        \* st_token of each tab, 0 if it is signed out
    renewal,       \* extend_session of each tab
    login,      \* the sign-in each token belongs to, 0 if it is not issued
    live,       \* external: tokens the API accepts
    rotated,    \* external: tokens that refresh has replaced
    stolen,     \* external: sign-ins ended because a rotated token came back
    successor,  \* _successors
    ticket,     \* tokens of _tickets
    saved,      \* token of the record the browser's cookie names, 0 if none
    ended       \* _ENDED_TOKENS

tabVars == <<tab, renewal, login, live, rotated, stolen, successor, ticket, saved, ended>>

Tokens == 1..MaxToken
NoRenewal == [pc |-> "idle", from |-> 0, used |-> 0, got |-> 0]

TabTypeOK ==
    /\ tab \in [Tabs -> 0..MaxToken]
    /\ renewal \in [Tabs -> [pc : {"idle", "rotate", "publish"}, from : 0..MaxToken,
                          used : 0..MaxToken, got : 0..MaxToken]]
    /\ login \in [Tokens -> 0..MaxLogin]
    /\ live \subseteq Tokens /\ rotated \subseteq Tokens /\ ended \subseteq Tokens
    /\ stolen \subseteq 1..MaxLogin
    /\ successor \in [Tokens -> 0..MaxToken]
    /\ ticket \subseteq Tokens
    /\ saved \in 0..MaxToken

TabInit ==
    /\ tab = [t \in Tabs |-> 0]
    /\ renewal = [t \in Tabs |-> NoRenewal]
    /\ login = [n \in Tokens |-> 0]
    /\ live = {} /\ rotated = {} /\ stolen = {}
    /\ successor = [n \in Tokens |-> 0]
    /\ ticket = {} /\ saved = 0 /\ ended = {}

Issued == {n \in Tokens : login[n] # 0}

\* Tokens are issued in order.
IsNext(m) == m \in Tokens \ Issued /\ \A n \in 1..m - 1 : n \in Issued
Family(n) == {k \in Tokens : login[k] = login[n]}

\* current_token: follow the rotations to the token that has no successor, but not
\* more than sixteen.
Followed(S) == \A n \in S : successor[n] # 0 => successor[n] \in S
Reach(n) == {k \in Tokens : \A S \in SUBSET Tokens : n \in S /\ Followed(S) => k \in S}
Stops(n) == {k \in Reach(n) : successor[k] = 0 \/ Cardinality(Reach(n) \ Reach(k)) >= 16}
Current(n) == CHOOSE k \in Stops(n) : \A j \in Stops(n) : k <= j

-----------------------------------------------------------------------------
(* The API.                                                                *)

\* A rotated token is reused if the callback that rotated it is over.
Reused(n) == n \in rotated /\ \A t \in Tabs : renewal[t].used # n

\* What current_user does with a token that is not live.
TurnAway(n) ==
    IF Reused(n) /\ Family(n) \cap live # {}
    THEN live' = live \ Family(n) /\ stolen' = stolen \cup {login[n]}
    ELSE UNCHANGED <<live, stolen>>

-----------------------------------------------------------------------------
(* Callbacks.                                                              *)

\* do_login, do_mfa_verify and finish_passkey_login.
DoLogin(t) ==
    LET logins == {login[k] : k \in Issued}
    IN  /\ tab[t] = 0 /\ Cardinality(logins) < MaxLogin
        /\ \E n \in Tokens :
              /\ IsNext(n)
              /\ login' = [login EXCEPT ![n] = Cardinality(logins) + 1]
              /\ live' = live \cup {n}
              /\ tab' = [tab EXCEPT ![t] = n]
        /\ UNCHANGED <<renewal, rotated, stolen, successor, ticket, saved, ended>>

\* remember_session after each of them: a ticket, if there is room.
RememberSession(t) ==
    /\ tab[t] # 0 /\ renewal[t].pc = "idle"
    /\ Cardinality(ticket) < MaxTickets
    /\ ticket' = ticket \cup {tab[t]}
    /\ UNCHANGED <<tab, renewal, login, live, rotated, stolen, successor, saved, ended>>

\* attach: the ticket is used up and the cookie's old record dropped; the answer
\* with the new cookie may not arrive.
Attach(n, arrives) ==
    /\ n \in ticket
    /\ ticket' = ticket \ {n}
    /\ saved' = IF arrives THEN n ELSE 0
    /\ UNCHANGED <<tab, renewal, login, live, rotated, stolen, successor, ended>>

\* _prune of a ticket.
TicketExpires(n) ==
    /\ n \in ticket
    /\ ticket' = ticket \ {n}
    /\ UNCHANGED <<tab, renewal, login, live, rotated, stolen, successor, saved, ended>>

\* Any other callback: the API is asked with the newest token of the tab's login.
\* Its refusal is remembered under the tab's own token.
CallApi(t) ==
    LET n == Current(tab[t])
    IN  /\ tab[t] # 0 /\ n \notin live
        /\ TurnAway(n)
        /\ ended' = ended \cup {tab[t]}
        /\ UNCHANGED <<tab, renewal, login, rotated, successor, ticket, saved>>

\* extend_session asks the API ...
ExtendSession(t) ==
    LET n == Current(tab[t])
    IN  /\ tab[t] # 0 /\ renewal[t].pc = "idle" /\ n \in live
        /\ \E m \in Tokens :
              /\ IsNext(m)
              /\ login' = [login EXCEPT ![m] = login[n]]
              /\ live' = (live \ {n}) \cup {m}
              /\ renewal' = [renewal EXCEPT ![t] = [pc |-> "rotate", from |-> tab[t], used |-> n,
                                                   got |-> m]]
        /\ rotated' = rotated \cup {n}
        /\ UNCHANGED <<tab, stolen, successor, ticket, saved, ended>>

\* Mutation of MovedTo: the token is moved in whatever the cookie holds now.
RotateCookie(t) == IF saved # 0 THEN renewal[t].got ELSE saved

\* ... and rotate_token, under the token the tab had, moves what is kept for it; a
\* full store does not lead the other tabs to it.
MovedTo(t) == IF saved = renewal[t].from THEN renewal[t].got ELSE saved

RotateToken(t) ==
    LET c == renewal[t]
    IN  /\ c.pc = "rotate"
        /\ successor' = IF Cardinality({n \in Tokens : successor[n] # 0}) < MaxSuccessors
                        THEN [successor EXCEPT ![c.from] = c.got] ELSE successor
        /\ saved' = MovedTo(t)
        /\ ticket' = IF c.from \in ticket THEN (ticket \ {c.from}) \cup {c.got} ELSE ticket
        /\ renewal' = [renewal EXCEPT ![t].pc = "publish", ![t].used = 0]
        /\ UNCHANGED <<tab, login, live, rotated, stolen, ended>>

\* The result is published if the tab still has the token it asked with.
Publish(t) ==
    /\ renewal[t].pc = "publish"
    /\ tab' = IF tab[t] = renewal[t].from THEN [tab EXCEPT ![t] = renewal[t].got] ELSE tab
    /\ renewal' = [renewal EXCEPT ![t] = NoRenewal]
    /\ UNCHANGED <<login, live, rotated, stolen, successor, ticket, saved, ended>>

\* restore_session on a page load: only a token the API accepts.
RestoreSession(t) ==
    LET n == Current(saved)
    IN  /\ saved # 0 /\ renewal[t].pc = "idle"
        /\ IF n \in live
           THEN /\ tab' = [tab EXCEPT ![t] = saved]
                /\ UNCHANGED <<live, stolen, saved, ended>>
           ELSE /\ tab' = [tab EXCEPT ![t] = 0]
                /\ TurnAway(n)
                /\ saved' = 0
                /\ ended' = ended \cup {saved}
        /\ UNCHANGED <<renewal, login, rotated, successor, ticket>>

\* What do_logout hands to the API: the tab's token and the cookie's, led to the
\* newest of their logins.
Asked(t) == {Current(n) : n \in {tab[t], saved} \ {0}}

\* do_logout: each with its whole family, and the cookie's record.
DoLogout(t) ==
    LET closed == UNION {Family(n) : n \in Asked(t) \cap live}
        reused == {n \in Asked(t) \ live : Reused(n) /\ Family(n) \cap (live \ closed) # {}}
    IN  /\ tab[t] # 0
        /\ live' = live \ (closed \cup UNION {Family(n) : n \in reused})
        /\ stolen' = stolen \cup {login[n] : n \in reused}
        /\ saved' = 0
        /\ tab' = [tab EXCEPT ![t] = 0]
        /\ UNCHANGED <<renewal, login, rotated, successor, ticket, ended>>

\* tick finds the refusal and expire_session clears this tab only.
ExpireTab(t) ==
    /\ tab[t] \in ended
    /\ ended' = ended \ {tab[t]}
    /\ tab' = [tab EXCEPT ![t] = 0]
    /\ UNCHANGED <<renewal, login, live, rotated, stolen, successor, ticket, saved>>

TabNext ==
    \/ \E t \in Tabs :
          \/ DoLogin(t) \/ RememberSession(t) \/ CallApi(t)
          \/ ExtendSession(t) \/ RotateToken(t) \/ Publish(t)
          \/ RestoreSession(t) \/ DoLogout(t) \/ ExpireTab(t)
    \/ \E n \in Tokens : TicketExpires(n)
    \/ \E n \in Tokens, arrives \in BOOLEAN : Attach(n, arrives)

TabSpec == TabInit /\ [][TabNext]_tabVars

-----------------------------------------------------------------------------
(* Properties.                                                             *)

\* Neither the store nor a page reload ever turns one sign-in into another:
\* following rotations stays in the login, and whatever rotates the cookie's
\* token rotates it to a token of the login it is for, although tabs of the
\* browser sign in, renew and sign out while a renewal is under way.
LoginsStayApart ==
    /\ \A n \in Tokens : successor[n] # 0 => login[successor[n]] = login[n]
    /\ \A t \in Tabs : renewal[t].pc # "idle" => login[renewal[t].got] = login[renewal[t].from]

\* Renewing a token never moves the cookie, or the tab, to another login.
SameLoginCookie ==
    \A t \in Tabs :
        /\ RotateToken(t) /\ saved # 0 => login[saved'] = login[saved]
        /\ Publish(t) /\ tab[t] # 0 => login[tab'[t]] = login[tab[t]]

\* Both, with the types.
CookieKeepsLogin == [](TabTypeOK /\ LoginsStayApart) /\ [][SameLoginCookie]_tabVars

\* BrowserSessionStore follows rotations because a rotated token "presented to
\* the API after the grace period would look like token theft and revoke the
\* device": the browser's own tabs never cause that.
NoFalseTheft == stolen = {}

-----------------------------------------------------------------------------
(* The inductive invariant.                                                *)

IssuedInOrder == \A n \in Issued : \A k \in 1..n : k \in Issued

\* Only what was issued is kept anywhere, and a token is renewed to a later one.
KeptAreIssued ==
    /\ \A t \in Tabs : tab[t] # 0 => tab[t] \in Issued
    /\ saved # 0 => saved \in Issued
    /\ ticket \subseteq Issued
    /\ \A n \in Tokens : successor[n] # 0 => /\ n \in Issued /\ successor[n] \in Issued
                                            /\ n < successor[n]
    /\ \A t \in Tabs : renewal[t].pc # "idle" =>
          /\ renewal[t].from \in Issued /\ renewal[t].got \in Issued
          /\ renewal[t].from < renewal[t].got

TabIInv == TabTypeOK /\ LoginsStayApart /\ IssuedInOrder /\ KeptAreIssued
=============================================================================
