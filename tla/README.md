# TLA+ model of the Secure Conversational Application Platform

The platform is a FastAPI service (`src/app`) with a Gradio front end, a
relational database (PostgreSQL in production, SQLite for development), an
optional Redis for rate limits, an external AI provider and an append-only
(WORM) sink for audit checkpoints. Several worker processes serve requests at
once. All durable state is in the database, and what makes the service correct
is mostly what its handlers do between two statements, between a dependency's
commit and the handler's own transaction, or between two transactions. That is
what these modules are about.

## 1. Inventory

| Part | State it keeps | Operations | Hard behaviour | What makes it correct |
|---|---|---|---|---|
| Bearer sessions, account administration (`main.py`, `security.py`) | `users`, `auth_sessions`, `revoked_tokens`, claims inside JWTs | sign-in, refresh, logout, revoke, logout-all, step-up, password change and reset, role/status/delete by administrators, expiry on use, reuse detection | `current_user` reads without locks and commits before the handler's transaction; two refreshes; sweep deletes rows | one live token per device, closed sessions stay closed, deadlines belong to the device, nobody acts on stale authority, an administrator remains |
| Audit log (`audit.py`, `audit_chain.py`, `scripts/repair_audit_chain.py`) | `audit_events` with `prev_hash`, `entry_hash`; SIEM output | `record_audits`, verify, reseal | concurrent batches, rollback with id gaps, lock order, chain switched off and on | every sealed row is linked, ids in chain order, the SIEM never ahead of the table |
| Audit checkpoints (`audit_checkpoint.py`, `main.py`) | `audit_checkpoints`, the sink, per-process back-off | anchor, probe, ensure latest, verify | lost answers, crashes between delivery and insert, several processes, damage between check and anchor | the sink holds what the table claims, once; damage stays visible; the tail is caught up |
| Private conversations (`main.py`) | `chat_sessions` (mode, epoch), `conversation_members`, `e2ee_envelopes` | create, add, remove, send, receive, change mode, delete; suspension and deletion of accounts; device revocation | three kinds of row locks, enumeration before locking, recipient not locked | epochs cut off whoever leaves, nobody reads what was sent while away, inactive accounts are out, no circular wait |
| E2EE devices and prekeys (`main.py`, `e2ee.py`) | `e2ee_devices`, `e2ee_device_challenges`, `e2ee_prekeys` | challenge, register, approve, upload, hand out, revoke, sweep | hand-out races with revocation; rollback releases locks; sweep forgets | trust goes back to the first device, a challenge pays once, a one-time key is given once |
| Second factors (`main.py`, `security.py`) | TOTP counter, recovery codes, challenges, lock-outs | enrol, activate, verify, disable | the same code at two workers, lock-out read before the lock | a code works once, the lock-out cannot be outrun |
| Password stage of sign-in (`main.py`, `account_security.py`, `sign_in_risk.py`) | failed attempts, lock, device tokens, sign-in history | assess, decide, remember a browser | the source is assessed before the account is locked | strangers neither unlock nor lock out the owner |
| Account recovery (`account_recovery.py`, `account_routes.py`, `mailer.py`) | codes, attempt counters, mail queue | issue, confirm, remove, close, restart | attempts raced past their limit, a refused mail burns its code later | a code works once, within its attempts, for the account it was issued for |
| Passkeys (`passkeys.py`) | credentials, challenges, counters | register, sign in, step up, sweep | owner found before the lock, assertions replayed or late | a challenge proves once, a counter never falls back |
| Rate limits (`security.py`) | sliding windows | allow, refund, reset, clean up | refund of another's slot, a full store | no budget in use is forgotten |
| Admission and capacity (`availability.py`, `request_limits.py`, `gradio_capacity.py`) | slots, probes, queues | admit, read the body, release | refusals, time-outs and cancellation at every await | slots come back exactly once |
| Intrusion detection (`ids.py`) | scores, bans; findings over the audit log | inspect, ban, release, correlate | bounded shared table, check apart from record; rows out of order | bans hold and end; findings are real runs |
| Security notices (`notification_routes.py`, `security_notifications.py`) | phones, codes, subscriptions, pool | verify, remove, subscribe, deliver | budgets counted from rows others delete, gone endpoints | a phone is proved, a fresh subscription stays |
| Chat and AI provider (`services.py`, `main.py`) | `secure_messages`, consent, slots | send, consent, create, change, delete | provider call under locks, consent withdrawn meanwhile | pairs complete, nothing sent without consent |
| Envelope encryption (`envelope.py`, `key_management.py`, scripts) | keyrings, DEK epochs, caches | encrypt, rotate, rewrap, migrate, retire | scripts beside writers and caches, interrupted | every message has its key |
| Retention, maintenance (`retention.py`, `maintenance.py`) | deadlines, leader lock, cycle key | backfill, sweep, run cycle, alert | sweep beside writers, two leaders, failing phases | deadlines are kept, cycles do not overlap and keep coming |
| Files and exports (`chat_files.py`, `main.py`) | pending and staged files, tickets | upload, parse, claim, send; issue, redeem, read pages | login renewed meanwhile, ticket ledger swept | a file stays with its login, a ticket opens one export |
| Data-loss prevention (`dlp.py`) | one inspection | decode, scan, decide, redact | budgets of depth, views and characters | what was not inspected does not leave |
| Gradio UI (`gradio_ui.py`, `ui_session.py`) | tabs' tokens, browser tickets, queued callbacks | sign in, renew, reload, log out; queue, run, publish | several tabs and logins, callbacks that outlive a login | a cookie and a result belong to their login |
| Reference clients (`clients/`) | vault file, ratchets or group state, outbox, cursor | refill, prepare, flush, receive; change member | crashes, failed saves, lost answers, membership changing elsewhere | no key used twice, nothing stranded |
| Configuration, schemas, headers, storage permissions, database engine, demo data | none | pure functions, start-up | - | not for a model checker |

Parts interact through rows they both lock. Suspension and deletion of an
account (AuthSessions) are also what ends its memberships (PrivateSessions);
every handler's last statement is `record_audit`, whose commit is the commit of
the handler (AuditLog); what AuditLog appends is what AuditCheckpoint anchors;
device registration and revocation appear in full in E2eeDevices and as a state
change in PrivateSessions; the retention sweep deletes rows of all of them.

The hazards, each at its line and with the properties that would catch it, are
in `PROJECT.json`.

## 2. Plan

1. `AuthSessions` with the abstract `DeviceSessions`, and its proofs. *Done.*
2. `HashChain`, `SealedLog`, `AuditLog` and `AuditCheckpoint`, and their proofs. *Done.*
3. `PrivateSessions` and its proofs; `E2eeDevices` and its proofs. *Done.*
4. `MfaFactors`, `LoginGuard`, `Passkeys`, `AccountRecovery` over `Mailer`, and
   `Notices`, and their proofs. *Done.*
5. `Admission`, `RateLimits`, `Bans` and `Correlation`, and their proofs. *Done.*
6. `ChatTurns` (with retention deadlines), `EnvelopeKeys`, `Dlp`, `ChatFiles`,
   `ExportTickets`, `Maintenance`, `UiCallbacks` and `UiTokens`, and their proofs. *Done.*
7. `OlmClient`, `MlsClient`. *Done.*

Left: theorems for the reference clients; the Redis limiter, the availability
alerts and the queue of results inside Gradio.

## 3. Modules and code

### AuthSessions, DeviceSessions

State: `user` (status, `token_version`, role), `session` (`auth_sessions` by
jti: live, revoked or deleted, family, root sign-in time, last activity, last
step-up), `denylist`, `jwt` (claims of minted tokens), `now`, `req`. The
histories `closed` and `device` record which device sessions an answered request
ended and when a device was really used; no guard reads them.

A request takes the steps of the code: `Arrive` (decode), `ReadSession` and
`Admit` (the three unlocked reads of `current_user`), `DetectReuse`, `Touch` or
`ExpireOnUse` (the locked part of `current_user` and its commit), `Decode`, then
one action for the handler under the account lock (`RefreshSession`, `Logout`,
`RevokeAuthSession`, `EndAllSessions`, `StepUp`, `Mutate` for every other
account mutation, the `Admin...` handlers). A request that fails a check takes
`Abandon`. `Purge` is the retention sweep with its batch size, `Tick` is time.
Every writer of these rows takes the account lock first, so the locked part of a
handler is one step; everything before it interleaves freely.

`DeviceSessions` is what a device may rely on: a token is spent once minted, a
sign-in opens a device session, one token at a time holds it, and a session that
has lost its holder never gets one again.

### HashChain, SealedLog, AuditLog

`HashChain` is the pure part: `ComputeHash` as a collision-free function,
`SealEvent`, `verify_chain` as `Broken` and `Gaps`, `Reseal`. `AuditLog` runs
`record_audits` in concurrent transactions: flush of business rows (which locks
them), `append_lock`, sealing event by event, commit, SIEM lines; failures at
any statement; restarts with `audit_chain_enabled` changed; the repair script as
a read and a commit. `SealedLog` promises that rows are only added at the end,
linked, and that sealed rows are final.

### AuditCheckpoint

Each process runs `_anchor` statement by statement: verify the previous anchor,
read the newest event, look for an existing row, deliver, insert, retry;
delivery may fail, succeed or succeed with its answer lost; a process may crash;
`ensure_latest_anchored`, the probe and the back-off are actions; `Damage`
alters or deletes rows behind the application's back; the administrator's
verification walks the chain and looks at the anchor in separate steps.

### PrivateSessions

Every handler is a transaction `txn[t]` that locks accounts in id order, for a
revocation the device row, enumerates conversations without locking them, locks
them in id order and commits. `LockAccount`, `LockDevice`, `Enumerate`,
`LockSession`, `SkipSession` are the shared steps; the `...Commit` actions are
the handlers' changes. `CheckEnvelope` and `InsertEnvelope` are the two halves
of `send_e2ee_envelope`: the checks, and the INSERT whose foreign keys wait for
device rows. An envelope remembers the audience it had (members and their
trusted devices), which only properties read. `Abort` is any refusal, failure or
lost connection. `Accounts`, `Advance`, `StillJoined`, `EpochAccepted` carry the
decisions the properties depend on.

### E2eeDevices

Challenges, registration with approval, prekey upload and revocation hold the
account lock throughout and are one step each. The histories `redeemed`,
`uploaded` and `handed` count what a challenge paid for and how often a prekey
was stored and given out. `consume_prekey_bundle` locks
the device row of another account and is three steps (`ConsumePrekeyBundle`,
`Pick`, `Claim` or `Answer`), with the retry loop of the code. A registration
that violates a unique key rolls back, loses its locks and consumes its
challenge in a second transaction (`RegisterClashes`, `Reburn`). `Refuse` is
every audited refusal, which commits the consumption. `Sweep` deletes consumed
prekeys.

### MfaFactors

One account: its row (`acct`: status, `mfa_enabled`, `token_version`, password
as a generation number, secret, last accepted counter, wrong codes, lock), its
recovery codes, the challenges that `login` mints, and `mfa_verify` calls in
progress. Time is counted in TOTP periods; a TOTP code is the pair of secret and
counter it was computed from. The handlers that need a bearer (`MfaEnroll`,
`MfaActivate`, `MfaDisable`, `StepUp`, `ChangePassword`, `UpdateUserStatus`) and
`ConfirmPasswordReset` hold the account lock and are one step. `mfa_verify` has
no bearer and is three: `PresentChallenge` (decode, denylist), `ReadAccount`
(account, lock, code, all unlocked), and one transaction that is `SignIn`,
`RecordMfaFailure` or, for a claim that updates no row, `Abandon`. Whether a
source is familiar is an input. `Claimable` is the WHERE clause of the UPDATEs
that consume a factor.

Two details follow the database layer rather than the text of the handler. The
session writes `mfa_failed_attempts = 0` only if the value it had read was not 0
(`FailedAfter`), so a wrong code that commits in between is kept. The sweep
deletes denylist rows of expired challenges, so `ChallengeOpensOnce` speaks of
challenges that have not expired: a request that decoded its challenge in time
and comes to its INSERT after expiry and sweep is stopped by the spent factor
only. Passwords and rate limits come before the steps and can only refuse.

### LoginGuard, AccountRecovery and Mailer, Passkeys, Notices

`LoginGuard` is the password stage for one account: a request is assessed
against the history without a lock (`Assess`) and decided under it. Whether the
password is right and which browser and network a request comes from are inputs.

`AccountRecovery` extends `Mailer`: handlers hold the account lock and are one
step, the mail leaves after the commit, and a reset whose mail is refused burns
its code in a second transaction. `Mailer` takes a slot, submits, runs and gives
back in separate steps, with `CloseMailer`, `Shutdown` and `Restart` anywhere between.

`Passkeys` has one step per handler with a bearer and two for a sign-in without
a name (find the owner, then everything again under the lock). An assertion is
the challenge, key and counter an authenticator signed; a copy of the
authenticator may sign as well. `Notices` has phone codes and their budgets,
browser subscriptions as rows with an identity of their own, in which a
subscription may be renewed in place (its version grows), and deliveries that
read their destinations, call the provider without a lock and, in a later step,
delete the row whose subscription was answered to be gone. Codes to one number are
counted across accounts in one step: `request_phone` counts them under the lock of
the one account, and the shared limiter's key of the number keeps two accounts
apart.

### RateLimits, Admission, Bans, Correlation

`RateLimits` is the in-process limiter under the two-step charge of `login`:
each call is a step, and other sign-ins come between. `Admission` follows a
request through the middleware from await to await; at each of them it may fail,
time out or be cancelled. `Bans` reads the table unlocked when a request arrives
and writes it under the writer lock that the audit batch holds until its commit;
the hits of a request are the sum of their weights.
`Correlation` is `detect_anomalies` as operators over the audit table, compared
with findings defined from the log directly. Accounts are numbers there, as the
report of distributed guessing is cut by their order.

### ChatTurns, EnvelopeKeys, Dlp

`ChatTurns` runs `send_message` from admission to commit, across the provider
call, with the locks and the provider's slots; the consent handlers, the
creation, change and deletion of conversations, the backfill of deadlines and
the sweep, which reads and deletes in separate steps, interleave with it.

`EnvelopeKeys` follows every ciphertext and the key it is under through two
keyrings, epochs, the workers' caches, `rotate_session_dek` and the three
scripts, each of which reads, commits row by row and may die in between. The
scripts run one at a time, and after every worker was restarted with the new
keyring, as their documentation asks.

`Dlp` is one call of `evaluate`, view by view: what the regular expressions find
in a view, and whether there is anything to decode in it, is a free choice when
the view is scanned, so all texts of that shape are covered. `QueueView` is the
budget, `Decide`, `Merge` and `Join` are the policy and the redaction.

### ExportTickets, ChatFiles, Maintenance, UiTokens, UiCallbacks

`ExportTickets` redeems a ticket in two steps (denylist, then all checks under
the lock) and reads the export page by page while rows are stored. `ChatFiles`
has uploads, parsing slots, the bounded stores and the renewal of the login that
owns a file. `Maintenance` is the loop of each worker with its locks and its
three phases; clocks are kept as the time left, so that it runs for ever in a
finite model. `UiTokens` has the tabs of one browser; `extend_session` is split
at its calls, the other callbacks are one step. `Current` follows rotations as
`current_token` does, sixteen of them at most, through a store that may be full
and then does not lead to the next token. `UiCallbacks` is the guard around
queued callbacks, from await to await.

### OlmClient, MlsClient

A client works on the vault file it read at start: memory, file and relay are
three pieces of state, a request and a save are one step each, and a crash, a
failed save (before or after the file was replaced) or a lost answer may come
after any of them. `OlmClient` has two devices, their prekeys and ratchets;
`MlsClient` a group of three, whose owner merges a commit before the relay has
changed the membership, and a relay where membership may change without the
client. The secret of an MLS epoch is named by its commit.

`NextEnvelopeOpens` of `MlsClient` names three ways in which the client does
come to a halt at an envelope (`Halts`): the owner committed over a message it
had not read, and OpenMLS keeps no past epoch; a message of another member was
stored between the commit that adds a device and its Welcome; a device that was
removed and added again still has the old group. A change of membership made
elsewhere leaves a prepared outbox where it is, with the error the code gives
("keep this profile for recovery"). In `OlmClient`, a crash between the save and
the display of a message loses its text, a change of epoch leaves the outbox,
and an envelope that does not decrypt holds up the cursor; the properties leave
these out. They name one more: the relay's sweep deletes the rows of consumed
prekeys, so a batch whose answer was lost is taken for new when the client repeats
it. A key of it that was used meanwhile is then offered again although the vault no
longer has its private half (`Resurrected`, which `NothingIsStranded` excepts;
the relay's side of it is the finding `devices_resurrect`).

## 4. Runs

Deadlock checking is off everywhere: the models end when their bounds are
reached (ids, epochs, time), which the service does not.

Every run explores several *loads*. In `MCAuthSessions`, `MCPrivateSessions` and
`MCMfaFactors` a load is a mix of operations with its own bounds (the record
`Bounds`), chosen in the initial state and kept; `Within` keeps every step inside
it. Each mix is so explored further than the union of all of them could be.
`MCAccountAccess`, `MCBackground` and `MCPlatform` are disjoint sums of
components that share no state: `load` names the component and its instance.
`MCAccountAccess` and `MCPlatform` extend all of their components, and
`MCBackground` extends `AuditLog`; `MCPrivateSessions` extends `PrivateSessions`
beside the loads of the reference clients. The variables of such a component are
its own and rest in the other loads, and its bounds are in the cfg: the
definitions that TLC checks there are those the theorems of section 6 state.
The other components, of `MCBackground` and the reference clients, are instances
that share the variables `x1`, `x2`, ...; those a component does not need stay
`Unused`. A property of such an instance is the component's property in the
component's behaviours, with its type invariant, and its bounds are in its
`INSTANCE ... WITH`, under a comment that says which case they are for.

| Run | Loads and what they show | Bounds |
|---|---|---|
| `auth_sessions` | `rotation`, `closing`, `administration`, `sweeping`, `timed`: rotation, logout and mutation of one device; ending the other sessions; administrators acting on each other; the sweep under a request; every deadline; refinement of `DeviceSessions` | 3 tokens; 2 requests in flight (1 under the sweep and over time); 2 accounts where administrators act; up to 3 ticks, so that the cap of 3 passes |
| `private_sessions` | members leaving and returning; suspension and reactivation; device revocation; change of mode and deletion; two owners adding each other; the reference clients in `clients`, `vault`, `group`, `regroup` | 2 transactions, of which one sends; 3 accounts, 3 devices, 1 conversation (2 for lock order); epochs up to 4, the fourth being a return; 2 clients with up to 2 messages, a group of 3 with up to 3 changes, one crash |
| `e2ee_devices` | registration, approval, revocation, clashes, crashes; prekeys stored, given out statement by statement and swept, at their limits | 2 devices, 3 challenges, 2 prekeys, 2 requests |
| `mfa_factors` | guessing until the account is locked and beyond; two challenges with right, wrong and recovery codes at once; password, reset and status changing under a request; the factor switched off and enrolled again | 2 requests, 2 challenges, 2 recovery codes, 2 secrets, lock after 2 wrong codes, 4 wrong codes (the second lock is longer), 2 ticks |
| `account_access` | `recovery`, `mailbox`, `passkeys`, `step_up`, `budget`, `phones`, `pushes`, `tabs`, `login`, `admission`, `bans`, `limits`, `files` | 2 requests (3 where slots are contended), limits of 1 or 2 so that they are reached, 2 accounts that want one mailbox, 3 codes, an authenticator and its copy, 2 sessions, 2 tabs, 2 sign-ins and room for one rotation, 3 sources for 2 rows, 3 uploads of 2 logins |
| `background` | `log`, `anchoring`, `mail`, `loop`, `turns`: liveness, and refinement of `SealedLog` | 2 writers, 2 rows and a legacy row, batches of 2; 2 events and one crash; 2 messages for 1 slot; 2 workers and 2 faults; 2 chat turns for 1 provider slot |
| `platform` | `turns`, `days`; `keys`, `scripts`; `callbacks`; `tickets`, `export`; `findings`; `text`; `anchoring`, `damage`; `loop` | 2 turns and 3 changes of consent; 2 days; 2 keyrings, 2 epochs, a legacy message; 3 callbacks of 2 people; 2 tickets, 5 places in pages of 2; 3 audit rows in 2 minutes; 4 views of which 3 fit; 3 events |
| `audit_repair_live` | violation: the repair beside a serving application | 2 writers, a legacy tail, chain always on |
| `private_deadlock` | violation: device before conversation against conversation before device | the load `devices` |
| `devices_resurrect` | violation: a consumed prekey is accepted and given out again | 1 device, 1 prekey |
| `mfa_lock_race` | violation: a sign-in from a stranger while the account is locked | the load `guessing` |
| `stale_tab` | violation: a tab that was not told of a renewal ends the session | the load `tabs` |

What the properties of the composite runs say, in a line each (the comment on
each definition has the whole):

- `SlotsAreHeld`, `BudgetIsKept`, `FileStaysWithItsLogin`: every slot is held by a request in progress and
  comes back once; an account or an address never gets more attempts in a window
  than its limit, except the slots that were given back; a file is staged and sent
  by the login that uploaded it, and the stores keep to their budget.
- `RecoveryIsProved`, `ChallengeProvesOnce`, `PhoneIsProved`,
  `FreshSubscriptionStays`: a reset, a passkey sign-in or step-up and a phone
  rest on one proof that was issued for them and was still good; the budget of
  verification texts holds through removals and sweeps; a late answer about an
  endpoint does not delete a row made for it since, whoever made it (a
  subscription renewed in the row that was read is deleted with the row).
- `CookieKeepsLogin`, `LockoutIsSmart`, `BansStand`: a renewal does not move the
  browser's cookie to another login; a locked account refuses strangers only; a
  ban lasts its time in every worker.
- `EveryAppendEnds`, `EveryEventIsAnchored`, `EverySlotReturns`,
  `SweepsKeepComing`, `EveryTurnEnds`: liveness; `ImplementsSealedLog`: refinement.
- `ConsentCoversEgress`, `ExchangeIsWhole`, `RetentionIsKept`: what is sent to
  the provider is covered by a consent that stands; both halves of an exchange
  are stored, and locks and slots given back; no step postpones a deadline, and a
  sweep removes only what had passed its own.
- `EveryMessageOpens`: whatever is stored opens with the keys in use.
- `CallbacksKeepTheirLogin`, `TicketOpensOneExport`: results and exports reach the
  login, and only the login, they began for.
- `EgressIsInspected`, `EpisodesAreRuns`: nothing leaves uninspected at the
  limits of the scanner; a finding is a run of events, and every run is found.
- `AnchorsAreEvidence`, `LeadersDoNotOverlap`: the sink holds what the table
  claims, once, and damage stays visible; two leaders run a cycle at once only
  after the lock connection was lost.
- `NothingIsStranded` (in `private_sessions`): a client can always go on from its vault file: no message
  key encrypts twice, the group does not fork, what the owner committed and what
  the relay did agree, and the next envelope opens (with the exceptions of
  section 3).

Two requests are enough for the races looked for: every conflict in the code is
between a request that has read something and one that changes it, and the
proofs remove the bound where it matters most. Tokens, requests, writers,
workers, processes, turns, transactions, challenges, prekeys, tabs, attempts and
uploads are interchangeable, so runs that check safety alone use them as symmetry sets; the
run with liveness uses none.

Fairness, all of it in `background`. Strong fairness on the steps of an audited
transaction and of a chat turn that wait for locks, and on the delivery of an
anchor: a lock that comes free again and again is granted in the end, the
provider's client has a time-out, and a sink that is asked for ever does not
refuse for ever. Weak fairness on the steps of the mailer's threads, of the
anchoring calls and of the maintenance workers: a thread keeps running, and the
compose files restart a container that stopped. Weak fairness on clocks and
back-offs. Aborts, crashes and failures are never required, and faults are
bounded.

## 5. Findings

- `audit_repair_live`: the repair script takes no append lock; run beside the
  application, as its compose file says it may be, it can leave a chain that
  does not verify.
- `private_deadlock`: device revocation locks the device row and then the
  conversations, while an envelope is inserted with the conversation locked and
  needs the device rows; PostgreSQL has to abort one of the two, contrary to the
  comment on the common lock order. The data stays right: the aborted request
  has no effect. `NoCircularRowWait` of `private_sessions` shows that every
  circle has a device row in it: accounts and conversations keep the order.
- `devices_resurrect`: the check that forbids uploading a consumed prekey again
  looks at rows that the retention sweep, on by default at start-up, deletes.
  A client that repeats an upload whose answer was lost, as the contract tells
  it to, can so have a used one-time key given out again.
- `mfa_lock_race`: `mfa_verify` looks at the lock once, before it compares the
  code, and the UPDATE that claims the factor does not look again. Of two
  requests that both found the account unlocked, one may lock it with a wrong
  code and the other, from a stranger too, still sign in. The window is the
  length of one request, and `NthFailureLocks` shows that no wrong code escapes
  the count.
- `stale_tab`: `rotate_token` keeps one successor for each token a tab presents.
  Two tabs hold token 1 of one login. The first renews it to 2, and 2 becomes
  the successor of 1. The second, still holding 1, renews later: the token it
  sends is the successor 2, which is rotated to 3, but the call records 3 as the
  successor of 1, in the place of 2, and nothing as the successor of 2. The first
  tab holds 2, finds no successor of it, and presents it after the grace period:
  the reuse detector ends the session in every tab, which the comment in
  `ui_session.py` describes as the case to prevent.

## 6. Proofs

`AuthSessions_proofs` proves, for any sets of accounts, tokens and requests and
any lifetimes, from the named assumptions of `AuthSessions`: type correctness,
the row invariants, that an administrator remains, that what was ended stays so
(`EndingIsFinal`), that waiting grants nothing (`WaitingGrantsNothing`) and the refinement of `DeviceSessions`.

The inductive invariant is `IInv == TypeOK /\ SafeRows /\ BearersMinted`. The
row invariants are not inductive alone: that rotation does not fork a family
needs every family to be rooted in a minted token of the same account
(`FamiliesRooted`), that a fresh id is clean of denials and closings
(`UnmintedIsClean`), and that a request in progress carries a minted bearer
whose family has not changed since it was read (`BearersMinted`). Most actions
only revoke rows; one lemma (`KillKeepsRowsSafe`) covers the shape "some rows
lose their life, nothing else of a row changes", and the lemmas `...IsGood` show
that each action has it. Sign-in, rotation, `Touch` and step-up, which write
clocks or new rows, are proved one by one. The refinement maps the holder of a
family to its live row, which `OneLiveTokenPerDevice` makes unique.

`E2eeDevices_proofs` proves, for any accounts, devices, challenges, prekeys and
requests and any limits, type correctness and the properties of
`e2ee_devices`. They need each other only through the locks. That a challenge
pays once rests on `PaidIsUsed`: consumption is in the transaction that pays.
That trust has one root rests on `TrustRemains`: the last trusted device cannot
be revoked, so a registration without approval meets an account that never had
one. `BundleLocked` says what the row lock of a hand-out protects: the device
stays trusted and the picked prekey unused until the claim, which gives
`PickStands` and `NoBundleOfRevoked`. `UnusedIsOwed` counts an available prekey
as stored once more than it was given out, and makes `HandedOncePerUpload`
inductive through the sweep. The stronger promise that a prekey is given out
once at all does not hold; see `devices_resurrect`.

`MfaFactors_proofs` proves, for any requests, challenges, codes, thresholds and
durations, type correctness and the properties of `mfa_factors`. A factor
works once because an accepted TOTP counter stays behind `mfa_last_counter` as
long as its secret is the account's, and a secret is never drawn again
(`AcceptedTotpIsBehind`; disabling sets the counter back to 0, so the counter
alone is not enough), and because an accepted recovery code is used or deleted
(`AcceptedCodeIsSpent`). A sign-in is current because everything that changes
password, status or enrolment also changes `token_version`: a challenge that
still has the version was issued for the account as it is
(`ChallengeIsCurrent`), and what a request matched is of the present secret
(`MatchIsCurrent`). `RowIsCounted` ties the wrong codes in a row to the counter
modulo the threshold, which gives `NthFailureLocks`. The assumption
`PowersOfTwo` is arithmetic that the provers lack; TLC evaluates all of it.

The same module proves, for any keys, networks, tabs and limits, the properties of
three more parts of signing in. `Passkeys`: a handler commits a proof in the
transaction that uses its challenge, so a challenge with a proof is never open
(`ProvedIsUsed`), and a proof is of the purpose, owner and bearer its challenge
was made for; the counter is read under the lock, so it does not fall back.
`LoginGuard`: an assessment made before the account lock is still true under it
(`AssessmentsHold`), because rows of sign-ins are only added and a row that was
too old stays so; a device token is earned by a row (`TokensAreEarned`), so the
device it names is never announced as known without a sign-in; and no lock
outlasts one that would begin now (`LocksAreBounded`), so a new one never
shortens it. `UiTokens`: what tabs, tickets, cookie and rotations keep was issued,
and a rotation leads to a later token of its login (`KeptAreIssued`,
`LoginsStayApart`). The numbers grow along rotations, so following them ends, and
the set of a login's tokens is closed under them, so it ends in the login
(`RotationsEnd`, `CurrentStays`).

And it proves, for any accounts, mailboxes, mails, slots, phones, subscriptions and
limits, how an account is recovered and alerted. `AccountRecovery`, over `Mailer`:
a code only ever leaves the state in which it can be entered (`CodeMoves`), an open
one has guesses left and a burned one was refused (`CodesFit`), so whatever
mailboxes, passwords and mails do in between, a reset rests on a code that is bound
to the account as it is, and the code that proved a mailbox stays on record
(`MailboxStays`). The invariant contains the mailer's: `_active` is the number of
messages that hold a slot (`MailIInv`), without which it might fall below zero.
`Notices`: a challenge that was swept is older than a day before the earliest one a
budget counts (`ProofsFit`), so the challenges of any hour or day that includes the
present are all among those `request_phone` counts, and one more still fits
(`IssueFits`, `OneMoreFits`); every other step keeps owners, numbers and births
(`BirthsStay`). An answer that a subscription is gone stands for one that was
dropped in that row (`AnswersFit`), and stays true whatever happens until the
delivery acts on it, because rows keep their ids and versions only grow
(`VersionsGrow`, `DroppedStays`).

`PrivateSessions_proofs` proves, for any accounts, devices, conversations and
transactions, `OutsidersStayOut`, `ReadersWereMembers` and `NoCircularRowWait`.
The invariant says what each lock protects at each step: which rows a
transaction holds, that it took them in id order, and that what it checked under
them still stands (`CheckStillHolds`). The delicate part is what a revocation, a
suspension or a deletion enumerates without a lock: `EnumerationCovers` says that
the account joins no conversation behind its back, because joining needs the
account's lock, so the conversations it then locks are all there are.
`AudienceIsWhole` (a member since an epoch is in the audience of every envelope
of it) is what makes `ReadersWereMembers` survive a return. Waits for accounts
and conversations are never circular because along a wait the order only grows.

`ChatTurns_proofs` proves, for any turns, conversations, slots, quotas and
periods, `ConsentCoversEgress`, `ExchangeIsWhole` and `RetentionIsKept`. A turn
keeps the account's lock across the call of the provider, so what it checked and
what it sent stay covered until its commit (`TurnsAreSound`); the slots are
counted by the turns that hold one (`SlotsAreCounted`, on cardinalities); a
conversation's messages come from turns that are over (`ConversationsAreSound`),
so an exchange is not stored twice; and the rows a sweep read without a lock keep
what it saw in them until it writes (`SweepIsSound`).

The same module proves `TicketOpensOneExport` of `ExportTickets`, for any tickets,
calls, sign-ins, pages and rows. A ticket that was redeemed is in the denylist or
has expired (`UsedIsRemembered`), because the sweep forgets only what has; so the
second look at the denylist, under the account lock, finds every earlier use.
What an export has yielded is in order, and what was there when it began is
among it or past its last row (`StreamsAreSound`). The step that keeps this is
`PageIsAdded`: of a finite set of rows the first page is the lowest ones
(`PageIsLowest`), a set of numbers is put in order by counting what lies below
each (`PlacesAreTaken`, `InOrderIsSorted`), and so a row that the page leaves out
lies past the page's last row.

`Services_proofs` holds what is proved of the services of a worker, each for any
number of everything that its constants count.

- *Admission*, `SlotsAreHeld`: a counter is the number of requests in the states
  that hold it. The invariant adds that the requests in progress are finitely
  many, which the cardinality lemmas need. Every step moves one request between
  such sets, and the lemmas say what that does to a cardinality.
- *RateLimits*, `BudgetIsKept`. In a window that is still open, what was admitted
  is in the bucket or was given back, so the bucket's length bounds it
  (`SlotsAreAccounted`, `OpenWindow`); a window that has closed does not change. A
  full store forgets no budget in use, because `_cleanup` drops only what has
  expired and a budget does not expire before the slots in it (`ExpiresLast`). The
  sets counted are positions in sequences: the lemmas `Since...` say how they grow
  with a slot and shrink with a refund.
- *ChatFiles*, `FileStaysWithItsLogin`. Eviction, expiry and clearing only thin a
  table (`Thinned`: fewer rows, each of them one of the old), and
  a thinned table keeps owners, counts and bytes within what they were. The one
  row that is added is of the login of its file, and the store is cut to its
  budget in the same step (`PutRows`, `StoreThinned`).
- *Bans*, `BansStand`. The transaction that holds the writer lock works on a
  draft; the invariant says that the draft agrees with the table on every ban in
  force but the one it announces or lifts, so neither its commit nor its failure
  loses one. Pruning and the eviction of a full table only touch rows whose ban
  is served (`PruneForgetsServed`, `OldestIsEvictable`).
- *Dlp*, `EgressIsInspected`. The scan keeps account of every view: inspected,
  waiting, still to be yielded by the decoder, or cut with a finding that says so
  (`limit`). The merged spans lie apart from one another (`ApartAppend`,
  `ApartExtend`), so the chunks between them are exactly the characters outside
  every span (`ChunksAreTheRest`); with the actions the classes ask for, nothing
  that had to be removed, and nothing at all where a limit was met, leaves.
- *Maintenance*, `LeadersDoNotOverlap`: a cycle holds the advisory lock unless its
  connection was lost (`CycleHoldsLock`), and the cycle key outlives the first
  interval of the cycle that set it (`KeyCoversCycle`), so of two cycles side by
  side one has been running for an interval (`OneIsOverdue`).
- *UiCallbacks*, `CallbacksKeepTheirLogin`: the binding of a queued callback is of
  some generation of the tab, and the sign-ins and sign-outs since then are the
  generations the tab is ahead (`BindingIsDated`); what the guard compared is that
  binding (`GuardSawBinding`), so a callback that still acts or writes was
  submitted under the present login.

`AuditLog_proofs` proves the invariant, that the chain verifies, and the
refinement of `SealedLog`, for any writers, rows, batches and legacy rows, under
the assumption `~RepairLive`: the repair runs with the application stopped. The
run `audit_repair_live` shows that without it the theorems are false. The heart
is that a writer in the middle of its batch sees a sound table (`SoundTxn`): it
holds the append lock, and whoever else adds rows needs it too
(`SealerHoldsTheLock`); before and after, `SoundLog` (ids ascend, every link
fits). `verify_chain` and `Reseal` are written by position rather than by
recursion, so no induction over the log is needed: the first gap (`FirstGap`)
exists because positions are well-founded, and resealing from it links each row
to the row before. Of the hash it needs `NoHashAssumption`: the mark of a
row without one is not a hash.

The same module proves `AnchorsAreEvidence` of `AuditCheckpoint`, for any
processes, events and limits. A document exists in up to three places: with the
process that is about to deliver it, in the sink, and in the checkpoint table.
The invariant says that they agree with one another and with the rows they are
about as these were when they were read (`DocumentsAgree`), that a row of the
table was delivered (`DeliveriesAreStored`), and that until somebody tampers all
rows are there (`UndamagedSoFar`). Damage shows because it cannot be repaired
from outside: an altered row lacks its hash; after a removed row the next one is
not linked, or its anchor finds no row; a truncated log lacks the row that was
anchored; and what is appended later has later ids.

It proves `EpisodesAreRuns` of `Correlation` too, for any events, thresholds,
windows and clocks, from `CorrelationAssumption` (thresholds of at least one, two
sources, as the code demands). The invariant (`RowsAreNumbered`) says only that a
row is known by its id; the rest are lemmas about the operators in such a table.
The sum of successes before a row grows from one row to a later one exactly where
a success lies between (`EpisodeGrows`), so an episode has one success and its
failures are those that run up to it (`RunIsEpisode`). The latest success of
each account orders the accounts, so the numbers of those that come later differ
and fewer than `Limit` many are below `Limit` (`FindingsAreReported`). Guessing
is seen because a row is known by its address and its rank there: rows of
`Sources - 1` addresses, each below `Failures`, are too few (`FewOfEach`).
That nothing is buried rests on a run staying a run when later rows arrive
(`RunStays`) and on a new run needing an older row of its account
(`RunsAreOfTwoRows`).

`EnvelopeKeys_proofs` proves `EveryMessageOpens`, for any workers, conversations,
messages, epochs and keys, from `KeysAssumption` (at least one epoch, and the
conversation of the older release is one). Three facts carry it. `EpochsInOrder`: a conversation's rows are
exactly its epochs so far, so neither `ensure_session_key` nor a rotation that
read an old epoch writes over a row that a message needs. `CachesAreTrue`: a
cached key is the key of the row it is cached for, however old, because the
cache key contains the wrapping. `ScriptIsSound` with `KeyringsInOrder`: once
`rotate_encryption_key` has looked, nothing is wrapped under the old key again,
since every worker has the new keyring, so removing the old one strands nothing
(`RetiringIsSafe`). The bounds `MaxEpoch` and `MaxDek` are any numbers.

Every other assumption is named in the module it is about and evaluated by TLC
in the runs: constants are sets and numbers of the right kind, and a value that
stands for "none" is not one of the things it stands beside.

Only model-checked. The five liveness properties: fairness and ENABLED are
outside the prover. `NothingIsStranded` of the reference clients, whose
components have several instances with different bounds in one run: TLC explores
them, and nothing else rests on them.

## 7. Not modelled

Cryptography is abstracted to accepted or refused; HMAC and SHA-256 are taken to
be collision-free, AES-GCM to open with its own key and context only. String
matching (signatures, DLP patterns, document parsers), layout, pages and their
calls to the API, configuration, schemas, headers, file permissions, engine
construction, backups and schema migrations have no state for a model checker.
SQLite serialises writers, so the models follow PostgreSQL at READ COMMITTED,
which allows more behaviours. The Redis limiter does in one atomic script what
`RateLimits` does under its lock.

Behaviour of the code that was seen while modelling and that no property states:

- `MAX_PASSKEYS` is compared when options are issued (`passkeys.py:178`), so two
  registrations begun together may exceed it.
- A refund takes the newest slot of a shared bucket, whoever charged it
  (`security.py:564`); `BudgetIsKept` counts it as given back.
- A file that is staged while a message is being sent is cleared by the success
  of that message (`gradio_ui.py`).
- `subscribe_push` renews the owner's subscription in its row
  (`notification_routes.py:132`), and a delivery deletes by row id and owner
  (`security_notifications.py:288`): told too late that the old subscription is
  gone, it deletes the renewed one.
- A maintenance alert is claimed before it is sent (`maintenance.py:148`); a
  crash in between loses it for the life of the claim.
- A logout from a second tab within the grace period ends the token it holds
  (`gradio_ui.py:3282`).
- Envelopes are fetched by a cursor over a time that each worker takes from its
  own clock (`main.py:4972`): one stored late with an earlier time is passed over.
- A checkpoint that was inserted while no endpoint was configured is not
  delivered when there is one (`audit_checkpoint.py:263`).
- A TOTP seed that an older release stored under the shared key is not moved when
  the account gets a key of its own for another field (a phone, a subscription);
  `decrypt_user_secret` then tries that key only (`envelope.py:562`).
  `EncryptOtherSecret` has the step, `EveryMessageOpens` is about messages.
- Two sweeps at once (start-up sweeps of several workers, or the script beside
  the maintenance loop) could overwrite a deadline that was shortened between
  the backfill's read and its write (`retention.py`); the model has one sweep at
  a time, which the maintenance leader's lock ensures for the loop.
