------------------------------ MODULE ChatFiles ------------------------------
(***************************************************************************)
(* Files on their way into a message: uploaded under the browser's cookie  *)
(* (src/app/ui_session.py), kept in a bounded store until a tab claims and *)
(* sends them (ChatFileStore in src/app/chat_files.py and the file         *)
(* callbacks of src/app/gradio_ui.py).                                     *)
(*                                                                         *)
(* A file is its upload.  Its owner is the token the cookie named; a tab   *)
(* looks for it under its own token and under that token's successor.      *)
(***************************************************************************)
EXTENDS Naturals, Sequences, FiniteSets

CONSTANTS
    Uploads,         \* files, one upload each
    BearerTokens,    \* access tokens that tabs of the service hold
    Old, New,        \* two tokens of one login: Old may be renewed to New
    Size,            \* compressed size of a file
    MaxBytes,        \* max_bytes
    MaxPending,      \* max_pending
    MaxStaged,       \* max_staged
    Parallel         \* max_parallel

NoFile == 0

ASSUME ChatFilesAssumption ==
    /\ IsFiniteSet(Uploads) /\ NoFile \notin Uploads
    /\ Old \in BearerTokens /\ New \in BearerTokens /\ Old # New
    /\ Size \in Nat /\ MaxBytes \in Nat /\ MaxPending \in Nat /\ MaxStaged \in Nat

VARIABLES
    renewed,         \* Old has been renewed
    upload,          \* upload_chat_file calls
    parsing,         \* taken slots of _parsing
    pending,         \* _pending, oldest first
    staged,          \* _staged, oldest first
    sending,         \* the file each tab's send_pending has read, or none
    sent             \* history: files sent, with the token that sent them

fileVars == <<renewed, upload, parsing, pending, staged, sending, sent>>

LoginOf(k) == IF k = New THEN Old ELSE k

\* A row of _pending is under its owner, one of _staged under its key.
Rows == [key : BearerTokens, file : Uploads]

FileTypeOK ==
    /\ renewed \in BOOLEAN
    /\ upload \in [Uploads -> [pc : {"new", "reading", "over"}, owner : BearerTokens]]
    /\ parsing \in Nat
    /\ pending \in Seq(Rows)
    /\ staged \in Seq(Rows)
    /\ sending \in [BearerTokens -> Uploads \cup {NoFile}]
    /\ sent \subseteq (Uploads \X BearerTokens)

FileInit ==
    /\ renewed = FALSE
    /\ upload = [u \in Uploads |-> [pc |-> "new", owner |-> Old]]
    /\ parsing = 0
    /\ pending = <<>> /\ staged = <<>>
    /\ sending = [k \in BearerTokens |-> NoFile]
    /\ sent = {}

\* _token_keys.
KeysOf(k) == IF k = Old /\ renewed THEN {New, Old} ELSE {k}

-----------------------------------------------------------------------------
(* ChatFileStore.                                                          *)

Holds(s, k) == \E i \in 1..Len(s) : s[i].key = k
Without(s, i) == [j \in 1..(Len(s) - 1) |-> IF j < i THEN s[j] ELSE s[j + 1]]

\* A token has one row at most (OneRowPerToken).
Pop(s, k) == IF Holds(s, k) THEN Without(s, CHOOSE i \in 1..Len(s) : s[i].key = k) ELSE s

\* The rows under the keys of a tab are dropped.
Popped(s, k) == IF k = Old /\ renewed THEN Pop(Pop(s, New), Old) ELSE Pop(s, k)

\* The file is put under every key of a tab.
Put(s, k, u) ==
    IF k = Old /\ renewed
    THEN Append(Append(Popped(s, k), [key |-> New, file |-> u]), [key |-> k, file |-> u])
    ELSE Append(Popped(s, k), [key |-> k, file |-> u])

\* A file under two keys counts once.
FilesIn(s) == {s[i].file : i \in 1..Len(s)}
OverBudget(p, s) == Size * Cardinality(FilesIn(p) \cup FilesIn(s)) > MaxBytes

Newest(s, n) == [j \in 1..n |-> s[Len(s) - n + j]]
AtMost(s, n) == IF Len(s) < n THEN Len(s) ELSE n

\* _enforce_budget: the counts, then the bytes; what waits goes before what is
\* staged, the oldest first.
Fits(p, s, m, n) ==
    /\ m = 0 \/ n = AtMost(s, MaxStaged)
    /\ ~OverBudget(Newest(p, m), Newest(s, n))

Enforced(p, s) ==
    \E m \in 0..AtMost(p, MaxPending), n \in 0..AtMost(s, MaxStaged) :
        /\ Fits(p, s, m, n)
        /\ \A i \in 0..AtMost(p, MaxPending), j \in 0..AtMost(s, MaxStaged) :
              Fits(p, s, i, j) => i <= m /\ j <= n
        /\ pending' = Newest(p, m) /\ staged' = Newest(s, n)

-----------------------------------------------------------------------------
(* upload_chat_file.                                                       *)

\* The cookie names a token; a slot is taken, or the answer is busy.
BeginUpload(u, k) ==
    /\ upload[u].pc = "new"
    /\ IF parsing < Parallel
       THEN parsing' = parsing + 1 /\ upload' = [upload EXCEPT ![u] = [pc |-> "reading", owner |-> k]]
       ELSE UNCHANGED parsing /\ upload' = [upload EXCEPT ![u].pc = "over"]
    /\ UNCHANGED <<renewed, pending, staged, sending, sent>>

SlotBack == parsing - 1

\* Too large, too slow, the client gone, or not a document: the slot comes back.
FailUpload(u) ==
    /\ upload[u].pc = "reading"
    /\ parsing' = SlotBack
    /\ upload' = [upload EXCEPT ![u].pc = "over"]
    /\ UNCHANGED <<renewed, pending, staged, sending, sent>>

\* put_pending: one waiting file per owner.
EndUpload(u) ==
    LET k == upload[u].owner
    IN  /\ upload[u].pc = "reading"
        /\ parsing' = parsing - 1
        /\ upload' = [upload EXCEPT ![u].pc = "over"]
        /\ Enforced(Append(Pop(pending, k), [key |-> k, file |-> u]), staged)
        /\ UNCHANGED <<renewed, sending, sent>>

-----------------------------------------------------------------------------
(* The tab.                                                                *)

Cleared(k) == pending' = Popped(pending, k) /\ staged' = Popped(staged, k)

\* Mutation of MayClaim: knowing the id of an upload is enough.
AnyClaimant(x, k) == TRUE

\* claim compares the owner with the keys of the tab.
MayClaim(x, k) == x.key \in KeysOf(k)

\* stage_chat_file with an upload id; a foreign one is used up, and clears the
\* tab's own.
StageChatFile(k, i) ==
    LET x    == pending[i]
        left == Without(pending, i)
    IN  /\ i \in 1..Len(pending)
        /\ IF MayClaim(x, k)
           THEN Enforced(left, Put(staged, k, x.file))
           ELSE pending' = Popped(left, k) /\ staged' = Popped(staged, k)
        /\ UNCHANGED <<renewed, upload, parsing, sending, sent>>

\* clear_chat_file, and do_logout.
ClearChatFile(k) ==
    /\ Cleared(k)
    /\ UNCHANGED <<renewed, upload, parsing, sending, sent>>

StagedFor(k) == {staged[i].file : i \in {j \in 1..Len(staged) : staged[j].key \in KeysOf(k)}}

\* _send_chat_message reads what is staged ...
BeginSend(k) ==
    /\ sending[k] = NoFile
    /\ \E u \in StagedFor(k) : sending' = [sending EXCEPT ![k] = u]
    /\ UNCHANGED <<renewed, upload, parsing, pending, staged, sent>>

\* ... and clears the tab's files once the API has taken the message.
EndSend(k, ok) ==
    /\ sending[k] # NoFile
    /\ sending' = [sending EXCEPT ![k] = NoFile]
    /\ IF ok THEN Cleared(k) /\ sent' = sent \cup {<<sending[k], k>>}
             ELSE UNCHANGED <<pending, staged, sent>>
    /\ UNCHANGED <<renewed, upload, parsing>>

\* _prune of the oldest.
Expire ==
    /\ \/ pending # <<>> /\ pending' = Without(pending, 1) /\ UNCHANGED staged
       \/ staged # <<>> /\ staged' = Without(staged, 1) /\ UNCHANGED pending
    /\ UNCHANGED <<renewed, upload, parsing, sending, sent>>

Renew ==
    /\ ~renewed /\ renewed' = TRUE
    /\ UNCHANGED <<upload, parsing, pending, staged, sending, sent>>

FileNext ==
    \/ Expire \/ Renew
    \/ \E u \in Uploads : FailUpload(u) \/ EndUpload(u)
    \/ \E u \in Uploads, k \in BearerTokens : (k = New => renewed) /\ BeginUpload(u, k)
    \/ \E k \in BearerTokens : ClearChatFile(k) \/ BeginSend(k)
    \/ \E k \in BearerTokens, i \in 1..Len(pending) : (k = New => renewed) /\ StageChatFile(k, i)
    \/ \E k \in BearerTokens, ok \in BOOLEAN : EndSend(k, ok)

FileSpec == FileInit /\ [][FileNext]_fileVars

-----------------------------------------------------------------------------
(* Properties.                                                             *)

OneRowPerToken(s) == \A i, j \in 1..Len(s) : s[i].key = s[j].key => i = j

\* A file is staged and sent only by the login that uploaded it, although ids of
\* waiting files may be presented by any tab and tokens are renewed meanwhile; the
\* store stays within its counts and bytes, with one waiting and one staged row for
\* a token, and every slot for parsing is held by an upload in progress.
FileStaysWithItsLogin ==
    /\ \A i \in 1..Len(staged) : LoginOf(upload[staged[i].file].owner) = LoginOf(staged[i].key)
    /\ \A x \in sent : LoginOf(upload[x[1]].owner) = LoginOf(x[2])
    /\ Len(pending) <= MaxPending /\ Len(staged) <= MaxStaged
    /\ ~OverBudget(pending, staged)
    /\ OneRowPerToken(pending) /\ OneRowPerToken(staged)
    /\ parsing = Cardinality({u \in Uploads : upload[u].pc = "reading"})

-----------------------------------------------------------------------------
(* The inductive invariant.                                                *)

\* A file in the store has ended its upload, and is under a token of its login.
KeptFor(s, calls) ==
    \A i \in 1..Len(s) : /\ calls[s[i].file].pc = "over"
                         /\ LoginOf(calls[s[i].file].owner) = LoginOf(s[i].key)

\* What a tab has read may leave the store, and is sent as its login's file.
SendsItsOwn ==
    \A k \in BearerTokens : sending[k] # NoFile =>
        /\ upload[sending[k]].pc = "over"
        /\ LoginOf(upload[sending[k]].owner) = LoginOf(k)

FileIInv ==
    /\ FileTypeOK /\ FileStaysWithItsLogin
    /\ KeptFor(pending, upload) /\ KeptFor(staged, upload) /\ SendsItsOwn
    /\ \A x \in sent : upload[x[1]].pc = "over"
=============================================================================
