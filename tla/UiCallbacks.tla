----------------------------- MODULE UiCallbacks -----------------------------
(***************************************************************************)
(* Queued callbacks of one browser tab: admission with a bounded record    *)
(* and the identity the tab had (src/app/gradio_capacity.py), and the      *)
(* guard that runs and publishes a callback only for that identity         *)
(* (_install_session_result_guard in src/app/gradio_ui.py).                *)
(*                                                                         *)
(* The guard runs on the event loop: a step ends at an await.  Handlers    *)
(* run in threads.  Postprocessing awaits its components one by one, so    *)
(* the token may be written before the generation is raised.  When a       *)
(* record's time to live is over is left open.                             *)
(***************************************************************************)
EXTENDS Naturals, FiniteSets

CONSTANTS
    Events,          \* submissions, one callback each
    People,          \* accounts that sign in from this tab
    Out,             \* the empty token
    MaxRetained,     \* retained_events
    MaxChange        \* bound: generations, and states evicted

ASSUME CallbacksAssumption == Out \notin Events /\ MaxRetained \in Nat /\ MaxChange \in Nat

VARIABLES
    state,           \* SessionState: which object, its token and its generation
    outputLock,      \* _scap_output_lock: the event that holds it, or Out
    ev,              \* events
    admitting,       \* the holder of admission_lock, or Out
    retained,        \* GradioCapacity.events
    epoch,           \* history: sign-ins and sign-outs published so far
    acted            \* history: the token each handler was called with

callbackVars == <<state, outputLock, ev, admitting, retained, epoch, acted>>

Idents == People \cup {Out}
Binding == [id : Nat, gen : Nat, token : Idents]
Jobs == [kind : {"login"}, who : People] \cup [kind : {"logout", "read"}, who : {Out}]

Live == {"admitting", "queued", "pre", "call", "run", "return", "writing"}

NoEvent == [pc |-> "none", job |-> [kind |-> "read", who |-> Out],
           bound |-> [id |-> 0, gen |-> 0, token |-> Out], obs |-> [id |-> 0, gen |-> 0, token |-> Out],
           input |-> Out, before |-> Out, since |-> 0]

CallbackTypeOK ==
    /\ state \in Binding
    /\ outputLock \in Events \cup {Out}
    /\ ev \in [Events -> [pc : Live \cup {"none", "over"}, job : Jobs, bound : Binding,
                          obs : Binding, input : Idents, before : Idents, since : Nat]]
    /\ admitting \in Events \cup {Out}
    /\ retained \subseteq Events
    /\ epoch \in Nat
    /\ acted \in [Events -> Idents \cup {"none"}]

CallbackInit ==
    /\ state = [id |-> 0, gen |-> 0, token |-> Out]
    /\ outputLock = Out
    /\ ev = [e \in Events |-> NoEvent]
    /\ admitting = Out
    /\ retained = {}
    /\ epoch = 0
    /\ acted = [e \in Events |-> "none"]

-----------------------------------------------------------------------------
(* GradioCapacity.                                                         *)

\* push: one admission at a time, if there is room for its record.
Push(e, job) ==
    /\ ev[e].pc = "none" /\ admitting = Out
    /\ IF Cardinality(retained) < MaxRetained
       THEN /\ ev' = [ev EXCEPT ![e] = [NoEvent EXCEPT !.pc = "admitting", !.job = job]]
            /\ admitting' = e
       ELSE ev' = [ev EXCEPT ![e].pc = "over"] /\ UNCHANGED admitting
    /\ UNCHANGED <<state, outputLock, retained, epoch, acted>>

\* capture_binding under the output lock, Gradio's push, and the record.
Capture(e) ==
    /\ ev[e].pc = "admitting" /\ outputLock = Out
    /\ ev' = [ev EXCEPT ![e].pc = "queued", ![e].bound = state, ![e].since = epoch]
    /\ retained' = retained \cup {e}
    /\ admitting' = Out
    /\ UNCHANGED <<state, outputLock, epoch, acted>>

\* Mutation of Terminal: records of running callbacks are pruned too.
AnyRecord(e) == TRUE

\* prune: a record whose event is neither queued nor running.
Terminal(e) == ev[e].pc = "over"

Prune(e) ==
    /\ e \in retained /\ Terminal(e)
    /\ retained' = retained \ {e}
    /\ UNCHANGED <<state, outputLock, ev, admitting, epoch, acted>>

\* clean_events and remove_from_queue drop what has not started.
Remove(e) ==
    /\ ev[e].pc = "queued"
    /\ ev' = [ev EXCEPT ![e].pc = "over"]
    /\ UNCHANGED <<state, outputLock, admitting, retained, epoch, acted>>

\* _StateHolder: another tab needs the room, and this one is not protected.
Evict ==
    /\ state.id < MaxChange
    /\ admitting = Out /\ \A e \in retained : Terminal(e)
    /\ state' = [id |-> state.id + 1, gen |-> 0, token |-> Out]
    /\ epoch' = epoch + 1
    /\ UNCHANGED <<outputLock, ev, admitting, retained, acted>>

-----------------------------------------------------------------------------
(* The guard.                                                              *)

\* admitted_auth_binding: no record, no binding.
SameBinding(e) == e \in retained /\ ev[e].bound = state

\* process: the binding of the admission must still be the state's.
Process(e) ==
    /\ ev[e].pc = "queued" /\ outputLock = Out
    /\ ev' = IF SameBinding(e) THEN [ev EXCEPT ![e].pc = "pre", ![e].obs = state]
                               ELSE [ev EXCEPT ![e].pc = "over"]
    /\ UNCHANGED <<state, outputLock, admitting, retained, epoch, acted>>

\* Preprocessing reads the token for the handler.
Preprocess(e) ==
    /\ ev[e].pc = "pre"
    /\ ev' = [ev EXCEPT ![e].pc = "call", ![e].input = state.token]
    /\ UNCHANGED <<state, outputLock, admitting, retained, epoch, acted>>

Stale(e) == ev[e].obs # state

\* invoke: the handler is called unless the observation is stale.
Invoke(e) ==
    /\ ev[e].pc = "call"
    /\ IF Stale(e) THEN ev' = [ev EXCEPT ![e].pc = "over"] /\ UNCHANGED acted
       ELSE /\ ev' = [ev EXCEPT ![e].pc = "run"]
            /\ acted' = [acted EXCEPT ![e] = ev[e].input]
    /\ UNCHANGED <<state, outputLock, admitting, retained, epoch>>

\* The handler's thread is done.  It may have raised: nothing to publish.
Return(e, ok) ==
    /\ ev[e].pc = "run"
    /\ ev' = [ev EXCEPT ![e].pc = IF ok THEN "return" ELSE "over"]
    /\ UNCHANGED <<state, outputLock, admitting, retained, epoch, acted>>

After(e) == CASE ev[e].job.kind = "login"  -> ev[e].job.who
              [] ev[e].job.kind = "logout" -> Out
              [] ev[e].job.kind = "read"   -> state.token

\* publish: under the lock, unless stale.  First the outputs ...
PublishOutputs(e) ==
    /\ ev[e].pc = "return" /\ outputLock = Out
    /\ IF Stale(e) THEN ev' = [ev EXCEPT ![e].pc = "over"] /\ UNCHANGED <<outputLock, state>>
       ELSE /\ ev' = [ev EXCEPT ![e].pc = "writing", ![e].before = state.token]
            /\ outputLock' = e
            /\ state' = [state EXCEPT !.token = After(e)]
    /\ UNCHANGED <<admitting, retained, epoch, acted>>

Changes(e) == ev[e].job.kind = "logout" \/ state.token # ev[e].before

\* ... then the generation.
PublishGeneration(e) ==
    /\ ev[e].pc = "writing"
    /\ Changes(e) => state.gen < MaxChange
    /\ state' = IF Changes(e) THEN [state EXCEPT !.gen = state.gen + 1] ELSE state
    /\ epoch' = IF Changes(e) THEN epoch + 1 ELSE epoch
    /\ outputLock' = Out
    /\ ev' = [ev EXCEPT ![e].pc = "over"]
    /\ UNCHANGED <<admitting, retained, acted>>

CallbackNext ==
    \/ Evict
    \/ \E e \in Events, job \in Jobs : Push(e, job)
    \/ \E e \in Events :
          \/ Capture(e) \/ Prune(e) \/ Remove(e)
          \/ Process(e) \/ Preprocess(e) \/ Invoke(e)
          \/ PublishOutputs(e) \/ PublishGeneration(e)
    \/ \E e \in Events, ok \in BOOLEAN : Return(e, ok)

CallbackSpec == CallbackInit /\ [][CallbackNext]_callbackVars

-----------------------------------------------------------------------------
(* Properties.                                                             *)

\* Work that is queued or running keeps its record, within the limit.
WorkKeepsItsRecord ==
    /\ \A e \in Events : ev[e].pc \in Live \ {"admitting"} => e \in retained
    /\ Cardinality(retained) <= MaxRetained

\* "Checking publication alone would let an old request execute with the next
\* token": a handler is called only with the token the tab had when the request
\* was admitted.
ActsAsSubmitted == \A e \in Events : acted[e] \in {"none", ev[e].bound.token}

\* "Discard results belonging to a login that has since ended or changed": what a
\* callback publishes, a sign-in included, belongs to the sign-in or sign-out
\* that was the tab's last when the request was admitted.
PublishesForItsLogin ==
    \A e \in Events : ev[e].pc = "writing" => ev[e].since = epoch

\* All three: a queued callback runs with the token its tab had when it was
\* submitted, publishes only into that same login, and keeps its record as long as
\* it is queued or running (_install_session_result_guard, GradioCapacity).
CallbacksKeepTheirLogin == ActsAsSubmitted /\ PublishesForItsLogin /\ WorkKeepsItsRecord

-----------------------------------------------------------------------------
(* The inductive invariant of the guard.                                   *)

Admitted(e) == ev[e].pc \in Live \ {"admitting"}

\* An admission under way has found room for its record.
RecordsFit ==
    /\ IsFiniteSet(retained)
    /\ Cardinality(retained) <= MaxRetained
    /\ admitting # Out => Cardinality(retained) < MaxRetained
    /\ \A e \in Events : ev[e].pc = "admitting" => admitting = e

\* An event has written its outputs and not its generation while it has the lock.
WriterHoldsLock == \A e \in Events : ev[e].pc = "writing" <=> outputLock = e

\* The token of the tab's generation: what it was before the outputs being written.
TokenOfGeneration == IF outputLock = Out THEN state.token ELSE ev[outputLock].before

\* A binding is of this state object and of some generation, which fixes its token
\* and how many sign-ins and sign-outs came after it.
BindingIsDated ==
    \A e \in Events :
        Admitted(e) => /\ e \in retained
                       /\ ev[e].bound.id = state.id /\ ev[e].bound.gen <= state.gen
                       /\ ev[e].since + state.gen = epoch + ev[e].bound.gen
                       /\ ev[e].bound.gen = state.gen => ev[e].bound.token = TokenOfGeneration

\* What the guard observed is the binding; until a generation is published, the
\* token it read for the handler is the observed one or one being written.
GuardSawBinding ==
    \A e \in Events :
        /\ ev[e].pc \in {"pre", "call", "run", "return", "writing"} => ev[e].obs = ev[e].bound
        /\ ev[e].pc = "call" /\ ev[e].obs.gen = state.gen => ev[e].input \in {ev[e].obs.token, state.token}
        /\ ev[e].pc \in {"none", "admitting"} => acted[e] = "none"

CallbackIInv ==
    /\ CallbackTypeOK /\ RecordsFit /\ WriterHoldsLock /\ BindingIsDated /\ GuardSawBinding
    /\ ActsAsSubmitted /\ PublishesForItsLogin

=============================================================================
