---------------------------- MODULE RelayRuntime ----------------------------
(***************************************************************************)
(* The relay runtime (packages/relay): the asynchronous functions a host   *)
(* application calls to submit a private operation, poll it, wait for its  *)
(* settlement, retry it, fall back to the wallet, and resume after a       *)
(* reload.                                                                 *)
(*                                                                         *)
(* A caller is one chain of awaits started by the host.  Its pc names the  *)
(* await it is suspended on; an action is the code that runs between two   *)
(* awaits, so every other caller may run in between.  A read of the store  *)
(* is an action of its own: the caller goes on with the record it read,    *)
(* whatever has been saved since.  A save takes effect in the action that  *)
(* awaits it.  A reload loses the callers, the in-flight completions and   *)
(* the wallet submitters, and keeps the store.                             *)
(***************************************************************************)
EXTENDS Relayer

CONSTANTS
    Callers,        \* the concurrent calls the host can have outstanding
    RelayConfigs,   \* the values of isRelayConfigured in the ports of the calls
    HostWaits,      \* the host makes no call on an operation still being submitted
    ListRank,       \* the order in which store.list returns the operations
    MaxAttempts,    \* maxAttempts of the settlement wait
    MaxCalls,       \* bound: polls, waits, retries and fallbacks started
    MaxFaults,      \* bound: port calls that reject
    MaxReloads,     \* bound: reloads of the host
    EffectCap       \* bound: runs of one side effect are counted up to here

ASSUME RuntimeAssumption ==
    /\ Ops # {}
    /\ RelayConfigs \subseteq BOOLEAN
    /\ HostWaits \in BOOLEAN
    /\ ListRank \in [Ops -> Nat]
    /\ MaxAttempts \in Nat \ {0}
    /\ MaxCalls \in Nat
    /\ MaxFaults \in Nat
    /\ MaxReloads \in Nat
    /\ EffectCap \in Nat \ {0}

VARIABLES
    store,          \* the pending-operation store
    callers,        \* the suspended calls
    inFlight,       \* the keys of inFlightCompletions
    submitted,      \* the operations the host has submitted, each once
    submitters,     \* those whose wallet submitter is still in memory
    walletAsked,    \* those submitDirect has been called for
    runs,           \* how often each side effect has run
    calls, faults, reloads    \* uses of the bounds

hostVars   == <<submitted, submitters, walletAsked>>
budgetVars == <<calls, faults, reloads>>
envVars    == <<relay, ledger>>
vars == <<store, callers, inFlight, runs, hostVars, budgetVars, envVars>>

---------------------------------------------------------------------------
\* Callers.

SomeOp == CHOOSE op \in Ops : TRUE

\* A caller with nothing outstanding; its other fields mean nothing.
Idle == [pc      |-> "idle",
         flow    |-> "once",
         op      |-> SomeOp,
         rec     |-> Absent,
         report  |-> NoReport,
         tx      |-> NoTx,
         attempt |-> 0,
         todo    |-> {}]

At(c, pc) == callers[c].pc = pc

Step(c, w) == callers' = [callers EXCEPT ![c] = w]

Goto(c, pc) == Step(c, [callers[c] EXCEPT !.pc = pc])

Save(c, rec) == store' = [store EXCEPT ![callers[c].op] = rec]

\* The caller w goes to poll its operation, having polled it before
\* "attempt" times in this wait.
Polling(w, attempt) == [Idle EXCEPT !.pc = "poll_read", !.flow = w.flow, !.op = w.op,
                                    !.attempt = attempt, !.todo = w.todo]

\* Where the caller w goes when the poll it awaits returns rec.
Returned(w, rec) ==
    CASE w.flow = "resume" -> [Idle EXCEPT !.pc = "resume_next", !.flow = "resume",
                                           !.todo = w.todo]
      [] w.flow = "await" /\ ~IsSettled(rec) ->
            IF w.attempt + 1 < MaxAttempts
              THEN Polling(w, w.attempt + 1)
              ELSE [Idle EXCEPT !.pc = "timeout_save", !.flow = "await", !.op = w.op,
                                !.rec = rec]
      [] OTHER -> Idle

\* The key under which the completion of a caller is registered, the caller
\* that runs it, and the callers that await it.
SuccessKey(c) == <<callers[c].op, callers[c].tx>>

Completing(c) == callers[c].pc \in {"effects", "effect_save"}

Joined(d, c) == At(d, "joined") /\ SuccessKey(d) = SuccessKey(c)

\* Mutant of Throw: the callers that joined the completion are forgotten.
ThrowAlone(c) ==
    /\ callers' = [callers EXCEPT ![c] = Idle]
    /\ inFlight' = IF Completing(c) THEN inFlight \ {SuccessKey(c)} ELSE inFlight

\* The await of caller c rejects: the error leaves every function on its
\* stack, and rejects whoever joined the completion it was running.
Throw(c) ==
    /\ callers' = [d \in Callers |->
                     IF d = c \/ (Completing(c) /\ Joined(d, c)) THEN Idle ELSE callers[d]]
    /\ inFlight' = IF Completing(c) THEN inFlight \ {SuccessKey(c)} ELSE inFlight

---------------------------------------------------------------------------
\* submitPreparedPrivateOperation, and submitAndAwaitPrivateOperation when
\* the flow is "await".

NewSubmission(op) == /\ op \notin submitted
                     /\ submitted' = submitted \cup {op}
                     /\ submitters' = submitters \cup {op}

RefuseEscrow(c, op) ==
    /\ At(c, "idle")
    /\ NewSubmission(op)
    /\ op \in EscrowOps /\ FALSE \in RelayConfigs
    /\ store' = [store EXCEPT ![op] = Refused(Prepared, "rejected")]
    /\ UNCHANGED <<callers, inFlight, walletAsked, runs, budgetVars, envVars>>

\* submitDirect is called before anything is stored.
SubmitDirectPath(c, op) == \E configured \in RelayConfigs :
    /\ At(c, "idle")
    /\ NewSubmission(op)
    /\ ShouldSubmitDirect(op, configured)
    /\ walletAsked' = walletAsked \cup {op}
    /\ Step(c, [Idle EXCEPT !.pc = "direct", !.op = op, !.rec = Prepared])
    /\ UNCHANGED <<store, inFlight, runs, budgetVars, envVars>>

\* The prepared record is stored before the relayer is called.
SubmitRelayPath(c, op) == \E flow \in {"once", "await"} :
    /\ At(c, "idle")
    /\ NewSubmission(op)
    /\ TRUE \in RelayConfigs /\ ~ShouldSubmitDirect(op, TRUE)
    /\ store' = [store EXCEPT ![op] = Prepared]
    /\ Step(c, [Idle EXCEPT !.pc = "create", !.flow = flow, !.op = op, !.rec = Prepared])
    /\ UNCHANGED <<inFlight, walletAsked, runs, budgetVars, envVars>>

CreateRequest(c) ==
    /\ At(c, "create")
    /\ Admit(callers[c].op)
    /\ Goto(c, "created")
    /\ UNCHANGED <<store, inFlight, runs, hostVars, budgetVars, ledger>>

SaveAccepted(c) ==
    /\ At(c, "created")
    /\ Save(c, AcceptedByRelay(callers[c].rec))
    /\ Step(c, IF callers[c].flow = "await" THEN Polling(callers[c], 0) ELSE Idle)
    /\ UNCHANGED <<inFlight, runs, hostVars, budgetVars, envVars>>

\* The relayer answers with an error: an infrastructure reason is an
\* admission failure, any other reason a rejection.
RelayRefuses(c) == \E phase \in {"admission_failed", "rejected"} :
    /\ At(c, "create")
    /\ Save(c, Refused(callers[c].rec, phase))
    /\ Step(c, Idle)
    /\ UNCHANGED <<inFlight, runs, hostVars, budgetVars, envVars>>

\* The relayer admitted the request but its answer does not arrive (a network
\* error, or a gateway's error page, whose reason is not an infrastructure
\* one), or saving the accepted record fails: the same catch block runs.
LoseAcceptance(c) == \E phase \in {"admission_failed", "rejected"} :
    /\ At(c, "created")
    /\ faults < MaxFaults
    /\ faults' = faults + 1
    /\ Save(c, Refused(callers[c].rec, phase))
    /\ Step(c, Idle)
    /\ UNCHANGED <<inFlight, runs, hostVars, calls, reloads, envVars>>

\* submitDirect resolves: the wallet's transaction landed.
DirectLands(c) ==
    /\ At(c, "direct")
    /\ Land(callers[c].op, "wallet_tx")
    /\ Step(c, [callers[c] EXCEPT !.pc = "complete_read", !.tx = "wallet_tx"])
    /\ UNCHANGED <<store, inFlight, runs, hostVars, budgetVars, relay>>

\* submitDirect rejects: the nullifiers are already spent.
DirectRefused(c) ==
    /\ At(c, "direct")
    /\ ledger[callers[c].op] # NoTx
    /\ Throw(c)
    /\ UNCHANGED <<store, runs, hostVars, budgetVars, envVars>>

---------------------------------------------------------------------------
\* completeSucceededOperation.

CompleteRead(c) ==
    /\ At(c, "complete_read")
    /\ LET w == callers[c]
           read == IF Exists(store[w.op]) THEN store[w.op] ELSE w.rec
       IN  Step(c, [w EXCEPT !.pc = "complete", !.rec = WithSucceededPhase(read, w.tx)])
    /\ UNCHANGED <<store, inFlight, runs, hostVars, budgetVars, envVars>>

\* A record that is already complete is saved and returned; a completion
\* already in flight is joined; otherwise this caller runs it.
Complete(c) ==
    /\ At(c, "complete")
    /\ \/ /\ IsAlreadyCompleted(callers[c].rec)
          /\ Save(c, callers[c].rec)
          /\ Step(c, Returned(callers[c], callers[c].rec))
          /\ UNCHANGED inFlight
       \/ /\ ~IsAlreadyCompleted(callers[c].rec)
          /\ SuccessKey(c) \in inFlight
          /\ Goto(c, "joined")
          /\ UNCHANGED <<store, inFlight>>
       \/ /\ ~IsAlreadyCompleted(callers[c].rec)
          /\ SuccessKey(c) \notin inFlight
          /\ inFlight' = inFlight \cup {SuccessKey(c)}
          /\ Goto(c, "effects")
          /\ UNCHANGED store
    /\ UNCHANGED <<runs, hostVars, budgetVars, envVars>>

\* Mutant of RunEffect: the effects run in any order.
RunAnyEffect(c) == \E e \in Effects :
    /\ At(c, "effects")
    /\ e \notin callers[c].rec.done
    /\ runs' = [runs EXCEPT ![callers[c].op][e] = IF @ < EffectCap THEN @ + 1 ELSE @]
    /\ Step(c, [callers[c] EXCEPT !.pc = "effect_save", !.rec.done = @ \cup {e}])
    /\ UNCHANGED <<store, inFlight, hostVars, budgetVars, envVars>>

\* applySuccessSideEffects: the next effect whose flag is not set runs, and
\* its flag is saved after it.
RunEffect(c) == \E e \in Effects :
    /\ At(c, "effects")
    /\ LET w == callers[c] IN
         /\ e \notin w.rec.done /\ Earlier(e) \subseteq w.rec.done
         /\ runs' = [runs EXCEPT ![w.op][e] = IF @ < EffectCap THEN @ + 1 ELSE @]
         /\ Step(c, [w EXCEPT !.pc = "effect_save", !.rec.done = @ \cup {e}])
    /\ UNCHANGED <<store, inFlight, hostVars, budgetVars, envVars>>

SaveEffect(c) ==
    /\ At(c, "effect_save")
    /\ Save(c, callers[c].rec)
    /\ Goto(c, "effects")
    /\ UNCHANGED <<inFlight, runs, hostVars, budgetVars, envVars>>

\* Mutant of FinishCompletion: resolves for the caller that ran it only.
FinishAlone(c) ==
    /\ At(c, "effects")
    /\ IsAlreadyCompleted(callers[c].rec)
    /\ Save(c, callers[c].rec)
    /\ inFlight' = inFlight \ {SuccessKey(c)}
    /\ Step(c, Returned(callers[c], callers[c].rec))
    /\ UNCHANGED <<runs, hostVars, budgetVars, envVars>>

\* The completion resolves for the caller that ran it and all that joined it.
FinishCompletion(c) ==
    /\ At(c, "effects")
    /\ IsAlreadyCompleted(callers[c].rec)
    /\ Save(c, callers[c].rec)
    /\ inFlight' = inFlight \ {SuccessKey(c)}
    /\ callers' = [d \in Callers |-> IF d = c \/ Joined(d, c)
                                       THEN Returned(callers[d], callers[c].rec)
                                       ELSE callers[d]]
    /\ UNCHANGED <<runs, hostVars, budgetVars, envVars>>

---------------------------------------------------------------------------
\* pollPendingOperation.

PollRead(c) ==
    /\ At(c, "poll_read")
    /\ LET w == callers[c]
           rec == store[w.op]
       IN  Step(c, IF ~Exists(rec) THEN Idle
                   ELSE IF ~rec.requested THEN Returned(w, rec)
                   ELSE [w EXCEPT !.pc = "poll_status", !.rec = rec])
    /\ UNCHANGED <<store, inFlight, runs, hostVars, budgetVars, envVars>>

PollStatus(c) ==
    /\ At(c, "poll_status")
    /\ Step(c, [callers[c] EXCEPT !.pc = "poll_save", !.report = relay[callers[c].op]])
    /\ UNCHANGED <<store, inFlight, runs, hostVars, budgetVars, envVars>>

\* The status is applied to the record read before it was asked for.
PollSave(c) ==
    /\ At(c, "poll_save")
    /\ LET w == callers[c]
           updated == ApplyStatus(w.rec, w.report)
       IN  /\ Save(c, updated)
           /\ Step(c, IF w.report.status = "succeeded" /\ w.report.hash # NoTx
                        THEN [w EXCEPT !.pc = "complete_read", !.rec = updated,
                                       !.tx = w.report.hash, !.report = NoReport]
                        ELSE Returned(w, updated))
    /\ UNCHANGED <<inFlight, runs, hostVars, budgetVars, envVars>>

\* awaitRelaySettlement gives up: the record of the last poll is saved.
SaveTimedOut(c) ==
    /\ At(c, "timeout_save")
    /\ Save(c, TimedOut(callers[c].rec))
    /\ Step(c, Idle)
    /\ UNCHANGED <<inFlight, runs, hostVars, budgetVars, envVars>>

---------------------------------------------------------------------------
\* retryFailedRelayAttempt and submitDirectFallback.

RetryRead(c) ==
    /\ At(c, "retry_read")
    /\ LET w == callers[c]
           rec == store[w.op]
       IN  Step(c, IF CanRetryRelayAttempt(rec)
                     THEN [w EXCEPT !.pc = "retry_call", !.rec = rec]
                     ELSE Idle)
    /\ UNCHANGED <<store, inFlight, runs, hostVars, budgetVars, envVars>>

RetryAttempt(c) ==
    /\ At(c, "retry_call")
    /\ \/ /\ AdmitRetry(callers[c].op)
          /\ Goto(c, "retry_save")
       \/ /\ ~(relay[callers[c].op].status = "failed" /\ relay[callers[c].op].retryAllowed)
          /\ Step(c, Idle)
          /\ UNCHANGED relay
    /\ UNCHANGED <<store, inFlight, runs, hostVars, budgetVars, ledger>>

SaveRetried(c) ==
    /\ At(c, "retry_save")
    /\ Save(c, RetriedAtRelay(callers[c].rec))
    /\ Step(c, Polling(callers[c], 0))
    /\ UNCHANGED <<inFlight, runs, hostVars, budgetVars, envVars>>

FallbackRead(c) ==
    /\ At(c, "fallback_read")
    /\ LET w == callers[c] IN
         Step(c, IF Exists(store[w.op])
                   THEN [w EXCEPT !.pc = "fallback", !.rec = store[w.op]]
                   ELSE Idle)
    /\ UNCHANGED <<store, inFlight, runs, hostVars, budgetVars, envVars>>

\* submitDirect can only be called while the host still holds the submitter
\* of the operation.
Fallback(c) == \E consent \in BOOLEAN :
    /\ At(c, "fallback")
    /\ LET w == callers[c] IN
         IF consent /\ CanOfferDirectSubmission(w.op, w.rec) /\ w.op \in submitters
           THEN /\ walletAsked' = walletAsked \cup {w.op}
                /\ Goto(c, "direct")
           ELSE /\ Step(c, Idle)
                /\ UNCHANGED walletAsked
    /\ UNCHANGED <<store, inFlight, runs, submitted, submitters, budgetVars, envVars>>

---------------------------------------------------------------------------
\* resumePendingOperations: the unfinalized operations of the list are
\* polled one after the other.

Unfinalized == {op \in Ops : IsUnfinalizedRelayOperation(store[op])}

StartResume(c) ==
    /\ At(c, "idle")
    /\ Unfinalized # {}
    /\ Step(c, [Idle EXCEPT !.pc = "resume_next", !.flow = "resume", !.todo = Unfinalized])
    /\ UNCHANGED <<store, inFlight, runs, hostVars, budgetVars, envVars>>

ResumeNext(c) ==
    /\ At(c, "resume_next")
    /\ LET w == callers[c] IN
         \/ /\ w.todo = {}
            /\ Step(c, Idle)
         \/ \E op \in w.todo :
              /\ \A other \in w.todo : ListRank[op] <= ListRank[other]
              /\ Step(c, Polling([w EXCEPT !.op = op, !.todo = @ \ {op}], 0))
    /\ UNCHANGED <<store, inFlight, runs, hostVars, budgetVars, envVars>>

---------------------------------------------------------------------------
\* The other entry points, failures and the host.

Submitting(c, op) == callers[c].op = op /\ callers[c].pc \in {"create", "created", "direct"}

StartCall(c, op) == \E pc \in {"poll_read", "retry_read", "fallback_read"} :
                    \E flow \in {"once", "await"} :
    /\ At(c, "idle")
    /\ op \in submitted
    /\ HostWaits => \A d \in Callers : ~Submitting(d, op)
    /\ flow = "await" => pc = "poll_read"
    /\ calls < MaxCalls
    /\ calls' = calls + 1
    /\ Step(c, [Idle EXCEPT !.pc = pc, !.flow = flow, !.op = op])
    /\ UNCHANGED <<store, inFlight, runs, hostVars, faults, reloads, envVars>>

\* Any port call can reject: a read, a save (also the one of the catch block
\* above), readStatus, a side effect, submitDirect, or the answer to
\* retryAttempt.
PortFails(c) ==
    /\ callers[c].pc \notin {"idle", "joined", "fallback", "resume_next"}
    /\ At(c, "complete") => IsAlreadyCompleted(callers[c].rec)
    /\ faults < MaxFaults
    /\ faults' = faults + 1
    /\ Throw(c)
    /\ UNCHANGED <<store, runs, hostVars, calls, reloads, envVars>>

Reload ==
    /\ reloads < MaxReloads
    /\ reloads' = reloads + 1
    /\ callers' = [c \in Callers |-> Idle]
    /\ inFlight' = {}
    /\ submitters' = {}
    /\ UNCHANGED <<store, submitted, walletAsked, runs, calls, faults, envVars>>

RelayerNext(op) == /\ RelayerStep(op)
                   /\ UNCHANGED <<store, callers, inFlight, runs, hostVars, budgetVars>>

---------------------------------------------------------------------------
Init == /\ RelayerInit
        /\ store = [op \in Ops |-> Absent]
        /\ callers = [c \in Callers |-> Idle]
        /\ inFlight = {}
        /\ submitted = {} /\ submitters = {} /\ walletAsked = {}
        /\ runs = [op \in Ops |-> [e \in Effects |-> 0]]
        /\ calls = 0 /\ faults = 0 /\ reloads = 0

Submit(c) == \E op \in Ops : \/ RefuseEscrow(c, op)
                             \/ SubmitDirectPath(c, op)
                             \/ SubmitRelayPath(c, op)

\* What the event loop does for a caller once its await settles.
Continue(c) ==
    \/ CreateRequest(c)    \/ SaveAccepted(c)  \/ RelayRefuses(c)
    \/ DirectLands(c)      \/ DirectRefused(c)
    \/ CompleteRead(c)     \/ Complete(c)
    \/ RunEffect(c)        \/ SaveEffect(c)    \/ FinishCompletion(c)
    \/ PollRead(c)         \/ PollStatus(c)    \/ PollSave(c)   \/ SaveTimedOut(c)
    \/ RetryRead(c)        \/ RetryAttempt(c)  \/ SaveRetried(c)
    \/ FallbackRead(c)     \/ Fallback(c)
    \/ ResumeNext(c)

Next == \/ \E c \in Callers : \/ Submit(c)
                              \/ StartResume(c)
                              \/ \E op \in Ops : StartCall(c, op)
                              \/ Continue(c)
                              \/ LoseAcceptance(c)
                              \/ PortFails(c)
        \/ \E op \in Ops : RelayerNext(op)
        \/ Reload

Spec == Init /\ [][Next]_vars

\* The event loop runs every continuation; the relayer processes every
\* request; the host resumes as long as an operation is unfinalized.
FairSpec == /\ Spec
            /\ \A c \in Callers : WF_vars(Continue(c)) /\ WF_vars(StartResume(c))
            /\ \A op \in Ops : WF_vars(RelayerNext(op))

=============================================================================
