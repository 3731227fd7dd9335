------------------------- MODULE RelayRuntime_proof -------------------------
(***************************************************************************)
(* Proofs of the safety properties of the relay runtime, for every set of  *)
(* operations and callers and every value of the bounds.                   *)
(***************************************************************************)
EXTENDS RelayRequirements, TLAPS

---------------------------------------------------------------------------
\* Types of the records and of the caller states.

\* A fresh record, the absent one and the absent report have their types.
LEMMA FreshTypes ==
    /\ Prepared \in PendingOperations
    /\ Absent \in PendingOperations
    /\ NoReport \in Reports
BY DEF Prepared, Absent, NoReport, PendingOperations, Reports, Phases, NoPhase,
       NoStatus, NoTx, Effects

\* Every rewrite of a record by the flows yields a record.
LEMMA RewriteTypes ==
    ASSUME NEW rec \in PendingOperations
    PROVE  /\ AcceptedByRelay(rec) \in PendingOperations
           /\ RetriedAtRelay(rec) \in PendingOperations
           /\ TimedOut(rec) \in PendingOperations
           /\ \A phase \in Phases : Refused(rec, phase) \in PendingOperations
           /\ \A tx \in Txs \cup {NoTx} : WithSucceededPhase(rec, tx) \in PendingOperations
<1>1. AcceptedByRelay(rec) \in PendingOperations
  BY DEF AcceptedByRelay, PendingOperations, Phases, RelayStatuses
<1>2. RetriedAtRelay(rec) \in PendingOperations
  BY DEF RetriedAtRelay, PendingOperations, Phases, RelayStatuses
<1>3. TimedOut(rec) \in PendingOperations
  BY DEF TimedOut, PendingOperations, Phases
<1>4. \A phase \in Phases : Refused(rec, phase) \in PendingOperations
  BY DEF Refused, PendingOperations
<1>5. \A tx \in Txs \cup {NoTx} : WithSucceededPhase(rec, tx) \in PendingOperations
  BY DEF WithSucceededPhase, PendingOperations, Phases, RelayStatuses
<1>6. QED
  BY <1>1, <1>2, <1>3, <1>4, <1>5

\* Applying a report of the relayer to a record yields a record.
LEMMA ApplyStatusType ==
    ASSUME NEW rec \in PendingOperations, NEW report \in Reports
    PROVE  ApplyStatus(rec, report) \in PendingOperations
<1>1. (report.retryAllowed /\ report.status # "rejected") \in BOOLEAN
  OBVIOUS
<1>2. (IF report.status \in RelayStatuses THEN report.status ELSE rec.relayStatus)
         \in RelayStatuses \cup {NoStatus}
  BY DEF PendingOperations
<1>3. (IF report.hash # NoTx THEN report.hash ELSE rec.hash) \in Txs \cup {NoTx}
  BY DEF PendingOperations, Reports
<1>4. (IF report.status \in {"rejected", "failed"} THEN report.status ELSE rec.phase)
         \in Phases \cup {NoPhase}
  BY DEF PendingOperations, Phases
<1> DEFINE retryAllowed == report.retryAllowed /\ report.status # "rejected"
           relayStatus  == IF report.status \in RelayStatuses
                             THEN report.status ELSE rec.relayStatus
           hash         == IF report.hash # NoTx THEN report.hash ELSE rec.hash
           phase        == IF report.status \in {"rejected", "failed"}
                             THEN report.status ELSE rec.phase
<1>5. ApplyStatus(rec, report) =
         [rec EXCEPT !.retryAllowed = retryAllowed, !.relayStatus = relayStatus,
                     !.hash = hash, !.phase = phase]
  BY DEF ApplyStatus
<1> HIDE DEF retryAllowed, relayStatus, hash, phase
<1>6. /\ retryAllowed \in BOOLEAN
      /\ relayStatus \in RelayStatuses \cup {NoStatus}
      /\ hash \in Txs \cup {NoTx}
      /\ phase \in Phases \cup {NoPhase}
  BY <1>1, <1>2, <1>3, <1>4 DEF retryAllowed, relayStatus, hash, phase
<1>7. QED
  BY <1>5, <1>6 DEF PendingOperations

\* A caller with nothing outstanding is a caller.
LEMMA IdleType == Idle \in CallerStates
<1>1. SomeOp \in Ops
  BY RuntimeAssumption DEF SomeOp
<1>2. QED
  BY <1>1, FreshTypes DEF Idle, CallerStates, PCs, NoTx

\* A caller that goes to poll is a caller.
LEMMA PollingType ==
    ASSUME NEW w \in CallerStates, NEW attempt \in Nat
    PROVE  Polling(w, attempt) \in CallerStates
BY IdleType DEF Polling, CallerStates, PCs

\* So is a caller whose poll returned a record.
LEMMA ReturnedType ==
    ASSUME NEW w \in CallerStates, NEW rec \in PendingOperations
    PROVE  Returned(w, rec) \in CallerStates
<1>1. w.attempt + 1 \in Nat
  BY DEF CallerStates
<1>2. Polling(w, w.attempt + 1) \in CallerStates
  BY <1>1, PollingType
<1>3. [Idle EXCEPT !.pc = "resume_next", !.flow = "resume", !.todo = w.todo] \in CallerStates
  BY IdleType DEF CallerStates, PCs
<1>4. [Idle EXCEPT !.pc = "timeout_save", !.flow = "await", !.op = w.op, !.rec = rec]
        \in CallerStates
  BY IdleType DEF CallerStates, PCs
<1>5. QED
  BY <1>2, <1>3, <1>4, IdleType DEF Returned

---------------------------------------------------------------------------
\* What the building blocks of the actions do to the types.

\* A caller moves to a caller state.
LEMMA StepType ==
    ASSUME TypeOK, NEW c \in Callers, NEW w \in CallerStates, Step(c, w)
    PROVE  callers' \in [Callers -> CallerStates]
BY DEF TypeOK, Step

\* A caller moves to another await and keeps the rest.
LEMMA GotoType ==
    ASSUME TypeOK, NEW c \in Callers, NEW pc \in PCs, Goto(c, pc)
    PROVE  callers' \in [Callers -> CallerStates]
<1>1. callers[c] \in CallerStates
  BY DEF TypeOK
<1>2. [callers[c] EXCEPT !.pc = pc] \in CallerStates
  BY <1>1 DEF CallerStates
<1>3. QED
  BY <1>2, StepType DEF Goto

\* A caller that moves to another await with a record in hand is a caller.
LEMMA HoldType ==
    ASSUME NEW w \in CallerStates, NEW pc \in PCs, NEW rec \in PendingOperations
    PROVE  [w EXCEPT !.pc = pc, !.rec = rec] \in CallerStates
BY DEF CallerStates

\* A caller that applied a report of the relayer turns to the completion.
LEMMA AppliedType ==
    ASSUME NEW w \in CallerStates, NEW rec \in PendingOperations
    PROVE  [w EXCEPT !.pc = "complete_read", !.rec = rec,
                     !.tx = w.report.hash, !.report = NoReport] \in CallerStates
<1>1. w.report.hash \in Txs \cup {NoTx}
  BY DEF CallerStates, Reports
<1>2. NoReport \in Reports
  BY FreshTypes
<1>3. "complete_read" \in PCs
  BY DEF PCs
<1>4. QED
  BY <1>1, <1>2, <1>3 DEF CallerStates

\* A save stores a record.
LEMMA SaveType ==
    ASSUME TypeOK, NEW c \in Callers, NEW rec \in PendingOperations, Save(c, rec)
    PROVE  store' \in [Ops -> PendingOperations]
BY DEF TypeOK, Save, CallerStates

\* A rejected await makes callers idle and only takes keys out of inFlight.
LEMMA ThrowType ==
    ASSUME TypeOK, NEW c \in Callers, Throw(c)
    PROVE  /\ callers' \in [Callers -> CallerStates]
           /\ inFlight' \subseteq Ops \X (Txs \cup {NoTx})
BY IdleType DEF TypeOK, Throw

\* The key of a completion is an operation and a transaction.
LEMMA SuccessKeyType ==
    ASSUME TypeOK, NEW c \in Callers
    PROVE  SuccessKey(c) \in Ops \X (Txs \cup {NoTx})
BY DEF TypeOK, SuccessKey, CallerStates

\* What a caller holds has its type.
LEMMA CallerType ==
    ASSUME TypeOK, NEW c \in Callers
    PROVE  /\ callers[c] \in CallerStates
           /\ callers[c].op \in Ops
           /\ callers[c].rec \in PendingOperations
           /\ callers[c].report \in Reports
           /\ callers[c].tx \in Txs \cup {NoTx}
           /\ callers[c].attempt \in Nat
           /\ callers[c].todo \subseteq Ops
           /\ store[callers[c].op] \in PendingOperations
           /\ relay[callers[c].op] \in Reports
BY DEF TypeOK, CallerStates

---------------------------------------------------------------------------
\* Type correctness.

\* The initial states are well typed.
LEMMA TypeInit == Init => TypeOK
<1> SUFFICES ASSUME Init PROVE TypeOK
  OBVIOUS
<1>1. callers \in [Callers -> CallerStates]
  BY IdleType DEF Init
<1>2. store \in [Ops -> PendingOperations] /\ relay \in [Ops -> Reports]
  BY FreshTypes DEF Init, RelayerInit
<1>3. QED
  BY <1>1, <1>2 DEF Init, RelayerInit, TypeOK

\* The entry of submitPreparedPrivateOperation keeps the types.
LEMMA TypeSubmit ==
    ASSUME TypeOK, NEW c \in Callers, Submit(c)
    PROVE  TypeOK'
<1> USE DEF hostVars, budgetVars, envVars
<1>1. PICK op \in Ops : \/ RefuseEscrow(c, op)
                        \/ SubmitDirectPath(c, op)
                        \/ SubmitRelayPath(c, op)
  BY DEF Submit
<1>2. CASE RefuseEscrow(c, op)
  <2>1. Refused(Prepared, "rejected") \in PendingOperations
    BY FreshTypes, RewriteTypes DEF Phases
  <2>2. QED
    BY <1>2, <2>1 DEF RefuseEscrow, NewSubmission, TypeOK
<1>3. CASE SubmitDirectPath(c, op)
  <2>1. [Idle EXCEPT !.pc = "direct", !.op = op, !.rec = Prepared] \in CallerStates
    BY IdleType, FreshTypes DEF CallerStates, PCs
  <2>2. callers' \in [Callers -> CallerStates]
    BY <1>3, <2>1, StepType DEF SubmitDirectPath
  <2>3. QED
    BY <1>3, <2>2 DEF SubmitDirectPath, NewSubmission, TypeOK
<1>4. CASE SubmitRelayPath(c, op)
  <2>1. PICK flow \in {"once", "await"} :
          Step(c, [Idle EXCEPT !.pc = "create", !.flow = flow, !.op = op, !.rec = Prepared])
    BY <1>4 DEF SubmitRelayPath
  <2>2. [Idle EXCEPT !.pc = "create", !.flow = flow, !.op = op, !.rec = Prepared]
          \in CallerStates
    BY IdleType, FreshTypes DEF CallerStates, PCs
  <2>3. callers' \in [Callers -> CallerStates]
    BY <2>1, <2>2, StepType
  <2>4. QED
    BY <1>4, <2>3, FreshTypes DEF SubmitRelayPath, NewSubmission, TypeOK
<1>5. QED
  BY <1>1, <1>2, <1>3, <1>4

\* The steps of createRequest and submitDirect, and what follows them, keep the types.
LEMMA TypeRequest ==
    ASSUME TypeOK, NEW c \in Callers,
           \/ CreateRequest(c) \/ SaveAccepted(c) \/ RelayRefuses(c) \/ LoseAcceptance(c)
           \/ DirectLands(c)   \/ DirectRefused(c)
    PROVE  TypeOK'
<1> USE DEF hostVars, budgetVars, envVars
<1>a. \A phase \in {"admission_failed", "rejected"} :
        Refused(callers[c].rec, phase) \in PendingOperations
  BY CallerType, RewriteTypes DEF Phases
<1>1. CASE CreateRequest(c)
  <2>1. callers' \in [Callers -> CallerStates]
    BY <1>1, GotoType DEF CreateRequest, PCs
  <2>2. [relay[callers[c].op] EXCEPT !.status = "accepted"] \in Reports
    BY CallerType DEF Reports, RelayStatuses
  <2>3. relay' \in [Ops -> Reports]
    BY <1>1, <2>2, CallerType DEF CreateRequest, Admit, TypeOK
  <2>4. QED
    BY <1>1, <2>1, <2>3 DEF CreateRequest, TypeOK
<1>2. CASE SaveAccepted(c)
  <2>1. Polling(callers[c], 0) \in CallerStates /\ Idle \in CallerStates
    BY CallerType, PollingType, IdleType
  <2>2. callers' \in [Callers -> CallerStates]
    BY <1>2, <2>1, StepType DEF SaveAccepted
  <2>3. store' \in [Ops -> PendingOperations]
    BY <1>2, CallerType, RewriteTypes, SaveType DEF SaveAccepted
  <2>4. QED
    BY <1>2, <2>2, <2>3 DEF SaveAccepted, TypeOK
<1>3. CASE RelayRefuses(c)
  <2>1. callers' \in [Callers -> CallerStates]
    BY <1>3, IdleType, StepType DEF RelayRefuses
  <2>2. store' \in [Ops -> PendingOperations]
    BY <1>3, <1>a, SaveType DEF RelayRefuses
  <2>3. QED
    BY <1>3, <2>1, <2>2 DEF RelayRefuses, TypeOK
<1>4. CASE LoseAcceptance(c)
  <2>1. callers' \in [Callers -> CallerStates]
    BY <1>4, IdleType, StepType DEF LoseAcceptance
  <2>2. store' \in [Ops -> PendingOperations]
    BY <1>4, <1>a, SaveType DEF LoseAcceptance
  <2>3. QED
    BY <1>4, <2>1, <2>2 DEF LoseAcceptance, TypeOK
<1>5. CASE DirectLands(c)
  <2>1. [callers[c] EXCEPT !.pc = "complete_read", !.tx = "wallet_tx"] \in CallerStates
    BY CallerType DEF CallerStates, PCs, Txs
  <2>2. callers' \in [Callers -> CallerStates]
    BY <1>5, <2>1, StepType DEF DirectLands
  <2>3. QED
    BY <1>5, <2>2 DEF DirectLands, Land, TypeOK, Txs
<1>6. CASE DirectRefused(c)
  BY <1>6, ThrowType DEF DirectRefused, TypeOK
<1>7. QED
  BY <1>1, <1>2, <1>3, <1>4, <1>5, <1>6

\* The steps of completeSucceededOperation keep the types.
LEMMA TypeCompletion ==
    ASSUME TypeOK, NEW c \in Callers,
           \/ CompleteRead(c) \/ Complete(c)
           \/ RunEffect(c) \/ SaveEffect(c) \/ FinishCompletion(c)
    PROVE  TypeOK'
<1> USE DEF hostVars, budgetVars, envVars
<1>a. Returned(callers[c], callers[c].rec) \in CallerStates
  BY CallerType, ReturnedType
<1>1. CASE CompleteRead(c)
  <2> DEFINE read == IF Exists(store[callers[c].op]) THEN store[callers[c].op]
                                                     ELSE callers[c].rec
             done == WithSucceededPhase(read, callers[c].tx)
             w == [callers[c] EXCEPT !.pc = "complete", !.rec = done]
  <2>1. read \in PendingOperations
    BY CallerType
  <2>2. done \in PendingOperations
    BY <2>1, CallerType, RewriteTypes
  <2>3. w \in CallerStates
    <3> HIDE DEF done
    <3> QED BY <2>2, CallerType DEF CallerStates, PCs
  <2>4. callers' \in [Callers -> CallerStates]
    BY <1>1, <2>3, StepType DEF CompleteRead
  <2>5. QED
    BY <1>1, <2>4 DEF CompleteRead, TypeOK
<1>2. CASE Complete(c)
  <2>1. callers' \in [Callers -> CallerStates]
    BY <1>2, <1>a, StepType, GotoType DEF Complete, PCs
  <2>2. store' \in [Ops -> PendingOperations]
    BY <1>2, CallerType, SaveType DEF Complete, TypeOK
  <2>3. inFlight' \subseteq Ops \X (Txs \cup {NoTx})
    BY <1>2, SuccessKeyType DEF Complete, TypeOK
  <2>4. QED
    BY <1>2, <2>1, <2>2, <2>3 DEF Complete, TypeOK
<1>3. CASE RunEffect(c)
  <2>1. PICK e \in Effects :
          /\ runs' = [runs EXCEPT ![callers[c].op][e] = IF @ < EffectCap THEN @ + 1 ELSE @]
          /\ Step(c, [callers[c] EXCEPT !.pc = "effect_save", !.rec.done = @ \cup {e}])
    BY <1>3 DEF RunEffect
  <2>2. [callers[c].rec EXCEPT !.done = @ \cup {e}] \in PendingOperations
    BY CallerType DEF PendingOperations
  <2>3. [callers[c] EXCEPT !.pc = "effect_save", !.rec.done = @ \cup {e}]
         = [callers[c] EXCEPT !.pc = "effect_save",
                              !.rec = [callers[c].rec EXCEPT !.done = @ \cup {e}]]
    BY CallerType DEF CallerStates
  <2>4. [callers[c] EXCEPT !.pc = "effect_save", !.rec.done = @ \cup {e}] \in CallerStates
    BY <2>2, <2>3, CallerType, HoldType DEF PCs
  <2>5. callers' \in [Callers -> CallerStates]
    BY <2>1, <2>4, StepType
  <2>6. runs' \in [Ops -> [Effects -> Nat]]
    BY <2>1, CallerType DEF TypeOK
  <2>7. QED
    BY <1>3, <2>5, <2>6 DEF RunEffect, TypeOK
<1>4. CASE SaveEffect(c)
  <2>1. callers' \in [Callers -> CallerStates]
    BY <1>4, GotoType DEF SaveEffect, PCs
  <2>2. store' \in [Ops -> PendingOperations]
    BY <1>4, CallerType, SaveType DEF SaveEffect
  <2>3. QED
    BY <1>4, <2>1, <2>2 DEF SaveEffect, TypeOK
<1>5. CASE FinishCompletion(c)
  <2>1. \A d \in Callers : Returned(callers[d], callers[c].rec) \in CallerStates
    BY CallerType, ReturnedType
  <2>2. callers' \in [Callers -> CallerStates]
    BY <1>5, <2>1 DEF FinishCompletion, TypeOK
  <2>3. store' \in [Ops -> PendingOperations]
    BY <1>5, CallerType, SaveType DEF FinishCompletion
  <2>4. QED
    BY <1>5, <2>2, <2>3 DEF FinishCompletion, TypeOK
<1>6. QED
  BY <1>1, <1>2, <1>3, <1>4, <1>5

\* The steps of pollPendingOperation, and the settlement timeout, keep the types.
LEMMA TypePoll ==
    ASSUME TypeOK, NEW c \in Callers,
           \/ PollRead(c) \/ PollStatus(c) \/ PollSave(c) \/ SaveTimedOut(c)
    PROVE  TypeOK'
<1> USE DEF hostVars, budgetVars, envVars
<1>1. CASE PollRead(c)
  <2>1. [callers[c] EXCEPT !.pc = "poll_status", !.rec = store[callers[c].op]] \in CallerStates
    BY CallerType, HoldType DEF PCs
  <2>2. Returned(callers[c], store[callers[c].op]) \in CallerStates
    BY CallerType, ReturnedType
  <2>3. callers' \in [Callers -> CallerStates]
    BY <1>1, <2>1, <2>2, IdleType, StepType DEF PollRead
  <2>4. QED
    BY <1>1, <2>3 DEF PollRead, TypeOK
<1>2. CASE PollStatus(c)
  <2>1. [callers[c] EXCEPT !.pc = "poll_save", !.report = relay[callers[c].op]] \in CallerStates
    BY CallerType DEF CallerStates, PCs
  <2>2. callers' \in [Callers -> CallerStates]
    BY <1>2, <2>1, StepType DEF PollStatus
  <2>3. QED
    BY <1>2, <2>2 DEF PollStatus, TypeOK
<1>3. CASE PollSave(c)
  <2> DEFINE updated == ApplyStatus(callers[c].rec, callers[c].report)
  <2>1. updated \in PendingOperations
    BY CallerType, ApplyStatusType
  <2> HIDE DEF updated
  <2>2. [callers[c] EXCEPT !.pc = "complete_read", !.rec = updated,
                           !.tx = callers[c].report.hash, !.report = NoReport] \in CallerStates
    BY <2>1, CallerType, AppliedType
  <2>3. Returned(callers[c], updated) \in CallerStates
    BY <2>1, CallerType, ReturnedType
  <2>4. callers' \in [Callers -> CallerStates]
    BY <1>3, <2>2, <2>3, StepType DEF PollSave, updated
  <2>5. store' \in [Ops -> PendingOperations]
    BY <1>3, <2>1, SaveType DEF PollSave, updated
  <2>6. QED
    BY <1>3, <2>4, <2>5 DEF PollSave, TypeOK
<1>4. CASE SaveTimedOut(c)
  <2>1. callers' \in [Callers -> CallerStates]
    BY <1>4, IdleType, StepType DEF SaveTimedOut
  <2>2. store' \in [Ops -> PendingOperations]
    BY <1>4, CallerType, RewriteTypes, SaveType DEF SaveTimedOut
  <2>3. QED
    BY <1>4, <2>1, <2>2 DEF SaveTimedOut, TypeOK
<1>5. QED
  BY <1>1, <1>2, <1>3, <1>4

\* The steps of the retry and of the fallback keep the types.
LEMMA TypeRetryAndFallback ==
    ASSUME TypeOK, NEW c \in Callers,
           \/ RetryRead(c) \/ RetryAttempt(c) \/ SaveRetried(c)
           \/ FallbackRead(c) \/ Fallback(c)
    PROVE  TypeOK'
<1> USE DEF hostVars, budgetVars, envVars
<1>a. \A pc \in PCs : [callers[c] EXCEPT !.pc = pc, !.rec = store[callers[c].op]]
                        \in CallerStates
  BY CallerType DEF CallerStates
<1>1. CASE RetryRead(c)
  <2>1. callers' \in [Callers -> CallerStates]
    BY <1>1, <1>a, IdleType, StepType DEF RetryRead, PCs
  <2>2. QED
    BY <1>1, <2>1 DEF RetryRead, TypeOK
<1>2. CASE RetryAttempt(c)
  <2>1. callers' \in [Callers -> CallerStates]
    BY <1>2, IdleType, StepType, GotoType DEF RetryAttempt, PCs
  <2>2. [NoReport EXCEPT !.status = "accepted"] \in Reports
    BY FreshTypes DEF Reports, RelayStatuses
  <2>3. relay' \in [Ops -> Reports]
    BY <1>2, <2>2 DEF RetryAttempt, AdmitRetry, TypeOK
  <2>4. QED
    BY <1>2, <2>1, <2>3 DEF RetryAttempt, TypeOK
<1>3. CASE SaveRetried(c)
  <2>1. callers' \in [Callers -> CallerStates]
    BY <1>3, CallerType, PollingType, StepType DEF SaveRetried
  <2>2. store' \in [Ops -> PendingOperations]
    BY <1>3, CallerType, RewriteTypes, SaveType DEF SaveRetried
  <2>3. QED
    BY <1>3, <2>1, <2>2 DEF SaveRetried, TypeOK
<1>4. CASE FallbackRead(c)
  <2>1. callers' \in [Callers -> CallerStates]
    BY <1>4, <1>a, IdleType, StepType DEF FallbackRead, PCs
  <2>2. QED
    BY <1>4, <2>1 DEF FallbackRead, TypeOK
<1>5. CASE Fallback(c)
  <2>1. callers' \in [Callers -> CallerStates]
    BY <1>5, IdleType, StepType, GotoType DEF Fallback, PCs
  <2>2. walletAsked' \subseteq submitted'
    BY <1>5 DEF Fallback, TypeOK
  <2>3. QED
    BY <1>5, <2>1, <2>2 DEF Fallback, TypeOK
<1>6. QED
  BY <1>1, <1>2, <1>3, <1>4, <1>5

\* The steps of the host and of the resume loop, and a failing port, keep the types.
LEMMA TypeHost ==
    ASSUME TypeOK, NEW c \in Callers,
           \/ StartResume(c) \/ ResumeNext(c)
           \/ \E op \in Ops : StartCall(c, op)
           \/ PortFails(c)
    PROVE  TypeOK'
<1> USE DEF hostVars, budgetVars, envVars
<1>1. CASE StartResume(c)
  <2>1. [Idle EXCEPT !.pc = "resume_next", !.flow = "resume", !.todo = Unfinalized]
          \in CallerStates
    BY IdleType DEF CallerStates, PCs, Unfinalized
  <2>2. callers' \in [Callers -> CallerStates]
    BY <1>1, <2>1, StepType DEF StartResume
  <2>3. QED
    BY <1>1, <2>2 DEF StartResume, TypeOK
<1>2. CASE ResumeNext(c)
  <2>1. \A op \in callers[c].todo :
          [callers[c] EXCEPT !.op = op, !.todo = @ \ {op}] \in CallerStates
    BY CallerType DEF CallerStates
  <2>2. \A op \in callers[c].todo :
          Polling([callers[c] EXCEPT !.op = op, !.todo = @ \ {op}], 0) \in CallerStates
    BY <2>1, PollingType
  <2>3. callers' \in [Callers -> CallerStates]
    BY <1>2, <2>2, IdleType, StepType DEF ResumeNext
  <2>4. QED
    BY <1>2, <2>3 DEF ResumeNext, TypeOK
<1>3. ASSUME NEW op \in Ops, StartCall(c, op) PROVE TypeOK'
  <2>1. PICK pc \in {"poll_read", "retry_read", "fallback_read"}, flow \in {"once", "await"} :
          Step(c, [Idle EXCEPT !.pc = pc, !.flow = flow, !.op = op])
    BY <1>3 DEF StartCall
  <2>2. [Idle EXCEPT !.pc = pc, !.flow = flow, !.op = op] \in CallerStates
    BY IdleType DEF CallerStates, PCs
  <2>3. callers' \in [Callers -> CallerStates]
    BY <2>1, <2>2, StepType
  <2>4. /\ calls' = calls + 1
        /\ UNCHANGED <<store, inFlight, runs, hostVars, faults, reloads, envVars>>
    BY <1>3 DEF StartCall
  <2>5. QED
    BY <2>3, <2>4 DEF TypeOK
<1>4. CASE PortFails(c)
  BY <1>4, ThrowType DEF PortFails, TypeOK
<1>5. QED
  BY <1>1, <1>2, <1>3, <1>4

\* A reload keeps the types.
LEMMA TypeReload == TypeOK /\ Reload => TypeOK'
BY IdleType DEF TypeOK, Reload, envVars

\* A step of the relayer moves the report of one operation, or lands its
\* transaction.
LEMMA TypeRelayer ==
    ASSUME TypeOK, NEW op \in Ops, RelayerNext(op)
    PROVE  TypeOK'
<1> USE DEF hostVars, budgetVars
<1>1. relay[op] \in Reports /\ InProgress \subseteq RelayStatuses /\ "relay_tx" \in Txs
  BY DEF TypeOK, InProgress, RelayStatuses, Txs
<1>2. CASE Process(op)
  <2>1. PICK status \in ReportedStatuses : relay' = [relay EXCEPT ![op].status = status]
    BY <1>2 DEF Process
  <2>2. [relay[op] EXCEPT !.status = status] \in Reports
    BY <1>1, RelayerAssumption DEF Reports
  <2>3. QED
    BY <1>2, <2>1, <2>2 DEF Process, RelayerNext, TypeOK
<1>3. CASE LandRelayed(op)
  BY <1>1, <1>3 DEF LandRelayed, Land, RelayerNext, TypeOK
<1>4. CASE ReportSuccess(op)
  <2>1. PICK hash \in {"relay_tx", NoTx} :
          relay' = [relay EXCEPT ![op].status = "succeeded", ![op].hash = hash]
    BY <1>4 DEF ReportSuccess
  <2>2. [[relay[op] EXCEPT !.status = "succeeded"] EXCEPT !.hash = hash] \in Reports
    BY <1>1 DEF Reports, RelayStatuses
  <2>3. relay' \in [Ops -> Reports]
    BY <2>1, <2>2 DEF TypeOK
  <2>4. QED
    BY <1>4, <2>3 DEF ReportSuccess, RelayerNext, TypeOK
<1>5. CASE PublishHash(op)
  <2>1. [relay[op] EXCEPT !.hash = "relay_tx"] \in Reports
    BY <1>1 DEF Reports
  <2>2. QED
    BY <1>5, <2>1 DEF PublishHash, RelayerNext, TypeOK
<1>6. CASE Reject(op)
  <2>1. [relay[op] EXCEPT !.status = "rejected"] \in Reports
    BY <1>1 DEF Reports, RelayStatuses
  <2>2. QED
    BY <1>6, <2>1 DEF Reject, RelayerNext, TypeOK
<1>7. CASE FailAttempt(op)
  <2>1. PICK retryAllowed \in BOOLEAN :
          relay' = [relay EXCEPT ![op].status = "failed", ![op].retryAllowed = retryAllowed]
    BY <1>7 DEF FailAttempt
  <2>2. [[relay[op] EXCEPT !.status = "failed"] EXCEPT !.retryAllowed = retryAllowed] \in Reports
    BY <1>1 DEF Reports, RelayStatuses
  <2>3. relay' \in [Ops -> Reports]
    BY <2>1, <2>2 DEF TypeOK
  <2>4. QED
    BY <1>7, <2>3 DEF FailAttempt, RelayerNext, TypeOK
<1>8. QED
  BY <1>2, <1>3, <1>4, <1>5, <1>6, <1>7 DEF RelayerNext, RelayerStep

\* Every step keeps the types.
LEMMA TypeStep == TypeOK /\ [Next]_vars => TypeOK'
<1> SUFFICES ASSUME TypeOK, [Next]_vars PROVE TypeOK'
  OBVIOUS
<1>1. ASSUME NEW c \in Callers, Continue(c) PROVE TypeOK'
  BY <1>1, TypeRequest, TypeCompletion, TypePoll, TypeRetryAndFallback, TypeHost DEF Continue
<1>2. ASSUME NEW c \in Callers, Submit(c) PROVE TypeOK'
  BY <1>2, TypeSubmit
<1>3. ASSUME NEW c \in Callers,
             \/ StartResume(c) \/ \E op \in Ops : StartCall(c, op)
             \/ LoseAcceptance(c) \/ PortFails(c)
      PROVE TypeOK'
  BY <1>3, TypeRequest, TypeHost
<1>4. CASE Reload
  BY <1>4, TypeReload
<1>5. ASSUME NEW op \in Ops, RelayerNext(op) PROVE TypeOK'
  BY <1>5, TypeRelayer
<1>6. CASE UNCHANGED vars
  BY <1>6 DEF vars, hostVars, budgetVars, envVars, TypeOK
<1>7. QED
  BY <1>1, <1>2, <1>3, <1>4, <1>5, <1>6 DEF Next

\* Every variable keeps its shape: the store holds records, the callers are
\* at one of the awaits of the flows, the relayer's reports are well formed.
THEOREM TypeCorrect == Spec => []TypeOK
BY TypeInit, TypeStep, PTL DEF Spec
=============================================================================
