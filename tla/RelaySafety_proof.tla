-------------------------- MODULE RelaySafety_proof --------------------------
(***************************************************************************)
(* The safety properties of the relay runtime that hold under any          *)
(* interleaving, failure and reload: truthful completion flags, escrow     *)
(* sends that never reach the wallet, and the refinement of the abstract   *)
(* settlement.                                                             *)
(*                                                                         *)
(* None of them is inductive: what is stored was held by some caller       *)
(* before, and what a caller holds it read or was told before.  The        *)
(* invariant IInv therefore says of every caller what the properties say   *)
(* of the store and of the chain.                                          *)
(*                                                                         *)
(* The last two parts are about a host that makes one call at a time:      *)
(* SeqInv says that what a call holds forgets nothing of what is stored,   *)
(* and LossInv what the store, the relayer and the wallet know of one      *)
(* another as long as no answer of the relayer is lost.                    *)
(***************************************************************************)
EXTENDS RelayRuntime_proof

CompletionPCs == {"complete_read", "complete", "joined", "effects", "effect_save"}

\* The effects of an operation that have run when the counters are r.
PerformedIn(r, op) == {e \in Effects : r[op][e] > 0}

\* The caller w is right about the counters r and the ledger l: the flags it
\* holds are truthful, a hash it was told of and a completion it is in belong
\* to an operation that landed, and it asks the wallet for no escrow send.
Right(w, r, l) ==
    /\ w.rec.done \subseteq PerformedIn(r, w.op)
    /\ w.report.hash # NoTx => l[w.op] # NoTx
    /\ w.pc \in CompletionPCs => l[w.op] # NoTx
    /\ w.pc = "direct" => w.op \notin EscrowOps

\* What the relayer reports as done has landed.
RelayRight == \A op \in Ops :
    relay[op].status = "succeeded" \/ relay[op].hash # NoTx => ledger[op] # NoTx

IInv == /\ TypeOK
        /\ FlagsTruthful
        /\ EscrowNeverDirect
        /\ RelayRight
        /\ \A c \in Callers : Right(callers[c], runs, ledger)

---------------------------------------------------------------------------
\* The rewrites of a record keep its completion flags.

\* A rewrite changes the phase, the status or the hash of a record, never its
\* flags.
LEMMA RewritesKeepFlags ==
    ASSUME NEW rec \in PendingOperations
    PROVE  /\ AcceptedByRelay(rec).done = rec.done
           /\ RetriedAtRelay(rec).done = rec.done
           /\ TimedOut(rec).done = rec.done
           /\ \A phase \in Phases : Refused(rec, phase).done = rec.done
           /\ \A tx \in Txs \cup {NoTx} : WithSucceededPhase(rec, tx).done = rec.done
           /\ \A report \in Reports : ApplyStatus(rec, report).done = rec.done
BY DEF AcceptedByRelay, RetriedAtRelay, TimedOut, Refused, WithSucceededPhase,
       ApplyStatus, PendingOperations

\* Idle callers, callers that go to poll, and callers that return from a poll
\* with a truthful record are right.
LEMMA IdleFields ==
    /\ Idle.pc = "idle"
    /\ Idle.rec.done = {}
    /\ Idle.report.hash = NoTx
BY DEF Idle, Absent, Prepared, NoReport

\* An idle caller is right about anything.
LEMMA IdleRight ==
    ASSUME NEW r, NEW l
    PROVE  Right(Idle, r, l)
BY IdleFields DEF Right, CompletionPCs

\* A caller that goes to poll holds no record yet.
LEMMA PollingRight ==
    ASSUME NEW w, NEW attempt, NEW r, NEW l
    PROVE  /\ Right(Polling(w, attempt), r, l)
           /\ Polling(w, attempt).pc = "poll_read"
           /\ Polling(w, attempt).rec.done = {}
<1> DEFINE p == Polling(w, attempt)
<1>1. /\ p.pc = "poll_read" /\ p.rec = Idle.rec /\ p.report = Idle.report
  BY IdleType DEF Polling, CallerStates
<1>2. QED
  BY <1>1, IdleFields DEF Right, CompletionPCs

\* A caller that returns from a poll with a truthful record is right.
LEMMA ReturnedRight ==
    ASSUME NEW w \in CallerStates, NEW rec, NEW r, NEW l,
           rec.done \subseteq PerformedIn(r, w.op)
    PROVE  Right(Returned(w, rec), r, l)
<1>1. Right([Idle EXCEPT !.pc = "resume_next", !.flow = "resume", !.todo = w.todo], r, l)
  BY IdleType, IdleFields DEF Right, CompletionPCs, CallerStates
<1>2. Right([Idle EXCEPT !.pc = "timeout_save", !.flow = "await", !.op = w.op, !.rec = rec], r, l)
  BY IdleType, IdleFields DEF Right, CompletionPCs, CallerStates
<1>3. QED
  BY <1>1, <1>2, IdleRight, PollingRight DEF Returned

---------------------------------------------------------------------------
\* Effects are never undone, and a landed operation stays landed.

Grows == \A op \in Ops :
            /\ PerformedIn(runs, op) \subseteq PerformedIn(runs', op)
            /\ ledger[op] # NoTx => ledger'[op] # NoTx

\* A step that neither runs an effect nor lands a transaction.
LEMMA StillGrows ==
    ASSUME UNCHANGED <<runs, ledger>>
    PROVE  Grows
BY DEF Grows

\* A step that lands a transaction.
LEMMA LandGrows ==
    ASSUME TypeOK, NEW op \in Ops, NEW tx \in Txs, Land(op, tx), UNCHANGED runs
    PROVE  Grows /\ ledger'[op] # NoTx
BY DEF Grows, Land, TypeOK, Txs, NoTx

\* A step that runs a side effect: the effect has happened from now on.
LEMMA RunEffectGrows ==
    ASSUME TypeOK, NEW op \in Ops, NEW e \in Effects, UNCHANGED ledger,
           runs' = [runs EXCEPT ![op][e] = IF @ < EffectCap THEN @ + 1 ELSE @]
    PROVE  Grows /\ e \in PerformedIn(runs', op)
<1>1. \A p \in Ops, f \in Effects : runs[p][f] \in Nat
  BY DEF TypeOK
<1>2. \A p \in Ops, f \in Effects : runs[p][f] > 0 => runs'[p][f] > 0
  BY <1>1, RuntimeAssumption DEF TypeOK
<1>3. runs'[op][e] > 0
  BY <1>1, RuntimeAssumption DEF TypeOK
<1>4. QED
  BY <1>2, <1>3 DEF Grows, PerformedIn

\* A caller that does not move stays right.
LEMMA OthersStayRight ==
    ASSUME NEW w \in CallerStates, Right(w, runs, ledger), Grows
    PROVE  Right(w, runs', ledger')
<1>1. w.op \in Ops
  BY DEF CallerStates
<1>2. QED
  BY <1>1 DEF Right, Grows

\* All callers are right after one of them moves to a state that is right.
LEMMA StepRight ==
    ASSUME IInv, Grows, NEW c \in Callers, NEW w \in CallerStates, Step(c, w),
           Right(w, runs', ledger')
    PROVE  \A d \in Callers : Right(callers'[d], runs', ledger')
<1> SUFFICES ASSUME NEW d \in Callers PROVE Right(callers'[d], runs', ledger')
  OBVIOUS
<1>1. callers'[d] = IF d = c THEN w ELSE callers[d]
  BY DEF Step, IInv, TypeOK
<1>2. Right(callers[d], runs', ledger')
  BY CallerType, OthersStayRight DEF IInv
<1>3. QED
  BY <1>1, <1>2

\* All callers are right after one of them throws.
LEMMA ThrowRight ==
    ASSUME IInv, Grows, NEW c \in Callers, Throw(c)
    PROVE  \A d \in Callers : Right(callers'[d], runs', ledger')
<1> SUFFICES ASSUME NEW d \in Callers PROVE Right(callers'[d], runs', ledger')
  OBVIOUS
<1>1. callers'[d] = Idle \/ callers'[d] = callers[d]
  BY DEF Throw
<1>2. Right(callers[d], runs', ledger')
  BY CallerType, OthersStayRight DEF IInv
<1>3. QED
  BY <1>1, <1>2, IdleRight

\* Saving a record with truthful flags keeps the store truthful.
LEMMA SaveTruthful ==
    ASSUME IInv, Grows, NEW c \in Callers, NEW rec \in PendingOperations, Save(c, rec),
           rec.done \subseteq PerformedIn(runs', callers[c].op)
    PROVE  FlagsTruthful'
<1> SUFFICES ASSUME NEW op \in Ops PROVE store'[op].done \subseteq PerformedIn(runs', op)
  BY DEF FlagsTruthful, Performed, PerformedIn
<1>1. store'[op] = IF op = callers[c].op THEN rec ELSE store[op]
  BY DEF Save, IInv, TypeOK
<1>2. store[op].done \subseteq PerformedIn(runs', op)
  BY DEF IInv, FlagsTruthful, Performed, PerformedIn, Grows
<1>3. QED
  BY <1>1, <1>2

\* So does leaving the store alone.
LEMMA StoreUntouched ==
    ASSUME IInv, Grows, UNCHANGED store
    PROVE  FlagsTruthful'
BY DEF IInv, FlagsTruthful, Performed, PerformedIn, Grows

\* What the invariant says of one caller, unfolded.
LEMMA CallerRight ==
    ASSUME IInv, NEW c \in Callers
    PROVE  /\ callers[c].rec.done \subseteq PerformedIn(runs, callers[c].op)
           /\ store[callers[c].op].done \subseteq PerformedIn(runs, callers[c].op)
           /\ callers[c].report.hash # NoTx => ledger[callers[c].op] # NoTx
           /\ callers[c].pc \in CompletionPCs => ledger[callers[c].op] # NoTx
           /\ callers[c].pc = "direct" => callers[c].op \notin EscrowOps
BY CallerType DEF IInv, Right, FlagsTruthful, Performed, PerformedIn

---------------------------------------------------------------------------
\* The invariant holds initially and every step preserves it.

\* Nothing is done, reported or asked of the wallet initially.
LEMMA RightInit == Init => IInv
<1> SUFFICES ASSUME Init PROVE IInv
  OBVIOUS
<1>1. TypeOK
  BY TypeInit
<1>2. FlagsTruthful
  BY DEF Init, FlagsTruthful, Absent, Prepared
<1>3. EscrowNeverDirect
  BY DEF Init, EscrowNeverDirect
<1>4. RelayRight
  BY DEF Init, RelayerInit, RelayRight, NoReport, NoStatus
<1>5. \A c \in Callers : Right(callers[c], runs, ledger)
  BY IdleRight DEF Init
<1>6. QED
  BY <1>1, <1>2, <1>3, <1>4, <1>5 DEF IInv

\* What a step has to keep besides the types.
Kept == /\ FlagsTruthful'
        /\ EscrowNeverDirect'
        /\ RelayRight'
        /\ \A d \in Callers : Right(callers'[d], runs', ledger')

\* Most steps leave the wallet, the relayer and the chain alone.
LEMMA KeptLocally ==
    ASSUME IInv, UNCHANGED <<walletAsked, relay, ledger>>
    PROVE  EscrowNeverDirect' /\ RelayRight'
BY DEF IInv, EscrowNeverDirect, RelayRight

\* Submission: an escrow send never takes the direct path, whatever
\* isRelayConfigured answers.
LEMMA SubmitKeeps ==
    ASSUME IInv, NEW c \in Callers, Submit(c)
    PROVE  Kept
<1> USE DEF hostVars, budgetVars, envVars
<1>1. PICK op \in Ops : \/ RefuseEscrow(c, op)
                        \/ SubmitDirectPath(c, op)
                        \/ SubmitRelayPath(c, op)
  BY DEF Submit
<1>2. UNCHANGED <<runs, ledger, relay>>
  BY <1>1 DEF RefuseEscrow, SubmitDirectPath, SubmitRelayPath
<1>3. Grows /\ RelayRight'
  BY <1>2, StillGrows DEF IInv, RelayRight
<1>4. Prepared.done = {} /\ Refused(Prepared, "rejected").done = {}
  BY FreshTypes, RewritesKeepFlags DEF Prepared, Phases
<1>5. CASE RefuseEscrow(c, op)
  <2>1. \A d \in Callers : Right(callers'[d], runs', ledger')
    BY <1>2, <1>5 DEF RefuseEscrow, IInv
  <2>2. FlagsTruthful'
    BY <1>2, <1>4, <1>5 DEF RefuseEscrow, IInv, TypeOK, FlagsTruthful, Performed
  <2>3. EscrowNeverDirect'
    BY <1>5 DEF RefuseEscrow, IInv, EscrowNeverDirect
  <2>4. QED
    BY <1>3, <2>1, <2>2, <2>3 DEF Kept
<1>6. CASE SubmitDirectPath(c, op)
  <2> DEFINE w == [Idle EXCEPT !.pc = "direct", !.op = op, !.rec = Prepared]
  <2>1. op \notin EscrowOps
    BY <1>6 DEF SubmitDirectPath, ShouldSubmitDirect
  <2>2. w \in CallerStates
    BY IdleType, FreshTypes DEF CallerStates, PCs
  <2>3. w.rec.done = {} /\ w.report.hash = NoTx /\ w.pc = "direct" /\ w.op = op
    BY <1>4, IdleType, IdleFields DEF CallerStates
  <2>4. Right(w, runs', ledger')
    BY <2>1, <2>3 DEF Right, CompletionPCs
  <2>5. \A d \in Callers : Right(callers'[d], runs', ledger')
    BY <1>3, <1>6, <2>2, <2>4, StepRight DEF SubmitDirectPath
  <2>6. FlagsTruthful'
    BY <1>3, <1>6, StoreUntouched DEF SubmitDirectPath
  <2>7. EscrowNeverDirect'
    BY <1>6, <2>1 DEF SubmitDirectPath, IInv, EscrowNeverDirect
  <2>8. QED
    BY <1>3, <2>5, <2>6, <2>7 DEF Kept
<1>7. CASE SubmitRelayPath(c, op)
  <2>1. PICK flow \in {"once", "await"} :
          Step(c, [Idle EXCEPT !.pc = "create", !.flow = flow, !.op = op, !.rec = Prepared])
    BY <1>7 DEF SubmitRelayPath
  <2> DEFINE w == [Idle EXCEPT !.pc = "create", !.flow = flow, !.op = op, !.rec = Prepared]
  <2>2. w \in CallerStates
    BY IdleType, FreshTypes DEF CallerStates, PCs
  <2>3. w.rec.done = {} /\ w.report.hash = NoTx /\ w.pc = "create"
    BY <1>4, IdleType, IdleFields DEF CallerStates
  <2>4. Right(w, runs', ledger')
    BY <2>3 DEF Right, CompletionPCs
  <2>5. \A d \in Callers : Right(callers'[d], runs', ledger')
    BY <1>3, <2>1, <2>2, <2>4, StepRight
  <2>6. FlagsTruthful'
    BY <1>2, <1>4, <1>7 DEF SubmitRelayPath, IInv, TypeOK, FlagsTruthful, Performed
  <2>7. EscrowNeverDirect'
    BY <1>7 DEF SubmitRelayPath, IInv, EscrowNeverDirect
  <2>8. QED
    BY <1>3, <2>5, <2>6, <2>7 DEF Kept
<1>8. QED
  BY <1>1, <1>5, <1>6, <1>7

\* The steps of createRequest and submitDirect, and what follows them: a
\* completion starts only once the transaction of the wallet landed.
LEMMA RequestKeeps ==
    ASSUME IInv, NEW c \in Callers,
           \/ CreateRequest(c) \/ SaveAccepted(c) \/ RelayRefuses(c) \/ LoseAcceptance(c)
           \/ DirectLands(c)   \/ DirectRefused(c)
    PROVE  Kept
<1> USE DEF hostVars, budgetVars, envVars
<1>0. TypeOK
  BY DEF IInv
<1>1. CASE CreateRequest(c)
  <2>1. Grows
    BY <1>1, StillGrows DEF CreateRequest
  <2> DEFINE w == [callers[c] EXCEPT !.pc = "created"]
  <2>2. w \in CallerStates
    BY <1>0, CallerType DEF CallerStates, PCs
  <2>3. w.rec = callers[c].rec /\ w.report = callers[c].report /\ w.op = callers[c].op
        /\ w.pc = "created"
    BY <1>0, CallerType DEF CallerStates
  <2>4. Right(w, runs', ledger')
    BY <1>1, <2>3, CallerRight DEF CreateRequest, Right, CompletionPCs
  <2>5. \A d \in Callers : Right(callers'[d], runs', ledger')
    BY <1>1, <2>1, <2>2, <2>4, StepRight DEF CreateRequest, Goto
  <2>6. RelayRight'
    <3> SUFFICES ASSUME NEW op \in Ops, relay'[op].status = "succeeded" \/ relay'[op].hash # NoTx
                 PROVE  ledger[op] # NoTx
      BY <1>1 DEF RelayRight, CreateRequest
    <3>1. relay[op] \in Reports
      BY <1>0 DEF TypeOK
    <3>2. relay'[op] = relay[op] \/ relay'[op] = [relay[op] EXCEPT !.status = "accepted"]
      BY <1>0, <1>1 DEF CreateRequest, Admit, TypeOK
    <3>3. relay[op].status = "succeeded" \/ relay[op].hash # NoTx
      BY <3>1, <3>2 DEF Reports
    <3>4. QED
      BY <3>3 DEF IInv, RelayRight
  <2>7. FlagsTruthful' /\ EscrowNeverDirect'
    BY <1>1, <2>1, StoreUntouched DEF CreateRequest, IInv, EscrowNeverDirect
  <2>8. QED
    BY <2>5, <2>6, <2>7 DEF Kept
<1>2. CASE SaveAccepted(c)
  <2>1. Grows /\ EscrowNeverDirect' /\ RelayRight'
    BY <1>2, StillGrows, KeptLocally DEF SaveAccepted
  <2>2. \A d \in Callers : Right(callers'[d], runs', ledger')
    BY <1>0, <1>2, <2>1, CallerType, PollingType, IdleType, PollingRight, IdleRight, StepRight
       DEF SaveAccepted
  <2>3. FlagsTruthful'
    BY <1>0, <1>2, <2>1, CallerType, CallerRight, RewriteTypes, RewritesKeepFlags, SaveTruthful
       DEF SaveAccepted
  <2>4. QED
    BY <2>1, <2>2, <2>3 DEF Kept
<1>3. CASE RelayRefuses(c) \/ LoseAcceptance(c)
  <2>1. Grows /\ EscrowNeverDirect' /\ RelayRight'
    BY <1>3, StillGrows, KeptLocally DEF RelayRefuses, LoseAcceptance
  <2>2. PICK phase \in {"admission_failed", "rejected"} :
          Save(c, Refused(callers[c].rec, phase)) /\ Step(c, Idle)
    BY <1>3 DEF RelayRefuses, LoseAcceptance
  <2>3. phase \in Phases
    BY DEF Phases
  <2>4. \A d \in Callers : Right(callers'[d], runs', ledger')
    BY <2>1, <2>2, IdleType, IdleRight, StepRight
  <2>5. UNCHANGED runs
    BY <1>3 DEF RelayRefuses, LoseAcceptance
  <2>6. FlagsTruthful'
    BY <1>0, <2>1, <2>2, <2>3, <2>5, CallerType, CallerRight, RewriteTypes,
       RewritesKeepFlags, SaveTruthful
  <2>7. QED
    BY <2>1, <2>4, <2>6 DEF Kept
<1>4. CASE DirectLands(c)
  <2> DEFINE w == [callers[c] EXCEPT !.pc = "complete_read", !.tx = "wallet_tx"]
  <2>1. Grows /\ ledger'[callers[c].op] # NoTx
    BY <1>0, <1>4, CallerType, LandGrows DEF DirectLands, Txs
  <2>2. w \in CallerStates
    <3>1. callers[c] \in CallerStates /\ "complete_read" \in PCs /\ "wallet_tx" \in Txs
      BY <1>0, CallerType DEF PCs, Txs
    <3>2. QED
      BY <3>1 DEF CallerStates
  <2>3. w.rec = callers[c].rec /\ w.op = callers[c].op /\ w.pc = "complete_read"
    BY <1>0, CallerType DEF CallerStates
  <2>4. Right(w, runs', ledger')
    BY <1>4, <2>1, <2>3, CallerRight DEF DirectLands, Right
  <2>5. \A d \in Callers : Right(callers'[d], runs', ledger')
    BY <1>4, <2>1, <2>2, <2>4, StepRight DEF DirectLands
  <2>6. FlagsTruthful'
    BY <1>4, <2>1, StoreUntouched DEF DirectLands
  <2>7. EscrowNeverDirect' /\ RelayRight'
    BY <1>4, <2>1 DEF DirectLands, IInv, EscrowNeverDirect, RelayRight, Grows
  <2>8. QED
    BY <2>5, <2>6, <2>7 DEF Kept
<1>5. CASE DirectRefused(c)
  <2>1. Grows /\ EscrowNeverDirect' /\ RelayRight'
    BY <1>5, StillGrows, KeptLocally DEF DirectRefused
  <2>2. QED
    BY <1>5, <2>1, ThrowRight, StoreUntouched DEF DirectRefused, Kept
<1>6. QED
  BY <1>1, <1>2, <1>3, <1>4, <1>5

\* The steps of completeSucceededOperation: a flag is set in the record by the
\* step that runs its effect, and saved after it.
LEMMA CompletionKeeps ==
    ASSUME IInv, NEW c \in Callers,
           \/ CompleteRead(c) \/ Complete(c)
           \/ RunEffect(c) \/ SaveEffect(c) \/ FinishCompletion(c)
    PROVE  Kept
<1> USE DEF hostVars, budgetVars, envVars
<1>0. TypeOK
  BY DEF IInv
<1>a. UNCHANGED <<walletAsked, relay, ledger>>
  BY DEF CompleteRead, Complete, RunEffect, SaveEffect, FinishCompletion
<1>b. EscrowNeverDirect' /\ RelayRight'
  BY <1>a, KeptLocally
<1>c. callers[c].pc \in CompletionPCs /\ ledger[callers[c].op] # NoTx
  BY CallerRight DEF CompleteRead, Complete, RunEffect, SaveEffect, FinishCompletion,
                     At, CompletionPCs
<1>d. Right(Returned(callers[c], callers[c].rec), runs, ledger)
  BY <1>0, CallerType, CallerRight, ReturnedRight
<1>e. \A pc \in CompletionPCs :
        /\ [callers[c] EXCEPT !.pc = pc] \in CallerStates
        /\ Right([callers[c] EXCEPT !.pc = pc], runs, ledger)
  <2> SUFFICES ASSUME NEW pc \in CompletionPCs
               PROVE  /\ [callers[c] EXCEPT !.pc = pc] \in CallerStates
                      /\ Right([callers[c] EXCEPT !.pc = pc], runs, ledger)
    OBVIOUS
  <2> DEFINE w == [callers[c] EXCEPT !.pc = pc]
  <2>1. w \in CallerStates
    BY <1>0, CallerType DEF CallerStates, CompletionPCs, PCs
  <2>2. /\ w.rec = callers[c].rec /\ w.report = callers[c].report
        /\ w.op = callers[c].op /\ w.pc = pc
    BY <1>0, CallerType DEF CallerStates
  <2>3. QED
    BY <1>c, <2>1, <2>2, CallerRight DEF Right, CompletionPCs
<1>1. CASE CompleteRead(c)
  <2>1. Grows
    BY <1>1, StillGrows DEF CompleteRead
  <2> DEFINE read == IF Exists(store[callers[c].op]) THEN store[callers[c].op]
                                                     ELSE callers[c].rec
             done == WithSucceededPhase(read, callers[c].tx)
             w == [callers[c] EXCEPT !.pc = "complete", !.rec = done]
  <2>2. read \in PendingOperations /\ read.done \subseteq PerformedIn(runs, callers[c].op)
    BY <1>0, CallerType, CallerRight
  <2>3. done \in PendingOperations /\ done.done \subseteq PerformedIn(runs, callers[c].op)
    <3> HIDE DEF read
    <3> QED BY <1>0, <2>2, CallerType, RewriteTypes, RewritesKeepFlags
  <2> HIDE DEF done
  <2>4. /\ w \in CallerStates
        /\ w.rec = done /\ w.report = callers[c].report /\ w.op = callers[c].op
        /\ w.pc = "complete"
    BY <1>0, <2>3, CallerType DEF CallerStates, PCs
  <2>5. Right(w, runs', ledger')
    BY <1>1, <1>c, <2>3, <2>4, CallerRight DEF CompleteRead, Right
  <2>6. \A d \in Callers : Right(callers'[d], runs', ledger')
    BY <1>1, <2>1, <2>4, <2>5, StepRight DEF CompleteRead, done
  <2>7. FlagsTruthful'
    BY <1>1, <2>1, StoreUntouched DEF CompleteRead
  <2>8. QED
    BY <1>b, <2>6, <2>7 DEF Kept
<1>2. CASE Complete(c)
  <2>1. Grows /\ UNCHANGED <<runs, ledger>>
    BY <1>2, StillGrows DEF Complete
  <2>2. \/ Step(c, Returned(callers[c], callers[c].rec))
        \/ Goto(c, "joined") \/ Goto(c, "effects")
    BY <1>2 DEF Complete
  <2>3. Returned(callers[c], callers[c].rec) \in CallerStates
    BY <1>0, CallerType, ReturnedType
  <2>4. \A d \in Callers : Right(callers'[d], runs', ledger')
    BY <1>d, <1>e, <2>1, <2>2, <2>3, StepRight DEF Goto, CompletionPCs
  <2>5. UNCHANGED store \/ Save(c, callers[c].rec)
    BY <1>2 DEF Complete
  <2>6. FlagsTruthful'
    BY <1>0, <2>1, <2>5, CallerType, CallerRight, SaveTruthful, StoreUntouched
  <2>7. QED
    BY <1>b, <2>4, <2>6 DEF Kept
<1>3. CASE RunEffect(c)
  <2>1. PICK e \in Effects :
          /\ runs' = [runs EXCEPT ![callers[c].op][e] = IF @ < EffectCap THEN @ + 1 ELSE @]
          /\ Step(c, [callers[c] EXCEPT !.pc = "effect_save", !.rec.done = @ \cup {e}])
    BY <1>3 DEF RunEffect
  <2> DEFINE w == [callers[c] EXCEPT !.pc = "effect_save", !.rec.done = @ \cup {e}]
  <2>2. Grows /\ e \in PerformedIn(runs', callers[c].op)
    BY <1>0, <1>a, <2>1, CallerType, RunEffectGrows
  <2>3. [callers[c].rec EXCEPT !.done = @ \cup {e}] \in PendingOperations
    BY <1>0, CallerType DEF PendingOperations
  <2>4. /\ w \in CallerStates
        /\ w.report = callers[c].report /\ w.op = callers[c].op /\ w.pc = "effect_save"
        /\ w.rec.done = callers[c].rec.done \cup {e}
    <3>1. w \in CallerStates
      BY <1>0, <2>3, CallerType DEF CallerStates, PCs
    <3>2. /\ w.report = callers[c].report /\ w.op = callers[c].op /\ w.pc = "effect_save"
          /\ w.rec = [callers[c].rec EXCEPT !.done = @ \cup {e}]
      BY <1>0, CallerType DEF CallerStates
    <3>3. [callers[c].rec EXCEPT !.done = @ \cup {e}].done = callers[c].rec.done \cup {e}
      BY <1>0, CallerType DEF CallerStates, PendingOperations
    <3>4. QED
      BY <3>1, <3>2, <3>3
  <2>5. callers[c].rec.done \subseteq PerformedIn(runs', callers[c].op)
    BY <1>0, <2>2, CallerType, CallerRight DEF Grows
  <2>6. Right(w, runs', ledger')
    BY <1>a, <1>c, <2>2, <2>4, <2>5, CallerRight DEF Right
  <2>7. \A d \in Callers : Right(callers'[d], runs', ledger')
    BY <2>1, <2>2, <2>4, <2>6, StepRight
  <2>8. FlagsTruthful'
    BY <1>3, <2>2, StoreUntouched DEF RunEffect
  <2>9. QED
    BY <1>b, <2>7, <2>8 DEF Kept
<1>4. CASE SaveEffect(c)
  <2>1. Grows /\ UNCHANGED <<runs, ledger>>
    BY <1>4, StillGrows DEF SaveEffect
  <2>2. \A d \in Callers : Right(callers'[d], runs', ledger')
    BY <1>4, <1>e, <2>1, StepRight DEF SaveEffect, Goto, CompletionPCs
  <2>3. FlagsTruthful'
    BY <1>0, <1>4, <2>1, CallerType, CallerRight, SaveTruthful DEF SaveEffect
  <2>4. QED
    BY <1>b, <2>2, <2>3 DEF Kept
<1>5. CASE FinishCompletion(c)
  <2>1. Grows /\ UNCHANGED <<runs, ledger>>
    BY <1>5, StillGrows DEF FinishCompletion
  <2>2. ASSUME NEW d \in Callers PROVE Right(callers'[d], runs', ledger')
    <3>1. CASE d = c \/ Joined(d, c)
      <4>1. callers[d].op = callers[c].op
        BY <3>1 DEF Joined, SuccessKey
      <4>2. Right(Returned(callers[d], callers[c].rec), runs, ledger)
        BY <1>0, <4>1, CallerType, CallerRight, ReturnedRight
      <4>3. callers'[d] = Returned(callers[d], callers[c].rec)
        BY <1>5, <3>1 DEF FinishCompletion
      <4>4. QED
        BY <2>1, <4>2, <4>3
    <3>2. CASE ~(d = c \/ Joined(d, c))
      BY <1>5, <2>1, <3>2 DEF FinishCompletion, IInv
    <3>3. QED
      BY <3>1, <3>2
  <2>3. FlagsTruthful'
    BY <1>0, <1>5, <2>1, CallerType, CallerRight, SaveTruthful DEF FinishCompletion
  <2>4. QED
    BY <1>b, <2>2, <2>3 DEF Kept
<1>6. QED
  BY <1>1, <1>2, <1>3, <1>4, <1>5

\* The steps of pollPendingOperation: the record written back is stale, but its
\* flags were truthful when it was read and effects are never undone.
LEMMA PollKeeps ==
    ASSUME IInv, NEW c \in Callers,
           \/ PollRead(c) \/ PollStatus(c) \/ PollSave(c) \/ SaveTimedOut(c)
    PROVE  Kept
<1> USE DEF hostVars, budgetVars, envVars
<1>0. TypeOK
  BY DEF IInv
<1>a. UNCHANGED <<walletAsked, relay, ledger, runs>>
  BY DEF PollRead, PollStatus, PollSave, SaveTimedOut
<1>b. Grows /\ EscrowNeverDirect' /\ RelayRight'
  BY <1>a, KeptLocally, StillGrows
<1>1. CASE PollRead(c)
  <2> DEFINE w == [callers[c] EXCEPT !.pc = "poll_status", !.rec = store[callers[c].op]]
  <2>1. /\ w \in CallerStates
        /\ w.rec = store[callers[c].op] /\ w.report = callers[c].report
        /\ w.op = callers[c].op /\ w.pc = "poll_status"
    BY <1>0, CallerType DEF CallerStates, PCs
  <2>2. Right(w, runs, ledger)
    BY <2>1, CallerRight DEF Right, CompletionPCs
  <2>3. Returned(callers[c], store[callers[c].op]) \in CallerStates
    BY <1>0, CallerType, ReturnedType
  <2>4. Right(Returned(callers[c], store[callers[c].op]), runs, ledger)
    BY <1>0, CallerType, CallerRight, ReturnedRight
  <2>5. \/ Step(c, Idle) \/ Step(c, w)
        \/ Step(c, Returned(callers[c], store[callers[c].op]))
    BY <1>1 DEF PollRead
  <2>6. \A d \in Callers : Right(callers'[d], runs', ledger')
    <3> HIDE DEF w
    <3> QED BY <1>a, <1>b, <2>1, <2>2, <2>3, <2>4, <2>5, IdleType, IdleRight, StepRight
  <2>7. QED
    BY <1>1, <1>b, <2>6, StoreUntouched DEF PollRead, Kept
<1>2. CASE PollStatus(c)
  <2> DEFINE w == [callers[c] EXCEPT !.pc = "poll_save", !.report = relay[callers[c].op]]
  <2>1. /\ w \in CallerStates
        /\ w.rec = callers[c].rec /\ w.report = relay[callers[c].op]
        /\ w.op = callers[c].op /\ w.pc = "poll_save"
    BY <1>0, CallerType DEF CallerStates, PCs
  <2>2. w.report.hash # NoTx => ledger[w.op] # NoTx
    BY <1>0, <2>1, CallerType DEF IInv, RelayRight
  <2>3. Right(w, runs, ledger)
    BY <2>1, <2>2, CallerRight DEF Right, CompletionPCs
  <2>4. \A d \in Callers : Right(callers'[d], runs', ledger')
    BY <1>2, <1>a, <1>b, <2>1, <2>3, StepRight DEF PollStatus
  <2>5. QED
    BY <1>2, <1>b, <2>4, StoreUntouched DEF PollStatus, Kept
<1>3. CASE PollSave(c)
  <2> DEFINE updated == ApplyStatus(callers[c].rec, callers[c].report)
             w == [callers[c] EXCEPT !.pc = "complete_read", !.rec = updated,
                                     !.tx = callers[c].report.hash, !.report = NoReport]
  <2>1. updated \in PendingOperations /\ updated.done \subseteq PerformedIn(runs, callers[c].op)
    BY <1>0, CallerType, CallerRight, ApplyStatusType, RewritesKeepFlags
  <2>2. /\ Save(c, updated)
        /\ \/ callers[c].report.hash # NoTx /\ Step(c, w)
           \/ Step(c, Returned(callers[c], updated))
    BY <1>3 DEF PollSave
  <2> HIDE DEF updated
  <2>3. /\ w \in CallerStates
        /\ w.rec = updated /\ w.report = NoReport
        /\ w.op = callers[c].op /\ w.pc = "complete_read"
    <3>1. callers[c] \in CallerStates
      BY <1>0, CallerType
    <3>2. w \in CallerStates
      BY <2>1, <3>1, AppliedType
    <3>3. QED
      BY <3>1, <3>2 DEF CallerStates
  <2>4. callers[c].report.hash # NoTx => Right(w, runs, ledger)
    BY <2>1, <2>3, CallerRight DEF Right, NoReport
  <2>5. /\ Returned(callers[c], updated) \in CallerStates
        /\ Right(Returned(callers[c], updated), runs, ledger)
    BY <1>0, <2>1, CallerType, ReturnedType, ReturnedRight
  <2> HIDE DEF w
  <2>6. \A d \in Callers : Right(callers'[d], runs', ledger')
    BY <1>a, <1>b, <2>2, <2>3, <2>4, <2>5, StepRight
  <2>7. FlagsTruthful'
    BY <1>a, <1>b, <2>1, <2>2, SaveTruthful
  <2>8. QED
    BY <1>b, <2>6, <2>7 DEF Kept
<1>4. CASE SaveTimedOut(c)
  <2>1. \A d \in Callers : Right(callers'[d], runs', ledger')
    BY <1>4, <1>b, IdleType, IdleRight, StepRight DEF SaveTimedOut
  <2>2. FlagsTruthful'
    BY <1>0, <1>4, <1>a, <1>b, CallerType, CallerRight, RewriteTypes, RewritesKeepFlags,
       SaveTruthful DEF SaveTimedOut
  <2>3. QED
    BY <1>b, <2>1, <2>2 DEF Kept
<1>5. QED
  BY <1>1, <1>2, <1>3, <1>4

\* The steps of the retry and of the fallback, which is offered for no escrow
\* send.
LEMMA RetryAndFallbackKeeps ==
    ASSUME IInv, NEW c \in Callers,
           \/ RetryRead(c) \/ RetryAttempt(c) \/ SaveRetried(c)
           \/ FallbackRead(c) \/ Fallback(c)
    PROVE  Kept
<1> USE DEF hostVars, budgetVars, envVars
<1>0. TypeOK
  BY DEF IInv
<1>a. UNCHANGED <<ledger, runs>>
  BY DEF RetryRead, RetryAttempt, SaveRetried, FallbackRead, Fallback
<1>b. Grows
  BY <1>a, StillGrows
\* A caller that goes on with the record it read.
<1>c. \A pc \in {"retry_call", "fallback"} :
        /\ [callers[c] EXCEPT !.pc = pc, !.rec = store[callers[c].op]] \in CallerStates
        /\ Right([callers[c] EXCEPT !.pc = pc, !.rec = store[callers[c].op]], runs, ledger)
  <2> SUFFICES ASSUME NEW pc \in {"retry_call", "fallback"}
               PROVE  LET w == [callers[c] EXCEPT !.pc = pc, !.rec = store[callers[c].op]]
                      IN  w \in CallerStates /\ Right(w, runs, ledger)
    OBVIOUS
  <2> DEFINE w == [callers[c] EXCEPT !.pc = pc, !.rec = store[callers[c].op]]
  <2>1. /\ w \in CallerStates
        /\ w.rec = store[callers[c].op] /\ w.report = callers[c].report
        /\ w.op = callers[c].op /\ w.pc = pc
    BY <1>0, CallerType DEF CallerStates, PCs
  <2>2. QED
    BY <2>1, CallerRight DEF Right, CompletionPCs
<1>1. CASE RetryRead(c)
  <2>1. \A d \in Callers : Right(callers'[d], runs', ledger')
    BY <1>1, <1>a, <1>b, <1>c, IdleType, IdleRight, StepRight DEF RetryRead
  <2>2. QED
    BY <1>1, <1>b, <2>1, KeptLocally, StoreUntouched DEF RetryRead, Kept
<1>2. CASE RetryAttempt(c)
  <2> DEFINE w == [callers[c] EXCEPT !.pc = "retry_save"]
  <2>1. /\ w \in CallerStates
        /\ w.rec = callers[c].rec /\ w.report = callers[c].report
        /\ w.op = callers[c].op /\ w.pc = "retry_save"
    BY <1>0, CallerType DEF CallerStates, PCs
  <2>2. Right(w, runs, ledger)
    BY <2>1, CallerRight DEF Right, CompletionPCs
  <2>3. \A d \in Callers : Right(callers'[d], runs', ledger')
    BY <1>2, <1>a, <1>b, <2>1, <2>2, IdleType, IdleRight, StepRight DEF RetryAttempt, Goto
  <2>4. \A op \in Ops : \/ relay'[op] = relay[op]
                        \/ relay'[op] = [NoReport EXCEPT !.status = "accepted"]
    BY <1>0, <1>2 DEF RetryAttempt, AdmitRetry, TypeOK
  <2>5. RelayRight'
    BY <1>a, <2>4 DEF IInv, RelayRight, NoReport
  <2>6. FlagsTruthful' /\ EscrowNeverDirect'
    BY <1>2, <1>b, StoreUntouched DEF RetryAttempt, IInv, EscrowNeverDirect
  <2>7. QED
    BY <2>3, <2>5, <2>6 DEF Kept
<1>3. CASE SaveRetried(c)
  <2>1. \A d \in Callers : Right(callers'[d], runs', ledger')
    BY <1>0, <1>3, <1>b, CallerType, PollingType, PollingRight, StepRight DEF SaveRetried
  <2>2. FlagsTruthful'
    BY <1>0, <1>3, <1>a, <1>b, CallerType, CallerRight, RewriteTypes, RewritesKeepFlags,
       SaveTruthful DEF SaveRetried
  <2>3. QED
    BY <1>3, <2>1, <2>2, KeptLocally DEF SaveRetried, Kept
<1>4. CASE FallbackRead(c)
  <2>1. \A d \in Callers : Right(callers'[d], runs', ledger')
    BY <1>4, <1>a, <1>b, <1>c, IdleType, IdleRight, StepRight DEF FallbackRead
  <2>2. QED
    BY <1>4, <1>b, <2>1, KeptLocally, StoreUntouched DEF FallbackRead, Kept
<1>5. CASE Fallback(c)
  <2> DEFINE w == [callers[c] EXCEPT !.pc = "direct"]
  <2>1. \/ Step(c, Idle) /\ UNCHANGED walletAsked
        \/ /\ Goto(c, "direct")
           /\ walletAsked' = walletAsked \cup {callers[c].op}
           /\ callers[c].op \notin EscrowOps
    BY <1>5 DEF Fallback, CanOfferDirectSubmission
  <2>2. /\ w \in CallerStates
        /\ w.rec = callers[c].rec /\ w.report = callers[c].report
        /\ w.op = callers[c].op /\ w.pc = "direct"
    BY <1>0, CallerType DEF CallerStates, PCs
  <2>3. callers[c].op \notin EscrowOps => Right(w, runs, ledger)
    BY <2>2, CallerRight DEF Right, CompletionPCs
  <2>4. \A d \in Callers : Right(callers'[d], runs', ledger')
    BY <1>a, <1>b, <2>1, <2>2, <2>3, IdleType, IdleRight, StepRight DEF Goto
  <2>5. EscrowNeverDirect'
    BY <2>1 DEF IInv, EscrowNeverDirect
  <2>6. FlagsTruthful' /\ RelayRight'
    BY <1>5, <1>b, StoreUntouched DEF Fallback, IInv, RelayRight
  <2>7. QED
    BY <2>4, <2>5, <2>6 DEF Kept
<1>6. QED
  BY <1>1, <1>2, <1>3, <1>4, <1>5

\* The steps of the host and of the resume loop, and a failing port.
LEMMA HostKeeps ==
    ASSUME IInv, NEW c \in Callers,
           \/ StartResume(c) \/ ResumeNext(c)
           \/ \E op \in Ops : StartCall(c, op)
           \/ PortFails(c)
    PROVE  Kept
<1> USE DEF hostVars, budgetVars, envVars
<1>0. TypeOK
  BY DEF IInv
<1>a. UNCHANGED <<store, runs, walletAsked, relay, ledger>>
  BY DEF StartResume, ResumeNext, StartCall, PortFails
<1>b. Grows /\ FlagsTruthful' /\ EscrowNeverDirect' /\ RelayRight'
  BY <1>a, StillGrows, StoreUntouched, KeptLocally
<1>1. CASE StartResume(c)
  <2> DEFINE w == [Idle EXCEPT !.pc = "resume_next", !.flow = "resume", !.todo = Unfinalized]
  <2>1. /\ w \in CallerStates
        /\ w.pc = "resume_next" /\ w.rec = Idle.rec /\ w.report = Idle.report
    BY IdleType DEF CallerStates, PCs, Unfinalized
  <2>2. Right(w, runs', ledger')
    BY <2>1, IdleFields DEF Right, CompletionPCs
  <2>3. QED
    BY <1>1, <1>b, <2>1, <2>2, StepRight DEF StartResume, Kept
<1>2. CASE ResumeNext(c)
  <2>1. \A op \in callers[c].todo :
          Polling([callers[c] EXCEPT !.op = op, !.todo = @ \ {op}], 0) \in CallerStates
    <3> SUFFICES ASSUME NEW op \in callers[c].todo
                 PROVE  Polling([callers[c] EXCEPT !.op = op, !.todo = @ \ {op}], 0)
                          \in CallerStates
      OBVIOUS
    <3>1. [callers[c] EXCEPT !.op = op, !.todo = @ \ {op}] \in CallerStates
      BY <1>0, CallerType DEF CallerStates
    <3>2. QED
      BY <3>1, PollingType
  <2>2. QED
    BY <1>2, <1>b, <2>1, IdleType, IdleRight, PollingRight, StepRight DEF ResumeNext, Kept
<1>3. ASSUME NEW op \in Ops, StartCall(c, op) PROVE Kept
  <2>1. PICK pc \in {"poll_read", "retry_read", "fallback_read"}, flow \in {"once", "await"} :
          Step(c, [Idle EXCEPT !.pc = pc, !.flow = flow, !.op = op])
    BY <1>3 DEF StartCall
  <2> DEFINE w == [Idle EXCEPT !.pc = pc, !.flow = flow, !.op = op]
  <2>2. /\ w \in CallerStates
        /\ w.pc = pc /\ w.rec = Idle.rec /\ w.report = Idle.report
    BY IdleType DEF CallerStates, PCs
  <2>3. Right(w, runs', ledger')
    BY <2>2, IdleFields DEF Right, CompletionPCs
  <2>4. QED
    BY <1>b, <2>1, <2>2, <2>3, StepRight DEF Kept
<1>4. CASE PortFails(c)
  BY <1>4, <1>b, ThrowRight DEF PortFails, Kept
<1>5. QED
  BY <1>1, <1>2, <1>3, <1>4

\* A reload loses what the callers knew; the store stays truthful.
LEMMA ReloadKeeps == IInv /\ Reload => Kept
<1> SUFFICES ASSUME IInv, Reload PROVE Kept
  OBVIOUS
<1>1. UNCHANGED <<store, runs, walletAsked, relay, ledger>>
  BY DEF Reload, envVars
<1>2. FlagsTruthful' /\ EscrowNeverDirect' /\ RelayRight'
  BY <1>1, StillGrows, StoreUntouched, KeptLocally
<1>3. \A d \in Callers : Right(callers'[d], runs', ledger')
  BY IdleRight DEF Reload
<1>4. QED
  BY <1>2, <1>3 DEF Kept

\* The relayer reports a success, and publishes its hash, only once the
\* transaction landed.
LEMMA RelayerKeeps ==
    ASSUME IInv, NEW op \in Ops, RelayerNext(op)
    PROVE  Kept
<1> USE DEF hostVars, budgetVars
<1>0. TypeOK
  BY DEF IInv
<1>1. UNCHANGED <<store, callers, runs, walletAsked>>
  BY DEF RelayerNext
<1>2. Grows
  BY <1>0, <1>1, StillGrows, LandGrows
     DEF RelayerNext, RelayerStep, Process, LandRelayed, ReportSuccess, PublishHash, Reject,
         FailAttempt, Txs
<1>3. \A d \in Callers : Right(callers'[d], runs', ledger')
  BY <1>0, <1>1, <1>2, CallerType, OthersStayRight DEF IInv
<1>4. FlagsTruthful' /\ EscrowNeverDirect'
  BY <1>1, <1>2, StoreUntouched DEF IInv, EscrowNeverDirect
<1>5. RelayRight'
  <2> SUFFICES ASSUME NEW p \in Ops, relay'[p].status = "succeeded" \/ relay'[p].hash # NoTx
               PROVE  ledger'[p] # NoTx
    BY DEF RelayRight
  <2>1. ledger[p] # NoTx => ledger'[p] # NoTx
    BY <1>2 DEF Grows
  <2>2. CASE relay[p].status = "succeeded" \/ relay[p].hash # NoTx
    BY <2>1, <2>2 DEF IInv, RelayRight
  <2>3. CASE relay[p].status # "succeeded" /\ relay[p].hash = NoTx
    <3>1. relay[p] \in Reports /\ relay[op] \in Reports
      BY <1>0 DEF TypeOK
    <3>2. relay'[p] # relay[p]
      BY <2>3
    <3>3. CASE Process(op) \/ Reject(op) \/ FailAttempt(op)
      <4>1. \A status : status \in ReportedStatuses => status # "succeeded"
        BY RelayerAssumption DEF InProgress
      <4>2. QED
        BY <1>0, <2>3, <3>1, <3>2, <3>3, <4>1 DEF Process, Reject, FailAttempt, TypeOK, Reports
    <3>4. CASE LandRelayed(op)
      BY <3>2, <3>4 DEF LandRelayed
    <3>5. CASE ReportSuccess(op)
      <4>1. p = op /\ ledger[op] = "relay_tx"
        BY <1>0, <3>2, <3>5 DEF ReportSuccess, TypeOK
      <4>2. QED
        BY <2>1, <4>1 DEF NoTx
    <3>6. CASE PublishHash(op)
      <4>1. p = op /\ relay[op].status = "succeeded"
        BY <1>0, <3>2, <3>6 DEF PublishHash, TypeOK
      <4>2. QED
        BY <2>3, <4>1
    <3>7. QED
      BY <3>3, <3>4, <3>5, <3>6 DEF RelayerNext, RelayerStep
  <2>4. QED
    BY <2>2, <2>3
<1>6. QED
  BY <1>3, <1>4, <1>5 DEF Kept

\* Every step of the runtime preserves IInv.
LEMMA RightStep == IInv /\ [Next]_vars => IInv'
<1> SUFFICES ASSUME IInv, [Next]_vars PROVE IInv'
  OBVIOUS
<1>1. TypeOK'
  BY TypeStep DEF IInv
<1>2. Kept
  <2>1. ASSUME NEW c \in Callers, Continue(c) PROVE Kept
    BY <2>1, RequestKeeps, CompletionKeeps, PollKeeps, RetryAndFallbackKeeps, HostKeeps
       DEF Continue
  <2>2. ASSUME NEW c \in Callers, Submit(c) PROVE Kept
    BY <2>2, SubmitKeeps
  <2>3. ASSUME NEW c \in Callers,
               \/ StartResume(c) \/ \E op \in Ops : StartCall(c, op)
               \/ LoseAcceptance(c) \/ PortFails(c)
        PROVE Kept
    BY <2>3, RequestKeeps, HostKeeps
  <2>4. CASE Reload
    BY <2>4, ReloadKeeps
  <2>5. ASSUME NEW op \in Ops, RelayerNext(op) PROVE Kept
    BY <2>5, RelayerKeeps
  <2>6. CASE UNCHANGED vars
    <3>1. UNCHANGED <<store, callers, runs, walletAsked, relay, ledger>>
      BY <2>6 DEF vars, hostVars, budgetVars, envVars
    <3>2. QED
      BY <3>1, StillGrows, StoreUntouched, KeptLocally DEF Kept, IInv
  <2>7. QED
    BY <2>1, <2>2, <2>3, <2>4, <2>5, <2>6 DEF Next
<1>3. QED
  BY <1>1, <1>2 DEF Kept, IInv

---------------------------------------------------------------------------
\* A completion flag in the store is never ahead of its effect, whatever
\* calls overlap, fail or are lost: after a reload the runtime may skip what
\* the store says is done.
THEOREM FlagsAreTruthful == Spec => []FlagsTruthful
<1>1. IInv => FlagsTruthful
  BY DEF IInv
<1>2. QED
  BY <1>1, RightInit, RightStep, PTL DEF Spec

\* No sequence of submissions, retries, refusals and fallbacks hands an escrow
\* send to the wallet.
THEOREM EscrowIsNeverDirect == Spec => []EscrowNeverDirect
<1>1. IInv => EscrowNeverDirect
  BY DEF IInv
<1>2. QED
  BY <1>1, RightInit, RightStep, PTL DEF Spec

---------------------------------------------------------------------------
\* The relay runtime implements OperationSettlement.  A step of the runtime
\* either lands a transaction (DirectLands, LandRelayed), runs a side effect
\* (RunEffect), or changes neither the ledger nor what was performed.

\* The definitions of the abstract module, under the refinement mapping.
LEMMA SameVocabulary ==
    /\ Settlement!Effects = Effects
    /\ Settlement!Txs = Txs
    /\ Settlement!NoTx = NoTx
    /\ \A e \in Effects : Settlement!Earlier(e) = Earlier(e)
BY DEF Settlement!Effects, Effects, Settlement!Txs, Txs, Settlement!NoTx, NoTx,
       Settlement!Earlier, Earlier

\* Nothing has landed and nothing has been performed in an initial state.
LEMMA SettlementInit == Init => Settlement!Init
<1> SUFFICES ASSUME Init PROVE Settlement!Init
  OBVIOUS
<1>1. \A op \in Ops : Performed(op) = {}
  <2>1. \A op \in Ops, e \in Effects : runs[op][e] = 0
    BY DEF Init
  <2>2. \A op \in Ops, e \in Effects : ~(runs[op][e] > 0)
    BY <2>1
  <2>3. QED
    BY <2>2, Zenon DEF Performed
<1>2. ledger = [op \in Ops |-> NoTx]
  BY DEF Init, RelayerInit
<1>3. [op \in Ops |-> Performed(op)] = [op \in Ops |-> {}]
  BY <1>1
<1>4. QED
  BY <1>2, <1>3, SameVocabulary DEF Settlement!Init

\* Running a side effect adds it to what was performed, and nothing else.
LEMMA RunEffectPerforms ==
    ASSUME TypeOK, NEW op \in Ops, NEW e \in Effects,
           runs' = [runs EXCEPT ![op][e] = IF @ < EffectCap THEN @ + 1 ELSE @]
    PROVE  [p \in Ops |-> Performed(p)]'
             = [[p \in Ops |-> Performed(p)] EXCEPT ![op] = @ \cup {e}]
<1>1. \A p \in Ops, f \in Effects : runs[p][f] \in Nat
  BY DEF TypeOK
<1>2. \A p \in Ops, f \in Effects :
        runs'[p][f] > 0 <=> (runs[p][f] > 0 \/ (p = op /\ f = e))
  <2> SUFFICES ASSUME NEW p \in Ops, NEW f \in Effects
               PROVE  runs'[p][f] > 0 <=> (runs[p][f] > 0 \/ (p = op /\ f = e))
    OBVIOUS
  <2>1. CASE p = op /\ f = e
    <3>1. runs'[p][f] = IF runs[op][e] < EffectCap THEN runs[op][e] + 1 ELSE runs[op][e]
      BY <2>1 DEF TypeOK
    <3>2. QED
      BY <1>1, <2>1, <3>1, RuntimeAssumption
  <2>2. CASE ~(p = op /\ f = e)
    BY <2>2 DEF TypeOK
  <2>3. QED
    BY <2>1, <2>2
<1>3. \A p \in Ops : Performed(p)' = IF p = op THEN Performed(p) \cup {e} ELSE Performed(p)
  BY <1>2 DEF Performed
<1>4. QED
  BY <1>3

\* The runtime lands a transaction as the abstract specification does: once,
\* and that of an escrow send through the relayer.
LEMMA LandRefines ==
    ASSUME TypeOK, NEW op \in Ops, NEW tx \in Txs, Land(op, tx), UNCHANGED runs,
           op \in EscrowOps => tx = "relay_tx"
    PROVE  Settlement!Next
<1>1. UNCHANGED [p \in Ops |-> Performed(p)]
  BY DEF Performed
<1>2. Settlement!Land(op, tx)
  BY <1>1, SameVocabulary DEF Land, Settlement!Land
<1>3. QED
  BY <1>2, SameVocabulary DEF Settlement!Next

\* A caller runs a side effect only of an operation that landed, and after
\* those that come before it.
LEMMA RunEffectRefines ==
    ASSUME IInv, NEW c \in Callers, RunEffect(c)
    PROVE  Settlement!Next
<1> DEFINE op == callers[c].op
<1>1. op \in Ops /\ ledger[op] # NoTx
  BY CallerType, CallerRight DEF IInv, RunEffect, At, CompletionPCs
<1>2. PICK e \in Effects :
        /\ Earlier(e) \subseteq callers[c].rec.done
        /\ runs' = [runs EXCEPT ![op][e] = IF @ < EffectCap THEN @ + 1 ELSE @]
  BY DEF RunEffect
<1>3. Earlier(e) \subseteq Performed(op)
  BY <1>2, CallerRight DEF Performed, PerformedIn
<1>4. UNCHANGED ledger
  BY DEF RunEffect, envVars
<1>5. Settlement!Perform(op, e)
  BY <1>1, <1>2, <1>3, <1>4, RunEffectPerforms, SameVocabulary
     DEF IInv, Settlement!Perform
<1>6. QED
  BY <1>1, <1>5, SameVocabulary DEF Settlement!Next

\* Every step of the runtime is a step of the abstract specification or
\* changes nothing it speaks of.
LEMMA SettlementStep == IInv /\ [Next]_vars => [Settlement!Next]_(Settlement!vars)
<1> SUFFICES ASSUME IInv, [Next]_vars
             PROVE  Settlement!Next \/ UNCHANGED Settlement!vars
  OBVIOUS
<1> USE DEF hostVars, budgetVars, envVars
<1>0. TypeOK
  BY DEF IInv
<1>a. UNCHANGED <<runs, ledger>> => UNCHANGED Settlement!vars
  BY DEF Settlement!vars, Performed
<1>1. ASSUME NEW c \in Callers, Continue(c)
      PROVE  Settlement!Next \/ UNCHANGED <<runs, ledger>>
  <2>1. CASE DirectLands(c)
    <3>1. callers[c].op \in Ops /\ callers[c].op \notin EscrowOps
      BY <1>0, <2>1, CallerType, CallerRight DEF DirectLands, At
    <3>2. QED
      BY <1>0, <2>1, <3>1, LandRefines DEF DirectLands, Txs
  <2>2. CASE RunEffect(c)
    BY <2>2, RunEffectRefines
  <2>3. CASE CreateRequest(c) \/ SaveAccepted(c) \/ RelayRefuses(c) \/ DirectRefused(c)
    BY <2>3 DEF CreateRequest, SaveAccepted, RelayRefuses, DirectRefused
  <2>4. CASE CompleteRead(c) \/ Complete(c) \/ SaveEffect(c) \/ FinishCompletion(c)
    BY <2>4 DEF CompleteRead, Complete, SaveEffect, FinishCompletion
  <2>5. CASE PollRead(c) \/ PollStatus(c) \/ PollSave(c) \/ SaveTimedOut(c) \/ ResumeNext(c)
    BY <2>5 DEF PollRead, PollStatus, PollSave, SaveTimedOut, ResumeNext
  <2>6. CASE RetryRead(c) \/ RetryAttempt(c) \/ SaveRetried(c) \/ FallbackRead(c) \/ Fallback(c)
    BY <2>6 DEF RetryRead, RetryAttempt, SaveRetried, FallbackRead, Fallback
  <2>7. QED
    BY <1>1, <2>1, <2>2, <2>3, <2>4, <2>5, <2>6 DEF Continue
<1>2. ASSUME NEW c \in Callers,
             \/ Submit(c) \/ StartResume(c) \/ \E op \in Ops : StartCall(c, op)
             \/ LoseAcceptance(c) \/ PortFails(c)
      PROVE  UNCHANGED <<runs, ledger>>
  BY <1>2 DEF Submit, RefuseEscrow, SubmitDirectPath, SubmitRelayPath, StartResume,
              StartCall, LoseAcceptance, PortFails
<1>3. ASSUME NEW op \in Ops, RelayerNext(op)
      PROVE  Settlement!Next \/ UNCHANGED <<runs, ledger>>
  <2>1. CASE LandRelayed(op)
    BY <1>0, <1>3, <2>1, LandRefines DEF LandRelayed, RelayerNext, Txs
  <2>2. CASE \/ Process(op) \/ ReportSuccess(op) \/ PublishHash(op)
             \/ Reject(op) \/ FailAttempt(op)
    BY <1>3, <2>2 DEF RelayerNext, Process, ReportSuccess, PublishHash, Reject, FailAttempt
  <2>3. QED
    BY <1>3, <2>1, <2>2 DEF RelayerNext, RelayerStep
<1>4. CASE Reload
  BY <1>a, <1>4 DEF Reload
<1>5. CASE UNCHANGED vars
  BY <1>a, <1>5 DEF vars
<1>6. QED
  BY <1>a, <1>1, <1>2, <1>3, <1>4, <1>5 DEF Next

\* Whatever calls overlap, fail or are lost in a reload: at most one
\* transaction of an operation lands, that of an escrow send through the
\* relayer, and the side effects of a success happen only after it landed,
\* each after those that come before it.
THEOREM SettlementIsImplemented == Spec => ImplementsSettlement
<1>1. Spec => []IInv
  BY RightInit, RightStep, PTL DEF Spec
<1>2. QED
  BY <1>1, SettlementInit, SettlementStep, PTL DEF Spec, ImplementsSettlement, Settlement!Spec

---------------------------------------------------------------------------
\* When the host makes one call at a time.

OneAtATime == \A c, d \in Callers : c = d

\* The awaits at which a call holds a record it will go on with, and those at
\* which it is about no operation.
HoldingPCs == {"direct", "create", "created", "complete_read", "complete", "joined", "effects",
               "effect_save", "poll_status", "poll_save", "timeout_save", "retry_call",
               "retry_save", "fallback"}

Between == {"idle", "resume_next"}

\* A record that forgets nothing of the one that is stored.
Carries(rec, stored) ==
    /\ stored.done \subseteq rec.done
    /\ stored.requested => rec.requested

Holding(w) ==
    /\ w.pc \notin Between => w.op \in submitted
    /\ w.todo \subseteq submitted
    /\ w.pc \in HoldingPCs => Carries(w.rec, store[w.op])

\* The effect has run and its flag is not saved yet.
Unsaved(op, e) ==
    \E c \in Callers : At(c, "effect_save") /\ callers[c].op = op /\ e \in callers[c].rec.done

\* An effect has run once for each loss, and once more only when its flag is
\* saved or about to be.
RunsCounted == \A op \in Ops : \A e \in Effects :
    /\ runs[op][e] <= 1 + reloads + faults
    /\ runs[op][e] <= reloads + faults \/ e \in store[op].done \/ Unsaved(op, e)

SeqInv ==
    /\ TypeOK
    /\ \A op \in Ops \ submitted : store[op] = Absent
    /\ \A c \in Callers : Holding(callers[c])
    /\ RunsCounted

\* A step of the call v that leads to w and stores rec, where old was stored:
\* at worst it stores what was there.  Nothing it stores or goes on with is
\* forgotten, and a rejection comes from the relayer or from what it held.
Moves(c, w, rec) ==
    LET v   == callers[c]
        old == store[v.op]
    IN /\ w \in CallerStates /\ rec \in PendingOperations
       /\ callers' = [callers EXCEPT ![c] = w]
       /\ store' = [store EXCEPT ![v.op] = rec]
       /\ UNCHANGED <<submitted, submitters, runs>>
       /\ reloads' + faults' >= reloads + faults
       /\ v.pc \in Between => rec = old
       /\ Carries(rec, old)
       /\ w.pc \in HoldingPCs => w.op = v.op /\ Carries(w.rec, rec)
       /\ w.pc \notin Between => w.op \in submitted
       /\ w.todo \subseteq submitted
       /\ v.pc = "effect_save" =>
             rec.done = v.rec.done \/ reloads' + faults' > reloads + faults
       /\ v.pc = "created" => rec.requested \/ faults' # faults
       /\ w.pc \notin {"create", "effect_save"}
       /\ w.pc = "created" => v.pc = "create" /\ rec = old /\ w.rec = v.rec
       /\ w.pc = "direct" => v.pc = "fallback" /\ w.rec = v.rec
       /\ w.pc = "fallback" => w.rec = rec
       /\ rec.phase = "rejected" =>
             \/ rec = old
             \/ v.pc = "create"
             \/ v.pc = "created" /\ faults' # faults
             \/ v.report.status = "rejected"
             \/ v.pc \in HoldingPCs /\ v.rec.phase = "rejected"
       /\ w.pc \in HoldingPCs /\ w.rec.phase = "rejected" =>
             rec.phase = "rejected" \/ (v.pc \in HoldingPCs /\ v.rec.phase = "rejected")
       /\ w.report.status = "rejected" =>
             w.op = v.op /\ "rejected" \in {v.report.status, relay[v.op].status}

\* What the flows make of a record: none forgets a flag or the request, and
\* only a refusal or a report turns one into a rejected one.
LEMMA RewritesCarry ==
    ASSUME NEW rec \in PendingOperations, NEW old, Carries(rec, old)
    PROVE  /\ Carries(AcceptedByRelay(rec), old) /\ AcceptedByRelay(rec).phase # "rejected"
           /\ AcceptedByRelay(rec).requested = TRUE
           /\ Carries(RetriedAtRelay(rec), old) /\ RetriedAtRelay(rec).phase # "rejected"
           /\ Carries(TimedOut(rec), old) /\ TimedOut(rec).phase # "rejected"
           /\ \A phase \in Phases : Carries(Refused(rec, phase), old)
           /\ \A tx \in Txs \cup {NoTx} : /\ Carries(WithSucceededPhase(rec, tx), old)
                                          /\ WithSucceededPhase(rec, tx).phase # "rejected"
           /\ \A report \in Reports :
                 /\ Carries(ApplyStatus(rec, report), old)
                 /\ ApplyStatus(rec, report).phase = "rejected" =>
                       "rejected" \in {report.status, rec.phase}
<1>1. /\ AcceptedByRelay(rec).done = rec.done /\ AcceptedByRelay(rec).requested = TRUE
      /\ AcceptedByRelay(rec).phase = "relay_accepted"
  BY DEF AcceptedByRelay, PendingOperations
<1>2. /\ RetriedAtRelay(rec).done = rec.done /\ RetriedAtRelay(rec).requested = rec.requested
      /\ RetriedAtRelay(rec).phase = "relay_accepted"
  BY DEF RetriedAtRelay, PendingOperations
<1>3. /\ TimedOut(rec).done = rec.done /\ TimedOut(rec).requested = rec.requested
      /\ TimedOut(rec).phase = "settlement_timed_out"
  BY DEF TimedOut, PendingOperations
<1>4. \A phase \in Phases : /\ Refused(rec, phase).done = rec.done
                            /\ Refused(rec, phase).requested = rec.requested
  BY DEF Refused, PendingOperations
<1>5. \A tx \in Txs \cup {NoTx} : /\ WithSucceededPhase(rec, tx).done = rec.done
                                  /\ WithSucceededPhase(rec, tx).requested = rec.requested
                                  /\ WithSucceededPhase(rec, tx).phase = "succeeded"
  BY DEF WithSucceededPhase, PendingOperations
<1>6. \A report \in Reports :
         /\ ApplyStatus(rec, report).done = rec.done
         /\ ApplyStatus(rec, report).requested = rec.requested
         /\ ApplyStatus(rec, report).phase
              = IF report.status \in {"rejected", "failed"} THEN report.status ELSE rec.phase
  BY DEF ApplyStatus, PendingOperations
<1>7. QED
  BY <1>1, <1>2, <1>3, <1>4, <1>5, <1>6 DEF Carries

\* A call that is over, that polls, that goes on resuming or that gives up
\* waiting holds at most the record that was stored last.
Quiet(w, v, rec) ==
    /\ w \in CallerStates
    /\ w.pc \in {"idle", "resume_next", "poll_read", "timeout_save"}
    /\ w.pc \notin Between => w.op = v.op
    /\ w.pc = "timeout_save" => w.rec = rec
    /\ w.todo \subseteq v.todo
    /\ w.report.status # "rejected"

LEMMA QuietStates ==
    ASSUME NEW v \in CallerStates, NEW rec \in PendingOperations
    PROVE  /\ Quiet(Idle, v, rec)
           /\ \A n \in Nat : Quiet(Polling(v, n), v, rec)
           /\ Quiet(Returned(v, rec), v, rec)
<1>1. Idle.todo = {} /\ Idle.report.status # "rejected" /\ Idle.pc = "idle"
  BY DEF Idle, NoReport, NoStatus
<1>2. Quiet(Idle, v, rec)
  BY <1>1, IdleType DEF Quiet, Between
<1>3. ASSUME NEW n \in Nat
      PROVE  Quiet(Polling(v, n), v, rec)
  <2> DEFINE p == Polling(v, n)
  <2>1. /\ p.pc = "poll_read" /\ p.op = v.op /\ p.todo = v.todo /\ p.report = Idle.report
    BY IdleType DEF Polling, CallerStates
  <2>2. p \in CallerStates
    BY <1>3, PollingType
  <2>3. QED
    BY <1>1, <2>1, <2>2 DEF Quiet, Between
<1>4. Quiet(Returned(v, rec), v, rec)
  <2> DEFINE r == [Idle EXCEPT !.pc = "resume_next", !.flow = "resume", !.todo = v.todo]
             t == [Idle EXCEPT !.pc = "timeout_save", !.flow = "await", !.op = v.op, !.rec = rec]
  <2>1. /\ r.pc = "resume_next" /\ r.todo = v.todo /\ r.report = Idle.report
        /\ t.pc = "timeout_save" /\ t.op = v.op /\ t.rec = rec /\ t.todo = {}
        /\ t.report = Idle.report
    BY <1>1, IdleType DEF CallerStates
  <2>2. r \in CallerStates /\ t \in CallerStates
    BY IdleType DEF CallerStates, PCs
  <2>3. Quiet(r, v, rec) /\ Quiet(t, v, rec)
    BY <1>1, <2>1, <2>2 DEF Quiet, Between
  <2>4. v.attempt + 1 \in Nat
    BY DEF CallerStates
  <2>5. QED
    BY <1>2, <1>3, <2>3, <2>4 DEF Returned
<1>5. QED
  BY <1>2, <1>3, <1>4

\* What SeqInv says of one call.
LEMMA CallerHolds ==
    ASSUME SeqInv, NEW c \in Callers
    PROVE  /\ callers[c] \in CallerStates /\ callers[c].op \in Ops
           /\ callers[c].rec \in PendingOperations /\ store[callers[c].op] \in PendingOperations
           /\ callers[c].pc \notin Between => callers[c].op \in submitted
           /\ callers[c].todo \subseteq submitted
           /\ callers[c].pc \in HoldingPCs => Carries(callers[c].rec, store[callers[c].op])
           /\ reloads \in Nat /\ faults \in Nat
           /\ UNCHANGED store => store' = [store EXCEPT ![callers[c].op] = store[callers[c].op]]
<1>1. TypeOK
  BY DEF SeqInv
<1>2. UNCHANGED store => store' = [store EXCEPT ![callers[c].op] = store[callers[c].op]]
  BY <1>1 DEF TypeOK
<1>3. QED
  BY <1>1, <1>2, CallerType DEF SeqInv, Holding, TypeOK

LEMMA CarriesItself == \A rec : Carries(rec, rec)
BY DEF Carries

\* A call that stores rec, or nothing, and is quiet from then on.
LEMMA QuietMoves ==
    ASSUME SeqInv, NEW c \in Callers, NEW w, NEW rec \in PendingOperations,
           callers[c].pc \notin Between,
           Quiet(w, callers[c], rec), Step(c, w),
           Save(c, rec) \/ (rec = store[callers[c].op] /\ UNCHANGED store),
           Carries(rec, store[callers[c].op]),
           UNCHANGED <<submitted, submitters, runs>>,
           reloads' + faults' >= reloads + faults,
           callers[c].pc = "effect_save" =>
              rec.done = callers[c].rec.done \/ reloads' + faults' > reloads + faults,
           callers[c].pc = "created" => rec.requested \/ faults' # faults,
           rec.phase = "rejected" =>
              \/ rec = store[callers[c].op]
              \/ callers[c].pc = "create"
              \/ callers[c].pc = "created" /\ faults' # faults
              \/ callers[c].report.status = "rejected"
              \/ callers[c].pc \in HoldingPCs /\ callers[c].rec.phase = "rejected"
    PROVE  Moves(c, w, rec)
<1>1. /\ w.pc \in HoldingPCs => w.op = callers[c].op /\ w.rec = rec
      /\ w.pc \notin Between => w.op \in submitted
      /\ w.todo \subseteq submitted
  BY CallerHolds DEF Quiet, HoldingPCs, Between
<1>2. store' = [store EXCEPT ![callers[c].op] = rec]
  BY CallerHolds DEF Save
<1>3. /\ w.pc \notin {"create", "effect_save", "created", "direct", "fallback"}
      /\ w \in CallerStates /\ w.report.status # "rejected"
  BY DEF Quiet
<1>4. QED
  BY <1>1, <1>2, <1>3, CarriesItself DEF Moves, Step

\* A call that goes on with a record, and has stored rec or nothing.
LEMMA HeldMoves ==
    ASSUME SeqInv, NEW c \in Callers, NEW w \in CallerStates, NEW rec \in PendingOperations,
           callers[c].pc \notin Between,
           w.pc \notin {"create", "effect_save", "created", "direct", "fallback"} \cup Between,
           w.op = callers[c].op, w.todo = callers[c].todo, Step(c, w),
           Save(c, rec) \/ (rec = store[callers[c].op] /\ UNCHANGED store),
           Carries(rec, store[callers[c].op]), Carries(w.rec, rec),
           UNCHANGED <<submitted, submitters, runs>>,
           reloads' + faults' >= reloads + faults,
           callers[c].pc = "effect_save" => rec.done = callers[c].rec.done,
           callers[c].pc # "created",
           rec.phase = "rejected" =>
              \/ rec = store[callers[c].op]
              \/ callers[c].report.status = "rejected"
              \/ callers[c].pc \in HoldingPCs /\ callers[c].rec.phase = "rejected",
           w.rec.phase = "rejected" =>
              \/ rec.phase = "rejected"
              \/ callers[c].pc \in HoldingPCs /\ callers[c].rec.phase = "rejected",
           w.report.status = "rejected" =>
              "rejected" \in {callers[c].report.status, relay[callers[c].op].status}
    PROVE  Moves(c, w, rec)
<1>1. store' = [store EXCEPT ![callers[c].op] = rec]
  BY CallerHolds DEF Save
<1>2. w.op \in submitted /\ w.todo \subseteq submitted
  BY CallerHolds
<1>3. QED
  BY <1>1, <1>2 DEF Moves, Step

\* The fields of a call that goes on with the record it holds.
LEMMA GoneFields ==
    ASSUME NEW v \in CallerStates, NEW pc \in PCs
    PROVE  LET w == [v EXCEPT !.pc = pc]
           IN /\ w \in CallerStates /\ w.pc = pc /\ w.rec = v.rec /\ w.op = v.op
              /\ w.todo = v.todo /\ w.report = v.report
BY DEF CallerStates

SomeMove(c) == \E w, rec : Moves(c, w, rec)

\* createRequest, submitDirect and what follows them.
LEMMA RequestMoves ==
    ASSUME SeqInv, NEW c \in Callers,
           \/ CreateRequest(c) \/ SaveAccepted(c) \/ RelayRefuses(c) \/ LoseAcceptance(c)
           \/ DirectLands(c)
    PROVE  SomeMove(c)
<1> USE DEF hostVars, budgetVars, envVars
<1> DEFINE v == callers[c]
           old == store[v.op]
<1>1. /\ v \in CallerStates /\ v.rec \in PendingOperations /\ old \in PendingOperations
      /\ reloads \in Nat /\ faults \in Nat
      /\ v.pc \in HoldingPCs => Carries(v.rec, old)
  BY CallerHolds
<1>2. CASE CreateRequest(c)
  <2> DEFINE w == [v EXCEPT !.pc = "created"]
  <2>1. v.pc = "create" /\ callers' = [callers EXCEPT ![c] = w]
    BY <1>2 DEF CreateRequest, At, Goto, Step
  <2>2. /\ w \in CallerStates /\ w.pc = "created" /\ w.rec = v.rec /\ w.op = v.op
        /\ w.todo = v.todo /\ w.report = v.report
    BY <1>1, GoneFields DEF PCs
  <2>3. UNCHANGED <<store, submitted, submitters, runs, reloads, faults>>
    BY <1>2 DEF CreateRequest
  <2>4. store' = [store EXCEPT ![v.op] = old]
    BY <2>3, CallerHolds
  <2>5. w.op \in submitted /\ w.todo \subseteq submitted
    BY <2>1, <2>2, CallerHolds DEF Between
  <2>6. Carries(w.rec, old) /\ Carries(old, old) /\ v.pc \in HoldingPCs
    BY <1>1, <2>1, <2>2, CarriesItself DEF HoldingPCs
  <2> HIDE DEF w
  <2>7. /\ w.pc \notin Between /\ v.pc \notin Between
        /\ w.pc \notin {"create", "effect_save", "direct", "fallback"} /\ v.pc # "effect_save"
        /\ reloads' + faults' >= reloads + faults
    BY <1>1, <2>1, <2>2, <2>3 DEF Between
  <2>8. Moves(c, w, old)
    BY <1>1, <2>1, <2>2, <2>3, <2>4, <2>5, <2>6, <2>7 DEF Moves
  <2>9. QED
    BY <2>8 DEF SomeMove
<1>3. CASE SaveAccepted(c)
  <2> DEFINE w == IF v.flow = "await" THEN Polling(v, 0) ELSE Idle
             rec == AcceptedByRelay(v.rec)
  <2>1. v.pc = "created" /\ Save(c, rec) /\ Step(c, w)
    BY <1>3 DEF SaveAccepted, At
  <2>2. UNCHANGED <<submitted, submitters, runs, reloads, faults>>
    BY <1>3 DEF SaveAccepted
  <2>3. rec \in PendingOperations
    BY <1>1, RewriteTypes
  <2>4. Quiet(w, v, rec)
    BY <1>1, <2>3, QuietStates
  <2>5. Carries(rec, old) /\ rec.phase # "rejected" /\ rec.requested
    BY <1>1, <2>1, RewritesCarry DEF HoldingPCs
  <2> HIDE DEF w, rec
  <2>6. Moves(c, w, rec)
    BY <1>1, <2>1, <2>2, <2>3, <2>4, <2>5, QuietMoves DEF Between
  <2>7. QED
    BY <2>6 DEF SomeMove
<1>4. CASE RelayRefuses(c) \/ LoseAcceptance(c)
  <2>1. PICK phase \in {"admission_failed", "rejected"} :
           /\ Save(c, Refused(v.rec, phase)) /\ Step(c, Idle)
           /\ \/ v.pc = "create" /\ faults' = faults
              \/ v.pc = "created" /\ faults' = faults + 1
           /\ UNCHANGED <<submitted, submitters, runs, reloads>>
    BY <1>4 DEF RelayRefuses, LoseAcceptance, At
  <2> DEFINE rec == Refused(v.rec, phase)
  <2>2. rec \in PendingOperations
    BY <1>1, RewriteTypes DEF Phases
  <2>3. Quiet(Idle, v, rec)
    BY <1>1, <2>2, QuietStates
  <2>4. Carries(rec, old)
    BY <1>1, <2>1, RewritesCarry DEF HoldingPCs, Phases
  <2> HIDE DEF rec
  <2>5. Save(c, rec)
    BY <2>1 DEF rec
  <2>6. v.pc \in {"create", "created"} /\ (v.pc = "created" => faults' # faults)
        /\ reloads' + faults' >= reloads + faults
    BY <1>1, <2>1
  <2>7. Moves(c, Idle, rec)
    BY <1>1, <2>1, <2>2, <2>3, <2>4, <2>5, <2>6, QuietMoves DEF Between
  <2>8. QED
    BY <2>7 DEF SomeMove
<1>5. CASE DirectLands(c)
  <2> DEFINE w == [v EXCEPT !.pc = "complete_read", !.tx = "wallet_tx"]
  <2>1. v.pc = "direct" /\ Step(c, w) /\ UNCHANGED <<store, submitted, submitters, runs, reloads, faults>>
    BY <1>5 DEF DirectLands, At
  <2>2. /\ w \in CallerStates /\ w.pc = "complete_read" /\ w.rec = v.rec /\ w.op = v.op
        /\ w.todo = v.todo /\ w.report = v.report
    BY <1>1 DEF CallerStates, PCs, Txs
  <2> HIDE DEF w
  <2>3. Carries(w.rec, old)
    BY <1>1, <2>1, <2>2 DEF HoldingPCs
  <2>4. Moves(c, w, old)
    BY <1>1, <2>1, <2>2, <2>3, CarriesItself, HeldMoves DEF Between, HoldingPCs
  <2>5. QED
    BY <2>4 DEF SomeMove
<1>6. QED
  BY <1>2, <1>3, <1>4, <1>5

\* The completion, but for the effects themselves.
LEMMA CompletionMoves ==
    ASSUME OneAtATime, SeqInv, NEW c \in Callers,
           CompleteRead(c) \/ Complete(c) \/ SaveEffect(c) \/ FinishCompletion(c)
    PROVE  SomeMove(c)
<1> USE DEF hostVars, budgetVars, envVars
<1> DEFINE v == callers[c]
           old == store[v.op]
<1>1. /\ v \in CallerStates /\ v.rec \in PendingOperations /\ old \in PendingOperations
      /\ v.tx \in Txs \cup {NoTx}
      /\ reloads \in Nat /\ faults \in Nat
      /\ v.pc \in HoldingPCs => Carries(v.rec, old)
  BY CallerHolds DEF CallerStates
<1>2. UNCHANGED <<submitted, submitters, runs, reloads, faults>>
  BY DEF CompleteRead, Complete, SaveEffect, FinishCompletion
<1>3. CASE CompleteRead(c)
  <2> DEFINE read == IF Exists(old) THEN old ELSE v.rec
             rec == WithSucceededPhase(read, v.tx)
             w == [v EXCEPT !.pc = "complete", !.rec = rec]
  <2>1. v.pc = "complete_read" /\ Step(c, w) /\ UNCHANGED store
    BY <1>3 DEF CompleteRead, At
  <2>2. read \in PendingOperations /\ Carries(read, old)
    BY <1>1, <2>1, CarriesItself DEF HoldingPCs
  <2> HIDE DEF read
  <2>3. rec \in PendingOperations /\ Carries(rec, old) /\ rec.phase # "rejected"
    BY <1>1, <2>2, RewriteTypes, RewritesCarry
  <2> HIDE DEF rec
  <2>4. /\ w \in CallerStates /\ w.pc = "complete" /\ w.rec = rec /\ w.op = v.op
        /\ w.todo = v.todo /\ w.report = v.report
    BY <1>1, <2>3 DEF CallerStates, PCs
  <2> HIDE DEF w
  <2>5. Moves(c, w, old)
    BY <1>1, <1>2, <2>1, <2>3, <2>4, CarriesItself, HeldMoves DEF Between
  <2>6. QED
    BY <2>5 DEF SomeMove
<1>4. CASE Complete(c)
  <2> DEFINE j == [v EXCEPT !.pc = "joined"]
             f == [v EXCEPT !.pc = "effects"]
             r == Returned(v, v.rec)
  <2>1. /\ v.pc = "complete"
        /\ \/ Save(c, v.rec) /\ Step(c, r)
           \/ UNCHANGED store /\ Step(c, j)
           \/ UNCHANGED store /\ Step(c, f)
    BY <1>4 DEF Complete, At, Goto
  <2>2. /\ j \in CallerStates /\ j.pc = "joined" /\ j.rec = v.rec /\ j.op = v.op
        /\ j.todo = v.todo /\ j.report = v.report
    BY <1>1, GoneFields DEF PCs
  <2>3. /\ f \in CallerStates /\ f.pc = "effects" /\ f.rec = v.rec /\ f.op = v.op
        /\ f.todo = v.todo /\ f.report = v.report
    BY <1>1, GoneFields DEF PCs
  <2>4. Quiet(r, v, v.rec)
    BY <1>1, QuietStates
  <2>5. /\ Carries(v.rec, old) /\ v.pc \in HoldingPCs /\ v.pc \notin Between
        /\ v.pc \notin {"effect_save", "created"}
    BY <1>1, <2>1 DEF HoldingPCs, Between
  <2> HIDE DEF j, f, r
  <2>6. Save(c, v.rec) /\ Step(c, r) => Moves(c, r, v.rec)
    BY <1>1, <1>2, <2>4, <2>5, QuietMoves
  <2>7. UNCHANGED store /\ Step(c, j) => Moves(c, j, old)
    BY <1>1, <1>2, <2>2, <2>5, CarriesItself, HeldMoves DEF Between
  <2>8. UNCHANGED store /\ Step(c, f) => Moves(c, f, old)
    BY <1>1, <1>2, <2>3, <2>5, CarriesItself, HeldMoves DEF Between
  <2>9. QED
    BY <2>1, <2>6, <2>7, <2>8 DEF SomeMove
<1>5. CASE SaveEffect(c)
  <2> DEFINE w == [v EXCEPT !.pc = "effects"]
  <2>1. v.pc = "effect_save" /\ Save(c, v.rec) /\ Step(c, w)
    BY <1>5 DEF SaveEffect, At, Goto
  <2>2. /\ w \in CallerStates /\ w.pc = "effects" /\ w.rec = v.rec /\ w.op = v.op
        /\ w.todo = v.todo /\ w.report = v.report
    BY <1>1, GoneFields DEF PCs
  <2> HIDE DEF w
  <2>3. Carries(v.rec, old) /\ v.pc \in HoldingPCs /\ v.pc \notin Between
    BY <1>1, <2>1 DEF HoldingPCs, Between
  <2>4. Moves(c, w, v.rec)
    BY <1>1, <1>2, <2>1, <2>2, <2>3, CarriesItself, HeldMoves DEF Between
  <2>5. QED
    BY <2>4 DEF SomeMove
<1>6. CASE FinishCompletion(c)
  <2> DEFINE r == Returned(v, v.rec)
  <2>1. v.pc = "effects" /\ Save(c, v.rec)
    BY <1>6 DEF FinishCompletion, At
  <2>2. Step(c, r)
    <3>1. callers \in [Callers -> CallerStates]
      BY DEF SeqInv, TypeOK
    <3>2. callers' = [d \in Callers |-> IF d = c \/ Joined(d, c)
                                          THEN Returned(callers[d], v.rec) ELSE callers[d]]
      BY <1>6 DEF FinishCompletion
    <3>3. \A d \in Callers : d = c
      BY DEF OneAtATime
    <3>4. QED
      BY <3>1, <3>2, <3>3 DEF Step
  <2>3. Quiet(r, v, v.rec)
    BY <1>1, QuietStates
  <2> HIDE DEF r
  <2>4. /\ Carries(v.rec, old) /\ v.pc \in HoldingPCs /\ v.pc \notin Between
        /\ v.pc \notin {"effect_save", "created"}
    BY <1>1, <2>1 DEF HoldingPCs, Between
  <2>5. Moves(c, r, v.rec)
    BY <1>1, <1>2, <2>1, <2>2, <2>3, <2>4, QuietMoves
  <2>6. QED
    BY <2>5 DEF SomeMove
<1>7. QED
  BY <1>3, <1>4, <1>5, <1>6

\* The poll and the settlement wait.
LEMMA PollMoves ==
    ASSUME SeqInv, NEW c \in Callers,
           PollRead(c) \/ PollStatus(c) \/ PollSave(c) \/ SaveTimedOut(c)
    PROVE  SomeMove(c)
<1> USE DEF hostVars, budgetVars, envVars
<1> DEFINE v == callers[c]
           old == store[v.op]
<1>1. /\ v \in CallerStates /\ v.rec \in PendingOperations /\ old \in PendingOperations
      /\ v.report \in Reports /\ reloads \in Nat /\ faults \in Nat
      /\ v.pc \in HoldingPCs => Carries(v.rec, old)
  BY CallerHolds DEF CallerStates
<1>2. UNCHANGED <<submitted, submitters, runs, reloads, faults>>
  BY DEF PollRead, PollStatus, PollSave, SaveTimedOut
<1>3. CASE PollRead(c)
  <2> DEFINE w == [v EXCEPT !.pc = "poll_status", !.rec = old]
             r == Returned(v, old)
  <2>1. /\ v.pc = "poll_read" /\ UNCHANGED store
        /\ Step(c, Idle) \/ Step(c, r) \/ Step(c, w)
    BY <1>3 DEF PollRead, At
  <2>2. Quiet(Idle, v, old) /\ Quiet(r, v, old)
    BY <1>1, QuietStates
  <2>3. /\ w \in CallerStates /\ w.pc = "poll_status" /\ w.rec = old /\ w.op = v.op
        /\ w.todo = v.todo /\ w.report = v.report
    BY <1>1 DEF CallerStates, PCs
  <2> HIDE DEF w, r
  <2>4. \A q \in {Idle, r} : Step(c, q) => Moves(c, q, old)
    BY <1>1, <1>2, <2>1, <2>2, CarriesItself, QuietMoves DEF Between
  <2>5. Step(c, w) => Moves(c, w, old)
    BY <1>1, <1>2, <2>1, <2>3, CarriesItself, HeldMoves DEF Between
  <2>6. QED
    BY <2>1, <2>4, <2>5 DEF SomeMove
<1>4. CASE PollStatus(c)
  <2> DEFINE w == [v EXCEPT !.pc = "poll_save", !.report = relay[v.op]]
  <2>1. v.pc = "poll_status" /\ Step(c, w) /\ UNCHANGED store
    BY <1>4 DEF PollStatus, At
  <2>2. relay[v.op] \in Reports
    BY CallerType DEF SeqInv
  <2>3. /\ w \in CallerStates /\ w.pc = "poll_save" /\ w.rec = v.rec /\ w.op = v.op
        /\ w.todo = v.todo /\ w.report = relay[v.op]
    BY <1>1, <2>2 DEF CallerStates, PCs
  <2> HIDE DEF w
  <2>4. v.pc \in HoldingPCs /\ Carries(w.rec, old)
    BY <1>1, <2>1, <2>3 DEF HoldingPCs
  <2>5. Moves(c, w, old)
    BY <1>1, <1>2, <2>1, <2>3, <2>4, CarriesItself, HeldMoves DEF Between
  <2>6. QED
    BY <2>5 DEF SomeMove
<1>5. CASE PollSave(c)
  <2> DEFINE rec == ApplyStatus(v.rec, v.report)
             w == [v EXCEPT !.pc = "complete_read", !.rec = rec,
                            !.tx = v.report.hash, !.report = NoReport]
             r == Returned(v, rec)
  <2>1. v.pc = "poll_save" /\ Save(c, rec) /\ (Step(c, w) \/ Step(c, r))
    BY <1>5 DEF PollSave, At
  <2>2. v.pc \in HoldingPCs /\ v.pc \notin Between /\ v.pc \notin {"effect_save", "created"}
    BY <2>1 DEF HoldingPCs, Between
  <2>3. /\ rec \in PendingOperations /\ Carries(rec, old)
        /\ rec.phase = "rejected" => "rejected" \in {v.report.status, v.rec.phase}
    BY <1>1, <2>2, ApplyStatusType, RewritesCarry
  <2> HIDE DEF rec
  <2>4. /\ w \in CallerStates /\ w.pc = "complete_read" /\ w.rec = rec /\ w.op = v.op
        /\ w.todo = v.todo /\ w.report.status # "rejected"
    <3>1. w \in CallerStates
      BY <1>1, <2>3, AppliedType
    <3>2. QED
      BY <1>1, <3>1 DEF CallerStates, NoReport, NoStatus
  <2>5. Quiet(r, v, rec)
    BY <1>1, <2>3, QuietStates
  <2> HIDE DEF w, r
  <2>6. Step(c, r) => Moves(c, r, rec)
    BY <1>1, <1>2, <2>1, <2>2, <2>3, <2>5, QuietMoves
  <2>7. Step(c, w) => Moves(c, w, rec)
    BY <1>1, <1>2, <2>1, <2>2, <2>3, <2>4, CarriesItself, HeldMoves DEF Between
  <2>8. QED
    BY <2>1, <2>6, <2>7 DEF SomeMove
<1>6. CASE SaveTimedOut(c)
  <2> DEFINE rec == TimedOut(v.rec)
  <2>1. v.pc = "timeout_save" /\ Save(c, rec) /\ Step(c, Idle)
    BY <1>6 DEF SaveTimedOut, At
  <2>2. v.pc \in HoldingPCs /\ v.pc \notin Between /\ v.pc \notin {"effect_save", "created"}
    BY <2>1 DEF HoldingPCs, Between
  <2>3. rec \in PendingOperations /\ Carries(rec, old) /\ rec.phase # "rejected"
    BY <1>1, <2>2, RewriteTypes, RewritesCarry
  <2>4. Quiet(Idle, v, rec)
    BY <1>1, <2>3, QuietStates
  <2> HIDE DEF rec
  <2>5. Moves(c, Idle, rec)
    BY <1>1, <1>2, <2>1, <2>2, <2>3, <2>4, QuietMoves
  <2>6. QED
    BY <2>5 DEF SomeMove
<1>7. QED
  BY <1>3, <1>4, <1>5, <1>6

\* The retry and the fallback.
LEMMA RetryAndFallbackMoves ==
    ASSUME SeqInv, NEW c \in Callers,
           \/ RetryRead(c) \/ RetryAttempt(c) \/ SaveRetried(c)
           \/ FallbackRead(c) \/ Fallback(c)
    PROVE  SomeMove(c)
<1> USE DEF hostVars, budgetVars, envVars
<1> DEFINE v == callers[c]
           old == store[v.op]
<1>1. /\ v \in CallerStates /\ v.rec \in PendingOperations /\ old \in PendingOperations
      /\ reloads \in Nat /\ faults \in Nat
      /\ v.pc \in HoldingPCs => Carries(v.rec, old)
  BY CallerHolds
<1>2. UNCHANGED <<submitted, submitters, runs, reloads, faults>>
  BY DEF RetryRead, RetryAttempt, SaveRetried, FallbackRead, Fallback
<1>3. v.pc \notin Between /\ v.pc \notin {"effect_save", "created"}
  BY DEF RetryRead, RetryAttempt, SaveRetried, FallbackRead, Fallback, At, Between
<1>4. Quiet(Idle, v, old)
  BY <1>1, QuietStates
<1>5. UNCHANGED store /\ Step(c, Idle) => Moves(c, Idle, old)
  BY <1>1, <1>2, <1>3, <1>4, CarriesItself, QuietMoves
<1>6. CASE RetryRead(c)
  <2> DEFINE w == [v EXCEPT !.pc = "retry_call", !.rec = old]
  <2>1. UNCHANGED store /\ (Step(c, w) \/ Step(c, Idle))
    BY <1>6 DEF RetryRead
  <2>2. /\ w \in CallerStates /\ w.pc = "retry_call" /\ w.rec = old /\ w.op = v.op
        /\ w.todo = v.todo /\ w.report = v.report
    BY <1>1 DEF CallerStates, PCs
  <2> HIDE DEF w
  <2>3. Step(c, w) => Moves(c, w, old)
    BY <1>1, <1>2, <1>3, <2>1, <2>2, CarriesItself, HeldMoves DEF Between
  <2>4. QED
    BY <1>5, <2>1, <2>3 DEF SomeMove
<1>7. CASE RetryAttempt(c)
  <2> DEFINE w == [v EXCEPT !.pc = "retry_save"]
  <2>1. v.pc = "retry_call" /\ UNCHANGED store /\ (Step(c, w) \/ Step(c, Idle))
    BY <1>7 DEF RetryAttempt, Goto, At
  <2>2. /\ w \in CallerStates /\ w.pc = "retry_save" /\ w.rec = v.rec /\ w.op = v.op
        /\ w.todo = v.todo /\ w.report = v.report
    BY <1>1, GoneFields DEF PCs
  <2> HIDE DEF w
  <2>3. v.pc \in HoldingPCs /\ Carries(w.rec, old)
    BY <1>1, <2>1, <2>2 DEF HoldingPCs
  <2>4. Step(c, w) => Moves(c, w, old)
    BY <1>1, <1>2, <1>3, <2>1, <2>2, <2>3, CarriesItself, HeldMoves DEF Between
  <2>5. QED
    BY <1>5, <2>1, <2>4 DEF SomeMove
<1>8. CASE SaveRetried(c)
  <2> DEFINE rec == RetriedAtRelay(v.rec)
             w == Polling(v, 0)
  <2>1. v.pc = "retry_save" /\ Save(c, rec) /\ Step(c, w)
    BY <1>8 DEF SaveRetried, At
  <2>2. rec \in PendingOperations /\ Carries(rec, old) /\ rec.phase # "rejected"
    BY <1>1, <2>1, RewriteTypes, RewritesCarry DEF HoldingPCs
  <2>3. Quiet(w, v, rec)
    BY <1>1, <2>2, QuietStates
  <2> HIDE DEF rec, w
  <2>4. Moves(c, w, rec)
    BY <1>1, <1>2, <1>3, <2>1, <2>2, <2>3, QuietMoves
  <2>5. QED
    BY <2>4 DEF SomeMove
<1>9. CASE FallbackRead(c)
  <2> DEFINE w == [v EXCEPT !.pc = "fallback", !.rec = old]
  <2>1. v.pc = "fallback_read" /\ UNCHANGED store /\ (Step(c, w) \/ Step(c, Idle))
    BY <1>9 DEF FallbackRead, At
  <2>2. /\ w \in CallerStates /\ w.pc = "fallback" /\ w.rec = old /\ w.op = v.op
        /\ w.todo = v.todo /\ w.report = v.report
    BY <1>1 DEF CallerStates, PCs
  <2>3. store' = [store EXCEPT ![v.op] = old]
    BY <2>1, CallerHolds
  <2>4. w.op \in submitted /\ w.todo \subseteq submitted
    BY <1>3, <2>2, CallerHolds
  <2> HIDE DEF w
  <2>5. /\ w.pc \notin Between /\ reloads' + faults' >= reloads + faults
        /\ w.pc \notin {"create", "effect_save", "created", "direct"}
    BY <1>1, <1>2, <2>2 DEF Between
  <2>6. Step(c, w) => Moves(c, w, old)
    BY <1>1, <1>2, <1>3, <2>2, <2>3, <2>4, <2>5, CarriesItself DEF Moves, Step
  <2>7. QED
    BY <1>5, <2>1, <2>6 DEF SomeMove
<1>10. CASE Fallback(c)
  <2> DEFINE w == [v EXCEPT !.pc = "direct"]
  <2>1. v.pc = "fallback" /\ UNCHANGED store /\ (Step(c, w) \/ Step(c, Idle))
    BY <1>10 DEF Fallback, Goto, At
  <2>2. /\ w \in CallerStates /\ w.pc = "direct" /\ w.rec = v.rec /\ w.op = v.op
        /\ w.todo = v.todo /\ w.report = v.report
    BY <1>1, GoneFields DEF PCs
  <2>3. store' = [store EXCEPT ![v.op] = old]
    BY <2>1, CallerHolds
  <2>4. w.op \in submitted /\ w.todo \subseteq submitted
    BY <1>3, <2>2, CallerHolds
  <2> HIDE DEF w
  <2>5. /\ w.pc \notin Between /\ reloads' + faults' >= reloads + faults
        /\ w.pc \notin {"create", "effect_save", "created", "fallback"}
        /\ v.pc \in HoldingPCs /\ Carries(w.rec, old)
    BY <1>1, <1>2, <2>1, <2>2 DEF Between, HoldingPCs
  <2>6. Step(c, w) => Moves(c, w, old)
    BY <1>1, <1>2, <1>3, <2>1, <2>2, <2>3, <2>4, <2>5, CarriesItself DEF Moves, Step
  <2>7. QED
    BY <1>5, <2>1, <2>6 DEF SomeMove
<1>11. QED
  BY <1>6, <1>7, <1>8, <1>9, <1>10

\* A call that throws alone is over.
LEMMA ThrowsAlone ==
    ASSUME OneAtATime, SeqInv, NEW c \in Callers, Throw(c)
    PROVE  Step(c, Idle)
<1>1. callers \in [Callers -> CallerStates]
  BY DEF SeqInv, TypeOK
<1>2. \A d \in Callers : d = c
  BY DEF OneAtATime
<1>3. QED
  BY <1>1, <1>2 DEF Throw, Step

\* The calls the host makes, the resume loop and a failing port.
LEMMA HostMoves ==
    ASSUME OneAtATime, SeqInv, NEW c \in Callers,
           \/ StartResume(c) \/ ResumeNext(c)
           \/ \E op \in Ops : StartCall(c, op)
           \/ DirectRefused(c) \/ PortFails(c)
    PROVE  SomeMove(c)
<1> USE DEF hostVars, budgetVars, envVars
<1> DEFINE v == callers[c]
           old == store[v.op]
<1>1. /\ v \in CallerStates /\ old \in PendingOperations
      /\ reloads \in Nat /\ faults \in Nat /\ v.todo \subseteq submitted
  BY CallerHolds
<1>2. UNCHANGED <<store, submitted, submitters, runs>> /\ reloads' + faults' >= reloads + faults
  <2>1. UNCHANGED <<store, submitted, submitters, runs, reloads>>
    BY DEF StartResume, ResumeNext, StartCall, DirectRefused, PortFails
  <2>2. faults' = faults \/ faults' = faults + 1
    BY DEF StartResume, ResumeNext, StartCall, DirectRefused, PortFails
  <2>3. QED
    BY <1>1, <2>1, <2>2
<1>3. store' = [store EXCEPT ![v.op] = old]
  BY <1>2, CallerHolds
\* A call that starts holds nothing yet.
<1>4. ASSUME NEW w \in CallerStates, v.pc \in Between, Step(c, w),
             w.pc \in {"idle", "resume_next", "poll_read", "retry_read", "fallback_read"},
             w.pc \notin Between => w.op \in submitted, w.todo \subseteq submitted,
             w.report.status # "rejected"
      PROVE  SomeMove(c)
  <2>1. w.pc \notin HoldingPCs /\ v.pc \notin {"effect_save", "created"}
        /\ w.pc \notin {"create", "effect_save", "created", "direct", "fallback"}
    BY <1>4 DEF HoldingPCs, Between
  <2>2. Moves(c, w, old)
    BY <1>1, <1>2, <1>3, <1>4, <2>1, CarriesItself DEF Moves, Step
  <2>3. QED
    BY <2>2 DEF SomeMove
<1>5. Idle.todo = {} /\ Idle.report.status # "rejected" /\ Idle.pc = "idle"
  BY DEF Idle, NoReport, NoStatus
<1>6. CASE StartResume(c)
  <2> DEFINE w == [Idle EXCEPT !.pc = "resume_next", !.flow = "resume", !.todo = Unfinalized]
  <2>1. v.pc \in Between /\ Step(c, w)
    BY <1>6 DEF StartResume, At, Between
  <2>2. /\ w \in CallerStates /\ w.pc = "resume_next" /\ w.todo = Unfinalized
        /\ w.report = Idle.report
    BY IdleType DEF CallerStates, PCs, Unfinalized
  <2>3. Unfinalized \subseteq submitted
    <3>1. Absent.requested = FALSE
      BY DEF Absent, Prepared
    <3>2. QED
      BY <3>1 DEF Unfinalized, IsUnfinalizedRelayOperation, SeqInv
  <2> HIDE DEF w
  <2>4. QED
    BY <1>4, <1>5, <2>1, <2>2, <2>3 DEF Between
<1>7. CASE ResumeNext(c)
  <2>1. /\ v.pc \in Between
        /\ \/ Step(c, Idle)
           \/ \E op \in v.todo : Step(c, Polling([v EXCEPT !.op = op, !.todo = @ \ {op}], 0))
    BY <1>7 DEF ResumeNext, At, Between
  <2>2. CASE Step(c, Idle)
    BY <1>4, <1>5, <2>1, <2>2, IdleType DEF Between
  <2>3. ASSUME NEW op \in v.todo, Step(c, Polling([v EXCEPT !.op = op, !.todo = @ \ {op}], 0))
        PROVE  SomeMove(c)
    <3> DEFINE u == [v EXCEPT !.op = op, !.todo = @ \ {op}]
               w == Polling(u, 0)
    <3>1. u \in CallerStates /\ u.op = op /\ u.todo = v.todo \ {op}
      BY <1>1, <2>3 DEF CallerStates
    <3> HIDE DEF u
    <3>2. w \in CallerStates
      BY <3>1, PollingType
    <3>3. w.pc = "poll_read" /\ w.op = op /\ w.todo = v.todo \ {op} /\ w.report = Idle.report
      BY <3>1, IdleType DEF Polling, CallerStates
    <3>4. Step(c, w)
      BY <2>3 DEF u
    <3> HIDE DEF w
    <3>5. QED
      BY <1>1, <1>4, <1>5, <2>1, <2>3, <3>2, <3>3, <3>4 DEF Between
  <2>4. QED
    BY <2>1, <2>2, <2>3
<1>8. ASSUME NEW op \in Ops, StartCall(c, op) PROVE SomeMove(c)
  <2>1. PICK pc \in {"poll_read", "retry_read", "fallback_read"}, flow \in {"once", "await"} :
           /\ v.pc \in Between /\ op \in submitted
           /\ Step(c, [Idle EXCEPT !.pc = pc, !.flow = flow, !.op = op])
    BY <1>8 DEF StartCall, At, Between
  <2> DEFINE w == [Idle EXCEPT !.pc = pc, !.flow = flow, !.op = op]
  <2>2. /\ w \in CallerStates /\ w.pc = pc /\ w.op = op /\ w.todo = {} /\ w.report = Idle.report
    BY <1>5, IdleType DEF CallerStates, PCs
  <2>3. Step(c, w)
    BY <2>1
  <2> HIDE DEF w
  <2>4. QED
    BY <1>4, <1>5, <2>1, <2>2, <2>3 DEF Between
<1>9. CASE DirectRefused(c) \/ PortFails(c)
  <2>1. /\ v.pc \notin Between /\ Step(c, Idle)
        /\ v.pc = "effect_save" => reloads' + faults' > reloads + faults
        /\ v.pc = "created" => faults' # faults
    BY <1>1, <1>9, ThrowsAlone DEF DirectRefused, PortFails, At, Between
  <2>2. Quiet(Idle, v, old)
    BY <1>1, QuietStates, CallerHolds
  <2>3. Moves(c, Idle, old)
    BY <1>1, <1>2, <2>1, <2>2, CarriesItself, QuietMoves
  <2>4. QED
    BY <2>3 DEF SomeMove
<1>10. QED
  BY <1>6, <1>7, <1>8, <1>9

\* What a move leaves of the invariant.
LEMMA MovesKeep ==
    ASSUME OneAtATime, SeqInv, TypeOK', NEW c \in Callers, NEW w, NEW rec, Moves(c, w, rec)
    PROVE  SeqInv' /\ \A op \in Ops : store[op].done \subseteq store'[op].done
<1> DEFINE v == callers[c]
           old == store[v.op]
<1>1. /\ v.op \in Ops /\ reloads \in Nat /\ faults \in Nat
      /\ v.pc \notin Between => v.op \in submitted
  BY CallerHolds
<1>2. reloads' \in Nat /\ faults' \in Nat /\ \A op \in Ops, e \in Effects : runs[op][e] \in Nat
  BY DEF SeqInv, TypeOK
<1>3. /\ submitted' = submitted /\ runs' = runs /\ reloads' + faults' >= reloads + faults
      /\ v.pc \in Between => rec = old
      /\ Carries(rec, old)
      /\ v.pc = "effect_save" => rec.done = v.rec.done \/ reloads' + faults' > reloads + faults
  BY DEF Moves
<1>4. \A op \in Ops : store'[op] = IF op = v.op THEN rec ELSE store[op]
  BY <1>1 DEF Moves, SeqInv, TypeOK
<1>5. callers'[c] = w /\ \A d \in Callers : d = c
  BY DEF Moves, OneAtATime, SeqInv, TypeOK
<1>6. \A op \in Ops : store[op].done \subseteq store'[op].done
  BY <1>3, <1>4 DEF Carries
<1>7. \A op \in Ops \ submitted' : store'[op] = Absent
  BY <1>1, <1>3, <1>4 DEF SeqInv
<1>8. \A d \in Callers : Holding(callers[d])'
  <2>1. /\ w.pc \notin Between => w.op \in submitted
        /\ w.todo \subseteq submitted
        /\ w.pc \in HoldingPCs => Carries(w.rec, store'[w.op])
    BY <1>1, <1>4 DEF Moves
  <2>2. QED
    BY <1>3, <1>5, <2>1 DEF Holding
<1>9. RunsCounted'
  <2> SUFFICES ASSUME NEW op \in Ops, NEW e \in Effects
               PROVE  /\ runs[op][e] <= 1 + reloads' + faults'
                      /\ runs[op][e] <= reloads' + faults' \/ e \in store'[op].done
    BY <1>3 DEF RunsCounted
  <2>1. /\ runs[op][e] <= 1 + reloads + faults
        /\ runs[op][e] <= reloads + faults \/ e \in store[op].done \/ Unsaved(op, e)
    BY DEF SeqInv, RunsCounted
  <2>2. Unsaved(op, e) => \/ e \in store'[op].done
                          \/ reloads' + faults' > reloads + faults
    <3>1. Unsaved(op, e) => v.pc = "effect_save" /\ v.op = op /\ e \in v.rec.done
      BY <1>5 DEF Unsaved, At
    <3>2. QED
      BY <1>3, <1>4, <3>1
  <2> DEFINE R == reloads + faults
             S == reloads' + faults'
  <2>3. R \in Nat /\ S \in Nat /\ S >= R /\ runs[op][e] \in Nat
    <3>1. R \in Nat /\ S \in Nat
      <4>1. reloads \in Nat /\ faults \in Nat
        BY <1>1
      <4>2. reloads' \in Nat /\ faults' \in Nat
        BY <1>2
      <4>3. \A m, n \in Nat : m + n \in Nat
        OBVIOUS
      <4>4. QED
        BY <4>1, <4>2, <4>3
    <3>2. S >= R
      BY <1>3
    <3>3. runs[op][e] \in Nat
      BY <1>2
    <3>4. QED
      BY <3>1, <3>2, <3>3
  <2>4. runs[op][e] <= 1 + R /\ (runs[op][e] <= R \/ e \in store'[op].done \/ S > R)
    <3>1. runs[op][e] <= 1 + R
      BY <1>1, <2>1, <2>3
    <3>2. QED
      BY <1>6, <2>1, <2>2, <3>1
  <2>5. (1 + R) = 1 + reloads + faults /\ (1 + S) = 1 + reloads' + faults'
    BY <1>1, <1>2
  <2> HIDE DEF R, S
  <2>6. runs[op][e] <= 1 + S /\ (runs[op][e] <= S \/ e \in store'[op].done)
    BY <2>3, <2>4
  <2>7. QED
    BY <2>5, <2>6 DEF S
<1>10. QED
  BY <1>6, <1>7, <1>8, <1>9 DEF SeqInv

\* What an invariant of the sequential host asks of a step.
SeqKept == SeqInv' /\ \A op \in Ops : store[op].done \subseteq store'[op].done

\* Nothing is known of an operation that was never submitted.
LEMMA SeqInit == Init => SeqInv
<1> SUFFICES ASSUME Init PROVE SeqInv
  OBVIOUS
<1>1. TypeOK
  BY TypeInit
<1>2. \A op \in Ops : store[op] = Absent
  BY DEF Init
<1>3. \A c \in Callers : Holding(callers[c])
  <2>1. Idle.todo = {} /\ Idle.pc = "idle"
    BY DEF Idle
  <2>2. \A c \in Callers : callers[c] = Idle
    BY DEF Init
  <2>3. QED
    BY <2>1, <2>2 DEF Holding, HoldingPCs, Between
<1>4. RunsCounted
  <2>1. \A op \in Ops, e \in Effects : runs[op][e] = 0
    BY DEF Init
  <2>2. reloads = 0 /\ faults = 0
    BY DEF Init
  <2>3. 0 <= 1 + reloads + faults /\ 0 <= reloads + faults
    BY <2>2
  <2>4. QED
    BY <2>1, <2>3 DEF RunsCounted
<1>5. QED
  BY <1>1, <1>2, <1>3, <1>4 DEF SeqInv

\* A submission is of an operation the store does not hold yet.
LEMMA SubmitSeq ==
    ASSUME OneAtATime, SeqInv, TypeOK', NEW c \in Callers, Submit(c)
    PROVE  SeqKept
<1> USE DEF hostVars, budgetVars, envVars
<1>1. PICK op \in Ops : \/ RefuseEscrow(c, op)
                        \/ SubmitDirectPath(c, op)
                        \/ SubmitRelayPath(c, op)
  BY DEF Submit
<1>2. /\ At(c, "idle") /\ op \notin submitted /\ submitted' = submitted \cup {op}
      /\ UNCHANGED <<runs, reloads, faults>>
  BY <1>1 DEF RefuseEscrow, SubmitDirectPath, SubmitRelayPath, NewSubmission
<1>3. store[op] = Absent /\ callers[c].todo \subseteq submitted
  BY <1>2, CallerHolds DEF SeqInv
<1>4. \A p \in Ops \ {op} : store'[p] = store[p]
  BY <1>1 DEF RefuseEscrow, SubmitDirectPath, SubmitRelayPath, SeqInv, TypeOK
<1>5. \A d \in Callers : d = c
  BY DEF OneAtATime
<1>6. Absent.done = {} /\ Absent.requested = FALSE /\ Prepared.done = {} /\ Prepared.requested = FALSE
  BY DEF Absent, Prepared
<1>7. \A p \in Ops : store[p].done \subseteq store'[p].done
  BY <1>3, <1>4, <1>6
<1>8. \A p \in Ops \ submitted' : store'[p] = Absent
  BY <1>2, <1>4 DEF SeqInv
<1>9. Holding(callers[c])'
  <2>1. CASE RefuseEscrow(c, op)
    BY <1>2, <1>3, <2>1 DEF RefuseEscrow, At, Holding, HoldingPCs, Between
  <2>2. CASE SubmitDirectPath(c, op) \/ SubmitRelayPath(c, op)
    <3>1. PICK pc \in {"direct", "create"}, flow \in {"once", "await"} :
             /\ store'[op] \in {Absent, Prepared}
             /\ Step(c, [Idle EXCEPT !.pc = pc, !.flow = flow, !.op = op, !.rec = Prepared])
      <4>1. CASE SubmitDirectPath(c, op)
        <5>1. Idle.flow = "once" /\ Idle \in CallerStates
          BY IdleType DEF Idle
        <5>2. [Idle EXCEPT !.pc = "direct", !.op = op, !.rec = Prepared]
                = [Idle EXCEPT !.pc = "direct", !.flow = "once", !.op = op, !.rec = Prepared]
          BY <5>1 DEF CallerStates
        <5>3. QED
          BY <1>3, <4>1, <5>2 DEF SubmitDirectPath
      <4>2. CASE SubmitRelayPath(c, op)
        BY <4>2 DEF SubmitRelayPath, SeqInv, TypeOK
      <4>3. QED
        BY <2>2, <4>1, <4>2
    <3> DEFINE w == [Idle EXCEPT !.pc = pc, !.flow = flow, !.op = op, !.rec = Prepared]
    <3>2. w.pc \in {"direct", "create"} /\ w.op = op /\ w.rec = Prepared /\ w.todo = {}
      <4>1. Idle.todo = {}
        BY DEF Idle
      <4>2. QED
        BY <4>1, IdleType DEF CallerStates
    <3>3. callers'[c] = w
      BY <3>1 DEF Step, SeqInv, TypeOK
    <3> HIDE DEF w
    <3>4. Carries(w.rec, store'[w.op])
      BY <1>6, <3>1, <3>2 DEF Carries
    <3>5. QED
      BY <1>2, <3>2, <3>3, <3>4 DEF Holding
  <2>3. QED
    BY <1>1, <2>1, <2>2
<1>10. RunsCounted'
  <2>1. \A p \in Ops, e \in Effects : ~Unsaved(p, e)
    BY <1>2, <1>5 DEF Unsaved, At
  <2>2. QED
    BY <1>2, <1>7, <2>1 DEF SeqInv, RunsCounted
<1>11. QED
  BY <1>5, <1>7, <1>8, <1>9, <1>10 DEF SeqKept, SeqInv

\* An effect runs only when its flag is neither saved nor about to be.
LEMMA RunEffectSeq ==
    ASSUME OneAtATime, SeqInv, TypeOK', NEW c \in Callers, RunEffect(c)
    PROVE  SeqKept
<1> USE DEF hostVars, budgetVars, envVars
<1> DEFINE v == callers[c]
           old == store[v.op]
           R == reloads + faults
<1>1. PICK e \in Effects :
         /\ v.pc = "effects" /\ e \notin v.rec.done
         /\ runs' = [runs EXCEPT ![v.op][e] = IF @ < EffectCap THEN @ + 1 ELSE @]
         /\ Step(c, [v EXCEPT !.pc = "effect_save", !.rec.done = @ \cup {e}])
  BY DEF RunEffect, At
<1>2. UNCHANGED <<store, submitted, reloads, faults>>
  BY DEF RunEffect
<1>3. /\ v \in CallerStates /\ v.rec \in PendingOperations /\ v.op \in Ops
      /\ v.op \in submitted /\ v.todo \subseteq submitted /\ Carries(v.rec, old)
      /\ reloads \in Nat /\ faults \in Nat
  BY <1>1, CallerHolds DEF HoldingPCs, Between
<1> DEFINE w == [v EXCEPT !.pc = "effect_save", !.rec.done = @ \cup {e}]
<1>4. /\ w.pc = "effect_save" /\ w.op = v.op /\ w.todo = v.todo
      /\ w.rec.done = v.rec.done \cup {e} /\ w.rec.requested = v.rec.requested
  BY <1>3 DEF CallerStates, PendingOperations
<1>5. callers'[c] = w /\ \A d \in Callers : d = c
  BY <1>1 DEF Step, SeqInv, TypeOK, OneAtATime
<1> HIDE DEF w
<1>6. \A d \in Callers : Holding(callers[d])'
  <2>1. Carries(w.rec, old)
    BY <1>3, <1>4 DEF Carries
  <2>2. QED
    BY <1>2, <1>3, <1>4, <1>5, <2>1 DEF Holding
<1>7. RunsCounted'
  <2> SUFFICES ASSUME NEW p \in Ops, NEW f \in Effects
               PROVE  /\ runs'[p][f] <= 1 + R
                      /\ runs'[p][f] <= R \/ f \in store'[p].done \/ Unsaved(p, f)'
    BY <1>2, <1>3 DEF RunsCounted
  <2>1. runs[p][f] <= 1 + R /\ (runs[p][f] <= R \/ f \in store[p].done)
    <3>1. ~Unsaved(p, f)
      BY <1>1, <1>5 DEF Unsaved, At
    <3>2. QED
      BY <3>1, <1>3 DEF SeqInv, RunsCounted
  <2>2. R \in Nat /\ runs[p][f] \in Nat
    <3>1. \A m, n \in Nat : m + n \in Nat
      OBVIOUS
    <3>2. QED
      BY <1>3, <3>1 DEF SeqInv, TypeOK
  <2>3. CASE p = v.op /\ f = e
    <3>1. f \notin store[p].done
      BY <1>1, <1>3, <2>3 DEF Carries
    <3>2. runs'[p][f] \in {runs[p][f], runs[p][f] + 1}
      BY <1>1, <2>3 DEF SeqInv, TypeOK
    <3>3. Unsaved(p, f)'
      BY <1>4, <1>5, <2>3 DEF Unsaved, At
    <3> HIDE DEF R
    <3>4. QED
      BY <2>1, <2>2, <3>1, <3>2, <3>3
  <2>4. CASE ~(p = v.op /\ f = e)
    <3>1. runs'[p][f] = runs[p][f]
      BY <1>1, <1>3, <2>4 DEF SeqInv, TypeOK
    <3>2. QED
      BY <1>2, <2>1, <3>1
  <2>5. QED
    BY <2>3, <2>4
<1>8. QED
  BY <1>2, <1>6, <1>7 DEF SeqKept, SeqInv

\* A reload forgets the calls and may cost one repetition of each effect.
LEMMA ReloadSeq ==
    ASSUME SeqInv, TypeOK', Reload
    PROVE  SeqKept
<1>1. /\ UNCHANGED <<store, submitted, runs, faults>> /\ reloads' = reloads + 1
      /\ \A c \in Callers : callers'[c] = Idle
  BY DEF Reload, envVars
<1>2. Idle.todo = {} /\ Idle.pc = "idle"
  BY DEF Idle
<1>3. \A c \in Callers : Holding(callers[c])'
  BY <1>1, <1>2 DEF Holding, HoldingPCs, Between
<1>4. RunsCounted'
  <2>1. reloads \in Nat /\ faults \in Nat /\ \A op \in Ops, e \in Effects : runs[op][e] \in Nat
    BY DEF SeqInv, TypeOK
  <2>2. reloads' + faults' = 1 + reloads + faults
    BY <1>1, <2>1
  <2>3. \A op \in Ops, e \in Effects : runs[op][e] <= reloads' + faults'
    BY <2>2 DEF SeqInv, RunsCounted
  <2>4. \A m, n \in Nat, k \in Nat : k <= m + n => k <= 1 + m + n
    OBVIOUS
  <2>5. reloads' \in Nat /\ faults' \in Nat
    BY DEF TypeOK
  <2>6. QED
    BY <1>1, <2>1, <2>3, <2>4, <2>5 DEF RunsCounted
<1>5. QED
  BY <1>1, <1>3, <1>4 DEF SeqKept, SeqInv

LEMMA SeqStep == OneAtATime /\ SeqInv /\ [Next]_vars => SeqKept
<1> SUFFICES ASSUME OneAtATime, SeqInv, [Next]_vars PROVE SeqKept
  OBVIOUS
<1>1. TypeOK'
  BY TypeStep DEF SeqInv
<1>2. ASSUME NEW c \in Callers, SomeMove(c) PROVE SeqKept
  BY <1>1, <1>2, MovesKeep DEF SomeMove, SeqKept
<1>3. ASSUME NEW c \in Callers, Submit(c) PROVE SeqKept
  BY <1>1, <1>3, SubmitSeq
<1>4. ASSUME NEW c \in Callers,
             StartResume(c) \/ PortFails(c) \/ \E op \in Ops : StartCall(c, op)
      PROVE  SeqKept
  <2>1. SomeMove(c)
    BY <1>4, HostMoves
  <2>2. QED
    BY <1>2, <2>1
<1>5. ASSUME NEW c \in Callers, LoseAcceptance(c) PROVE SeqKept
  <2>1. SomeMove(c)
    BY <1>5, RequestMoves
  <2>2. QED
    BY <1>2, <2>1
<1>6. ASSUME NEW c \in Callers, Continue(c) PROVE SeqKept
  <2>1. CASE RunEffect(c)
    BY <1>1, <2>1, RunEffectSeq
  <2>2. CASE ~RunEffect(c)
    <3>1. \/ CreateRequest(c) \/ SaveAccepted(c) \/ RelayRefuses(c) \/ DirectLands(c)
          \/ CompleteRead(c) \/ Complete(c) \/ SaveEffect(c) \/ FinishCompletion(c)
          \/ PollRead(c) \/ PollStatus(c) \/ PollSave(c) \/ SaveTimedOut(c)
          \/ RetryRead(c) \/ RetryAttempt(c) \/ SaveRetried(c) \/ FallbackRead(c) \/ Fallback(c)
          \/ ResumeNext(c) \/ DirectRefused(c)
      BY <1>6, <2>2 DEF Continue
    <3>2. SomeMove(c)
      BY <3>1, RequestMoves, CompletionMoves, PollMoves, RetryAndFallbackMoves, HostMoves
    <3>3. QED
      BY <1>2, <3>2
  <2>3. QED
    BY <2>1, <2>2
<1>7. CASE Reload
  BY <1>1, <1>7, ReloadSeq
<1>8. CASE (\E op \in Ops : RelayerNext(op)) \/ UNCHANGED vars
  <2>1. UNCHANGED <<store, callers, submitted, runs, reloads, faults>>
    BY <1>8 DEF RelayerNext, vars, hostVars, budgetVars
  <2>2. \A c \in Callers : Holding(callers[c])'
    BY <2>1 DEF SeqInv, Holding
  <2>3. RunsCounted'
    BY <2>1 DEF SeqInv, RunsCounted, Unsaved, At
  <2>4. QED
    BY <1>1, <2>1, <2>2, <2>3 DEF SeqKept, SeqInv
<1>9. CASE Next
  BY <1>3, <1>4, <1>5, <1>6, <1>7, <1>8, <1>9 DEF Next
<1>10. QED
  BY <1>8, <1>9

\* When the host makes one call at a time, a side effect of a success is
\* repeated only as often as a reload or a failing port call came between it
\* and the saving of its flag (finalize-success.ts saves after each effect).
THEOREM EffectsRepeatOnlyAfterLosses ==
    ASSUME OneAtATime
    PROVE  Spec => []EffectsRepeatOnlyAfterLoss
<1>1. SeqInv => EffectsRepeatOnlyAfterLoss
  BY DEF SeqInv, RunsCounted, EffectsRepeatOnlyAfterLoss
<1>2. SeqInv /\ [Next]_vars => SeqInv'
  BY SeqStep DEF SeqKept
<1>3. QED
  BY <1>1, <1>2, SeqInit, PTL DEF Spec

\* ... and the store never forgets a completed step of an operation: no save
\* goes back behind the record it overwrites.
THEOREM FlagsAreNeverReverted ==
    ASSUME OneAtATime
    PROVE  Spec => FlagsNeverRevert
<1>1. SeqInv /\ [Next]_vars => SeqInv'
  BY SeqStep DEF SeqKept
<1>2. SeqInv /\ [Next]_vars => [\A op \in Ops : store[op].done \subseteq store'[op].done]_vars
  BY SeqStep DEF SeqKept
<1>3. QED
  BY <1>1, <1>2, SeqInit, PTL DEF Spec, FlagsNeverRevert

---------------------------------------------------------------------------
\* When moreover no answer of the relayer is lost.

\* No port call fails while the answer to a request the relayer admitted is
\* under way or being saved.
AcceptanceKept == \A c \in Callers : At(c, "created") => faults' = faults

\* A record that is rejected is of an operation the wallet was not asked for
\* and the relayer does not have, or has rejected.
Rejects(rec, op) == rec.phase = "rejected" =>
    op \notin walletAsked /\ relay[op].status \in {NoStatus, "rejected"}

\* What landed was carried by the relayer, or the wallet was asked for it.
Landed == \A op \in Ops :
    /\ ledger[op] = "relay_tx" => relay[op].status \in OnChain \cup {"succeeded"}
    /\ ledger[op] = "wallet_tx" => op \in walletAsked

\* As long as the host could submit it once more, the store knows of every
\* request the relayer has, or is about to.
Admitted == \A op \in submitters : relay[op].status # NoStatus =>
    store[op].requested \/ \E c \in Callers : At(c, "created") /\ callers[c].op = op

Told(w) ==
    /\ w.pc = "create" => /\ relay[w.op].status = NoStatus /\ w.op \notin walletAsked
                          /\ "rejected" \notin {w.rec.phase, store[w.op].phase}
    /\ w.pc = "direct" => w.op \in walletAsked
    /\ w.pc = "fallback" => w.rec = store[w.op]
    /\ w.pc \in HoldingPCs => Rejects(w.rec, w.op)
    /\ w.report.status = "rejected" => relay[w.op].status = "rejected"

LossInv ==
    /\ \A op \in Ops \ submitted : relay[op].status = NoStatus
    /\ DirectExcludesRelay
    /\ Landed
    /\ Admitted
    /\ \A op \in Ops : Rejects(store[op], op)
    /\ \A c \in Callers : Told(callers[c])

LEMMA IdleTold == Told(Idle) /\ Told(Idle)'
<1>1. Idle.pc = "idle" /\ Idle.report.status # "rejected"
  BY DEF Idle, NoReport, NoStatus
<1>2. QED
  BY <1>1 DEF Told, HoldingPCs

LEMMA LossInit == Init => LossInv
<1> SUFFICES ASSUME Init PROVE LossInv
  OBVIOUS
<1>1. \A op \in Ops : relay[op].status = NoStatus /\ ledger[op] = NoTx /\ store[op] = Absent
  BY DEF Init, RelayerInit, NoReport
<1>2. walletAsked = {} /\ submitters = {} /\ \A c \in Callers : callers[c] = Idle
  BY DEF Init
<1>3. Absent.phase # "rejected"
  BY DEF Absent, Prepared, NoPhase
<1>4. NoTx \notin {"relay_tx", "wallet_tx"}
  BY DEF NoTx
<1>5. Landed
  BY <1>1, <1>4 DEF Landed
<1>6. \A op \in Ops : Rejects(store[op], op)
  BY <1>1, <1>3 DEF Rejects
<1>7. \A c \in Callers : Told(callers[c])
  BY <1>2, IdleTold
<1>8. QED
  BY <1>1, <1>2, <1>5, <1>6, <1>7 DEF LossInv, DirectExcludesRelay, Admitted

\* What LossInv says of one call.
LEMMA CallerTold ==
    ASSUME SeqInv, LossInv, NEW c \in Callers
    PROVE  /\ Told(callers[c]) /\ Rejects(store[callers[c].op], callers[c].op)
           /\ callers[c].op \in walletAsked => relay[callers[c].op].status = NoStatus
           /\ relay \in [Ops -> Reports] /\ ledger \in [Ops -> Txs \cup {NoTx}]
           /\ walletAsked \subseteq submitted /\ submitted \subseteq Ops /\ submitters \subseteq submitted
<1>1. /\ relay \in [Ops -> Reports] /\ ledger \in [Ops -> Txs \cup {NoTx}]
      /\ walletAsked \subseteq submitted /\ submitted \subseteq Ops /\ submitters \subseteq submitted
  BY DEF SeqInv, TypeOK
<1>2. callers[c].op \in Ops
  BY CallerHolds
<1>3. Told(callers[c]) /\ Rejects(store[callers[c].op], callers[c].op)
  BY <1>2 DEF LossInv
<1>4. callers[c].op \in walletAsked => relay[callers[c].op].status = NoStatus
  BY DEF LossInv, DirectExcludesRelay
<1>5. QED
  BY <1>1, <1>3, <1>4

\* A move stores, and goes on with, a rejected record only when the relayer
\* rejected the operation or never had it.
LEMMA MoveRejects ==
    ASSUME SeqInv, LossInv, AcceptanceKept, NEW c \in Callers, NEW w, NEW rec, Moves(c, w, rec)
    PROVE  /\ Rejects(rec, callers[c].op)
           /\ w.pc \in HoldingPCs => Rejects(w.rec, callers[c].op)
           /\ w.report.status = "rejected" => relay[callers[c].op].status = "rejected"
<1> DEFINE v == callers[c]
           old == store[v.op]
<1>1. /\ Told(v) /\ Rejects(old, v.op) /\ NoStatus # "rejected"
      /\ v.op \in walletAsked => relay[v.op].status = NoStatus
  BY CallerTold DEF NoStatus
<1>2. rec.phase = "rejected" =>
         \/ rec = old
         \/ v.pc = "create"
         \/ v.pc = "created" /\ faults' # faults
         \/ v.report.status = "rejected"
         \/ v.pc \in HoldingPCs /\ v.rec.phase = "rejected"
  BY DEF Moves
<1>3. ~(v.pc = "created" /\ faults' # faults)
  BY DEF AcceptanceKept, At
<1>4. Rejects(rec, v.op)
  BY <1>1, <1>2, <1>3 DEF Rejects, Told
<1>5. w.pc \in HoldingPCs /\ w.rec.phase = "rejected" =>
         rec.phase = "rejected" \/ (v.pc \in HoldingPCs /\ v.rec.phase = "rejected")
  BY DEF Moves
<1>6. w.pc \in HoldingPCs => Rejects(w.rec, v.op)
  BY <1>1, <1>4, <1>5 DEF Rejects, Told
<1>7. w.report.status = "rejected" => relay[v.op].status = "rejected"
  BY <1>1 DEF Moves, Told
<1>8. QED
  BY <1>4, <1>6, <1>7

\* A move during which neither the relayer nor the wallet does anything.
LEMMA MovesKeepLoss ==
    ASSUME OneAtATime, SeqInv, LossInv, AcceptanceKept, NEW c \in Callers, NEW w, NEW rec,
           Moves(c, w, rec), UNCHANGED <<relay, ledger, walletAsked>>,
           w.pc \notin {"created", "direct"}
    PROVE  LossInv'
<1> DEFINE v == callers[c]
           old == store[v.op]
<1>1. /\ v.op \in Ops /\ submitted' = submitted /\ submitters' = submitters
      /\ submitters \subseteq Ops /\ Carries(rec, old)
      /\ v.pc = "created" => rec.requested
  BY CallerHolds, CallerTold DEF Moves, AcceptanceKept, At
<1>2. \A op \in Ops : store'[op] = IF op = v.op THEN rec ELSE store[op]
  BY <1>1 DEF Moves, SeqInv, TypeOK
<1>3. callers'[c] = w /\ \A d \in Callers : d = c
  BY DEF Moves, OneAtATime, SeqInv, TypeOK
<1>4. /\ Rejects(rec, v.op)
      /\ w.pc \in HoldingPCs => Rejects(w.rec, v.op)
      /\ w.report.status = "rejected" => relay[v.op].status = "rejected"
  BY MoveRejects
<1>5. /\ w.pc \notin {"create", "created", "direct"}
      /\ w.pc \in HoldingPCs => w.op = v.op
      /\ w.pc = "fallback" => w.rec = rec
      /\ w.report.status = "rejected" => w.op = v.op
  BY DEF Moves
<1>6. \A r, op : Rejects(r, op) => Rejects(r, op)'
  BY DEF Rejects
<1>7. Told(w)'
  <2>1. w.pc = "fallback" => w.rec = store'[w.op]
    BY <1>1, <1>2, <1>5 DEF HoldingPCs
  <2>2. w.pc \in HoldingPCs => Rejects(w.rec, w.op)'
    BY <1>4, <1>5, <1>6
  <2>3. w.report.status = "rejected" => relay'[w.op].status = "rejected"
    BY <1>4, <1>5
  <2>4. QED
    BY <1>5, <2>1, <2>2, <2>3 DEF Told
<1>8. \A op \in Ops : Rejects(store[op], op)'
  BY <1>2, <1>4, <1>6 DEF LossInv, Rejects
<1>9. Admitted'
  <2> SUFFICES ASSUME NEW op \in submitters, relay[op].status # NoStatus
               PROVE  store'[op].requested
    BY <1>1 DEF Admitted
  <2>1. store[op].requested \/ (v.pc = "created" /\ v.op = op)
    BY <1>3 DEF LossInv, Admitted, At
  <2>2. QED
    BY <1>1, <1>2, <2>1 DEF Carries
<1>10. QED
  BY <1>1, <1>3, <1>7, <1>8, <1>9 DEF LossInv, DirectExcludesRelay, Landed

\* The request is admitted: the store does not know of it yet, but the call
\* that is to tell it has its answer.
LEMMA CreateRequestLoss ==
    ASSUME OneAtATime, SeqInv, LossInv, NEW c \in Callers, CreateRequest(c)
    PROVE  LossInv'
<1> USE DEF hostVars, budgetVars
<1> DEFINE v == callers[c]
           o == v.op
           w == [v EXCEPT !.pc = "created"]
<1>1. /\ v.pc = "create" /\ Admit(o) /\ Step(c, w)
      /\ UNCHANGED <<store, submitted, submitters, walletAsked, ledger>>
  BY DEF CreateRequest, At, Goto
<1>2. v \in CallerStates /\ o \in Ops /\ o \in submitted
  BY <1>1, CallerHolds DEF Between
<1>3. w.pc = "created" /\ w.rec = v.rec /\ w.op = o /\ w.report = v.report
  BY <1>2, GoneFields DEF PCs
<1>4. callers'[c] = w /\ \A d \in Callers : d = c
  BY <1>1 DEF Step, OneAtATime, SeqInv, TypeOK
<1> HIDE DEF w
<1>5. relay[o].status = NoStatus /\ relay'[o].status = "accepted"
      /\ \A op \in Ops \ {o} : relay'[op] = relay[op]
  BY <1>1, <1>2, CallerTold DEF Admit, Reports
<1>6. /\ o \notin walletAsked /\ "rejected" \notin {v.rec.phase, store[o].phase}
      /\ v.report.status # "rejected"
  BY <1>1, <1>5, CallerTold DEF Told, NoStatus
<1>7. Told(callers[c])'
  BY <1>3, <1>4, <1>6 DEF Told, Rejects
<1>8. \A op \in Ops : Rejects(store[op], op)'
  BY <1>1, <1>5, <1>6 DEF LossInv, Rejects
<1>9. Landed'
  BY <1>1, <1>5 DEF LossInv, Landed, OnChain, NoStatus
<1>10. DirectExcludesRelay'
  BY <1>1, <1>2, <1>5, <1>6, CallerTold DEF LossInv, DirectExcludesRelay
<1>11. Admitted'
  <2> SUFFICES ASSUME NEW op \in submitters, relay'[op].status # NoStatus
               PROVE  store[op].requested \/ op = o
    BY <1>1, <1>3, <1>4 DEF Admitted, At
  <2>1. CASE op # o
    BY <1>1, <1>4, <1>5, <2>1, CallerTold DEF LossInv, Admitted, At
  <2>2. QED
    BY <2>1
<1>12. \A op \in Ops \ submitted' : relay'[op].status = NoStatus
  BY <1>1, <1>2, <1>5 DEF LossInv
<1>13. QED
  BY <1>4, <1>7, <1>8, <1>9, <1>10, <1>11, <1>12 DEF LossInv

\* The relayer takes a failed request up again: nobody took it for rejected.
LEMMA RetryAttemptLoss ==
    ASSUME OneAtATime, SeqInv, LossInv, NEW c \in Callers, RetryAttempt(c)
    PROVE  LossInv'
<1> USE DEF hostVars, budgetVars
<1> DEFINE v == callers[c]
           o == v.op
           w == [v EXCEPT !.pc = "retry_save"]
<1>1. /\ v.pc = "retry_call"
      /\ \/ AdmitRetry(o) /\ Step(c, w)
         \/ UNCHANGED relay /\ Step(c, Idle)
      /\ UNCHANGED <<store, submitted, submitters, walletAsked, ledger>>
  BY DEF RetryAttempt, At, Goto
<1>2. v \in CallerStates /\ o \in Ops /\ o \in submitted
  BY <1>1, CallerHolds DEF Between
<1>3. w.pc = "retry_save" /\ w.rec = v.rec /\ w.op = o /\ w.report = v.report
  BY <1>2, GoneFields DEF PCs
<1>4. \A d \in Callers : d = c /\ ~At(d, "created")
  BY <1>1 DEF OneAtATime, At
<1>5. CASE UNCHANGED relay /\ Step(c, Idle)
  <2>1. callers'[c] = Idle
    BY <1>5 DEF Step, SeqInv, TypeOK
  <2>2. Admitted'
    BY <1>1, <1>4, <1>5 DEF LossInv, Admitted
  <2>3. \A op \in Ops : Rejects(store[op], op)'
    BY <1>1, <1>5 DEF LossInv, Rejects
  <2>4. QED
    BY <1>1, <1>4, <1>5, <2>1, <2>2, <2>3, IdleTold DEF LossInv, DirectExcludesRelay, Landed
<1>6. CASE AdmitRetry(o) /\ Step(c, w)
  <2>1. callers'[c] = w
    BY <1>6 DEF Step, SeqInv, TypeOK
  <2> HIDE DEF w
  <2>2. relay[o].status = "failed" /\ relay'[o].status = "accepted"
        /\ \A op \in Ops \ {o} : relay'[op] = relay[op]
    BY <1>2, <1>6, CallerTold DEF AdmitRetry, NoReport
  <2>3. o \notin walletAsked /\ v.report.status # "rejected"
        /\ "rejected" \notin {v.rec.phase, store[o].phase}
    BY <1>1, <2>2, CallerTold DEF Told, Rejects, NoStatus, HoldingPCs
  <2>4. Told(callers[c])'
    BY <1>3, <2>1, <2>3 DEF Told, Rejects
  <2>5. \A op \in Ops : Rejects(store[op], op)'
    BY <1>1, <2>2, <2>3 DEF LossInv, Rejects
  <2>6. Landed'
    BY <1>1, <2>2 DEF LossInv, Landed, OnChain
  <2>7. DirectExcludesRelay'
    BY <1>1, <2>2, <2>3, CallerTold DEF LossInv, DirectExcludesRelay
  <2>8. Admitted'
    BY <1>1, <1>4, <2>2, CallerTold DEF LossInv, Admitted, NoStatus
  <2>9. \A op \in Ops \ submitted' : relay'[op].status = NoStatus
    BY <1>1, <1>2, <2>2 DEF LossInv
  <2>10. QED
    BY <1>4, <2>1, <2>4, <2>5, <2>6, <2>7, <2>8, <2>9 DEF LossInv
<1>7. QED
  BY <1>1, <1>5, <1>6

\* The wallet is asked as a fallback only for an operation the relayer never
\* admitted, which the store knows because no answer was lost.
LEMMA FallbackLoss ==
    ASSUME OneAtATime, SeqInv, LossInv, NEW c \in Callers, Fallback(c)
    PROVE  LossInv'
<1> USE DEF hostVars, budgetVars, envVars
<1> DEFINE v == callers[c]
           o == v.op
           w == [v EXCEPT !.pc = "direct"]
<1>1. /\ v.pc = "fallback"
      /\ \/ /\ CanOfferDirectSubmission(o, v.rec) /\ o \in submitters
            /\ walletAsked' = walletAsked \cup {o} /\ Step(c, w)
         \/ UNCHANGED walletAsked /\ Step(c, Idle)
      /\ UNCHANGED <<store, submitted, submitters, relay, ledger>>
  BY DEF Fallback, At, Goto
<1>2. v \in CallerStates /\ o \in Ops /\ o \in submitted
  BY <1>1, CallerHolds DEF Between
<1>3. w.pc = "direct" /\ w.rec = v.rec /\ w.op = o /\ w.report = v.report
  BY <1>2, GoneFields DEF PCs
<1>4. \A d \in Callers : d = c /\ ~At(d, "created")
  BY <1>1 DEF OneAtATime, At
<1>5. Admitted'
  BY <1>1, <1>4 DEF LossInv, Admitted
<1>6. CASE UNCHANGED walletAsked /\ Step(c, Idle)
  <2>1. callers'[c] = Idle
    BY <1>6 DEF Step, SeqInv, TypeOK
  <2>2. \A op \in Ops : Rejects(store[op], op)'
    BY <1>1, <1>6 DEF LossInv, Rejects
  <2>3. QED
    BY <1>1, <1>4, <1>5, <1>6, <2>1, <2>2, IdleTold DEF LossInv, DirectExcludesRelay, Landed
<1>7. CASE /\ CanOfferDirectSubmission(o, v.rec) /\ o \in submitters
           /\ walletAsked' = walletAsked \cup {o} /\ Step(c, w)
  <2>1. callers'[c] = w
    BY <1>7 DEF Step, SeqInv, TypeOK
  <2> HIDE DEF w
  <2>2. v.rec = store[o] /\ ~store[o].requested /\ store[o].phase # "rejected"
    BY <1>1, <1>7, CallerTold DEF Told, CanOfferDirectSubmission
  <2>3. relay[o].status = NoStatus
    BY <1>4, <1>7, <2>2 DEF LossInv, Admitted
  <2>4. v.report.status # "rejected"
    BY <2>3, CallerTold DEF Told, NoStatus
  <2>5. Told(callers[c])'
    BY <1>3, <1>7, <2>1, <2>2, <2>4 DEF Told, Rejects
  <2>6. \A op \in Ops : Rejects(store[op], op)'
    BY <1>1, <1>7, <2>2 DEF LossInv, Rejects
  <2>7. DirectExcludesRelay'
    BY <1>1, <1>7, <2>3 DEF LossInv, DirectExcludesRelay
  <2>8. Landed'
    BY <1>1, <1>7 DEF LossInv, Landed
  <2>9. QED
    BY <1>1, <1>4, <1>5, <2>1, <2>5, <2>6, <2>7, <2>8 DEF LossInv
<1>8. QED
  BY <1>1, <1>6, <1>7

\* The transaction of the wallet lands: the wallet was asked for it.
LEMMA DirectLandsLoss ==
    ASSUME OneAtATime, SeqInv, LossInv, NEW c \in Callers, DirectLands(c)
    PROVE  LossInv'
<1> USE DEF hostVars, budgetVars
<1> DEFINE v == callers[c]
           o == v.op
           w == [v EXCEPT !.pc = "complete_read", !.tx = "wallet_tx"]
<1>1. /\ v.pc = "direct" /\ Land(o, "wallet_tx") /\ Step(c, w)
      /\ UNCHANGED <<store, submitted, submitters, walletAsked, relay>>
  BY DEF DirectLands, At
<1>2. v \in CallerStates /\ o \in Ops
  BY CallerHolds
<1>3. w.pc = "complete_read" /\ w.rec = v.rec /\ w.op = o /\ w.report = v.report
  BY <1>2 DEF CallerStates
<1>4. \A d \in Callers : d = c /\ ~At(d, "created")
  BY <1>1 DEF OneAtATime, At
<1>5. callers'[c] = w
  BY <1>1 DEF Step, SeqInv, TypeOK
<1> HIDE DEF w
<1>6. Told(callers[c])'
  BY <1>1, <1>3, <1>5, CallerTold DEF Told, Rejects, HoldingPCs
<1>7. \A op \in Ops : Rejects(store[op], op)'
  BY <1>1 DEF LossInv, Rejects
<1>8. Landed'
  BY <1>1, <1>2, CallerTold DEF LossInv, Landed, Land, Told
<1>9. Admitted'
  BY <1>1, <1>4 DEF LossInv, Admitted
<1>10. QED
  BY <1>1, <1>4, <1>5, <1>6, <1>7, <1>8, <1>9 DEF LossInv, DirectExcludesRelay

\* An operation that is submitted was in nobody's hands before.
LEMMA SubmitLoss ==
    ASSUME OneAtATime, SeqInv, LossInv, NEW c \in Callers, Submit(c)
    PROVE  LossInv'
<1> USE DEF hostVars, budgetVars, envVars
<1>1. PICK op \in Ops : \/ RefuseEscrow(c, op)
                        \/ SubmitDirectPath(c, op)
                        \/ SubmitRelayPath(c, op)
  BY DEF Submit
<1>2. /\ At(c, "idle") /\ op \notin submitted /\ submitted' = submitted \cup {op}
      /\ submitters' = submitters \cup {op} /\ UNCHANGED <<relay, ledger>>
      /\ walletAsked \subseteq walletAsked' /\ walletAsked' \subseteq walletAsked \cup {op}
  BY <1>1 DEF RefuseEscrow, SubmitDirectPath, SubmitRelayPath, NewSubmission
<1>3. op \notin walletAsked /\ relay[op].status = NoStatus
  BY <1>2, CallerTold DEF LossInv
<1>4. \A p \in Ops \ {op} : store'[p] = store[p]
  BY <1>1 DEF RefuseEscrow, SubmitDirectPath, SubmitRelayPath, SeqInv, TypeOK
<1>5. \A d \in Callers : d = c /\ ~At(d, "created")
  BY <1>2 DEF OneAtATime, At
<1>6. "rejected" \notin {Absent.phase, Prepared.phase} /\ store[op] = Absent
  BY <1>2, CallerHolds DEF Absent, Prepared, NoPhase, SeqInv
<1>7. Rejects(store[op], op)' /\ Told(callers[c])'
  <2>1. CASE RefuseEscrow(c, op)
    <3>1. UNCHANGED <<walletAsked, callers>>
      BY <2>1 DEF RefuseEscrow
    <3>2. Rejects(store[op], op)'
      BY <1>2, <1>3, <3>1 DEF Rejects
    <3>3. Told(callers[c])'
      BY <1>2, <3>1, CallerTold DEF Told, HoldingPCs, At
    <3>4. QED
      BY <3>2, <3>3
  <2>2. CASE SubmitDirectPath(c, op)
    <3> DEFINE w == [Idle EXCEPT !.pc = "direct", !.op = op, !.rec = Prepared]
    <3>1. w.pc = "direct" /\ w.op = op /\ w.rec = Prepared /\ w.report.status # "rejected"
      BY IdleType DEF CallerStates, Idle, NoReport, NoStatus
    <3>2. callers'[c] = w
      BY <2>2 DEF SubmitDirectPath, Step, SeqInv, TypeOK
    <3> HIDE DEF w
    <3>3. op \in walletAsked' /\ store'[op] = Absent
      BY <1>6, <2>2 DEF SubmitDirectPath
    <3>4. QED
      BY <1>6, <3>1, <3>2, <3>3 DEF Told, Rejects
  <2>3. CASE SubmitRelayPath(c, op)
    <3>1. PICK flow \in {"once", "await"} :
             Step(c, [Idle EXCEPT !.pc = "create", !.flow = flow, !.op = op, !.rec = Prepared])
      BY <2>3 DEF SubmitRelayPath
    <3> DEFINE w == [Idle EXCEPT !.pc = "create", !.flow = flow, !.op = op, !.rec = Prepared]
    <3>2. w.pc = "create" /\ w.op = op /\ w.rec = Prepared /\ w.report.status # "rejected"
      BY IdleType DEF CallerStates, Idle, NoReport, NoStatus
    <3>3. callers'[c] = w
      BY <3>1 DEF Step, SeqInv, TypeOK
    <3> HIDE DEF w
    <3>4. store'[op] = Prepared /\ walletAsked' = walletAsked
      BY <2>3 DEF SubmitRelayPath, SeqInv, TypeOK
    <3>5. QED
      BY <1>2, <1>3, <1>6, <3>2, <3>3, <3>4 DEF Told, Rejects
  <2>4. QED
    BY <1>1, <2>1, <2>2, <2>3
<1>8. \A p \in Ops : Rejects(store[p], p)'
  <2>1. ASSUME NEW p \in Ops \ {op} PROVE Rejects(store[p], p)'
    BY <1>2, <1>4, <2>1 DEF LossInv, Rejects
  <2>2. QED
    BY <1>7, <2>1
<1>9. Admitted'
  <2> SUFFICES ASSUME NEW p \in submitters', relay'[p].status # NoStatus
               PROVE  store'[p].requested
    BY DEF Admitted
  <2>1. p \in submitters /\ p # op /\ p \in Ops
    BY <1>2, <1>3, CallerTold
  <2>2. QED
    BY <1>2, <1>4, <1>5, <2>1 DEF LossInv, Admitted
<1>10. Landed' /\ DirectExcludesRelay'
  BY <1>2, <1>3 DEF LossInv, Landed, DirectExcludesRelay
<1>11. QED
  BY <1>2, <1>5, <1>7, <1>8, <1>9, <1>10 DEF LossInv

\* An effect changes what the call holds only in its flags.
LEMMA RunEffectLoss ==
    ASSUME OneAtATime, SeqInv, LossInv, NEW c \in Callers, RunEffect(c)
    PROVE  LossInv'
<1> USE DEF hostVars, budgetVars, envVars
<1> DEFINE v == callers[c]
<1>1. PICK e \in Effects :
         v.pc = "effects" /\ Step(c, [v EXCEPT !.pc = "effect_save", !.rec.done = @ \cup {e}])
  BY DEF RunEffect, At
<1>2. UNCHANGED <<store, submitted, submitters, walletAsked, relay, ledger>>
  BY DEF RunEffect
<1>3. v \in CallerStates /\ v.rec \in PendingOperations
  BY CallerHolds
<1> DEFINE w == [v EXCEPT !.pc = "effect_save", !.rec.done = @ \cup {e}]
<1>4. w.pc = "effect_save" /\ w.op = v.op /\ w.report = v.report /\ w.rec.phase = v.rec.phase
  BY <1>3 DEF CallerStates, PendingOperations
<1>5. callers'[c] = w /\ \A d \in Callers : d = c /\ ~At(d, "created")
  BY <1>1 DEF Step, SeqInv, TypeOK, OneAtATime, At
<1> HIDE DEF w
<1>6. Told(callers[c])'
  BY <1>1, <1>2, <1>4, <1>5, CallerTold DEF Told, Rejects, HoldingPCs
<1>7. \A op \in Ops : Rejects(store[op], op)'
  BY <1>2 DEF LossInv, Rejects
<1>8. Admitted'
  BY <1>2, <1>5 DEF LossInv, Admitted
<1>9. QED
  BY <1>2, <1>5, <1>6, <1>7, <1>8 DEF LossInv, Landed, DirectExcludesRelay

\* A reload forgets the submitters: nothing can be submitted once more.
LEMMA ReloadLoss == SeqInv /\ LossInv /\ Reload => LossInv'
<1> SUFFICES ASSUME SeqInv, LossInv, Reload PROVE LossInv'
  OBVIOUS
<1>1. /\ UNCHANGED <<store, submitted, walletAsked, relay, ledger>> /\ submitters' = {}
      /\ \A c \in Callers : callers'[c] = Idle
  BY DEF Reload, envVars
<1>2. \A op \in Ops : Rejects(store[op], op)'
  BY <1>1 DEF LossInv, Rejects
<1>3. Admitted'
  BY <1>1 DEF Admitted
<1>4. QED
  BY <1>1, <1>2, <1>3, IdleTold DEF LossInv, Landed, DirectExcludesRelay

\* The relayer works on what it admitted and reports what became of it.
LEMMA RelayerLoss ==
    ASSUME SeqInv, LossInv, NEW o \in Ops, RelayerNext(o)
    PROVE  LossInv'
<1> USE DEF hostVars, budgetVars
<1>1. /\ UNCHANGED <<store, callers, submitted, submitters, walletAsked>> /\ RelayerStep(o)
      /\ relay \in [Ops -> Reports] /\ ledger \in [Ops -> Txs \cup {NoTx}]
  BY DEF RelayerNext, SeqInv, TypeOK
<1>2. /\ ledger[o] = "relay_tx" => relay[o].status \in OnChain \cup {"succeeded"}
      /\ ledger[o] = "wallet_tx" => o \in walletAsked
  BY DEF LossInv, Landed
<1>3. /\ relay[o].status # NoStatus /\ relay'[o].status # NoStatus
      /\ relay'[o].status = relay[o].status \/ relay[o].status \in InProgress
      /\ ledger'[o] = "relay_tx" => relay'[o].status \in OnChain \cup {"succeeded"}
      /\ ledger'[o] = "wallet_tx" => o \in walletAsked
      /\ \A op \in Ops \ {o} : relay'[op] = relay[op] /\ ledger'[op] = ledger[op]
  <2>1. NoStatus \notin InProgress \cup {"succeeded", "rejected", "failed"}
        /\ OnChain \subseteq InProgress
    BY DEF NoStatus, InProgress, OnChain
  <2>2. CASE Process(o)
    <3>1. PICK status \in ReportedStatuses :
             /\ relay[o].status \in InProgress /\ Stage(status) > Stage(relay[o].status)
             /\ relay' = [relay EXCEPT ![o].status = status] /\ UNCHANGED ledger
      BY <2>2 DEF Process
    <3>2. status \in InProgress
      BY <3>1, RelayerAssumption
    <3>3. relay[o].status \in OnChain => status \in OnChain
      BY <3>1, <3>2 DEF Stage, InProgress, OnChain
    <3>4. relay'[o].status = status /\ \A op \in Ops \ {o} : relay'[op] = relay[op]
      BY <1>1, <3>1 DEF Reports
    <3>5. relay[o].status # "succeeded"
      BY <3>1 DEF InProgress
    <3>6. QED
      BY <1>2, <2>1, <3>1, <3>2, <3>3, <3>4, <3>5
  <2>3. CASE LandRelayed(o)
    BY <1>1, <1>2, <2>1, <2>3 DEF LandRelayed, Land
  <2>4. CASE ReportSuccess(o)
    BY <1>1, <1>2, <2>1, <2>4 DEF ReportSuccess, Reports
  <2>5. CASE PublishHash(o)
    BY <1>1, <1>2, <2>1, <2>5 DEF PublishHash, Reports
  <2>6. CASE Reject(o)
    <3>1. relay[o].status \in InProgress /\ ledger[o] # "relay_tx"
      BY <1>2, <2>6 DEF Reject, InProgress
    <3>2. QED
      BY <1>1, <1>2, <2>1, <2>6, <3>1 DEF Reject, Reports
  <2>7. CASE FailAttempt(o)
    BY <1>1, <1>2, <2>1, <2>7 DEF FailAttempt, Reports
  <2>8. QED
    BY <1>1, <2>2, <2>3, <2>4, <2>5, <2>6, <2>7 DEF RelayerStep
<1>4. "rejected" \notin InProgress /\ NoStatus \notin InProgress
  BY DEF InProgress, NoStatus
\* What is said of a rejected operation stays true.
<1>5. /\ \A op \in Ops : relay[op].status = NoStatus => relay'[op].status = NoStatus
      /\ \A op \in Ops : relay[op].status = "rejected" => relay'[op].status = "rejected"
      /\ \A op \in Ops : relay'[op].status # NoStatus => relay[op].status # NoStatus
  BY <1>3, <1>4
<1>6. \A op \in Ops : \A r : Rejects(r, op) => Rejects(r, op)'
  BY <1>1, <1>5 DEF Rejects
<1>7. \A op \in Ops : Rejects(store[op], op)'
  BY <1>1, <1>6 DEF LossInv, Rejects
<1>8. \A c \in Callers : Told(callers[c])'
  <2> SUFFICES ASSUME NEW c \in Callers PROVE Told(callers[c])'
    OBVIOUS
  <2>1. Told(callers[c]) /\ callers[c].op \in Ops
    BY CallerTold, CallerHolds
  <2>2. QED
    BY <1>1, <1>5, <1>6, <2>1 DEF Told, Rejects
<1>9. DirectExcludesRelay' /\ \A op \in Ops \ submitted' : relay'[op].status = NoStatus
  <2>1. walletAsked \subseteq Ops
    BY DEF SeqInv, TypeOK
  <2>2. QED
    BY <1>1, <1>5, <2>1 DEF LossInv, DirectExcludesRelay
<1>10. Landed'
  BY <1>1, <1>3 DEF LossInv, Landed
<1>11. Admitted'
  <2>1. submitters \subseteq Ops
    BY DEF SeqInv, TypeOK
  <2>2. QED
    BY <1>1, <1>5, <2>1 DEF LossInv, Admitted, At
<1>12. QED
  BY <1>7, <1>8, <1>9, <1>10, <1>11 DEF LossInv

\* A step of a call during which neither the relayer nor the wallet does
\* anything.
LEMMA LocalLoss ==
    ASSUME OneAtATime, SeqInv, LossInv, AcceptanceKept, NEW c \in Callers, SomeMove(c),
           UNCHANGED <<relay, ledger, walletAsked>>,
           callers[c].pc \notin {"create", "fallback"} \/ Step(c, Idle)
    PROVE  LossInv'
<1>1. PICK w, rec : Moves(c, w, rec)
  BY DEF SomeMove
<1>2. callers'[c] = w
  BY <1>1 DEF Moves, SeqInv, TypeOK
<1>3. Step(c, Idle) => callers'[c].pc = "idle"
  BY DEF Step, Idle, SeqInv, TypeOK
<1>4. w.pc \notin {"created", "direct"}
  BY <1>1, <1>2, <1>3 DEF Moves
<1>5. QED
  BY <1>1, <1>4, MovesKeepLoss

LEMMA LossStep ==
    OneAtATime /\ SeqInv /\ LossInv /\ [Next]_vars /\ [AcceptanceKept]_vars => LossInv'
<1> SUFFICES ASSUME OneAtATime, SeqInv, LossInv, [Next]_vars, [AcceptanceKept]_vars
             PROVE  LossInv'
  OBVIOUS
<1> USE DEF hostVars, budgetVars, envVars
<1>1. CASE UNCHANGED vars
  <2>1. /\ UNCHANGED <<store, callers, submitted, submitters, walletAsked, relay, ledger>>
    BY <1>1 DEF vars
  <2>2. (\A op \in Ops : Rejects(store[op], op))' /\ Admitted'
    BY <2>1 DEF LossInv, Rejects, Admitted, At
  <2>3. (\A c \in Callers : Told(callers[c]))'
    BY <2>1 DEF LossInv, Told, Rejects
  <2>4. QED
    BY <2>1, <2>2, <2>3 DEF LossInv, DirectExcludesRelay, Landed
<1>2. ASSUME NEW c \in Callers, AcceptanceKept,
             \/ StartResume(c) \/ PortFails(c) \/ \E op \in Ops : StartCall(c, op)
             \/ DirectRefused(c) \/ ResumeNext(c)
      PROVE  LossInv'
  <2>1. SomeMove(c) /\ UNCHANGED <<relay, ledger, walletAsked>>
    BY <1>2, HostMoves DEF StartResume, PortFails, StartCall, DirectRefused, ResumeNext
  <2>2. callers[c].pc \notin {"create", "fallback"} \/ Step(c, Idle)
    BY <1>2, ThrowsAlone DEF StartResume, PortFails, StartCall, DirectRefused, ResumeNext, At
  <2>3. QED
    BY <1>2, <2>1, <2>2, LocalLoss
<1>3. ASSUME NEW c \in Callers, AcceptanceKept,
             SaveAccepted(c) \/ RelayRefuses(c) \/ LoseAcceptance(c)
      PROVE  LossInv'
  <2>1. SomeMove(c) /\ UNCHANGED <<relay, ledger, walletAsked>>
    BY <1>3, RequestMoves DEF SaveAccepted, RelayRefuses, LoseAcceptance
  <2>2. callers[c].pc \notin {"create", "fallback"} \/ Step(c, Idle)
    BY <1>3 DEF SaveAccepted, RelayRefuses, LoseAcceptance, At
  <2>3. QED
    BY <1>3, <2>1, <2>2, LocalLoss
<1>4. ASSUME NEW c \in Callers, AcceptanceKept,
             CompleteRead(c) \/ Complete(c) \/ SaveEffect(c) \/ FinishCompletion(c)
      PROVE  LossInv'
  <2>1. SomeMove(c) /\ UNCHANGED <<relay, ledger, walletAsked>>
    BY <1>4, CompletionMoves DEF CompleteRead, Complete, SaveEffect, FinishCompletion
  <2>2. callers[c].pc \notin {"create", "fallback"}
    BY <1>4 DEF CompleteRead, Complete, SaveEffect, FinishCompletion, At
  <2>3. QED
    BY <1>4, <2>1, <2>2, LocalLoss
<1>5. ASSUME NEW c \in Callers, AcceptanceKept,
             PollRead(c) \/ PollStatus(c) \/ PollSave(c) \/ SaveTimedOut(c)
      PROVE  LossInv'
  <2>1. SomeMove(c) /\ UNCHANGED <<relay, ledger, walletAsked>>
    BY <1>5, PollMoves DEF PollRead, PollStatus, PollSave, SaveTimedOut
  <2>2. callers[c].pc \notin {"create", "fallback"}
    BY <1>5 DEF PollRead, PollStatus, PollSave, SaveTimedOut, At
  <2>3. QED
    BY <1>5, <2>1, <2>2, LocalLoss
<1>6. ASSUME NEW c \in Callers, AcceptanceKept,
             RetryRead(c) \/ SaveRetried(c) \/ FallbackRead(c)
      PROVE  LossInv'
  <2>1. SomeMove(c) /\ UNCHANGED <<relay, ledger, walletAsked>>
    BY <1>6, RetryAndFallbackMoves DEF RetryRead, SaveRetried, FallbackRead
  <2>2. callers[c].pc \notin {"create", "fallback"}
    BY <1>6 DEF RetryRead, SaveRetried, FallbackRead, At
  <2>3. QED
    BY <1>6, <2>1, <2>2, LocalLoss
<1>7. ASSUME NEW c \in Callers, AcceptanceKept, Continue(c) PROVE LossInv'
  <2>1. CASE \/ CreateRequest(c) \/ DirectLands(c) \/ RunEffect(c) \/ RetryAttempt(c)
             \/ Fallback(c)
    BY <2>1, CreateRequestLoss, DirectLandsLoss, RunEffectLoss, RetryAttemptLoss, FallbackLoss
  <2>2. CASE ~(\/ CreateRequest(c) \/ DirectLands(c) \/ RunEffect(c) \/ RetryAttempt(c)
               \/ Fallback(c))
    BY <1>2, <1>3, <1>4, <1>5, <1>6, <1>7, <2>2 DEF Continue
  <2>3. QED
    BY <2>1, <2>2
<1>8. ASSUME NEW c \in Callers, Submit(c) PROVE LossInv'
  BY <1>8, SubmitLoss
<1>9. ASSUME NEW op \in Ops, RelayerNext(op) PROVE LossInv'
  BY <1>9, RelayerLoss
<1>10. CASE Reload
  BY <1>10, ReloadLoss
<1>11. CASE Next /\ AcceptanceKept
  BY <1>2, <1>3, <1>7, <1>8, <1>9, <1>10, <1>11 DEF Next
<1>12. QED
  BY <1>1, <1>11

\* When the host makes one call at a time and no answer of the relayer is
\* lost, the wallet is never asked to submit an operation that the relayer
\* has admitted (submit-direct-fallback.ts asks the fallback policy first).
THEOREM DirectExcludesTheRelay ==
    ASSUME OneAtATime
    PROVE  Spec /\ [][AcceptanceKept]_vars => []DirectExcludesRelay
<1>1. LossInv => DirectExcludesRelay
  BY DEF LossInv
<1>2. SeqInv /\ [Next]_vars => SeqInv'
  BY SeqStep DEF SeqKept
<1>3. SeqInv /\ LossInv /\ [Next]_vars /\ [AcceptanceKept]_vars => LossInv'
  BY LossStep
<1>4. QED
  BY <1>1, <1>2, <1>3, SeqInit, LossInit, PTL DEF Spec

\* ... and an operation that is shown as rejected has not landed: the host may
\* tell its user that nothing happened.
THEOREM RejectedNeverLanded ==
    ASSUME OneAtATime
    PROVE  Spec /\ [][AcceptanceKept]_vars => []RejectedNeverLands
<1>1. SeqInv /\ LossInv => RejectedNeverLands
  <2> SUFFICES ASSUME SeqInv, LossInv, NEW op \in Ops, store[op].phase = "rejected"
               PROVE  ledger[op] = NoTx
    BY DEF RejectedNeverLands
  <2>1. op \notin walletAsked /\ relay[op].status \in {NoStatus, "rejected"}
    BY DEF LossInv, Rejects
  <2>2. ledger[op] \notin {"relay_tx", "wallet_tx"}
    BY <2>1 DEF LossInv, Landed, OnChain, NoStatus
  <2>3. QED
    BY <2>2 DEF SeqInv, TypeOK, Txs
<1>2. SeqInv /\ [Next]_vars => SeqInv'
  BY SeqStep DEF SeqKept
<1>3. SeqInv /\ LossInv /\ [Next]_vars /\ [AcceptanceKept]_vars => LossInv'
  BY LossStep
<1>4. QED
  BY <1>1, <1>2, <1>3, SeqInit, LossInit, PTL DEF Spec

\* The hypothesis is what a host has whose port calls do not fail.
COROLLARY NoFaultNoLoss ==
    ASSUME OneAtATime, MaxFaults = 0
    PROVE  Spec => [][AcceptanceKept]_vars
<1>1. TypeOK /\ [Next]_vars => [AcceptanceKept]_vars
  <2> SUFFICES ASSUME TypeOK, Next PROVE faults' = faults
    BY DEF AcceptanceKept
  <2>1. ~(faults < MaxFaults)
    BY DEF TypeOK
  <2>2. ASSUME NEW c \in Callers, LoseAcceptance(c) \/ PortFails(c) PROVE FALSE
    BY <2>1, <2>2 DEF LoseAcceptance, PortFails
  <2>3. ASSUME NEW c \in Callers, Continue(c) PROVE faults' = faults
    BY <2>3 DEF Continue, CreateRequest, SaveAccepted, RelayRefuses, DirectLands, DirectRefused,
       CompleteRead, Complete, RunEffect, SaveEffect, FinishCompletion, PollRead, PollStatus,
       PollSave, SaveTimedOut, RetryRead, RetryAttempt, SaveRetried, FallbackRead, Fallback,
       ResumeNext, budgetVars
  <2>4. ASSUME NEW c \in Callers,
               Submit(c) \/ StartResume(c) \/ \E op \in Ops : StartCall(c, op)
        PROVE  faults' = faults
    BY <2>4 DEF Submit, RefuseEscrow, SubmitDirectPath, SubmitRelayPath, StartResume, StartCall,
       budgetVars
  <2>5. CASE Reload \/ \E op \in Ops : RelayerNext(op)
    BY <2>5 DEF Reload, RelayerNext, budgetVars
  <2>6. QED
    BY <2>2, <2>3, <2>4, <2>5 DEF Next
<1>2. QED
  BY <1>1, TypeCorrect, PTL DEF Spec
=============================================================================
