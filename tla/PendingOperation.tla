------------------------- MODULE PendingOperation -------------------------
(***************************************************************************)
(* The record the relay runtime keeps for one private operation, and the   *)
(* pure rules that read or rewrite it (packages/relay: types.ts,           *)
(* fallback-policy.ts, is-unfinalized-relay-operation.ts and the           *)
(* record-to-record helpers of the flows).                                 *)
(*                                                                         *)
(* What the properties do not tell apart is left out of the record: the    *)
(* wallet, display, snapshot, outbox and package fields, which no rule     *)
(* reads, and publicReason, which is wording.  relayRequestId becomes the  *)
(* Boolean "requested": an operation has at most one relay request.        *)
(* escrowSend never changes after submission, so it is the constant set    *)
(* EscrowOps.  The three completion flags are the set "done".              *)
(***************************************************************************)
EXTENDS Naturals

CONSTANTS
    Ops,               \* identifiers of the operations of one wallet
    EscrowOps,         \* those submitted with escrowSend
    DirectOps          \* those whose submissionPath is 'direct'

ASSUME OpsAssumption == EscrowOps \subseteq Ops /\ DirectOps \subseteq Ops

RelayStatuses == {"accepted", "validating", "queued", "submitted",
                  "reconciling", "succeeded", "rejected", "failed"}

Phases == {"prepared", "relay_accepted", "admission_failed", "succeeded",
           "rejected", "failed", "settlement_timed_out"}

NoStatus == "no_status"    \* an absent relayStatus
NoTx     == "no_tx"        \* an absent transactionHash
NoPhase  == "absent"       \* the phase of an operation the store does not hold

\* The transactions that can carry an operation: the one the wallet signs
\* and the one the relayer submits.
Txs == {"wallet_tx", "relay_tx"}

\* The success side effects, and those that applySuccessSideEffects runs
\* before each of them.
Effects == {"finalize", "drain", "persist"}

Earlier(e) == CASE e = "finalize" -> {}
                [] e = "drain"    -> {"finalize"}
                [] e = "persist"  -> {"finalize", "drain"}

PendingOperations ==
    [phase        : Phases \cup {NoPhase},
     retryAllowed : BOOLEAN,
     requested    : BOOLEAN,
     relayStatus  : RelayStatuses \cup {NoStatus},
     hash         : Txs \cup {NoTx},
     done         : SUBSET Effects]

Prepared == [phase        |-> "prepared",
             retryAllowed |-> FALSE,
             requested    |-> FALSE,
             relayStatus  |-> NoStatus,
             hash         |-> NoTx,
             done         |-> {}]

Absent == [Prepared EXCEPT !.phase = NoPhase]

Exists(rec) == rec.phase # NoPhase

\* What the relay API answers to readStatus.
Reports == [status       : RelayStatuses \cup {NoStatus},
            retryAllowed : BOOLEAN,
            hash         : Txs \cup {NoTx}]

NoReport == [status |-> NoStatus, retryAllowed |-> FALSE, hash |-> NoTx]

---------------------------------------------------------------------------
\* Predicates over a record.

Finalized(rec) == "finalize" \in rec.done

\* Mutant of IsAlreadyCompleted: does not wait for the transaction record.
CompletedWithoutRecord(rec) == {"finalize", "drain"} \subseteq rec.done

IsAlreadyCompleted(rec) == rec.done = Effects

\* Mutant of IsUnfinalizedRelayOperation: forgets the operations whose
\* settlement wait timed out.
UnfinalizedInFlight(rec) == rec.phase = "relay_accepted" /\ ~Finalized(rec)

IsUnfinalizedRelayOperation(rec) == rec.requested /\ ~Finalized(rec)

IsTerminalRelayStatus(status) == status \in {"succeeded", "rejected", "failed"}

\* Mutants of CanOfferDirectSubmission: without the escrow guard, looking at
\* the relay status only, and ignoring that the relayer refused.
OfferEscrow(op, rec) ==
    ~Finalized(rec) /\ ~rec.requested /\ rec.phase \in {"prepared", "admission_failed"}

OfferByStatus(op, rec) ==
    /\ op \notin EscrowOps
    /\ ~Finalized(rec)
    /\ rec.relayStatus \notin {"submitted", "reconciling", "rejected", "succeeded"}

OfferRefused(op, rec) == op \notin EscrowOps /\ ~Finalized(rec) /\ ~rec.requested

CanOfferDirectSubmission(op, rec) ==
    /\ op \notin EscrowOps
    /\ ~Finalized(rec)
    /\ rec.relayStatus \notin {"submitted", "reconciling", "rejected", "succeeded"}
    /\ ~rec.requested
    /\ rec.phase \in {"prepared", "admission_failed"}

CanRetryRelayAttempt(rec) ==
    /\ ~Finalized(rec)
    /\ rec.requested
    /\ rec.phase = "failed"
    /\ rec.retryAllowed

IsSettled(rec) ==
    \/ rec.phase \in {"succeeded", "rejected", "failed", "admission_failed",
                      "settlement_timed_out"}
    \/ IsTerminalRelayStatus(rec.relayStatus)

\* An escrow send is never submitted by the wallet; any other operation is
\* when its path says so or when no relay is configured.
ShouldSubmitDirect(op, configured) ==
    /\ op \notin EscrowOps
    /\ op \in DirectOps \/ ~configured

---------------------------------------------------------------------------
\* Rewrites of a record.

AcceptedByRelay(rec) == [rec EXCEPT !.phase        = "relay_accepted",
                                    !.requested    = TRUE,
                                    !.relayStatus  = "accepted",
                                    !.retryAllowed = FALSE]

Refused(rec, phase) == [rec EXCEPT !.phase = phase, !.retryAllowed = FALSE]

RetriedAtRelay(rec) == [rec EXCEPT !.phase        = "relay_accepted",
                                   !.relayStatus  = "accepted",
                                   !.retryAllowed = FALSE]

\* Mutants of WithSucceededPhase: success claims the local update, and
\* success starts again from the submitted record.
SucceededAndFinalized(rec, tx) ==
    [rec EXCEPT !.phase = "succeeded", !.relayStatus = "succeeded", !.hash = tx,
                !.retryAllowed = FALSE, !.done = @ \cup {"finalize"}]

SucceededAfresh(rec, tx) ==
    [rec EXCEPT !.phase = "succeeded", !.relayStatus = "succeeded", !.hash = tx,
                !.retryAllowed = FALSE, !.done = {}]

WithSucceededPhase(rec, tx) == [rec EXCEPT !.phase        = "succeeded",
                                           !.relayStatus  = "succeeded",
                                           !.hash         = tx,
                                           !.retryAllowed = FALSE]

TimedOut(rec) == [rec EXCEPT !.phase = "settlement_timed_out"]

\* Mutants of ApplyStatus: the phase copies every status, and the flags of
\* the stored record are not carried over.
PhaseFromStatus(rec, report) ==
    [rec EXCEPT !.retryAllowed = report.retryAllowed, !.relayStatus = report.status,
                !.hash = report.hash, !.phase = report.status]

StatusDropsFlags(rec, report) ==
    [rec EXCEPT !.retryAllowed = report.retryAllowed, !.relayStatus = report.status,
                !.hash = report.hash, !.done = {}]

\* applyStatus: a status moves the phase only when it is rejected or failed,
\* and a rejected request is never retried.
ApplyStatus(rec, report) ==
    [rec EXCEPT
        !.retryAllowed = report.retryAllowed /\ report.status # "rejected",
        !.relayStatus  = IF report.status \in RelayStatuses THEN report.status ELSE @,
        !.hash         = IF report.hash # NoTx THEN report.hash ELSE @,
        !.phase        = IF report.status \in {"rejected", "failed"}
                            THEN report.status ELSE @]
=============================================================================
