-------------------------- MODULE RelayRequirements --------------------------
(***************************************************************************)
(* The properties of the relay runtime.                                    *)
(***************************************************************************)
EXTENDS RelayRuntime

PCs == {"idle", "direct", "create", "created", "complete_read", "complete",
        "joined", "effects", "effect_save", "poll_read", "poll_status",
        "poll_save", "timeout_save", "retry_read", "retry_call", "retry_save",
        "fallback_read", "fallback", "resume_next"}

CallerStates == [pc      : PCs,
                 flow    : {"once", "await", "resume"},
                 op      : Ops,
                 rec     : PendingOperations,
                 report  : Reports,
                 tx      : Txs \cup {NoTx},
                 attempt : Nat,
                 todo    : SUBSET Ops]

\* Every variable keeps its shape.
TypeOK ==
    /\ store \in [Ops -> PendingOperations]
    /\ callers \in [Callers -> CallerStates]
    /\ inFlight \subseteq Ops \X (Txs \cup {NoTx})
    /\ submitted \subseteq Ops
    /\ submitters \subseteq submitted
    /\ walletAsked \subseteq submitted
    /\ runs \in [Ops -> [Effects -> Nat]]
    /\ calls \in Nat /\ faults \in Nat /\ reloads \in Nat
    /\ relay \in [Ops -> Reports]
    /\ ledger \in [Ops -> Txs \cup {NoTx}]

Performed(op) == {e \in Effects : runs[op][e] > 0}

---------------------------------------------------------------------------
\* Under any interleaving of calls, failures and reloads.

\* A stored completion flag is never ahead of its effect: what the store says
\* was finalized, delivered or recorded really was, so a reload can skip it.
FlagsTruthful == \A op \in Ops : store[op].done \subseteq Performed(op)

\* An escrow send is never handed to the wallet, neither on submission nor as
\* a fallback after its admission failed.
EscrowNeverDirect == walletAsked \cap EscrowOps = {}

\* A completion runs in one caller only, and a caller that joined one is
\* never left waiting for a completion nobody runs.
InFlightOwned ==
    /\ \A c, d \in Callers :
         Completing(c) /\ Completing(d) /\ SuccessKey(c) = SuccessKey(d) => c = d
    /\ \A d \in Callers :
         At(d, "joined") => \E c \in Callers : Completing(c) /\ Joined(d, c)

\* The runtime implements the abstract settlement of its operations: one
\* landing each, escrow sends through the relayer only, and the effects of a
\* success only after it landed and in their order.
Settlement == INSTANCE OperationSettlement
                WITH performed <- [op \in Ops |-> Performed(op)]

ImplementsSettlement == Settlement!Spec

---------------------------------------------------------------------------
\* When the host makes one call at a time.

\* A side effect is repeated only because a reload or a failing port call
\* came between it and the saving of its flag.
EffectsRepeatOnlyAfterLoss ==
    \A op \in Ops : \A e \in Effects : runs[op][e] <= 1 + reloads + faults

\* The store never forgets a completed step of an operation.
FlagsNeverRevert == [][\A op \in Ops : store[op].done \subseteq store'[op].done]_vars

\* When moreover no answer of the relayer is lost: the wallet is never asked
\* to submit an operation the relayer has admitted.
DirectExcludesRelay == \A op \in walletAsked : relay[op].status = NoStatus

\* ... and an operation shown as rejected has not landed.
RejectedNeverLands ==
    \A op \in Ops : store[op].phase = "rejected" => ledger[op] = NoTx

---------------------------------------------------------------------------
\* Under FairSpec.

\* Every call the host makes returns: the settlement wait and the resume loop
\* are bounded, and nobody waits on a completion for ever.
CallsReturn == \A c \in Callers : ~At(c, "idle") ~> At(c, "idle")

\* An operation whose request the store knows is finalized once the relayer
\* has carried it out, whatever the reloads, failures and timeouts before.
RelaySuccessFinalized ==
    \A op \in Ops :
        (relay[op].status = "succeeded" /\ store[op].requested) ~> Finalized(store[op])

\* When no reload and no failing port call comes in between, an operation that
\* landed has all its effects performed: overlapping calls lose none of them.
EffectsCompleted == \A op \in Ops : ledger[op] # NoTx ~> Performed(op) = Effects

---------------------------------------------------------------------------
\* What the tests of the repository say, and the code does not do.

\* routing-and-recovery.test.ts:81 'does not re-drain when success polling
\* overlaps': without reloads or failures, deliveries are drained once.
DrainedOnce == \A op \in Ops : runs[op]["drain"] <= 1

\* routing-and-recovery.test.ts:55 'resumes polling after reload and
\* finalizes success exactly once', which includes one drain of the
\* deliveries: what is finalized is eventually delivered.
FinalizedIsDelivered ==
    \A op \in Ops : Finalized(store[op]) ~> "drain" \in store[op].done

\* fallback-gating.test.ts:47 'never offers direct fallback while submitted
\* or reconciling': the wallet is not asked to submit an operation whose
\* relay request is in one of these statuses.
NoDirectWhileOnChain ==
    [][\A op \in walletAsked' \ walletAsked : relay[op].status \notin OnChain]_vars
=============================================================================
