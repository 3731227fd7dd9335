----------------------------- MODULE ProofPlan -----------------------------
(***************************************************************************)
(* What the SDK asks the prover for: one deposit, transfer, withdrawal or  *)
(* escrow sweep from its preparation to the nonce it is submitted under    *)
(* (packages/stellar/src/transact: engine, proofs, fees, pool, relay,      *)
(* escrow).  The amounts, the slots, the hints and the circuit of a proof  *)
(* are chosen by different files, at different times, from different       *)
(* inputs; the module is about whether they agree.                         *)
(*                                                                         *)
(* A slot is named by what it is for.  An option (a value that may be      *)
(* undefined, or a call that may throw) is a set of at most one element.   *)
(***************************************************************************)
EXTENDS Integers, Sequences, FiniteSets

CONSTANTS
    NoteValues,     \* the values of the notes that are spent
    PlanAmounts,    \* the instructed amounts
    QuotedFees,     \* the fees the KYT service may quote
    Configured,     \* the zkConfigNonce of the environment: sets of at most one nonce
    Circuits        \* the nonces for which the environment has a circuit

ASSUME PlanAssumption ==
    /\ NoteValues \subseteq Nat
    /\ PlanAmounts \subseteq Nat
    /\ QuotedFees \subseteq Nat

VARIABLES
    intent,         \* what is asked for: kind, amount, notes, recipient, configuration
    registered,     \* the recipient account has a private address on chain
    stage,          \* "asked", "prepared", "finalized", "submitted", or "refused"
    artifacts,      \* transactArtifacts: the flags and the nonce
    plan,           \* the instance given to the prover, if any
    route,          \* the submission method the host was told, if any
    sent            \* the nonces of a submission or of a relay package, if any

planVars == <<intent, registered, stage, artifacts, plan, route, sent>>

---------------------------------------------------------------------------
\* Circuits and their public signals.

StandardNonce == 0
CommitmentV2Nonce == 2
BindingNonce == 3
SixBySixNonce == 6
SixBySixBindingNonce == 7

\* nIns and nOuts of the layout of a nonce, and nAuditSlots.
Side(nonce) == IF nonce \in {SixBySixNonce, SixBySixBindingNonce} THEN 6 ELSE 2
AuditSlots(nonce) == 2 * Side(nonce)

\* The circuits themselves: how many public signals a proof has, where the
\* public legs end up (they come last), as the conformance vectors record it.
CircuitSignals(nonce) ==
    CASE nonce = StandardNonce -> 93 [] nonce = CommitmentV2Nonce -> 95
      [] nonce = BindingNonce -> 29 [] nonce = SixBySixNonce -> 259
      [] OTHER -> 57

\* Mutant of ProfileFromShape: the public legs the other way round.
ProfileLegsSwapped(side, audit, prefix, ciphertextsInPublic) ==
    LET auditOffset == side + side + 2 * side
        notes == IF ciphertextsInPublic THEN auditOffset + 2 * audit + 12 * audit + audit
                                        ELSE auditOffset + 2 + audit
        outputs == notes + side + (IF ciphertextsInPublic THEN 6 * side ELSE 0)
    IN [signalCount |-> outputs + prefix + 2 + 2 + 1 + 1,
        publicDeposit |-> outputs + prefix + 5,
        publicWithdrawal |-> outputs + prefix + 4]

\* profileFromShape.
ProfileFromShape(side, audit, prefix, ciphertextsInPublic) ==
    LET auditOffset == side + side + 2 * side
        notes == IF ciphertextsInPublic THEN auditOffset + 2 * audit + 12 * audit + audit
                                        ELSE auditOffset + 2 + audit
        outputs == notes + side + (IF ciphertextsInPublic THEN 6 * side ELSE 0)
    IN [signalCount |-> outputs + prefix + 2 + 2 + 1 + 1,
        publicDeposit |-> outputs + prefix + 4,
        publicWithdrawal |-> outputs + prefix + 5]

\* relayLayoutProfileForNonce.
RelayLayoutProfile(nonce) ==
    ProfileFromShape(Side(nonce), AuditSlots(nonce),
                     IF nonce = StandardNonce THEN 5 ELSE 7,
                     nonce \in {StandardNonce, CommitmentV2Nonce, SixBySixNonce})

\* What a proof has at a position of its public signals, for the legs.
SignalAt(proof, i) ==
    CASE i = CircuitSignals(proof.nonce) - 2 -> proof.publicDeposit
      [] i = CircuitSignals(proof.nonce) - 1 -> proof.publicWithdrawal
      [] OTHER -> -1

\* assertSupportedPublicSignals and sliceSupportedPublicSignalFields.
SupportedSignals(proof, nonce) ==
    CircuitSignals(proof.nonce) = RelayLayoutProfile(nonce).signalCount

---------------------------------------------------------------------------
\* Nonces and fees.

\* shouldAttachFeeOutput.
ShouldAttachFeeOutput(k) ==
    /\ ~(k.spendSource = "escrow" /\ ~k.escrowSend)
    /\ k.kind \in {"deposit", "transfer", "withdraw"}

\* feeOutputKindFromPrepared: what the prepared operation says, before it is finalized.
FeeOutputKind(kind, a) == [kind |-> kind, spendSource |-> a.spendSource, escrowSend |-> a.escrowSend]

PlainKind(kind) == [kind |-> kind, spendSource |-> "wallet", escrowSend |-> FALSE]

\* resolveZkConfigNonce.
ResolveZkConfigNonce(configured) ==
    IF configured = {} THEN BindingNonce ELSE CHOOSE n \in configured : TRUE

\* zkConfigNonceForFeeBearingKind.
FeeBearingNonce(k, configured) ==
    IF \/ configured = {SixBySixBindingNonce}
       \/ k.kind = "transfer" /\ ShouldAttachFeeOutput(k)
      THEN SixBySixBindingNonce
      ELSE ResolveZkConfigNonce(configured)

\* Mutant of TransactNonce: the nonce of the configuration, whatever was proved.
TransactConfigured(a, configured) == ResolveZkConfigNonce(configured)

\* transactNonceFromArtifacts.
TransactNonce(a, configured) ==
    IF a.nonce = {} THEN ResolveZkConfigNonce(configured) ELSE CHOOSE n \in a.nonce : TRUE

\* quoteRequestForPrepared and feeQuoteRequestBody: an amount of 0 is not sent.
FeeQuoteRequest(i) ==
    [leg |-> i.kind, amount |-> {i.amount} \ {0}, spendsNotes |-> i.kind # "deposit"]

\* quoteRequiredFee: the service answers a fee, or the call throws.
QuoteRequiredFee(request) == {f \in QuotedFees : request.amount # {}}

\* quoteFeeOutputForPrepared: the fee of the output it returns; 0 when it returns none.
FeeOutput(i, a) ==
    IF ShouldAttachFeeOutput(FeeOutputKind(i.kind, a)) THEN QuoteRequiredFee(FeeQuoteRequest(i)) ELSE {0}

\* Mutant of Remaining: the fee is checked and not taken.
RemainingWithFee(available, instructed, fee) ==
    {r \in {available - instructed} : available - instructed - fee >= 0}

\* remainingAfterRequiredFee.
Remaining(available, instructed, fee) == {r \in {available - instructed - fee} : r >= 0}

\* withdrawFeeProofFields: the fee of a withdrawal, and whom its change goes to
\* when there is any; the call throws when the notes do not cover both.
WithdrawFeeFields(i, a, available) ==
    {[fee |-> f, changeTo |-> IF Remaining(available, i.amount, f) = {0} THEN "nobody" ELSE "self"] :
        f \in {g \in FeeOutput(i, a) : Remaining(available, i.amount, g) # {}}}

\* readChangeRecipient, of the change a transfer expects.
ChangeRecipient(i, available, fee) ==
    IF available - i.amount - fee > 0 THEN "self" ELSE "nobody"

\* appendFeeOutputSlot: a slot for the collector, after the others.
FeeSlot(fee) == IF fee > 0 THEN <<"fee">> ELSE <<>>

---------------------------------------------------------------------------
\* The instance given to the prover.

NoPlan == [refusal |-> "none", nonce |-> BindingNonce, spent |-> 0, publicDeposit |-> 0,
           publicWithdrawal |-> 0, own |-> 0, change |-> 0, fee |-> 0, inputs |-> <<>>,
           slots |-> <<>>, inputHints |-> <<>>, outputHints |-> <<>>, owner |-> "nobody"]

Refused(why) == [NoPlan EXCEPT !.refusal = why]

\* MIN_CONFIDENTIAL_TRANSFER_STROOPS.
MinTransfer == 1

\* requireChangeRecipientWhenPartial, after the amounts: what is left of the
\* notes needs an address to go to.
Refusal(left, changeTo) ==
    IF left = {} THEN "amount"
    ELSE IF left # {0} /\ changeTo = "nobody" THEN "recipient" ELSE "none"

\* buildApplicationIdHints and the padding of the slots: too many throw.
\* proveTransaction is the prover's; it needs the circuit of its SDK.
Prove(nonce, instance) ==
    IF nonce \notin Circuits THEN Refused("circuit")
    ELSE IF \/ Len(instance.inputs) > Side(nonce) \/ Len(instance.slots) > Side(nonce)
            \/ Len(instance.outputHints) > Side(nonce)
      THEN Refused("slots")
      ELSE [instance EXCEPT !.nonce = nonce]

\* Legs, outputs and their hints in one instance.
Instance(inputs, spent, legs, values, slots, hints) ==
    [NoPlan EXCEPT !.spent = spent, !.publicDeposit = legs[1], !.publicWithdrawal = legs[2],
                   !.own = values[1], !.change = values[2], !.fee = values[3], !.inputs = inputs,
                   !.slots = slots, !.inputHints = [j \in 1..Len(inputs) |-> "own"], !.outputHints = hints]

\* buildPublicDepositLegs, buildPublicWithdrawLegs, buildZeroPublicLegs.
DepositLegs(amount) == <<amount, 0>>
WithdrawLegs(amount) == <<0, amount>>
ZeroLegs == <<0, 0>>

\* The total of the spent notes: one, or two under one root.
Spent(i) == i.notes[1] + (IF Len(i.notes) = 2 THEN i.notes[2] ELSE 0)

\* withdrawWitnessForCoin: the application of a witness is the note's own;
\* buildPrimaryWithdrawForCoin takes the client's.
NoteApplications(i) == [j \in 1..Len(i.notes) |-> i.application]

\* createAlignedDepositWithProof: the fee comes out of the instructed amount,
\* and what is left of it must be positive.
UserAmount(i, fee) == {u \in {i.amount - fee} : u > 0}

\* proveDepositTransact and outputApplicationIds.
DepositPlan(i, nonce, user, fee, deposited) ==
    LET slots == <<"own">> \o FeeSlot(fee)
    IN Prove(nonce, Instance(<<>>, 0, DepositLegs(deposited), <<user, 0, fee>>, slots,
                             [j \in 1..Len(slots) |-> "own"]))

\* submitSorobanDeposit: a coin the host made, no fee, and no amount but the coin's.
SorobanDepositPlan(i, nonce) == DepositPlan(i, nonce, i.amount, 0, i.amount)

\* resolveWithdrawChangeDeposits, withdrawDepositsWithFee.
WithdrawSlots(change, fee) == (IF change > 0 THEN <<"change">> ELSE <<>>) \o FeeSlot(fee)

\* withdrawOutputApplicationIds: one hint for each slot, and never none.
WithdrawHints(change, fee) ==
    IF change = 0 /\ fee = 0 THEN <<"0">>
    ELSE (IF change > 0 THEN <<"own">> ELSE <<>>) \o (IF fee > 0 THEN <<"own">> ELSE <<>>)

WithdrawInstance(i, applications, change, fee) ==
    Instance(applications, Spent(i), WithdrawLegs(i.amount), <<0, change, fee>>,
             WithdrawSlots(change, fee), WithdrawHints(change, fee))

\* validateSingleWithdrawAmounts, validateDualWithdrawAmounts.
SingleWithdrawLeft(i, fee) ==
    {c \in Remaining(i.notes[1], i.amount, fee) : i.amount >= MinTransfer}
DualWithdrawLeft(i, fee) ==
    {c \in Remaining(i.notes[1] + i.notes[2], i.amount, fee) : i.amount >= MinTransfer}

\* proveWithdrawTransact with prepareSingleWithdrawProofInputs.
SingleWithdrawPlan(i, nonce, fields) ==
    LET left == SingleWithdrawLeft(i, fields.fee)
        refusal == Refusal(left, fields.changeTo)
    IN IF refusal # "none" THEN Refused(refusal)
       ELSE Prove(nonce, WithdrawInstance(i, <<"own">>, CHOOSE c \in left : TRUE, fields.fee))

\* proveWithdrawTransactDual with prepareDualWithdrawProofInputs.
DualWithdrawPlan(i, nonce, fields) ==
    LET left == DualWithdrawLeft(i, fields.fee)
        refusal == Refusal(left, fields.changeTo)
    IN IF refusal # "none" THEN Refused(refusal)
       ELSE Prove(nonce, WithdrawInstance(i, NoteApplications(i), CHOOSE c \in left : TRUE, fields.fee))

\* finalizeWithdrawAtExecute: one or two notes.
WithdrawPlan(i, nonce, fields) ==
    IF Len(i.notes) = 1 THEN SingleWithdrawPlan(i, nonce, fields)
                        ELSE DualWithdrawPlan(i, nonce, fields)

\* buildRecipientAndOptionalChangeDeposits, recipientOnlyDeposits.
TransferSlots(change, fee) ==
    <<"own">> \o (IF change > 0 THEN <<"change">> ELSE IF fee > 0 THEN <<>> ELSE <<"dummy">>)
              \o FeeSlot(fee)

\* Mutant of TransferHints: a hint for the dummy although the fee has its place.
TransferHintsPadded(change, fee) ==
    <<"own">> \o (IF change > 0 THEN <<"own">> ELSE <<"0">>) \o (IF fee > 0 THEN <<"own">> ELSE <<>>)

\* buildSingleTransferApplicationIds, and the same in dual.ts.
TransferHints(change, fee) ==
    <<"own">> \o (IF change > 0 THEN <<"own">> ELSE IF fee = 0 THEN <<"0">> ELSE <<>>)
              \o (IF fee > 0 THEN <<"own">> ELSE <<>>)

\* spendWithdrawForTransfer, and the two legs of dual.ts: whatever stamp the
\* witnesses get for an escrow, their application is that of the note.
TransferWitnesses(i) == NoteApplications(i)

\* buildSenderTransferDepositsAndPublicInput: what the outputs and the public
\* input of a transfer are made of.
TransferInstance(i, owner, change, fee) ==
    [Instance(TransferWitnesses(i), Spent(i), ZeroLegs, <<i.amount, change, fee>>,
              TransferSlots(change, fee), TransferHints(change, fee)) EXCEPT !.owner = owner]

\* validateSingleCoinTransferAmounts, dualTransferChangeStroops.
SingleTransferLeft(i, fee) ==
    {c \in Remaining(i.notes[1], i.amount, fee) : i.amount >= MinTransfer}
DualTransferLeft(i, fee) ==
    {c \in Remaining(i.notes[1] + i.notes[2], i.amount, fee) : i.amount >= MinTransfer}

\* prepareConfidentialTransferProof.
SingleTransferPlan(i, owner, nonce, fee) ==
    LET left == SingleTransferLeft(i, fee)
        refusal == Refusal(left, ChangeRecipient(i, i.notes[1], fee))
    IN IF refusal # "none" THEN Refused(refusal)
       ELSE Prove(nonce, TransferInstance(i, owner, CHOOSE c \in left : TRUE, fee))

\* prepareConfidentialTransferProofDual.
DualTransferPlan(i, owner, nonce, fee) ==
    LET left == DualTransferLeft(i, fee)
        refusal == Refusal(left, ChangeRecipient(i, i.notes[1] + i.notes[2], fee))
    IN IF refusal # "none" THEN Refused(refusal)
       ELSE Prove(nonce, TransferInstance(i, owner, CHOOSE c \in left : TRUE, fee))

\* buildTransferProofAtExecute: one or two notes.
TransferPlan(i, owner, nonce, fee) ==
    IF Len(i.notes) = 1 THEN SingleTransferPlan(i, owner, nonce, fee)
                        ELSE DualTransferPlan(i, owner, nonce, fee)

---------------------------------------------------------------------------
\* Artifacts and the route.

NoArtifacts == [spendSource |-> "wallet", escrowSend |-> FALSE, limbs |-> FALSE, nonce |-> {}]

\* isStellarAccountRecipient: only a transfer looks its recipient up.
ToAccount(i) == i.kind = "transfer" /\ i.to = "account"

\* resolveTransferRecipientFromChain: an account without a private address is
\* sent to an address derived for it, with an escrow note.
EscrowSend(i) == ToAccount(i) /\ ~registered

\* stampEscrowSendArtifacts.
StampedArtifacts(i) ==
    IF EscrowSend(i) THEN [NoArtifacts EXCEPT !.escrowSend = TRUE, !.spendSource = "escrow"]
                     ELSE NoArtifacts

\* sweepTransactArtifacts.
SweepArtifacts == [NoArtifacts EXCEPT !.spendSource = "escrow", !.limbs = TRUE]

\* resolveTransferRecipientForExecute: looked up again at the execution.
TransferOwner(i) == IF EscrowSend(i) THEN "escrow" ELSE "recipient"

\* escrowSpendArtifacts, merged over the prepared ones by finalizeSpendOperationAtExecute.
FinalArtifacts(i, a) ==
    IF EscrowSend(i) THEN [a EXCEPT !.escrowSend = TRUE, !.spendSource = "escrow"] ELSE a

\* feeBearingZkConfigNonce of the pool service, as the transfer proofs ask for it.
TransferProofNonce(i, a) ==
    FeeBearingNonce([PlainKind("transfer") EXCEPT !.spendSource = IF a.limbs THEN "escrow" ELSE @],
                    i.configured)

\* isEscrowPreparedOperation.
IsEscrow(a) == a.escrowSend \/ a.spendSource = "escrow"

\* publicDepositAmountFromPrepared: undefined before there is a proof; with the
\* layout of another circuit it throws.
PublicDeposit(nonce) ==
    IF plan = NoPlan THEN {} ELSE {SignalAt(plan, RelayLayoutProfile(nonce).publicDeposit)}

\* evaluateRequiredSubmissionMethod.
RequiredSubmissionMethod(a, nonce) ==
    IF plan # NoPlan /\ ~SupportedSignals(plan, nonce) THEN "throws"
    ELSE IF IsEscrow(a)
      THEN IF \E d \in PublicDeposit(nonce) : d > 0 THEN "throws"
           ELSE IF a.escrowSend THEN "relay" ELSE "direct"
      ELSE IF PublicDeposit(nonce) = {} THEN "throws"
           ELSE IF \E d \in PublicDeposit(nonce) : d > 0 THEN "direct" ELSE "relay"

---------------------------------------------------------------------------
\* Actions.

\* The recipient registers its private address.
RecipientRegisters ==
    /\ stage \in {"asked", "prepared"}
    /\ ToAccount(intent)
    /\ ~registered
    /\ registered' = TRUE
    /\ UNCHANGED <<intent, stage, artifacts, plan, route, sent>>

Settles(p) ==
    /\ plan' = p
    /\ stage' = IF p.refusal = "none" THEN "finalized" ELSE "refused"

\* prepareDepositOperation: a deposit is quoted and proved while it is prepared.
PrepareDeposit ==
    /\ stage = "asked" /\ intent.kind = "deposit"
    /\ LET nonce == FeeBearingNonce(PlainKind("deposit"), intent.configured)
       IN \E fee \in FeeOutput(intent, NoArtifacts) :
             /\ \/ /\ UserAmount(intent, fee) = {}
                   /\ Settles(Refused("amount"))
                \/ \E user \in UserAmount(intent, fee) :
                      Settles(DepositPlan(intent, nonce, user, fee, intent.amount))
             /\ artifacts' = [NoArtifacts EXCEPT !.nonce = {nonce}]
    /\ UNCHANGED <<intent, registered, route, sent>>

\* submitSorobanDeposit proves and submits in one call, with the configuration's nonce.
SorobanDeposit ==
    /\ stage = "asked" /\ intent.kind = "deposit" /\ intent.amount > 0
    /\ plan' = SorobanDepositPlan(intent, FeeBearingNonce(PlainKind("deposit"), intent.configured))
    /\ LET nonce == ResolveZkConfigNonce(intent.configured)
       IN \/ /\ plan'.refusal = "none"
             /\ stage' = "submitted"
             /\ sent' = {[by |-> "wallet", inspected |-> nonce, transacted |-> nonce]}
          \/ /\ plan'.refusal # "none"
             /\ stage' = "refused"
             /\ UNCHANGED sent
    /\ UNCHANGED <<intent, registered, artifacts, route>>

\* The quote of a deposit fails, or that of a spend, or the fee of a withdrawal
\* does not fit: the call throws.
QuoteFails ==
    /\ \/ stage = "asked" /\ intent.kind = "deposit"
       \/ stage = "prepared" /\ ShouldAttachFeeOutput(FeeOutputKind(intent.kind, artifacts))
    /\ stage' = "refused"
    /\ UNCHANGED <<intent, registered, artifacts, plan, route, sent>>

\* prepareSpendOperation: the flags only; the proof is left to the execution.
PrepareSpend ==
    /\ stage = "asked" /\ intent.kind \in {"transfer", "withdraw"} /\ ~intent.sweep
    /\ artifacts' = StampedArtifacts(intent)
    /\ stage' = "prepared"
    /\ UNCHANGED <<intent, registered, plan, route, sent>>

\* prepareEscrowSweepOperation: one escrow note, all of it, to the wallet itself.
PrepareSweep ==
    /\ stage = "asked" /\ intent.sweep
    /\ artifacts' = SweepArtifacts
    /\ stage' = "prepared"
    /\ UNCHANGED <<intent, registered, plan, route, sent>>

\* finalizeTransferAtExecute, runTransferFinalizeSteps.
FinalizeTransfer ==
    /\ stage = "prepared" /\ intent.kind = "transfer"
    /\ LET nonce == TransferProofNonce(intent, artifacts)
       IN \E fee \in FeeOutput(intent, artifacts) :
             Settles(TransferPlan(intent, TransferOwner(intent), nonce, fee))
    /\ artifacts' = [FinalArtifacts(intent, artifacts) EXCEPT
           !.nonce = {FeeBearingNonce(FeeOutputKind(intent.kind, artifacts), intent.configured)}]
    /\ UNCHANGED <<intent, registered, route, sent>>

\* finalizeWithdrawAtExecute, with withdrawFeeProofFields.
FinalizeWithdraw ==
    /\ stage = "prepared" /\ intent.kind = "withdraw"
    /\ LET nonce == FeeBearingNonce(PlainKind("withdraw"), intent.configured)
       IN \E fields \in WithdrawFeeFields(intent, artifacts, Spent(intent)) :
             /\ Settles(WithdrawPlan(intent, nonce, fields))
             /\ artifacts' = [artifacts EXCEPT !.nonce = {nonce}]
    /\ UNCHANGED <<intent, registered, route, sent>>

\* The host asks requiredSubmissionMethod, with the nonce of the artifacts or
\* with that of the configuration.
AskRoute ==
    /\ stage \in {"prepared", "finalized"}
    /\ \E nonce \in {TransactNonce(artifacts, intent.configured),
                     ResolveZkConfigNonce(intent.configured)} :
          route' = {RequiredSubmissionMethod(artifacts, nonce)}
    /\ UNCHANGED <<intent, registered, stage, artifacts, plan, sent>>

\* submitPreparedDeposit and submitPreparedPoolTransact: the passage is asked
\* for, and the pool is called, with these nonces.
SubmitDirect ==
    /\ stage = "finalized"
    /\ stage' = "submitted"
    /\ sent' = {[by |-> "wallet", inspected |-> TransactNonce(artifacts, intent.configured),
                 transacted |-> TransactNonce(artifacts, intent.configured)]}
    /\ UNCHANGED <<intent, registered, artifacts, plan, route>>

\* submitSorobanConfidentialTransfer: the host hands over the proof and the nonce
\* that came with it; without one the configuration's is taken.
SubmitConfidentialTransfer ==
    /\ stage = "finalized" /\ intent.kind = "transfer"
    /\ stage' = "submitted"
    /\ LET nonce == TransactNonce(artifacts, intent.configured)
       IN sent' = {[by |-> "host", inspected |-> nonce, transacted |-> nonce]}
    /\ UNCHANGED <<intent, registered, artifacts, plan, route>>

\* prepareRelayTransactPackage: the relayer inspects and calls with its nonce.
RelayPackage(nonce) == [by |-> "relay", inspected |-> nonce, transacted |-> nonce]

\* prepareRelayTransactPackageFromPrepared; without a nonce, the default one.
PackageForRelay ==
    /\ stage = "finalized"
    /\ LET nonce == ResolveZkConfigNonce(artifacts.nonce)
       IN /\ SupportedSignals(plan, nonce)
          /\ sent' = {RelayPackage(nonce)}
    /\ stage' = "submitted"
    /\ UNCHANGED <<intent, registered, artifacts, plan, route>>

---------------------------------------------------------------------------
Notes == {<<v>> : v \in NoteValues} \cup {<<v, w>> : v, w \in NoteValues}

Intent(kind, amount, notes, to, application, configured, sweep) ==
    [kind |-> kind, amount |-> amount, notes |-> notes, to |-> to,
     application |-> application, configured |-> configured, sweep |-> sweep]

Intents ==
    {Intent("deposit", a, <<0>>, "private", "own", k, FALSE) : a \in PlanAmounts, k \in Configured}
    \cup {Intent("transfer", a, n, to, "own", k, FALSE) :
            a \in PlanAmounts, n \in Notes, to \in {"account", "private"}, k \in Configured}
    \cup {Intent("withdraw", a, n, "account", p, k, FALSE) :
            a \in PlanAmounts, n \in Notes, p \in {"own", "other"}, k \in Configured}
    \cup {Intent("transfer", v, <<v>>, "private", p, k, TRUE) :
            v \in NoteValues, p \in {"own", "other"}, k \in Configured}

PlanInit ==
    /\ intent \in Intents
    /\ registered \in BOOLEAN
    /\ stage = "asked"
    /\ artifacts = NoArtifacts
    /\ plan = NoPlan
    /\ route = {}
    /\ sent = {}

PlanNext ==
    \/ RecipientRegisters
    \/ PrepareDeposit \/ SorobanDeposit \/ PrepareSpend \/ PrepareSweep
    \/ QuoteFails \/ FinalizeTransfer \/ FinalizeWithdraw
    \/ AskRoute \/ SubmitDirect \/ SubmitConfidentialTransfer \/ PackageForRelay

PlanSpec == PlanInit /\ [][PlanNext]_planVars

---------------------------------------------------------------------------
\* Properties.

Planned == plan # NoPlan /\ plan.refusal = "none"

\* No value appears or vanishes: what the notes and the public deposit bring is
\* what the outputs and the public withdrawal take (the change and the fee are
\* computed in other files than the legs and the outputs).
ValueConserved ==
    Planned => plan.spent + plan.publicDeposit
                 = plan.own + plan.change + plan.fee + plan.publicWithdrawal

\* Each value that is not zero has one slot, and each slot but a dummy has a value.
SlotsCarryValues ==
    /\ \A j, k \in DOMAIN plan.slots : plan.slots[j] = plan.slots[k] => j = k
    /\ \A r \in {"own", "change", "fee"} :
          (plan[r] > 0) <=> \E j \in DOMAIN plan.slots : plan.slots[j] = r

\* The hints name the application of each slot, position by position.
HintsMatchSlots ==
    /\ plan.inputHints = plan.inputs
    /\ \A j \in 1..Side(plan.nonce) :
          LET real == j <= Len(plan.slots) /\ plan.slots[j] # "dummy"
              hint == IF j <= Len(plan.outputHints) THEN plan.outputHints[j] ELSE "0"
          IN hint = IF real THEN "own" ELSE "0"

\* The values, the slots and the hints of a proof, which four files build
\* (recipient-change-deposits.ts, fee-deposits.ts, append-fee-output.ts,
\* single.ts), agree; the hints when the spent notes are of the wallet's own
\* application.  And no operation is refused because its proof has more outputs
\* than its circuit, whose nonce is chosen before the fee and the change are known
\* (zk-config-nonce-for-kind.ts), or because its change was given no address
\* (withdraw-fee.ts, transfer-proof-at-execute.ts).
OutputsAgree ==
    /\ plan.refusal \notin {"slots", "recipient"}
    /\ Planned => SlotsCarryValues
    /\ (Planned /\ intent.application = "own") => HintsMatchSlots

\* The circuit of the proof, the nonce the passage is asked for, the nonce the
\* pool is called with and the nonce of a relay package are one, even when the
\* recipient registered between the preparation and the execution.
NonceAgrees == \A s \in sent : s.inspected = plan.nonce /\ s.transacted = plan.nonce

\* The route that the host is told is the one the public legs call for, whichever
\* nonce it asks with, and also when it asked before there was a proof: a deposit
\* and a sweep by the wallet, any other spend by relay.
RouteMatchesLegs ==
    (Planned /\ route # {} /\ route # {"throws"}) =>
       route = IF plan.publicDeposit > 0 \/ intent.sweep THEN {"direct"} ELSE {"relay"}
=============================================================================
