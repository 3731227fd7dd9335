----------------------- MODULE TransactionPath_proof -----------------------
(***************************************************************************)
(* A planned transaction conserves value, for any notes, amounts, fees,    *)
(* nonces and circuits; and the pool call is sent after the transactions   *)
(* it needs, each under a sequence number of its own, for any number of    *)
(* submissions, ledgers, polls and other users of the account.  The chain  *)
(* derives for each output the number the plan gave it, and what the host  *)
(* is told of a transaction is what became of it.                          *)
(***************************************************************************)
EXTENDS TransactionPath, SequenceTheorems, TLAPS

---------------------------------------------------------------------------
\* What is given to the prover.

\* A plan that balances.
Balanced(p) == p.spent + p.publicDeposit = p.own + p.change + p.fee + p.publicWithdrawal

\* A refusal says nothing of value.
Sound(p) == p.refusal = "none" => Balanced(p)

LEMMA RefusedIsSound ==
  ASSUME NEW why, why # "none"
  PROVE  Sound(Refused(why))
BY DEF Sound, Refused, NoPlan

\* The prover keeps the amounts of the instance, or refuses it.
LEMMA ProveIsSound ==
  ASSUME NEW nonce, NEW inputs, NEW spent, NEW legs, NEW values, NEW slots, NEW hints,
         spent + legs[1] = values[1] + values[2] + values[3] + legs[2]
  PROVE  Sound(Prove(nonce, Instance(inputs, spent, legs, values, slots, hints)))
<1> DEFINE instance == Instance(inputs, spent, legs, values, slots, hints)
<1>1. /\ Balanced(instance)
      /\ Balanced([instance EXCEPT !.nonce = nonce])
  BY DEF Instance, NoPlan, Balanced
<1>2. \/ Prove(nonce, instance) = Refused("circuit")
      \/ Prove(nonce, instance) = Refused("slots")
      \/ Prove(nonce, instance) = [instance EXCEPT !.nonce = nonce]
  BY Zenon DEF Prove
<1> QED  BY <1>1, <1>2, RefusedIsSound DEF Sound

LEMMA TransferInstanceIsSound ==
  ASSUME NEW i, NEW owner, NEW change, NEW fee, NEW nonce,
         Spent(i) + 0 = i.amount + change + fee + 0
  PROVE  Sound(Prove(nonce, TransferInstance(i, owner, change, fee)))
<1> DEFINE instance == TransferInstance(i, owner, change, fee)
<1>1. /\ Balanced(instance)
      /\ Balanced([instance EXCEPT !.nonce = nonce])
  BY DEF TransferInstance, Instance, NoPlan, Balanced, ZeroLegs
<1>2. \/ Prove(nonce, instance) = Refused("circuit")
      \/ Prove(nonce, instance) = Refused("slots")
      \/ Prove(nonce, instance) = [instance EXCEPT !.nonce = nonce]
  BY Zenon DEF Prove
<1> QED  BY <1>1, <1>2, RefusedIsSound DEF Sound

---------------------------------------------------------------------------
\* What is asked for, and what the service quotes.

LEMMA IntentTypes ==
  ASSUME NEW i \in Intents
  PROVE  /\ i.amount \in Nat
         /\ \/ Len(i.notes) = 1 /\ i.notes[1] \in Nat /\ Spent(i) = i.notes[1]
            \/ Len(i.notes) = 2 /\ i.notes[1] \in Nat /\ i.notes[2] \in Nat
                                /\ Spent(i) = i.notes[1] + i.notes[2]
<1>1. i.amount \in PlanAmounts \cup NoteValues
  BY DEF Intents, Intent
<1>2. \/ \E v \in NoteValues \cup {0} : i.notes = <<v>>
      \/ \E v, w \in NoteValues : i.notes = <<v, w>>
  BY DEF Intents, Intent, Notes
<1>3. \/ \E v \in Nat : i.notes = <<v>>
      \/ \E v, w \in Nat : i.notes = <<v, w>>
  BY <1>2, PlanAssumption
<1>4. ASSUME NEW v \in Nat, i.notes = <<v>>
      PROVE  Len(i.notes) = 1 /\ i.notes[1] \in Nat /\ Spent(i) = i.notes[1]
  BY <1>4 DEF Spent
<1>5. ASSUME NEW v \in Nat, NEW w \in Nat, i.notes = <<v, w>>
      PROVE  /\ Len(i.notes) = 2 /\ i.notes[1] \in Nat /\ i.notes[2] \in Nat
             /\ Spent(i) = i.notes[1] + i.notes[2]
  BY <1>5 DEF Spent
<1> QED  BY <1>1, <1>3, <1>4, <1>5, PlanAssumption

LEMMA FeeTypes ==
  ASSUME NEW i, NEW a
  PROVE  FeeOutput(i, a) \subseteq Nat
<1> SUFFICES ASSUME NEW fee \in FeeOutput(i, a)
             PROVE  fee \in Nat
  OBVIOUS
<1>1. fee \in QuotedFees \/ fee = 0
  BY DEF FeeOutput, QuoteRequiredFee
<1>2. QuotedFees \subseteq Nat  BY PlanAssumption
<1>3. 0 \in Nat  OBVIOUS
<1> QED  BY <1>1, <1>2, <1>3, Zenon

---------------------------------------------------------------------------
\* Every plan the SDK makes is sound.

LEMMA DepositIsSound ==
  ASSUME NEW i, NEW nonce, NEW user \in Int, NEW fee \in Int
  PROVE  Sound(DepositPlan(i, nonce, user, fee, user + fee))
<1>1. 0 + DepositLegs(user + fee)[1]
        = <<user, 0, fee>>[1] + <<user, 0, fee>>[2] + <<user, 0, fee>>[3] + DepositLegs(user + fee)[2]
  BY DEF DepositLegs
<1> QED  BY <1>1, ProveIsSound, Zenon DEF DepositPlan

LEMMA WithdrawInstanceIsSound ==
  ASSUME NEW i, NEW applications, NEW change \in Int, NEW fee \in Int, NEW nonce,
         i.amount \in Int, Spent(i) = change + fee + i.amount
  PROVE  Sound(Prove(nonce, WithdrawInstance(i, applications, change, fee)))
<1>1. Spent(i) + WithdrawLegs(i.amount)[1]
        = <<0, change, fee>>[1] + <<0, change, fee>>[2] + <<0, change, fee>>[3]
            + WithdrawLegs(i.amount)[2]
  BY DEF WithdrawLegs
<1> QED  BY <1>1, ProveIsSound, Zenon DEF WithdrawInstance

\* A refusal of a spend has a reason.
LEMMA RefusalIsSound ==
  ASSUME NEW left, NEW changeTo
  PROVE  /\ Refusal(left, changeTo) # "none" => Sound(Refused(Refusal(left, changeTo)))
         /\ Refusal(left, changeTo) = "none" => left # {}
BY RefusedIsSound DEF Refusal

LEMMA WithdrawIsSound ==
  ASSUME NEW i \in Intents, NEW nonce, NEW fields, fields.fee \in Nat
  PROVE  Sound(WithdrawPlan(i, nonce, fields))
<1>1. CASE Len(i.notes) = 1
  <2> DEFINE left == SingleWithdrawLeft(i, fields.fee)
             c    == CHOOSE x \in left : TRUE
  <2>1. ASSUME left # {}
        PROVE  c \in Int /\ Spent(i) = c + fields.fee + i.amount
    <3>1. c \in left  BY <2>1
    <3> HIDE DEF c
    <3> QED  BY <1>1, <3>1, IntentTypes DEF SingleWithdrawLeft, Remaining
  <2> HIDE DEF c, left
  <2>2. Refusal(left, fields.changeTo) # "none" \/ left # {}
    BY RefusalIsSound
  <2>3. left # {} => Sound(Prove(nonce, WithdrawInstance(i, <<"own">>, c, fields.fee)))
    BY <2>1, WithdrawInstanceIsSound, IntentTypes
  <2>4. \/ WithdrawPlan(i, nonce, fields) = Refused(Refusal(left, fields.changeTo))
           /\ Refusal(left, fields.changeTo) # "none"
        \/ WithdrawPlan(i, nonce, fields)
             = Prove(nonce, WithdrawInstance(i, <<"own">>, c, fields.fee))
           /\ Refusal(left, fields.changeTo) = "none"
    BY <1>1, Zenon DEF WithdrawPlan, SingleWithdrawPlan, c, left
  <2> QED  BY <2>2, <2>3, <2>4, RefusalIsSound
<1>2. CASE Len(i.notes) # 1
  <2> DEFINE left == DualWithdrawLeft(i, fields.fee)
             c    == CHOOSE x \in left : TRUE
  <2>1. ASSUME left # {}
        PROVE  c \in Int /\ Spent(i) = c + fields.fee + i.amount
    <3>1. c \in left  BY <2>1
    <3> HIDE DEF c
    <3> QED  BY <1>2, <3>1, IntentTypes DEF DualWithdrawLeft, Remaining
  <2> HIDE DEF c, left
  <2>2. Refusal(left, fields.changeTo) # "none" \/ left # {}
    BY RefusalIsSound
  <2>3. left # {} => Sound(Prove(nonce, WithdrawInstance(i, NoteApplications(i), c, fields.fee)))
    BY <2>1, WithdrawInstanceIsSound, IntentTypes
  <2>4. \/ WithdrawPlan(i, nonce, fields) = Refused(Refusal(left, fields.changeTo))
           /\ Refusal(left, fields.changeTo) # "none"
        \/ WithdrawPlan(i, nonce, fields)
             = Prove(nonce, WithdrawInstance(i, NoteApplications(i), c, fields.fee))
           /\ Refusal(left, fields.changeTo) = "none"
    BY <1>2, Zenon DEF WithdrawPlan, DualWithdrawPlan, c, left
  <2> QED  BY <2>2, <2>3, <2>4, RefusalIsSound
<1> QED  BY <1>1, <1>2

LEMMA TransferIsSound ==
  ASSUME NEW i \in Intents, NEW owner, NEW nonce, NEW fee \in Nat
  PROVE  Sound(TransferPlan(i, owner, nonce, fee))
<1>1. CASE Len(i.notes) = 1
  <2> DEFINE left   == SingleTransferLeft(i, fee)
             c      == CHOOSE x \in left : TRUE
             target == ChangeRecipient(i, i.notes[1], fee)
  <2>1. ASSUME left # {}
        PROVE  Spent(i) + 0 = i.amount + c + fee + 0
    <3>1. c \in left  BY <2>1
    <3> HIDE DEF c
    <3> QED  BY <1>1, <3>1, IntentTypes DEF SingleTransferLeft, Remaining
  <2> HIDE DEF c, left, target
  <2>2. Refusal(left, target) # "none" \/ left # {}
    BY RefusalIsSound
  <2>3. left # {} => Sound(Prove(nonce, TransferInstance(i, owner, c, fee)))
    BY <2>1, TransferInstanceIsSound
  <2>4. \/ TransferPlan(i, owner, nonce, fee) = Refused(Refusal(left, target))
           /\ Refusal(left, target) # "none"
        \/ TransferPlan(i, owner, nonce, fee) = Prove(nonce, TransferInstance(i, owner, c, fee))
           /\ Refusal(left, target) = "none"
    BY <1>1, Zenon DEF TransferPlan, SingleTransferPlan, c, left, target
  <2> QED  BY <2>2, <2>3, <2>4, RefusalIsSound
<1>2. CASE Len(i.notes) # 1
  <2> DEFINE left   == DualTransferLeft(i, fee)
             c      == CHOOSE x \in left : TRUE
             target == ChangeRecipient(i, i.notes[1] + i.notes[2], fee)
  <2>1. ASSUME left # {}
        PROVE  Spent(i) + 0 = i.amount + c + fee + 0
    <3>1. c \in left  BY <2>1
    <3> HIDE DEF c
    <3> QED  BY <1>2, <3>1, IntentTypes DEF DualTransferLeft, Remaining
  <2> HIDE DEF c, left, target
  <2>2. Refusal(left, target) # "none" \/ left # {}
    BY RefusalIsSound
  <2>3. left # {} => Sound(Prove(nonce, TransferInstance(i, owner, c, fee)))
    BY <2>1, TransferInstanceIsSound
  <2>4. \/ TransferPlan(i, owner, nonce, fee) = Refused(Refusal(left, target))
           /\ Refusal(left, target) # "none"
        \/ TransferPlan(i, owner, nonce, fee) = Prove(nonce, TransferInstance(i, owner, c, fee))
           /\ Refusal(left, target) = "none"
    BY <1>2, Zenon DEF TransferPlan, DualTransferPlan, c, left, target
  <2> QED  BY <2>2, <2>3, <2>4, RefusalIsSound
<1> QED  BY <1>1, <1>2

---------------------------------------------------------------------------
\* The inductive invariant of the plan.
PlanInv == intent \in Intents /\ Sound(plan)

LEMMA PlanInvInit == PlanInit => PlanInv
BY DEF PlanInit, PlanInv, Sound, Balanced, NoPlan

LEMMA PlanStepKeeps == PlanInv /\ [PlanNext]_planVars => PlanInv'
<1> SUFFICES ASSUME PlanInv, [PlanNext]_planVars
             PROVE  PlanInv'
  OBVIOUS
<1> USE DEF PlanInv
<1>1. CASE PrepareDeposit
  <2>1. intent' = intent  BY <1>1 DEF PrepareDeposit
  <2>2. PICK fee, nonce :
           /\ fee \in FeeOutput(intent, NoArtifacts)
           /\ \/ Settles(Refused("amount"))
              \/ \E user \in UserAmount(intent, fee) :
                    Settles(DepositPlan(intent, nonce, user, fee, intent.amount))
    BY <1>1, Zenon DEF PrepareDeposit
  <2>3. CASE Settles(Refused("amount"))
    BY <2>1, <2>3, RefusedIsSound DEF Settles
  <2>4. ASSUME NEW user \in UserAmount(intent, fee),
               Settles(DepositPlan(intent, nonce, user, fee, intent.amount))
        PROVE  Sound(plan')
    <3>1. fee \in Nat /\ intent.amount \in Nat  BY <2>2, FeeTypes, IntentTypes
    <3>2. user \in Int /\ intent.amount = user + fee  BY <3>1 DEF UserAmount
    <3>3. Sound(DepositPlan(intent, nonce, user, fee, user + fee))  BY <3>1, <3>2, DepositIsSound
    <3> QED  BY <2>4, <3>2, <3>3 DEF Settles
  <2> QED  BY <2>1, <2>2, <2>3, <2>4
<1>2. CASE SorobanDeposit
  <2>1. PICK nonce : plan' = DepositPlan(intent, nonce, intent.amount, 0, intent.amount)
    BY <1>2, Zenon DEF SorobanDeposit, SorobanDepositPlan
  <2>2. intent.amount \in Int /\ intent.amount + 0 = intent.amount  BY IntentTypes
  <2>3. Sound(DepositPlan(intent, nonce, intent.amount, 0, intent.amount + 0))
    BY <2>2, DepositIsSound
  <2>4. Sound(plan')  BY <2>1, <2>2, <2>3
  <2> QED  BY <1>2, <2>4 DEF SorobanDeposit
<1>3. CASE FinalizeTransfer
  <2>1. PICK fee, owner, nonce :
           /\ fee \in FeeOutput(intent, artifacts)
           /\ plan' = TransferPlan(intent, owner, nonce, fee)
    BY <1>3, Zenon DEF FinalizeTransfer, Settles
  <2>2. Sound(plan')  BY <2>1, FeeTypes, TransferIsSound
  <2> QED  BY <1>3, <2>2 DEF FinalizeTransfer
<1>4. CASE FinalizeWithdraw
  <2>1. PICK fields, nonce :
           /\ fields \in WithdrawFeeFields(intent, artifacts, Spent(intent))
           /\ plan' = WithdrawPlan(intent, nonce, fields)
    BY <1>4, Zenon DEF FinalizeWithdraw, Settles
  <2>2. fields.fee \in Nat  BY <2>1, FeeTypes DEF WithdrawFeeFields
  <2>3. Sound(plan')  BY <2>1, <2>2, WithdrawIsSound
  <2> QED  BY <1>4, <2>3 DEF FinalizeWithdraw
<1>5. CASE \/ RecipientRegisters \/ PrepareSpend \/ PrepareSweep \/ QuoteFails \/ AskRoute
           \/ SubmitDirect \/ SubmitConfidentialTransfer \/ PackageForRelay
           \/ UNCHANGED planVars
  BY <1>5 DEF RecipientRegisters, PrepareSpend, PrepareSweep, QuoteFails, AskRoute,
              SubmitDirect, SubmitConfidentialTransfer, PackageForRelay, planVars
<1> QED  BY <1>1, <1>2, <1>3, <1>4, <1>5 DEF PlanNext

\* No deposit, transfer, withdrawal or sweep creates or loses value, whatever the
\* notes, the amounts, the quoted fee and the circuit: the change and the fee are
\* what remains of the notes in every path that reaches the prover.
THEOREM PlanConservesValue == PlanSpec => []ValueConserved
<1>1. PlanInv => ValueConserved
  BY DEF PlanInv, Sound, Balanced, ValueConserved, Planned
<1> QED  BY <1>1, PlanInvInit, PlanStepKeeps, PTL DEF PlanSpec

\* The same of the whole path.
THEOREM TransactionConservesValue == TransactionSpec => []ValueConserved
<1>1. TransactionInit => PlanInit  BY DEF TransactionInit
<1>2. [TransactionNext]_transactionVars => [PlanNext]_planVars
  BY DEF TransactionNext, transactionVars
<1> QED  BY <1>1, <1>2, PlanConservesValue, PTL DEF TransactionSpec, PlanSpec

---------------------------------------------------------------------------
\* The nonce of a proof and the nonces it is submitted under.

\* A plan that was not refused was made for this nonce.
MadeFor(p, nonce) == p.refusal = "none" => p.nonce = nonce

LEMMA InstanceMadeFor ==
  ASSUME NEW nonce, NEW instance, "nonce" \in DOMAIN instance
  PROVE  MadeFor(Prove(nonce, instance), nonce)
<1>1. [instance EXCEPT !.nonce = nonce].nonce = nonce  OBVIOUS
<1>2. Refused("circuit").refusal # "none" /\ Refused("slots").refusal # "none"
  BY DEF Refused, NoPlan
<1>3. \/ Prove(nonce, instance) = Refused("circuit")
      \/ Prove(nonce, instance) = Refused("slots")
      \/ Prove(nonce, instance) = [instance EXCEPT !.nonce = nonce]
  BY Zenon DEF Prove
<1> QED  BY <1>1, <1>2, <1>3 DEF MadeFor

LEMMA InstancesHaveNonces ==
  /\ \A inputs, spent, legs, values, slots, hints :
        "nonce" \in DOMAIN Instance(inputs, spent, legs, values, slots, hints)
  /\ \A i, owner, change, fee : "nonce" \in DOMAIN TransferInstance(i, owner, change, fee)
BY DEF TransferInstance, Instance, NoPlan

LEMMA RefusalMadeFor ==
  ASSUME NEW why, why # "none", NEW nonce
  PROVE  MadeFor(Refused(why), nonce)
BY DEF MadeFor, Refused, NoPlan

LEMMA DepositMadeFor ==
  ASSUME NEW i, NEW nonce, NEW user, NEW fee, NEW deposited
  PROVE  MadeFor(DepositPlan(i, nonce, user, fee, deposited), nonce)
BY InstanceMadeFor, InstancesHaveNonces, Zenon DEF DepositPlan

LEMMA WithdrawMadeFor ==
  ASSUME NEW i, NEW nonce, NEW fields
  PROVE  MadeFor(WithdrawPlan(i, nonce, fields), nonce)
BY InstanceMadeFor, InstancesHaveNonces, RefusalMadeFor, Zenon
DEF WithdrawPlan, SingleWithdrawPlan, DualWithdrawPlan, WithdrawInstance

LEMMA TransferMadeFor ==
  ASSUME NEW i, NEW owner, NEW nonce, NEW fee
  PROVE  MadeFor(TransferPlan(i, owner, nonce, fee), nonce)
BY InstanceMadeFor, InstancesHaveNonces, RefusalMadeFor, Zenon
DEF TransferPlan, SingleTransferPlan, DualTransferPlan

\* What a prepared spend says of itself: a sweep is the one that pays no fee.
PreparedArtifacts ==
  {NoArtifacts, [NoArtifacts EXCEPT !.escrowSend = TRUE, !.spendSource = "escrow"], SweepArtifacts}

\* The nonce a transfer is proved for is the nonce its artifacts get.
LEMMA TransferNonces ==
  ASSUME NEW i, NEW a \in PreparedArtifacts
  PROVE  TransferProofNonce(i, a) = FeeBearingNonce(FeeOutputKind("transfer", a), i.configured)
<1> DEFINE proved == [PlainKind("transfer") EXCEPT !.spendSource = IF a.limbs THEN "escrow" ELSE @]
           said   == FeeOutputKind("transfer", a)
<1>1. /\ proved.kind = "transfer" /\ ~proved.escrowSend
      /\ proved.spendSource = IF a.limbs THEN "escrow" ELSE "wallet"
  BY DEF PlainKind
<1>2. said.kind = "transfer" /\ said.spendSource = a.spendSource /\ said.escrowSend = a.escrowSend
  BY DEF FeeOutputKind
<1>3. a.limbs <=> (a.spendSource = "escrow" /\ ~a.escrowSend)
  <2>1. CASE a = NoArtifacts  BY <2>1 DEF NoArtifacts
  <2>2. CASE a = [NoArtifacts EXCEPT !.escrowSend = TRUE, !.spendSource = "escrow"]
    <3>1. a.escrowSend = TRUE /\ a.limbs = FALSE  BY <2>2 DEF NoArtifacts
    <3> QED  BY <3>1
  <2>3. CASE a = SweepArtifacts
    <3>1. a.escrowSend = FALSE /\ a.limbs = TRUE /\ a.spendSource = "escrow"
      BY <2>3 DEF NoArtifacts, SweepArtifacts
    <3> QED  BY <3>1
  <2> QED  BY <2>1, <2>2, <2>3 DEF PreparedArtifacts
<1> HIDE DEF proved, said
<1>4. ShouldAttachFeeOutput(proved) <=> ShouldAttachFeeOutput(said)
  BY <1>1, <1>2, <1>3 DEF ShouldAttachFeeOutput
<1>5. FeeBearingNonce(proved, i.configured) = FeeBearingNonce(said, i.configured)
  BY <1>1, <1>2, <1>4 DEF FeeBearingNonce
<1> QED  BY <1>5 DEF TransferProofNonce, proved, said

\* Only a proof of the binding circuit has the signals of the binding circuit.
LEMMA BindingSignals ==
  ASSUME NEW p, SupportedSignals(p, BindingNonce)
  PROVE  p.nonce = BindingNonce
<1>1. RelayLayoutProfile(BindingNonce).signalCount = 29
  BY DEF RelayLayoutProfile, ProfileFromShape, Side, AuditSlots, BindingNonce, StandardNonce,
         CommitmentV2Nonce, SixBySixNonce, SixBySixBindingNonce
<1> QED
  BY <1>1 DEF SupportedSignals, CircuitSignals, BindingNonce, StandardNonce, CommitmentV2Nonce,
              SixBySixNonce

\* A finalized operation carries the nonce of its proof, or none, and then the
\* configuration's is that of its proof.
NonceInv ==
  /\ stage = "asked" => sent = {}
  /\ stage = "prepared" => sent = {} /\ artifacts \in PreparedArtifacts
  /\ stage = "finalized" =>
        \/ artifacts.nonce = {plan.nonce}
        \/ artifacts.nonce = {} /\ plan.nonce = ResolveZkConfigNonce(intent.configured)
  /\ NonceAgrees

LEMMA NonceInvInit == PlanInit => NonceInv
BY DEF PlanInit, NonceInv, NonceAgrees

\* A proof is finalized with its nonce.
LEMMA SettlesWithNonce ==
  ASSUME NonceInv, NEW p, NEW nonce, MadeFor(p, nonce), Settles(p), sent' = sent, sent = {},
         artifacts'.nonce = {nonce}
  PROVE  NonceInv'
BY DEF NonceInv, NonceAgrees, Settles, MadeFor

LEMMA NonceStepKeeps == NonceInv /\ [PlanNext]_planVars => NonceInv'
<1> SUFFICES ASSUME NonceInv, [PlanNext]_planVars
             PROVE  NonceInv'
  OBVIOUS
<1>1. CASE PrepareDeposit
  <2> DEFINE nonce == FeeBearingNonce(PlainKind("deposit"), intent.configured)
  <2>1. /\ artifacts' = [NoArtifacts EXCEPT !.nonce = {nonce}]
        /\ \E p : Settles(p) /\ MadeFor(p, nonce)
    BY <1>1, DepositMadeFor, RefusalMadeFor DEF PrepareDeposit
  <2>2. artifacts'.nonce = {nonce}  BY <2>1 DEF NoArtifacts
  <2>3. sent' = sent /\ sent = {}  BY <1>1 DEF PrepareDeposit, NonceInv
  <2> QED  BY <2>1, <2>2, <2>3, SettlesWithNonce
<1>2. CASE SorobanDeposit
  <2> DEFINE nonce == FeeBearingNonce(PlainKind("deposit"), intent.configured)
  <2>1. plan' = SorobanDepositPlan(intent, nonce) /\ sent = {}
    BY <1>2 DEF SorobanDeposit, NonceInv
  <2>2. MadeFor(plan', nonce)  BY <2>1, DepositMadeFor DEF SorobanDepositPlan
  <2>3. nonce = ResolveZkConfigNonce(intent.configured)
    BY DEF FeeBearingNonce, PlainKind, ResolveZkConfigNonce
  <2> HIDE DEF nonce
  <2>4. CASE stage' = "submitted" /\ plan'.refusal = "none"
               /\ sent' = {[by |-> "wallet", inspected |-> nonce, transacted |-> nonce]}
    BY <2>2, <2>4 DEF NonceInv, NonceAgrees, MadeFor
  <2>5. CASE stage' = "refused" /\ sent' = {}
    BY <2>5 DEF NonceInv, NonceAgrees
  <2> QED  BY <1>2, <2>1, <2>3, <2>4, <2>5 DEF SorobanDeposit
<1>3. CASE FinalizeTransfer
  <2> DEFINE nonce == TransferProofNonce(intent, artifacts)
  <2>1. /\ artifacts \in PreparedArtifacts /\ sent = {} /\ sent' = sent /\ intent.kind = "transfer"
    BY <1>3 DEF FinalizeTransfer, NonceInv
  <2>2. \E p : Settles(p) /\ MadeFor(p, nonce)
    BY <1>3, TransferMadeFor DEF FinalizeTransfer
  <2>3. artifacts'.nonce = {FeeBearingNonce(FeeOutputKind("transfer", artifacts), intent.configured)}
    <3>1. "nonce" \in DOMAIN FinalArtifacts(intent, artifacts)
      BY <2>1 DEF FinalArtifacts, PreparedArtifacts, NoArtifacts, SweepArtifacts
    <3> QED  BY <1>3, <2>1, <3>1 DEF FinalizeTransfer
  <2>4. artifacts'.nonce = {nonce}  BY <2>1, <2>3, TransferNonces
  <2> QED  BY <2>1, <2>2, <2>4, SettlesWithNonce
<1>4. CASE FinalizeWithdraw
  <2> DEFINE nonce == FeeBearingNonce(PlainKind("withdraw"), intent.configured)
  <2>1. /\ artifacts \in PreparedArtifacts /\ sent = {} /\ sent' = sent
    BY <1>4 DEF FinalizeWithdraw, NonceInv
  <2>2. \E p : Settles(p) /\ MadeFor(p, nonce) /\ artifacts' = [artifacts EXCEPT !.nonce = {nonce}]
    BY <1>4, WithdrawMadeFor DEF FinalizeWithdraw
  <2>3. artifacts'.nonce = {nonce}
    BY <2>1, <2>2 DEF PreparedArtifacts, NoArtifacts, SweepArtifacts
  <2> QED  BY <2>1, <2>2, <2>3, SettlesWithNonce
<1>5. CASE PrepareSpend \/ PrepareSweep
  BY <1>5 DEF PrepareSpend, PrepareSweep, StampedArtifacts, PreparedArtifacts, NonceInv, NonceAgrees
<1>6. CASE SubmitDirect \/ SubmitConfidentialTransfer
  <2>1. TransactNonce(artifacts, intent.configured) = plan.nonce
    BY <1>6 DEF SubmitDirect, SubmitConfidentialTransfer, NonceInv, TransactNonce
  <2> QED  BY <1>6, <2>1 DEF SubmitDirect, SubmitConfidentialTransfer, NonceInv, NonceAgrees
<1>7. CASE PackageForRelay
  <2>1. ResolveZkConfigNonce(artifacts.nonce) = plan.nonce
    <3>1. CASE artifacts.nonce = {plan.nonce}  BY <3>1 DEF ResolveZkConfigNonce
    <3>2. CASE artifacts.nonce = {}
      BY <1>7, <3>2, BindingSignals DEF PackageForRelay, ResolveZkConfigNonce
    <3> QED  BY <1>7, <3>1, <3>2 DEF PackageForRelay, NonceInv
  <2> QED  BY <1>7, <2>1 DEF PackageForRelay, RelayPackage, NonceInv, NonceAgrees
<1>8. CASE RecipientRegisters \/ QuoteFails \/ AskRoute \/ UNCHANGED planVars
  BY <1>8 DEF RecipientRegisters, QuoteFails, AskRoute, planVars, NonceInv, NonceAgrees
<1> QED  BY <1>1, <1>2, <1>3, <1>4, <1>5, <1>6, <1>7, <1>8 DEF PlanNext

\* A proof is submitted under the nonce of its circuit and its passage is asked
\* for under the same one, by the wallet, by the host or by a relayer, whatever is
\* configured and whenever the recipient registers.
THEOREM NoncesAgree == TransactionSpec => []NonceAgrees
<1>1. TransactionInit => PlanInit  BY DEF TransactionInit
<1>2. [TransactionNext]_transactionVars => [PlanNext]_planVars
  BY DEF TransactionNext, transactionVars
<1>3. NonceInv => NonceAgrees  BY DEF NonceInv
<1> QED  BY <1>1, <1>2, <1>3, NonceInvInit, NonceStepKeeps, PTL DEF TransactionSpec

---------------------------------------------------------------------------
\* The route the host is told.

\* A plan that was not refused deposits this much.
Deposits(p, amount) == p.refusal = "none" => p.publicDeposit = amount

LEMMA InstanceDeposits ==
  ASSUME NEW nonce, NEW instance, {"nonce", "publicDeposit"} \subseteq DOMAIN instance,
         NEW amount, instance.publicDeposit = amount
  PROVE  Deposits(Prove(nonce, instance), amount)
<1>1. [instance EXCEPT !.nonce = nonce].publicDeposit = amount  OBVIOUS
<1>2. Refused("circuit").refusal # "none" /\ Refused("slots").refusal # "none"
  BY DEF Refused, NoPlan
<1>3. \/ Prove(nonce, instance) = Refused("circuit")
      \/ Prove(nonce, instance) = Refused("slots")
      \/ Prove(nonce, instance) = [instance EXCEPT !.nonce = nonce]
  BY Zenon DEF Prove
<1> QED  BY <1>1, <1>2, <1>3 DEF Deposits

LEMMA InstancesHaveLegs ==
  /\ \A inputs, spent, legs, values, slots, hints :
        LET instance == Instance(inputs, spent, legs, values, slots, hints)
        IN {"nonce", "publicDeposit"} \subseteq DOMAIN instance /\ instance.publicDeposit = legs[1]
  /\ \A i, owner, change, fee :
        LET instance == TransferInstance(i, owner, change, fee)
        IN {"nonce", "publicDeposit"} \subseteq DOMAIN instance /\ instance.publicDeposit = 0
<1>1. ASSUME NEW inputs, NEW spent, NEW legs, NEW values, NEW slots, NEW hints
      PROVE  LET instance == Instance(inputs, spent, legs, values, slots, hints)
             IN /\ {"nonce", "publicDeposit", "owner"} \subseteq DOMAIN instance
                /\ instance.publicDeposit = legs[1]
  BY DEF Instance, NoPlan
<1>2. ASSUME NEW i, NEW owner, NEW change, NEW fee
      PROVE  LET instance == TransferInstance(i, owner, change, fee)
             IN {"nonce", "publicDeposit"} \subseteq DOMAIN instance /\ instance.publicDeposit = 0
  BY <1>1 DEF TransferInstance, ZeroLegs
<1> QED  BY <1>1, <1>2

LEMMA RefusalDeposits ==
  ASSUME NEW why, why # "none", NEW amount
  PROVE  Deposits(Refused(why), amount)
BY DEF Deposits, Refused, NoPlan

LEMMA WithdrawDeposits ==
  ASSUME NEW i, NEW nonce, NEW fields
  PROVE  Deposits(WithdrawPlan(i, nonce, fields), 0)
<1>1. ASSUME NEW applications, NEW change, NEW fee
      PROVE  Deposits(Prove(nonce, WithdrawInstance(i, applications, change, fee)), 0)
  <2>1. WithdrawLegs(i.amount)[1] = 0  BY DEF WithdrawLegs
  <2>2. /\ {"nonce", "publicDeposit"} \subseteq DOMAIN WithdrawInstance(i, applications, change, fee)
        /\ WithdrawInstance(i, applications, change, fee).publicDeposit = 0
    BY <2>1, InstancesHaveLegs DEF WithdrawInstance
  <2> QED  BY <2>2, InstanceDeposits
<1> QED  BY <1>1, RefusalDeposits, Zenon DEF WithdrawPlan, SingleWithdrawPlan, DualWithdrawPlan

LEMMA TransferDeposits ==
  ASSUME NEW i, NEW owner, NEW nonce, NEW fee
  PROVE  Deposits(TransferPlan(i, owner, nonce, fee), 0)
<1>1. ASSUME NEW change, NEW f
      PROVE  Deposits(Prove(nonce, TransferInstance(i, owner, change, f)), 0)
  BY InstancesHaveLegs, InstanceDeposits
<1> QED  BY <1>1, RefusalDeposits, Zenon DEF TransferPlan, SingleTransferPlan, DualTransferPlan

\* A layout with as many signals as the proof has its public legs where the
\* proof has them.
LEMMA LegIsFound ==
  ASSUME NEW p, NEW nonce, SupportedSignals(p, nonce)
  PROVE  SignalAt(p, RelayLayoutProfile(nonce).publicDeposit) = p.publicDeposit
<1> DEFINE profile == RelayLayoutProfile(nonce)
<1>1. CircuitSignals(p.nonce) = profile.signalCount  BY DEF SupportedSignals
<1>2. profile.signalCount \in Int /\ profile.publicDeposit = profile.signalCount - 2
  <2>1. Side(nonce) \in Int /\ AuditSlots(nonce) \in Int  BY DEF Side, AuditSlots
  <2>2. ASSUME NEW side \in Int, NEW audit \in Int, NEW prefix \in Int, NEW inPublic
        PROVE  LET built == ProfileFromShape(side, audit, prefix, inPublic)
               IN built.signalCount \in Int /\ built.publicDeposit = built.signalCount - 2
    BY DEF ProfileFromShape
  <2> QED  BY <2>1, <2>2 DEF RelayLayoutProfile
<1> HIDE DEF profile
<1> QED  BY <1>1, <1>2 DEF SignalAt, profile

\* A spend says what it is before it is proved; a deposit says nothing.
IsStamped(a, i) ==
  /\ a.escrowSend => a.spendSource = "escrow" /\ ~i.sweep
  /\ a.spendSource = "escrow" /\ ~a.escrowSend <=> i.sweep

\* The route that stamps call for, before there are legs to look at.
StampedRoute ==
  route \subseteq {"throws"} \/ route = IF intent.sweep THEN {"direct"} ELSE {"relay"}

RouteInv ==
  /\ stage = "asked" => plan = NoPlan /\ route = {}
  /\ stage = "prepared" => /\ plan = NoPlan /\ intent.kind \in {"transfer", "withdraw"}
                           /\ artifacts \in PreparedArtifacts
                           /\ IsStamped(artifacts, intent) /\ StampedRoute
  /\ stage = "finalized" => IsStamped(artifacts, intent)
  /\ RouteMatchesLegs

LEMMA SweepIntents ==
  ASSUME NEW i \in Intents
  PROVE  i.sweep \in BOOLEAN /\ (i.sweep => i.kind = "transfer" /\ i.to = "private")
<1>1. i.sweep = FALSE \/ (i.sweep = TRUE /\ i.kind = "transfer" /\ i.to = "private")
  BY DEF Intents, Intent
<1> QED  BY <1>1

LEMMA RouteInvInit == PlanInit => RouteInv
BY DEF PlanInit, RouteInv, RouteMatchesLegs, Planned

\* A spend is finalized as it was stamped.
LEMMA SettlesWithRoute ==
  ASSUME RouteInv, stage = "prepared", NEW p, Settles(p), Deposits(p, 0), UNCHANGED <<intent, route>>,
         IsStamped(artifacts', intent)
  PROVE  RouteInv'
<1>1. plan'.refusal = "none" => plan'.publicDeposit = 0  BY DEF Settles, Deposits
<1>2. RouteMatchesLegs'
  <2> SUFFICES ASSUME plan'.refusal = "none", route # {}, route # {"throws"}
               PROVE  route = IF plan'.publicDeposit > 0 \/ intent.sweep THEN {"direct"} ELSE {"relay"}
    BY DEF RouteMatchesLegs, Planned
  <2>1. StampedRoute  BY DEF RouteInv
  <2> QED  BY <1>1, <2>1 DEF StampedRoute
<1>3. \/ stage' = "finalized" /\ plan'.refusal = "none"
      \/ stage' = "refused"
  BY DEF Settles
<1> QED  BY <1>2, <1>3 DEF RouteInv, IsStamped

LEMMA RouteStepKeeps == PlanInv /\ RouteInv /\ [PlanNext]_planVars => RouteInv'
<1> SUFFICES ASSUME PlanInv, RouteInv, [PlanNext]_planVars
             PROVE  RouteInv'
  OBVIOUS
<1>1. intent.sweep \in BOOLEAN /\ (intent.sweep => intent.kind = "transfer" /\ intent.to = "private")
  BY SweepIntents DEF PlanInv
<1>2. CASE PrepareDeposit \/ SorobanDeposit
  <2>1. /\ route' = {} /\ intent' = intent
        /\ stage' \in {"finalized", "submitted", "refused"}
    BY <1>2 DEF PrepareDeposit, SorobanDeposit, RouteInv, Settles
  <2>2. stage' = "finalized" => artifacts'.spendSource = "wallet" /\ artifacts'.escrowSend = FALSE
    BY <1>2 DEF PrepareDeposit, SorobanDeposit, NoArtifacts
  <2>3. ~intent.sweep  BY <1>1, <1>2 DEF PrepareDeposit, SorobanDeposit
  <2> QED  BY <2>1, <2>2, <2>3 DEF RouteInv, IsStamped, RouteMatchesLegs
<1>3. CASE PrepareSpend
  <2>1. /\ stage' = "prepared" /\ plan' = NoPlan /\ route' = {} /\ intent' = intent /\ ~intent.sweep
        /\ intent.kind \in {"transfer", "withdraw"}
        /\ artifacts' = StampedArtifacts(intent)
    BY <1>3 DEF PrepareSpend, RouteInv
  <2>2. /\ artifacts' \in PreparedArtifacts
        /\ artifacts'.spendSource = "escrow" <=> artifacts'.escrowSend
    BY <2>1 DEF StampedArtifacts, PreparedArtifacts, NoArtifacts
  <2> QED  BY <2>1, <2>2 DEF RouteInv, IsStamped, StampedRoute, RouteMatchesLegs
<1>4. CASE PrepareSweep
  <2>1. /\ stage' = "prepared" /\ plan' = NoPlan /\ route' = {} /\ intent' = intent /\ intent.sweep
        /\ artifacts' = SweepArtifacts
    BY <1>4 DEF PrepareSweep, RouteInv
  <2>2. /\ artifacts' \in PreparedArtifacts
        /\ artifacts'.spendSource = "escrow" /\ artifacts'.escrowSend = FALSE
    BY <2>1 DEF SweepArtifacts, PreparedArtifacts, NoArtifacts
  <2> QED  BY <1>1, <2>1, <2>2 DEF RouteInv, IsStamped, StampedRoute, RouteMatchesLegs
<1>5. CASE FinalizeTransfer
  <2>1. /\ stage = "prepared" /\ UNCHANGED <<intent, route>>
        /\ artifacts \in PreparedArtifacts /\ IsStamped(artifacts, intent)
    BY <1>5 DEF FinalizeTransfer, RouteInv
  <2>2. \E p : Settles(p) /\ Deposits(p, 0)
    BY <1>5, TransferDeposits DEF FinalizeTransfer
  <2>3. PICK n : artifacts' = [FinalArtifacts(intent, artifacts) EXCEPT !.nonce = n]
    BY <1>5, Zenon DEF FinalizeTransfer
  <2>4. IsStamped(artifacts', intent)
    <3>1. CASE EscrowSend(intent)
      <4>1. artifacts'.escrowSend = TRUE /\ artifacts'.spendSource = "escrow"
        BY <2>1, <2>3, <3>1 DEF FinalArtifacts, PreparedArtifacts, NoArtifacts, SweepArtifacts
      <4>2. ~intent.sweep  BY <1>1, <3>1 DEF EscrowSend, ToAccount
      <4> QED  BY <4>1, <4>2 DEF IsStamped
    <3>2. CASE ~EscrowSend(intent)
      <4>1. /\ artifacts'.escrowSend = artifacts.escrowSend
            /\ artifacts'.spendSource = artifacts.spendSource
        BY <2>1, <2>3, <3>2 DEF FinalArtifacts, PreparedArtifacts, NoArtifacts, SweepArtifacts
      <4> QED  BY <2>1, <4>1 DEF IsStamped
    <3> QED  BY <3>1, <3>2
  <2> QED  BY <2>1, <2>2, <2>4, SettlesWithRoute
<1>6. CASE FinalizeWithdraw
  <2>1. /\ stage = "prepared" /\ UNCHANGED <<intent, route>>
        /\ artifacts \in PreparedArtifacts /\ IsStamped(artifacts, intent)
    BY <1>6 DEF FinalizeWithdraw, RouteInv
  <2>2. PICK p, n : Settles(p) /\ Deposits(p, 0) /\ artifacts' = [artifacts EXCEPT !.nonce = n]
    BY <1>6, WithdrawDeposits DEF FinalizeWithdraw
  <2>3. /\ artifacts'.escrowSend = artifacts.escrowSend
        /\ artifacts'.spendSource = artifacts.spendSource
    BY <2>1, <2>2 DEF PreparedArtifacts, NoArtifacts, SweepArtifacts
  <2>4. IsStamped(artifacts', intent)  BY <2>1, <2>3 DEF IsStamped
  <2> QED  BY <2>1, <2>2, <2>4, SettlesWithRoute
<1>7. CASE AskRoute
  <2>1. PICK nonce : route' = {RequiredSubmissionMethod(artifacts, nonce)}
    BY <1>7, Zenon DEF AskRoute
  <2>2. UNCHANGED <<intent, stage, artifacts, plan>> /\ stage \in {"prepared", "finalized"}
        /\ IsStamped(artifacts, intent)
    BY <1>7 DEF AskRoute, RouteInv
  <2>3. CASE plan = NoPlan
    <3>1. PublicDeposit(nonce) = {}  BY <2>3 DEF PublicDeposit
    <3>2. StampedRoute'
      BY <2>1, <2>2, <2>3, <3>1 DEF RequiredSubmissionMethod, IsEscrow, IsStamped, StampedRoute
    <3> QED  BY <2>2, <2>3, <3>2 DEF RouteInv, RouteMatchesLegs, Planned
  <2>4. CASE plan # NoPlan
    <3>1. stage = "finalized"  BY <2>2, <2>4 DEF RouteInv
    <3>2. CASE ~SupportedSignals(plan, nonce)
      <4>1. route' = {"throws"}  BY <2>1, <2>4, <3>2 DEF RequiredSubmissionMethod
      <4> QED  BY <2>2, <3>1, <4>1 DEF RouteInv, RouteMatchesLegs
    <3>3. CASE SupportedSignals(plan, nonce)
      <4>1. PublicDeposit(nonce) = {plan.publicDeposit}
        BY <2>4, <3>3, LegIsFound DEF PublicDeposit
      <4>2. \/ route' = {"throws"}
            \/ route' = IF plan.publicDeposit > 0 \/ intent.sweep THEN {"direct"} ELSE {"relay"}
        BY <2>1, <2>2, <3>3, <4>1 DEF RequiredSubmissionMethod, IsEscrow, IsStamped
      <4> QED  BY <2>2, <3>1, <4>2 DEF RouteInv, RouteMatchesLegs
    <3> QED  BY <3>2, <3>3
  <2> QED  BY <2>3, <2>4
<1>8. CASE \/ RecipientRegisters \/ QuoteFails \/ SubmitDirect \/ SubmitConfidentialTransfer
           \/ PackageForRelay \/ UNCHANGED planVars
  BY <1>8 DEF RecipientRegisters, QuoteFails, SubmitDirect, SubmitConfidentialTransfer,
              PackageForRelay, planVars, RouteInv, RouteMatchesLegs, Planned, StampedRoute
<1> QED  BY <1>2, <1>3, <1>4, <1>5, <1>6, <1>7, <1>8 DEF PlanNext

\* The route the host is told is the one the public legs call for, whatever nonce
\* it asks with and whether it asks before or after there is a proof
\* (submission-routing and the public signals of any two layouts).
THEOREM RouteFollowsLegs == TransactionSpec => []RouteMatchesLegs
<1>1. TransactionInit => PlanInit  BY DEF TransactionInit
<1>2. [TransactionNext]_transactionVars => [PlanNext]_planVars
  BY DEF TransactionNext, transactionVars
<1>3. RouteInv => RouteMatchesLegs  BY DEF RouteInv
<1> QED
  BY <1>1, <1>2, <1>3, PlanInvInit, PlanStepKeeps, RouteInvInit, RouteStepKeeps, PTL
  DEF TransactionSpec

---------------------------------------------------------------------------
\* One submission: where it stands (sub) and what it sent (tx),
\* in an environment (env) and with a ledger (ch).

BeforePassage   == {"idle", "inspecting", "registering", "reading passage", "signing passage"}
BeforeExtension == {"ttl", "reading extension", "signing extension"}
BeforeCall      == {"assembling", "preflight", "signing"}

IsSent(tx, k) == tx[k].status # "none"

\* The passage is on the ledger, or there is none to wait for; the extension.
PassageDone(env, tx) ==
  /\ tx["passage"].status \in {"none", "success"}
  /\ env.registers => tx["passage"].status = "success"
ExtensionDone(tx) == tx["extension"].status \in {"none", "success"}

Shape(sub, tx) ==
  /\ {"kind", "at", "sequence", "checked"} \subseteq DOMAIN sub
  /\ sub.sequence \in Nat /\ sub.checked \in Nat
  /\ DOMAIN tx = TxKinds
  /\ \A k \in TxKinds : {"status", "sequence"} \subseteq DOMAIN tx[k] /\ tx[k].sequence \in Nat

\* What has been sent by each stage.
StagesInOrder(env, sub, tx) ==
  /\ sub.at \in BeforePassage => ~IsSent(tx, "passage")
  /\ sub.at \in BeforePassage \cup BeforeExtension \cup {"polling passage"} => ~IsSent(tx, "extension")
  /\ sub.at \in BeforePassage \cup BeforeExtension \cup BeforeCall
                  \cup {"polling passage", "polling extension"} => ~IsSent(tx, "transact")
  /\ sub.at \in BeforeExtension \cup BeforeCall \cup {"polling extension"} => PassageDone(env, tx)
  /\ sub.at \in BeforeCall => ExtensionDone(tx)
  /\ env.registers /\ IsSent(tx, "transact") => tx["passage"].status = "success"

\* What succeeded used a number of the account; what is built later takes a
\* later one.
SequencesRise(ch, sub, tx) ==
  /\ \A k \in TxKinds : tx[k].status = "success" => tx[k].sequence <= ch.sequence
  /\ sub.at \in {"signing extension", "preflight", "signing"} /\ IsSent(tx, "passage")
        => tx["passage"].sequence < sub.sequence
  /\ sub.at \in {"preflight", "signing"} /\ IsSent(tx, "extension")
        => tx["extension"].sequence < sub.sequence
  /\ IsSent(tx, "passage") /\ IsSent(tx, "extension")
        => tx["passage"].sequence < tx["extension"].sequence
  /\ IsSent(tx, "passage") /\ IsSent(tx, "transact")
        => tx["passage"].sequence < tx["transact"].sequence
  /\ IsSent(tx, "extension") /\ IsSent(tx, "transact")
        => tx["extension"].sequence < tx["transact"].sequence

\* From the end of its check on, the entry lives long enough.
EntryLives(env, ch, sub, tx) ==
  /\ sub.checked <= ch.now
  /\ env.signs /\ (sub.at \in BeforeCall \/ IsSent(tx, "transact")
                                                 \/ tx["extension"].status = "success")
        => \A live \in ch.configLive : live >= sub.checked + TtlThreshold

CallInv(env, ch, sub, tx) ==
  Shape(sub, tx) /\ StagesInOrder(env, sub, tx) /\ SequencesRise(ch, sub, tx) /\ EntryLives(env, ch, sub, tx)

Chains == [now : Nat, sequence : Nat, configLive : SUBSET Nat, others : Nat]

SubmissionInv ==
  /\ chain \in Chains
  /\ DOMAIN subs = Submissions /\ DOMAIN txs = Submissions
  /\ \A c \in Submissions : CallInv(environment, chain, subs[c], txs[c])

\* What a ledger may do: it grows, and no entry's life gets shorter.
Grows(ch, later) ==
  /\ ch.now <= later.now /\ ch.sequence <= later.sequence
  /\ \A live \in later.configLive : \E old \in ch.configLive : old <= live

LEMMA GrowthKeeps ==
  ASSUME NEW env, NEW ch \in Chains, NEW later \in Chains, Grows(ch, later),
         NEW sub, NEW tx, CallInv(env, ch, sub, tx)
  PROVE  CallInv(env, later, sub, tx)
<1>1. Shape(sub, tx) /\ StagesInOrder(env, sub, tx)  BY DEF CallInv
<1>2. SequencesRise(later, sub, tx)
  <2> SUFFICES ASSUME NEW k \in TxKinds, tx[k].status = "success"
               PROVE  tx[k].sequence <= later.sequence
    BY DEF CallInv, SequencesRise
  <2>1. tx[k].sequence \in Nat /\ tx[k].sequence <= ch.sequence
    BY DEF CallInv, Shape, SequencesRise
  <2>2. ch.sequence \in Nat /\ later.sequence \in Nat /\ ch.sequence <= later.sequence
    BY DEF Chains, Grows
  <2> QED  BY <2>1, <2>2
<1>3. EntryLives(env, later, sub, tx)
  <2>1. sub.checked \in Nat /\ sub.checked <= ch.now /\ TtlThreshold \in Nat
    BY SubmissionAssumption DEF CallInv, Shape, EntryLives
  <2>2. ch.now \in Nat /\ later.now \in Nat /\ ch.now <= later.now
    BY DEF Chains, Grows
  <2>3. ASSUME \A live \in ch.configLive : live >= sub.checked + TtlThreshold,
               NEW live \in later.configLive
        PROVE  live >= sub.checked + TtlThreshold
    <3>1. PICK old \in ch.configLive : old <= live  BY DEF Grows
    <3>2. old \in Nat /\ live \in Nat  BY DEF Chains
    <3> QED  BY <2>1, <2>3, <3>1, <3>2
  <2> QED  BY <2>1, <2>2, <2>3 DEF CallInv, EntryLives
<1> QED  BY <1>1, <1>2, <1>3 DEF CallInv

\* A step of one submission that only moves it.
LEMMA MovesKeeps ==
  ASSUME SubmissionInv, NEW c \in Submissions, NEW new, Moves(c, new),
         UNCHANGED <<environment, chain, txs>>,
         CallInv(environment, chain, new, txs[c])
  PROVE  SubmissionInv'
BY DEF SubmissionInv, Moves

\* A step that sends a transaction as well.
LEMMA SendKeeps ==
  ASSUME SubmissionInv, NEW c \in Submissions, NEW new, NEW k \in TxKinds, NEW t, Moves(c, new),
         txs' = [txs EXCEPT ![c][k] = t], UNCHANGED <<environment, chain>>,
         CallInv(environment, chain, new, [txs[c] EXCEPT ![k] = t])
  PROVE  SubmissionInv'
BY DEF SubmissionInv, Moves

\* A step of the ledger that leaves every transaction as it is.
LEMMA LedgerKeeps ==
  ASSUME SubmissionInv, chain' \in Chains, Grows(chain, chain'), UNCHANGED <<environment, txs, subs>>
  PROVE  SubmissionInv'
BY GrowthKeeps DEF SubmissionInv

\* A stage at which nothing is asked of what was sent.
LEMMA RestKeeps ==
  ASSUME NEW env, NEW ch, NEW sub, NEW tx, CallInv(env, ch, sub, tx), NEW new,
         {"kind", "at", "sequence", "checked"} \subseteq DOMAIN new,
         new.sequence = sub.sequence, new.checked = sub.checked,
         new.at \notin BeforePassage \cup BeforeExtension \cup BeforeCall
                          \cup {"polling passage", "polling extension"}
  PROVE  CallInv(env, ch, new, tx)
BY DEF CallInv, Shape, StagesInOrder, SequencesRise, EntryLives, BeforePassage, BeforeExtension,
       BeforeCall

LEMMA ThrowsKeeps ==
  ASSUME SubmissionInv, NEW c \in Submissions, Throws(c), UNCHANGED <<environment, chain, txs>>
  PROVE  SubmissionInv'
<1> DEFINE new == [subs[c] EXCEPT !.at = "failed"]
<1>1. CallInv(environment, chain, subs[c], txs[c])  BY DEF SubmissionInv
<1>2. /\ {"kind", "at", "sequence", "checked"} \subseteq DOMAIN new
      /\ new.sequence = subs[c].sequence /\ new.checked = subs[c].checked /\ new.at = "failed"
  BY <1>1 DEF CallInv, Shape
<1> HIDE DEF new
<1>3. CallInv(environment, chain, new, txs[c])
  BY <1>1, <1>2, RestKeeps DEF BeforePassage, BeforeExtension, BeforeCall
<1> QED  BY <1>3, MovesKeeps DEF Throws, new

---------------------------------------------------------------------------
\* The steps of a submission.

\* A step that changes neither the number the call builds with nor its check.
LEMMA StageKeeps ==
  ASSUME SubmissionInv, NEW c \in Submissions, NEW new, Moves(c, new),
         UNCHANGED <<environment, chain, txs>>,
         {"kind", "at", "sequence", "checked"} \subseteq DOMAIN new,
         new.sequence = subs[c].sequence, new.checked = subs[c].checked,
         \/ new.at \notin {"signing extension", "preflight", "signing"}
         \/ new.at = "signing" /\ subs[c].at = "preflight",
         StagesInOrder(environment, new, txs[c]),
         new.at \in BeforeCall =>
            \/ subs[c].at \in BeforeCall
            \/ ~environment.signs \/ txs[c]["extension"].status = "success"
  PROVE  SubmissionInv'
<1>1. CallInv(environment, chain, subs[c], txs[c])  BY DEF SubmissionInv
<1>2. Shape(new, txs[c])  BY <1>1 DEF CallInv, Shape
<1>3. SequencesRise(chain, new, txs[c])  BY <1>1 DEF CallInv, SequencesRise
<1>4. EntryLives(environment, chain, new, txs[c])  BY <1>1 DEF CallInv, EntryLives
<1> QED  BY <1>2, <1>3, <1>4, MovesKeeps DEF CallInv

\* What a call's passage leads to.
LEMMA PassageLeadsOn ==
  ASSUME NEW env, NEW sub, NEW tx, NEW new, StagesInOrder(env, sub, tx),
         \/ sub.at = "inspecting" /\ ~env.registers
         \/ sub.at = "polling passage" /\ tx["passage"].status = "success",
         new.at \in {"ttl", "simulating"}
  PROVE  StagesInOrder(env, new, tx)
BY DEF StagesInOrder, PassageDone, IsSent, BeforePassage, BeforeExtension, BeforeCall

LEMMA PassageStepsKeep ==
  ASSUME SubmissionInv, NEW c \in Submissions,
         FetchLedger(c) \/ PostKytInspect(c) \/ RegisterKytPassage(c)
  PROVE  SubmissionInv'
<1> DEFINE sub == subs[c]
<1>1. CallInv(environment, chain, sub, txs[c]) /\ UNCHANGED <<environment, chain, txs>>
  BY DEF SubmissionInv, FetchLedger, PostKytInspect, RegisterKytPassage
<1>2. CASE Throws(c)  BY <1>1, <1>2, ThrowsKeeps
<1>3. CASE FetchLedger(c) /\ ~Throws(c)
  <2>1. PICK kind : Moves(c, [sub EXCEPT !.kind = kind, !.at = "inspecting", !.current = chain.now])
    BY <1>3, Zenon DEF FetchLedger
  <2> DEFINE new == [sub EXCEPT !.kind = kind, !.at = "inspecting", !.current = chain.now]
  <2>2. /\ {"kind", "at", "sequence", "checked"} \subseteq DOMAIN new
        /\ new.sequence = sub.sequence /\ new.checked = sub.checked /\ new.at = "inspecting"
    BY <1>1 DEF CallInv, Shape
  <2>3. sub.at = "idle"  BY <1>3 DEF FetchLedger, Stands
  <2> HIDE DEF new
  <2>4. StagesInOrder(environment, new, txs[c])
    BY <1>1, <2>2, <2>3 DEF CallInv, StagesInOrder, BeforePassage, BeforeExtension, BeforeCall
  <2>5. new.at \notin BeforeCall  BY <2>2 DEF BeforeCall
  <2> QED  BY <1>1, <2>1, <2>2, <2>4, <2>5, StageKeeps DEF new
<1>4. CASE PostKytInspect(c) /\ ~Throws(c)
  <2> DEFINE at  == IF environment.registers THEN "registering" ELSE AfterPassage(sub)
             new == [sub EXCEPT !.expires = sub.current + ApprovalLife, !.at = at]
  <2>1. Moves(c, new) /\ sub.at = "inspecting"
    BY <1>4, Zenon DEF PostKytInspect, Stands
  <2>2. /\ {"kind", "at", "sequence", "checked"} \subseteq DOMAIN new
        /\ new.sequence = sub.sequence /\ new.checked = sub.checked /\ new.at = at
    BY <1>1 DEF CallInv, Shape
  <2>3. \/ at = "registering"
        \/ at \in {"ttl", "simulating"} /\ ~environment.registers
    BY DEF AfterPassage
  <2> HIDE DEF new, at
  <2>4. StagesInOrder(environment, new, txs[c])
    <3>1. CASE at = "registering"
      BY <1>1, <2>1, <2>2, <3>1
      DEF CallInv, StagesInOrder, BeforePassage, BeforeExtension, BeforeCall
    <3>2. CASE at \in {"ttl", "simulating"} /\ ~environment.registers
      BY <1>1, <2>1, <2>2, <3>2, PassageLeadsOn DEF CallInv
    <3> QED  BY <2>3, <3>1, <3>2
  <2>5. new.at \notin BeforeCall \cup {"signing extension"}  BY <2>2, <2>3 DEF BeforeCall
  <2>6. new.at \notin {"signing extension", "preflight", "signing"}  BY <2>2, <2>3
  <2> QED  BY <1>1, <2>1, <2>2, <2>4, <2>5, <2>6, StageKeeps
<1>5. CASE RegisterKytPassage(c) /\ ~Throws(c)
  <2> DEFINE new == [sub EXCEPT !.at = "reading passage"]
  <2>1. Moves(c, new) /\ sub.at = "registering"
    BY <1>5 DEF RegisterKytPassage, Stands, ReadingAt
  <2>2. /\ {"kind", "at", "sequence", "checked"} \subseteq DOMAIN new
        /\ new.sequence = sub.sequence /\ new.checked = sub.checked /\ new.at = "reading passage"
    BY <1>1 DEF CallInv, Shape
  <2> HIDE DEF new
  <2>3. StagesInOrder(environment, new, txs[c])
    BY <1>1, <2>1, <2>2 DEF CallInv, StagesInOrder, BeforePassage, BeforeExtension, BeforeCall
  <2>4. new.at \notin BeforeCall  BY <2>2 DEF BeforeCall
  <2> QED  BY <1>1, <2>1, <2>2, <2>3, <2>4, StageKeeps
<1> QED  BY <1>2, <1>3, <1>4, <1>5

\* A transaction that succeeded used a number of the account that is not free.
LEMMA DoneSequence ==
  ASSUME NEW env, NEW ch, NEW sub, NEW tx, CallInv(env, ch, sub, tx), NEW k \in TxKinds,
         tx[k].status = "success"
  PROVE  tx[k].sequence \in Nat /\ tx[k].sequence <= ch.sequence
BY DEF CallInv, Shape, SequencesRise

LEMMA KindsOfTransactions == "passage" \in TxKinds /\ "extension" \in TxKinds /\ "transact" \in TxKinds
BY DEF TxKinds

\* A transaction of a passage or of an extension is built with the next number
\* of the account.
LEMMA BuildKeeps ==
  ASSUME SubmissionInv, NEW c \in Submissions, NEW k \in TxKinds \ {"transact"},
         BuildTransaction(c, k)
  PROVE  SubmissionInv'
<1> DEFINE sub == subs[c]
           new == [sub EXCEPT !.sequence = chain.sequence + 1, !.at = SigningAt(k)]
<1>1. /\ CallInv(environment, chain, sub, txs[c]) /\ UNCHANGED <<environment, chain, txs>>
      /\ chain.sequence \in Nat
  BY DEF SubmissionInv, BuildTransaction, Chains
<1>2. CASE Throws(c)  BY <1>1, <1>2, ThrowsKeeps
<1>3. CASE Moves(c, new)
  <2>1. \/ k = "passage" /\ sub.at = "reading passage" /\ SigningAt(k) = "signing passage"
        \/ k = "extension" /\ sub.at = "reading extension" /\ SigningAt(k) = "signing extension"
    BY DEF BuildTransaction, Stands, ReadingAt, SigningAt, TxKinds
  <2>2. /\ {"kind", "at", "sequence", "checked"} \subseteq DOMAIN new
        /\ new.sequence = chain.sequence + 1 /\ new.checked = sub.checked /\ new.at = SigningAt(k)
    BY <1>1 DEF CallInv, Shape
  <2> HIDE DEF new
  <2>3. Shape(new, txs[c])  BY <1>1, <2>2 DEF CallInv, Shape
  <2>4. StagesInOrder(environment, new, txs[c])
    BY <1>1, <2>1, <2>2 DEF CallInv, StagesInOrder, BeforePassage, BeforeExtension, BeforeCall
  <2>5. SequencesRise(chain, new, txs[c])
    <3>1. ASSUME new.at = "signing extension", IsSent(txs[c], "passage")
          PROVE  txs[c]["passage"].sequence < new.sequence
      <4>1. sub.at = "reading extension"  BY <2>1, <2>2, <3>1
      <4>2. txs[c]["passage"].status = "success"
        BY <1>1, <3>1, <4>1 DEF CallInv, StagesInOrder, PassageDone, IsSent, BeforeExtension
      <4> QED  BY <1>1, <2>2, <4>2, DoneSequence, KindsOfTransactions
    <3> QED  BY <1>1, <2>1, <2>2, <3>1 DEF CallInv, SequencesRise
  <2>6. EntryLives(environment, chain, new, txs[c])
    BY <1>1, <2>1, <2>2 DEF CallInv, EntryLives, BeforeCall
  <2> QED  BY <1>1, <1>3, <2>3, <2>4, <2>5, <2>6, MovesKeeps DEF CallInv
<1> QED  BY <1>2, <1>3, Zenon DEF BuildTransaction

\* It is sent, or the call throws.
LEMMA SendTransactionKeeps ==
  ASSUME SubmissionInv, NEW c \in Submissions, NEW k \in TxKinds \ {"transact"},
         SendTransaction(c, k)
  PROVE  SubmissionInv'
<1> DEFINE sub == subs[c]
           t   == [NoTx EXCEPT !.status = "pending", !.sequence = sub.sequence]
           tx  == [txs[c] EXCEPT ![k] = t]
<1>1. CallInv(environment, chain, sub, txs[c]) /\ UNCHANGED <<environment, chain>>
  BY DEF SubmissionInv, SendTransaction
<1>2. CASE Throws(c) /\ UNCHANGED txs  BY <1>1, <1>2, ThrowsKeeps
<1>3. ASSUME NEW new,
             \/ new = [sub EXCEPT !.at = "failed"]
             \/ new = [sub EXCEPT !.polls = 0, !.at = PollingAt(k)],
             txs' = [txs EXCEPT ![c][k] = t] /\ Moves(c, new)
      PROVE  SubmissionInv'
  <2>1. \/ k = "passage" /\ sub.at = "signing passage" /\ PollingAt(k) = "polling passage"
        \/ k = "extension" /\ sub.at = "signing extension" /\ PollingAt(k) = "polling extension"
    BY DEF SendTransaction, Stands, SigningAt, PollingAt, TxKinds
  <2>2. /\ {"kind", "at", "sequence", "checked"} \subseteq DOMAIN new
        /\ new.sequence = sub.sequence /\ new.checked = sub.checked
        /\ new.at \in {"failed", PollingAt(k)}
    BY <1>1, <1>3 DEF CallInv, Shape
  <2>3. /\ {"status", "sequence"} \subseteq DOMAIN t
        /\ t.status = "pending" /\ t.sequence = sub.sequence
    BY DEF NoTx
  <2> HIDE DEF t
  <2>4. /\ DOMAIN tx = TxKinds /\ tx[k] = t
        /\ \A j \in TxKinds : j # k => tx[j] = txs[c][j]
    BY <1>1 DEF CallInv, Shape
  <2> HIDE DEF tx
  <2>5. Shape(new, tx)  BY <1>1, <2>2, <2>3, <2>4 DEF CallInv, Shape
  <2>6. StagesInOrder(environment, new, tx)
    BY <1>1, <2>1, <2>2, <2>3, <2>4, KindsOfTransactions
    DEF CallInv, StagesInOrder, PassageDone, ExtensionDone, IsSent, BeforePassage,
        BeforeExtension, BeforeCall
  <2>7. SequencesRise(chain, new, tx)
    <3>1. CASE k = "passage"
      BY <1>1, <2>1, <2>2, <2>3, <2>4, <3>1, KindsOfTransactions
      DEF CallInv, StagesInOrder, SequencesRise, IsSent, BeforePassage
    <3>2. CASE k = "extension"
      BY <1>1, <2>1, <2>2, <2>3, <2>4, <3>2, KindsOfTransactions
      DEF CallInv, StagesInOrder, SequencesRise, IsSent, BeforeExtension
    <3> QED  BY <2>1, <3>1, <3>2
  <2>8. EntryLives(environment, chain, new, tx)
    BY <1>1, <2>1, <2>2, <2>3, <2>4, KindsOfTransactions DEF CallInv, EntryLives, IsSent, BeforeCall
  <2>9. CallInv(environment, chain, new, tx)  BY <2>5, <2>6, <2>7, <2>8 DEF CallInv
  <2> QED  BY <1>1, <1>3, <2>9, SendKeeps DEF tx
<1> QED  BY <1>2, <1>3, Zenon DEF SendTransaction, Throws

\* A poll that says a transaction succeeded says so of one that did.
LEMMA DetailsAreTrue ==
  ASSUME NEW t, NEW answer \in FetchedDetails(t), answer.status = "success"
  PROVE  t.status = "success"
BY DEF FetchedDetails, Told

LEMMA PollKeeps ==
  ASSUME SubmissionInv, NEW c \in Submissions, NEW k \in TxKinds \ {"transact"},
         PollTransaction(c, k)
  PROVE  SubmissionInv'
<1> DEFINE sub == subs[c]
<1>1. CallInv(environment, chain, sub, txs[c]) /\ UNCHANGED <<environment, chain, txs>>
  BY DEF SubmissionInv, PollTransaction
<1>2. \/ k = "passage" /\ sub.at = "polling passage"
      \/ k = "extension" /\ sub.at = "polling extension"
  BY DEF PollTransaction, Stands, PollingAt, TxKinds
<1>3. \/ Throws(c)
      \/ Moves(c, [sub EXCEPT !.polls = @ + 1])
      \/ Moves(c, [sub EXCEPT !.at = After(k, sub)]) /\ txs[c][k].status = "success"
  <2>1. PICK answer \in FetchedDetails(txs[c][k]) :
           CASE answer.status = "success" -> Moves(c, [sub EXCEPT !.at = After(k, sub)])
             [] answer.status \in {"failed", "rpc_error"} -> Throws(c)
             [] OTHER -> IF sub.polls + 1 < MaxPolls
                           THEN Moves(c, [sub EXCEPT !.polls = @ + 1]) ELSE Throws(c)
    BY Zenon DEF PollTransaction
  <2>2. CASE answer.status = "success"  BY <2>1, <2>2, DetailsAreTrue
  <2>3. CASE answer.status # "success"  BY <2>1, <2>3
  <2> QED  BY <2>2, <2>3
<1>4. CASE Throws(c)  BY <1>1, <1>4, ThrowsKeeps
<1>5. CASE Moves(c, [sub EXCEPT !.polls = @ + 1])
  <2> DEFINE new == [sub EXCEPT !.polls = @ + 1]
  <2>1. /\ {"kind", "at", "sequence", "checked"} \subseteq DOMAIN new
        /\ new.sequence = sub.sequence /\ new.checked = sub.checked /\ new.at = sub.at
    BY <1>1 DEF CallInv, Shape
  <2> HIDE DEF new
  <2>2. StagesInOrder(environment, new, txs[c])  BY <1>1, <2>1 DEF CallInv, StagesInOrder
  <2>3. new.at \notin BeforeCall /\ new.at \notin {"signing extension", "preflight", "signing"}
    BY <1>2, <2>1 DEF BeforeCall
  <2> QED  BY <1>1, <1>5, <2>1, <2>2, <2>3, StageKeeps DEF new
<1>6. CASE Moves(c, [sub EXCEPT !.at = After(k, sub)]) /\ txs[c][k].status = "success"
  <2> DEFINE new == [sub EXCEPT !.at = After(k, sub)]
  <2>1. /\ {"kind", "at", "sequence", "checked"} \subseteq DOMAIN new
        /\ new.sequence = sub.sequence /\ new.checked = sub.checked /\ new.at = After(k, sub)
    BY <1>1 DEF CallInv, Shape
  <2> HIDE DEF new
  <2>2. CASE k = "passage"
    <3>1. new.at \in {"ttl", "simulating"}  BY <2>1, <2>2 DEF After, AfterPassage
    <3>2. StagesInOrder(environment, new, txs[c])
      BY <1>1, <1>2, <1>6, <2>2, <3>1, PassageLeadsOn DEF CallInv
    <3>3. new.at \notin BeforeCall /\ new.at \notin {"signing extension", "preflight", "signing"}
      BY <3>1 DEF BeforeCall
    <3> QED  BY <1>1, <1>6, <2>1, <3>2, <3>3, StageKeeps DEF new
  <2>3. CASE k = "extension"
    <3>1. new.at = "assembling" /\ sub.at = "polling extension" /\ txs[c]["extension"].status = "success"
      BY <1>2, <1>6, <2>1, <2>3 DEF After
    <3>2. StagesInOrder(environment, new, txs[c])
      BY <1>1, <3>1
      DEF CallInv, StagesInOrder, ExtensionDone, BeforePassage, BeforeExtension, BeforeCall
    <3>3. new.at \notin {"signing extension", "preflight", "signing"}  BY <3>1
    <3> QED  BY <1>1, <1>6, <2>1, <3>1, <3>2, <3>3, StageKeeps DEF new
  <2> QED  BY <1>2, <2>2, <2>3
<1> QED  BY <1>3, <1>4, <1>5, <1>6

\* The check of the entry: when nothing is to be extended the entry lives long
\* enough, or there is nobody to sign an extension.
LEMMA CheckTtlKeeps ==
  ASSUME SubmissionInv, NEW c \in Submissions, CheckTtl(c)
  PROVE  SubmissionInv'
<1> DEFINE sub == subs[c]
           at  == IF environment.signs /\ NeedsTtlExtension
                    THEN ReadingAt("extension") ELSE "assembling"
           new == [sub EXCEPT !.checked = chain.now, !.at = at]
<1>1. /\ CallInv(environment, chain, sub, txs[c]) /\ UNCHANGED <<environment, chain, txs>>
      /\ chain \in Chains /\ sub.at = "ttl"
  BY DEF SubmissionInv, CheckTtl, Stands
<1>2. CASE Throws(c)  BY <1>1, <1>2, ThrowsKeeps
<1>3. CASE Moves(c, new)
  <2>1. /\ {"kind", "at", "sequence", "checked"} \subseteq DOMAIN new
        /\ new.sequence = sub.sequence /\ new.checked = chain.now /\ new.at = at
    BY <1>1 DEF CallInv, Shape
  <2>2. \/ at = "reading extension"
        \/ at = "assembling" /\ (environment.signs => ~NeedsTtlExtension)
    BY DEF ReadingAt
  <2> HIDE DEF new, at
  <2>3. chain.now \in Nat /\ chain.configLive \subseteq Nat  BY <1>1 DEF Chains
  <2>4. Shape(new, txs[c])  BY <1>1, <2>1, <2>3 DEF CallInv, Shape
  <2>5. StagesInOrder(environment, new, txs[c])
    BY <1>1, <2>1, <2>2
    DEF CallInv, StagesInOrder, ExtensionDone, IsSent, BeforePassage, BeforeExtension, BeforeCall
  <2>6. SequencesRise(chain, new, txs[c])
    BY <1>1, <2>1, <2>2 DEF CallInv, SequencesRise
  <2>7. EntryLives(environment, chain, new, txs[c])
    <3>1. ~IsSent(txs[c], "transact") /\ txs[c]["extension"].status # "success"
      BY <1>1 DEF CallInv, StagesInOrder, IsSent, BeforeExtension
    <3>2. ASSUME environment.signs, new.at \in BeforeCall, NEW live \in chain.configLive
          PROVE  live >= new.checked + TtlThreshold
      <4>1. ~(live - chain.now < TtlThreshold)
        BY <2>1, <2>2, <3>2 DEF BeforeCall, NeedsTtlExtension
      <4>2. live \in Nat /\ TtlThreshold \in Nat  BY <2>3, SubmissionAssumption
      <4> QED  BY <2>1, <2>3, <4>1, <4>2
    <3> QED  BY <2>1, <2>3, <3>1, <3>2 DEF EntryLives
  <2> QED  BY <1>1, <1>3, <2>4, <2>5, <2>6, <2>7, MovesKeeps DEF CallInv
<1> QED  BY <1>2, <1>3, Zenon DEF CheckTtl

LEMMA AssembleKeeps ==
  ASSUME SubmissionInv, NEW c \in Submissions, AssembleTransact(c)
  PROVE  SubmissionInv'
<1> DEFINE sub == subs[c]
           new == [sub EXCEPT !.sequence = chain.sequence + 1, !.at = "preflight"]
<1>1. /\ CallInv(environment, chain, sub, txs[c]) /\ UNCHANGED <<environment, chain, txs>>
      /\ chain.sequence \in Nat /\ sub.at = "assembling"
  BY DEF SubmissionInv, AssembleTransact, Stands, Chains
<1>2. CASE Throws(c)  BY <1>1, <1>2, ThrowsKeeps
<1>3. CASE Moves(c, new)
  <2>1. /\ {"kind", "at", "sequence", "checked"} \subseteq DOMAIN new
        /\ new.sequence = chain.sequence + 1 /\ new.checked = sub.checked /\ new.at = "preflight"
    BY <1>1 DEF CallInv, Shape
  <2> HIDE DEF new
  <2>2. Shape(new, txs[c])  BY <1>1, <2>1 DEF CallInv, Shape
  <2>3. StagesInOrder(environment, new, txs[c])
    BY <1>1, <2>1 DEF CallInv, StagesInOrder, BeforePassage, BeforeExtension, BeforeCall
  <2>4. SequencesRise(chain, new, txs[c])
    <3>1. ASSUME NEW k \in {"passage", "extension"}, IsSent(txs[c], k)
          PROVE  txs[c][k].sequence < new.sequence
      <4>1. txs[c][k].status = "success"
        BY <1>1, <3>1
        DEF CallInv, StagesInOrder, PassageDone, ExtensionDone, IsSent, BeforeCall
      <4> QED  BY <1>1, <2>1, <4>1, DoneSequence, KindsOfTransactions
    <3> QED  BY <1>1, <2>1, <3>1 DEF CallInv, SequencesRise
  <2>5. EntryLives(environment, chain, new, txs[c])
    BY <1>1, <2>1 DEF CallInv, EntryLives, BeforeCall
  <2> QED  BY <1>1, <1>3, <2>2, <2>3, <2>4, <2>5, MovesKeeps DEF CallInv
<1> QED  BY <1>2, <1>3, Zenon DEF AssembleTransact

LEMMA PreflightKeeps ==
  ASSUME SubmissionInv, NEW c \in Submissions, RunTtlPreflight(c)
  PROVE  SubmissionInv'
<1> DEFINE sub == subs[c]
           new == [sub EXCEPT !.at = "signing"]
<1>1. /\ CallInv(environment, chain, sub, txs[c]) /\ UNCHANGED <<environment, chain, txs>>
      /\ sub.at = "preflight"
  BY DEF SubmissionInv, RunTtlPreflight, Stands
<1>2. CASE Throws(c)  BY <1>1, <1>2, ThrowsKeeps
<1>3. CASE Moves(c, new)
  <2>1. /\ {"kind", "at", "sequence", "checked"} \subseteq DOMAIN new
        /\ new.sequence = sub.sequence /\ new.checked = sub.checked /\ new.at = "signing"
    BY <1>1 DEF CallInv, Shape
  <2> HIDE DEF new
  <2>2. StagesInOrder(environment, new, txs[c])
    BY <1>1, <2>1 DEF CallInv, StagesInOrder, BeforePassage, BeforeExtension, BeforeCall
  <2>3. sub.at \in BeforeCall  BY <1>1 DEF BeforeCall
  <2> QED  BY <1>1, <1>3, <2>1, <2>2, <2>3, StageKeeps
<1> QED  BY <1>2, <1>3, Zenon DEF RunTtlPreflight

\* The call is sent after its passage and its extension, with a later number.
LEMMA SignAndSendKeeps ==
  ASSUME SubmissionInv, NEW c \in Submissions, SignAndSend(c)
  PROVE  SubmissionInv'
<1> DEFINE sub == subs[c]
           new == [sub EXCEPT !.at = "sent"]
<1>1. /\ CallInv(environment, chain, sub, txs[c]) /\ UNCHANGED <<environment, chain>>
      /\ sub.at = "signing"
  BY DEF SubmissionInv, SignAndSend, Stands
<1>2. CASE Throws(c) /\ UNCHANGED txs  BY <1>1, <1>2, ThrowsKeeps
<1>3. ASSUME Moves(c, new),
             NEW ops, txs' = [txs EXCEPT ![c]["transact"] =
                 [NoTx EXCEPT !.status = "pending", !.sequence = sub.sequence, !.ops = ops]]
      PROVE  SubmissionInv'
  <2> DEFINE t  == [NoTx EXCEPT !.status = "pending", !.sequence = sub.sequence, !.ops = ops]
             tx == [txs[c] EXCEPT !["transact"] = t]
  <2>1. /\ {"kind", "at", "sequence", "checked"} \subseteq DOMAIN new
        /\ new.sequence = sub.sequence /\ new.checked = sub.checked /\ new.at = "sent"
    BY <1>1 DEF CallInv, Shape
  <2>2. /\ {"status", "sequence"} \subseteq DOMAIN t
        /\ t.status = "pending" /\ t.sequence = sub.sequence
    BY DEF NoTx
  <2> HIDE DEF new, t
  <2>3. /\ DOMAIN tx = TxKinds /\ tx["transact"] = t
        /\ tx["passage"] = txs[c]["passage"] /\ tx["extension"] = txs[c]["extension"]
        /\ \A j \in TxKinds : j # "transact" => tx[j] = txs[c][j]
    BY <1>1, KindsOfTransactions DEF CallInv, Shape
  <2> HIDE DEF tx
  <2>4. Shape(new, tx)  BY <1>1, <2>1, <2>2, <2>3 DEF CallInv, Shape
  <2>5. StagesInOrder(environment, new, tx)
    BY <1>1, <2>1, <2>2, <2>3
    DEF CallInv, StagesInOrder, PassageDone, IsSent, BeforePassage, BeforeExtension, BeforeCall
  <2>6. SequencesRise(chain, new, tx)
    BY <1>1, <2>1, <2>2, <2>3 DEF CallInv, SequencesRise, IsSent
  <2>7. EntryLives(environment, chain, new, tx)
    BY <1>1, <2>1, <2>2, <2>3 DEF CallInv, EntryLives, IsSent, BeforeCall
  <2>8. CallInv(environment, chain, new, tx)  BY <2>4, <2>5, <2>6, <2>7 DEF CallInv
  <2> QED  BY <1>1, <1>3, <2>8, SendKeeps, KindsOfTransactions DEF tx, t
<1> QED  BY <1>2, <1>3, Zenon DEF SignAndSend

\* What follows the call, and the authorization of a sweep, send nothing.
LEMMA LaterStepsKeep ==
  ASSUME SubmissionInv, NEW c \in Submissions,
         ReturnHash(c) \/ PollConfirmation(c) \/ FetchStatus(c) \/ GetDetails(c) \/ SimulateSweep(c)
  PROVE  SubmissionInv'
<1> DEFINE sub == subs[c]
           Later(new) == /\ {"kind", "at", "sequence", "checked"} \subseteq DOMAIN new
                         /\ new.sequence = sub.sequence /\ new.checked = sub.checked
                         /\ new.at \in {"confirming", "told", "authorized"}
<1>1. CallInv(environment, chain, sub, txs[c]) /\ UNCHANGED <<environment, chain, txs>>
  BY DEF SubmissionInv, ReturnHash, PollConfirmation, FetchStatus, GetDetails, SimulateSweep
<1>2. ASSUME NEW new, Moves(c, new), Later(new)  PROVE SubmissionInv'
  <2>1. CallInv(environment, chain, new, txs[c])
    BY <1>1, <1>2, RestKeeps DEF BeforePassage, BeforeExtension, BeforeCall
  <2> QED  BY <1>1, <1>2, <2>1, MovesKeeps
<1>3. {"kind", "at", "sequence", "checked"} \subseteq DOMAIN sub
  BY <1>1 DEF CallInv, Shape
<1>4. CASE Throws(c)  BY <1>1, <1>4, ThrowsKeeps
<1>5. CASE ReturnHash(c) /\ ~Throws(c)
  <2>1. Moves(c, [sub EXCEPT !.polls = 0, !.at = "confirming"])  BY <1>5, Zenon DEF ReturnHash
  <2>2. Later([sub EXCEPT !.polls = 0, !.at = "confirming"])  BY <1>3
  <2> QED  BY <1>2, <2>1, <2>2
<1>6. CASE PollConfirmation(c)
  <2>1. sub.at = "confirming"  BY <1>6 DEF PollConfirmation, Stands
  <2>2. PICK told : \/ Moves(c, [sub EXCEPT !.told = told, !.at = "told"])
                    \/ Moves(c, [sub EXCEPT !.polls = @ + 1])
    BY <1>6, Zenon DEF PollConfirmation
  <2>3. Later([sub EXCEPT !.told = told, !.at = "told"]) /\ Later([sub EXCEPT !.polls = @ + 1])
    BY <1>3, <2>1
  <2> QED  BY <1>2, <2>2, <2>3
<1>7. CASE FetchStatus(c)
  <2>1. sub.at = "confirming"  BY <1>7 DEF FetchStatus, Stands
  <2>2. PICK told : Moves(c, [sub EXCEPT !.told = told])  BY <1>7, Zenon DEF FetchStatus
  <2>3. Later([sub EXCEPT !.told = told])  BY <1>3, <2>1
  <2> QED  BY <1>2, <2>2, <2>3
<1>8. CASE GetDetails(c)
  <2>1. PICK told : Moves(c, [sub EXCEPT !.told = told, !.at = "told"])  BY <1>8, Zenon DEF GetDetails
  <2>2. Later([sub EXCEPT !.told = told, !.at = "told"])  BY <1>3
  <2> QED  BY <1>2, <2>1, <2>2
<1>9. CASE SimulateSweep(c) /\ ~Throws(c)
  <2>1. Moves(c, [sub EXCEPT !.at = "authorized"])
    BY <1>9, Zenon DEF SimulateSweep
  <2>2. Later([sub EXCEPT !.at = "authorized"])  BY <1>3
  <2> QED  BY <1>2, <2>1, <2>2
<1> QED  BY <1>4, <1>5, <1>6, <1>7, <1>8, <1>9

---------------------------------------------------------------------------
\* The steps of the ledger.

LEMMA CloseLedgerKeeps ==
  ASSUME SubmissionInv, CloseLedger
  PROVE  SubmissionInv'
<1>1. chain \in Chains  BY DEF SubmissionInv
<1>2. chain' = [chain EXCEPT !.now = @ + 1]  BY DEF CloseLedger
<1>3. chain' \in Chains /\ Grows(chain, chain')  BY <1>1, <1>2 DEF Chains, Grows
<1> QED  BY <1>3, LedgerKeeps DEF CloseLedger

\* An extension shortens no entry's life, and makes each last as long as asked.
LEMMA ExtendedLasts ==
  ASSUME chain \in Chains
  PROVE  /\ Extended \subseteq Nat
         /\ \A live \in Extended : /\ \E old \in chain.configLive : old <= live
                                   /\ chain.now + TtlExtendTo <= live
<1> SUFFICES ASSUME NEW live \in Extended
             PROVE  /\ live \in Nat /\ chain.now + TtlExtendTo <= live
                    /\ \E old \in chain.configLive : old <= live
  OBVIOUS
<1>1. PICK old \in chain.configLive :
         live = IF old > chain.now + TtlExtendTo THEN old ELSE chain.now + TtlExtendTo
  BY DEF Extended
<1>2. old \in Nat /\ chain.now \in Nat  BY DEF Chains
<1>3. TtlExtendTo \in Nat  BY SubmissionAssumption
<1> QED  BY <1>1, <1>2, <1>3

\* The ledger after a transaction of the account.
LEMMA LaterLedger ==
  ASSUME chain \in Chains, NEW lives \in {chain.configLive, Extended}, NEW others \in Nat,
         NEW later,
         later = [chain EXCEPT !.others = others, !.sequence = chain.sequence + 1,
                               !.configLive = lives]
  PROVE  later \in Chains /\ Grows(chain, later)
<1>1. lives \subseteq Nat /\ \A l \in lives : \E old \in chain.configLive : old <= l
  BY ExtendedLasts DEF Chains
<1>2. chain.now \in Nat /\ chain.sequence \in Nat  BY DEF Chains
<1>3. later = [now |-> later.now, sequence |-> later.sequence,
               configLive |-> later.configLive, others |-> later.others]
  BY DEF Chains
<1>4. /\ later.now = chain.now /\ later.sequence = chain.sequence + 1
      /\ later.configLive = lives /\ later.others = others
  BY DEF Chains
<1>5. later \in Chains  BY <1>1, <1>2, <1>3, <1>4 DEF Chains
<1>6. chain.now <= later.now /\ chain.sequence <= later.sequence  BY <1>2, <1>4
<1>7. \A l \in later.configLive : \E old \in chain.configLive : old <= l
  BY <1>1, <1>4, Zenon
<1>8. Grows(chain, later)  BY <1>6, <1>7, Zenon DEF Grows
<1> QED  BY <1>5, <1>8

LEMMA OtherTransactionKeeps ==
  ASSUME SubmissionInv, OtherTransaction
  PROVE  SubmissionInv'
<1>1. chain \in Chains  BY DEF SubmissionInv
<1>2. PICK lives \in {chain.configLive, Extended} :
         chain' = [chain EXCEPT !.others = @ + 1, !.sequence = @ + 1, !.configLive = lives]
  BY DEF OtherTransaction
<1>3. chain.others + 1 \in Nat  BY <1>1 DEF Chains
<1>4. chain' = [chain EXCEPT !.others = chain.others + 1, !.sequence = chain.sequence + 1,
                             !.configLive = lives]
  BY <1>2
<1>5. chain' \in Chains /\ Grows(chain, chain')  BY <1>1, <1>3, <1>4, LaterLedger
<1> QED  BY <1>5, LedgerKeeps DEF OtherTransaction

\* The ledger decides on a transaction.
LEMMA StatusKeeps ==
  ASSUME NEW env, NEW ch, NEW sub, NEW tx, CallInv(env, ch, sub, tx),
         NEW k \in TxKinds, tx[k].status = "pending",
         NEW tx2, DOMAIN tx2 = TxKinds,
         \A j \in TxKinds : j # k => tx2[j] = tx[j],
         {"status", "sequence"} \subseteq DOMAIN tx2[k],
         tx2[k].sequence = tx[k].sequence,
         tx2[k].status \in {"success", "failed", "discarded"},
         tx2[k].status = "success" => tx2[k].sequence <= ch.sequence,
         k = "extension" /\ tx2[k].status = "success"
           => \A live \in ch.configLive : live >= sub.checked + TtlThreshold
  PROVE  CallInv(env, ch, sub, tx2)
<1>1. Shape(sub, tx2)  BY DEF CallInv, Shape
<1>2. \A j \in TxKinds : /\ IsSent(tx2, j) <=> IsSent(tx, j)
                         /\ tx2[j].sequence = tx[j].sequence
                         /\ tx[j].status = "success" => tx2[j].status = "success"
  BY DEF IsSent
<1>3. StagesInOrder(env, sub, tx2)
  <2>1. PassageDone(env, tx) => PassageDone(env, tx2)
    BY KindsOfTransactions DEF PassageDone
  <2>2. ExtensionDone(tx) => ExtensionDone(tx2)
    BY KindsOfTransactions DEF ExtensionDone
  <2> QED  BY <1>2, <2>1, <2>2, KindsOfTransactions DEF CallInv, StagesInOrder
<1>4. SequencesRise(ch, sub, tx2)
  BY <1>2, KindsOfTransactions DEF CallInv, SequencesRise
<1>5. EntryLives(env, ch, sub, tx2)
  BY <1>2, KindsOfTransactions DEF CallInv, EntryLives
<1> QED  BY <1>1, <1>3, <1>4, <1>5 DEF CallInv

LEMMA DecidedKeeps ==
  ASSUME SubmissionInv, NEW c \in Submissions, NEW k \in TxKinds, txs[c][k].status = "pending",
         chain' \in Chains, Grows(chain, chain'), UNCHANGED <<environment, subs>>,
         DOMAIN txs' = Submissions, \A d \in Submissions : d # c => txs'[d] = txs[d],
         DOMAIN txs'[c] = TxKinds, \A j \in TxKinds : j # k => txs'[c][j] = txs[c][j],
         {"status", "sequence"} \subseteq DOMAIN txs'[c][k],
         txs'[c][k].sequence = txs[c][k].sequence,
         txs'[c][k].status \in {"success", "failed", "discarded"},
         txs'[c][k].status = "success" => txs'[c][k].sequence <= chain'.sequence,
         k = "extension" /\ txs'[c][k].status = "success"
           => \A live \in chain'.configLive : live >= subs[c].checked + TtlThreshold
  PROVE  SubmissionInv'
<1>1. \A d \in Submissions : CallInv(environment, chain', subs[d], txs[d])
  BY GrowthKeeps DEF SubmissionInv
<1>2. CallInv(environment, chain', subs[c], txs'[c])  BY <1>1, StatusKeeps
<1> QED  BY <1>1, <1>2 DEF SubmissionInv

LEMMA IncludeKeeps ==
  ASSUME SubmissionInv, NEW c \in Submissions, NEW k \in TxKinds, Include(c, k) \/ Discard(c, k)
  PROVE  SubmissionInv'
<1>1. /\ chain \in Chains /\ txs[c][k].status = "pending" /\ UNCHANGED <<environment, subs>>
      /\ CallInv(environment, chain, subs[c], txs[c])
      /\ DOMAIN txs = Submissions /\ DOMAIN txs[c] = TxKinds
      /\ {"status", "sequence"} \subseteq DOMAIN txs[c][k] /\ txs[c][k].sequence \in Nat
  BY DEF SubmissionInv, CallInv, Shape, Include, Discard
<1>2. CASE Discard(c, k)
  <2>1. txs' = [txs EXCEPT ![c][k].status = "discarded"] /\ UNCHANGED chain
    BY <1>2 DEF Discard
  <2>2. Grows(chain, chain')  BY <1>1, <2>1 DEF Grows, Chains
  <2> QED  BY <1>1, <2>1, <2>2, DecidedKeeps
<1>3. ASSUME txs' = [txs EXCEPT ![c][k].status = "failed"],
             chain' = [chain EXCEPT !.sequence = @ + 1]
      PROVE  SubmissionInv'
  <2>1. chain.others \in Nat  BY <1>1 DEF Chains
  <2>2. chain' = [chain EXCEPT !.others = chain.others, !.sequence = chain.sequence + 1,
                               !.configLive = chain.configLive]
    BY <1>1, <1>3 DEF Chains
  <2>3. chain' \in Chains /\ Grows(chain, chain')  BY <1>1, <2>1, <2>2, LaterLedger
  <2> QED  BY <1>1, <1>3, <2>3, DecidedKeeps
<1>4. ASSUME NEW meta, txs' = [txs EXCEPT ![c][k].status = "success", ![c][k].meta = meta],
             txs[c][k].sequence = chain.sequence + 1,
             chain' = [chain EXCEPT !.sequence = @ + 1,
                                    !.configLive = IF k = "extension" THEN Extended ELSE @]
      PROVE  SubmissionInv'
  <2> DEFINE lives == IF k = "extension" THEN Extended ELSE chain.configLive
  <2>1. chain.others \in Nat /\ lives \in {chain.configLive, Extended}  BY <1>1 DEF Chains
  <2> HIDE DEF lives
  <2>2. chain' = [chain EXCEPT !.others = chain.others, !.sequence = chain.sequence + 1,
                               !.configLive = lives]
    BY <1>1, <1>4 DEF Chains, lives
  <2>3. chain' \in Chains /\ Grows(chain, chain')  BY <1>1, <2>1, <2>2, LaterLedger
  <2>7. chain'.sequence = chain.sequence + 1 /\ chain'.configLive = lives
    BY <1>1, <2>2 DEF Chains
  <2>4. ASSUME k = "extension", NEW live \in chain'.configLive
        PROVE  live >= subs[c].checked + TtlThreshold
    <3>1. live \in Nat /\ chain.now + TtlExtendTo <= live
      BY <1>1, <2>7, <2>4, ExtendedLasts DEF lives
    <3>2. subs[c].checked \in Nat /\ subs[c].checked <= chain.now /\ chain.now \in Nat
      BY <1>1 DEF CallInv, Shape, EntryLives, Chains
    <3>3. TtlThreshold \in Nat /\ TtlExtendTo \in Nat /\ TtlThreshold <= TtlExtendTo
      BY SubmissionAssumption
    <3> QED  BY <3>1, <3>2, <3>3
  <2>5. /\ DOMAIN txs' = Submissions /\ \A d \in Submissions : d # c => txs'[d] = txs[d]
        /\ DOMAIN txs'[c] = TxKinds /\ \A j \in TxKinds : j # k => txs'[c][j] = txs[c][j]
        /\ {"status", "sequence"} \subseteq DOMAIN txs'[c][k]
        /\ txs'[c][k].sequence = txs[c][k].sequence /\ txs'[c][k].status = "success"
    BY <1>1, <1>4
  <2>6. txs'[c][k].sequence <= chain'.sequence
    BY <1>1, <1>4, <2>7, <2>5
  <2> QED  BY <1>1, <2>3, <2>4, <2>5, <2>6, DecidedKeeps
<1>5. \/ Discard(c, k)
      \/ /\ txs' = [txs EXCEPT ![c][k].status = "failed"]
         /\ chain' = [chain EXCEPT !.sequence = @ + 1]
      \/ \E meta : /\ txs' = [txs EXCEPT ![c][k].status = "success", ![c][k].meta = meta]
                   /\ txs[c][k].sequence = chain.sequence + 1
                   /\ chain' = [chain EXCEPT !.sequence = @ + 1,
                                       !.configLive = IF k = "extension" THEN Extended ELSE @]
  BY Zenon DEF Include
<1> QED  BY <1>2, <1>3, <1>4, <1>5

---------------------------------------------------------------------------
LEMMA SubmissionInvInit == SubmissionInit => SubmissionInv
<1> SUFFICES ASSUME SubmissionInit  PROVE SubmissionInv
  OBVIOUS
<1>1. TtlExtendTo \in Nat  BY SubmissionAssumption
<1>2. PICK live \in {{}} \cup {{n} : n \in 0..TtlExtendTo} :
         chain = [now |-> 0, sequence |-> 0, configLive |-> live, others |-> 0]
  BY DEF SubmissionInit
<1>3. chain \in Chains  BY <1>1, <1>2 DEF Chains
<1>4. /\ Shape(Idle, [k \in TxKinds |-> NoTx])
      /\ StagesInOrder(environment, Idle, [k \in TxKinds |-> NoTx])
      /\ SequencesRise(chain, Idle, [k \in TxKinds |-> NoTx])
      /\ EntryLives(environment, chain, Idle, [k \in TxKinds |-> NoTx])
  BY <1>2, KindsOfTransactions
  DEF Idle, NoTx, Shape, StagesInOrder, SequencesRise, EntryLives, IsSent, BeforePassage,
      BeforeExtension, BeforeCall
<1> QED  BY <1>3, <1>4 DEF SubmissionInit, SubmissionInv, CallInv

LEMMA SubmissionStepKeeps == SubmissionInv /\ [SubmissionNext]_submissionVars => SubmissionInv'
<1> SUFFICES ASSUME SubmissionInv, [SubmissionNext]_submissionVars
             PROVE  SubmissionInv'
  OBVIOUS
<1>1. CASE UNCHANGED submissionVars
  BY <1>1 DEF submissionVars, SubmissionInv
<1>2. CASE SubmissionNext
  <2>1. CASE CloseLedger \/ OtherTransaction
    BY <2>1, CloseLedgerKeeps, OtherTransactionKeeps
  <2>2. CASE \E c \in Submissions, k \in TxKinds : Include(c, k) \/ Discard(c, k)
    BY <2>2, IncludeKeeps
  <2>3. CASE \E c \in Submissions, k \in TxKinds \ {"transact"} :
               BuildTransaction(c, k) \/ SendTransaction(c, k) \/ PollTransaction(c, k)
    BY <2>3, BuildKeeps, SendTransactionKeeps, PollKeeps
  <2>4. ASSUME NEW c \in Submissions,
               \/ FetchLedger(c) \/ PostKytInspect(c) \/ RegisterKytPassage(c)
               \/ CheckTtl(c) \/ AssembleTransact(c) \/ RunTtlPreflight(c)
               \/ SignAndSend(c) \/ ReturnHash(c)
               \/ PollConfirmation(c) \/ FetchStatus(c) \/ GetDetails(c)
               \/ SimulateSweep(c)
        PROVE  SubmissionInv'
    BY <2>4, PassageStepsKeep, CheckTtlKeeps, AssembleKeeps, PreflightKeeps, SignAndSendKeeps,
       LaterStepsKeep
  <2> QED  BY <1>2, <2>1, <2>2, <2>3, <2>4 DEF SubmissionNext
<1> QED  BY <1>1, <1>2

LEMMA CallComesLastFollows == SubmissionInv => CallComesLast
BY DEF SubmissionInv, CallInv, StagesInOrder, EntryLives, IsSent, CallComesLast,
       PassageBeforeTransact, ExtensionFirst

LEMMA OneSequenceEachFollows == SubmissionInv => OneSequenceEach
<1> SUFFICES ASSUME SubmissionInv, NEW c \in Submissions, NEW j \in TxKinds, NEW k \in TxKinds,
                    j # k, IsSent(txs[c], j), IsSent(txs[c], k)
             PROVE  txs[c][j].sequence # txs[c][k].sequence
  BY DEF OneSequenceEach, IsSent
<1>1. Shape(subs[c], txs[c]) /\ SequencesRise(chain, subs[c], txs[c])
  BY DEF SubmissionInv, CallInv
<1>2. /\ txs[c]["passage"].sequence \in Nat /\ txs[c]["extension"].sequence \in Nat
      /\ txs[c]["transact"].sequence \in Nat
  BY <1>1, KindsOfTransactions DEF Shape
<1>3. \/ j = "passage" /\ k \in {"extension", "transact"}
      \/ j = "extension" /\ k \in {"passage", "transact"}
      \/ j = "transact" /\ k \in {"passage", "extension"}
  BY DEF TxKinds
<1>4. /\ IsSent(txs[c], "passage") /\ IsSent(txs[c], "extension")
           => txs[c]["passage"].sequence < txs[c]["extension"].sequence
      /\ IsSent(txs[c], "passage") /\ IsSent(txs[c], "transact")
           => txs[c]["passage"].sequence < txs[c]["transact"].sequence
      /\ IsSent(txs[c], "extension") /\ IsSent(txs[c], "transact")
           => txs[c]["extension"].sequence < txs[c]["transact"].sequence
  BY <1>1, Zenon DEF SequencesRise
<1>5. \A m, n \in Nat : m < n => m # n  OBVIOUS
<1> QED  BY <1>2, <1>3, <1>4, <1>5, Zenon

LEMMA SubmissionsOfPath == TransactionSpec => SubmissionInit /\ [][SubmissionNext]_submissionVars
<1>1. TransactionInit => SubmissionInit  BY DEF TransactionInit
<1>2. [TransactionNext]_transactionVars => [SubmissionNext]_submissionVars
  BY DEF TransactionNext, transactionVars
<1> QED  BY <1>1, <1>2, PTL DEF TransactionSpec

\* However the polls, the timeouts, the ledger and other users of the account
\* fall, a pool call is sent only when its passage is on the ledger, if passages
\* are registered there, and when the entry of its circuit lives as long as its
\* check asked for (kyt/passage, submit/zk-config-ttl.ts).
THEOREM PoolCallComesLast == TransactionSpec => []CallComesLast
BY SubmissionsOfPath, SubmissionInvInit, SubmissionStepKeeps, CallComesLastFollows, PTL

\* No submission sends two transactions under one sequence number: what is built
\* later was preceded by the success of what was sent before.
THEOREM SequencesAreOwn == TransactionSpec => []OneSequenceEach
BY SubmissionsOfPath, SubmissionInvInit, SubmissionStepKeeps, OneSequenceEachFollows, PTL

---------------------------------------------------------------------------
\* The slots of a proof, the values they carry and the hints of their notes.

SlotFor(slots, role) == \E j \in DOMAIN slots : slots[j] = role

LaidOut(own, change, fee, slots, hints) ==
  /\ \A j, k \in DOMAIN slots : slots[j] = slots[k] => j = k
  /\ (own > 0) <=> SlotFor(slots, "own")
  /\ (change > 0) <=> SlotFor(slots, "change")
  /\ (fee > 0) <=> SlotFor(slots, "fee")
  /\ \A j \in 1..6 :
        LET real == j <= Len(slots) /\ slots[j] # "dummy"
            hint == IF j <= Len(hints) THEN hints[j] ELSE "0"
        IN hint = IF real THEN "own" ELSE "0"

\* Tuples written in parts.
LEMMA JoinedTwo ==
  ASSUME NEW a, NEW b
  PROVE  <<a>> \o <<b>> = <<a, b>>
<1> DEFINE S == {a, b}
           s == <<a>>
           t == <<b>>
           u == <<a, b>>
<1>1. /\ s \in Seq(S) /\ Len(s) = 1 /\ s[1] = a
      /\ t \in Seq(S) /\ Len(t) = 1 /\ t[1] = b
      /\ u \in Seq(S) /\ Len(u) = 2 /\ u[1] = a /\ u[2] = b
  OBVIOUS
<1> HIDE DEF S, s, t, u
<1>2. /\ s \o t \in Seq(S) /\ Len(s \o t) = Len(s) + Len(t)
      /\ \A j \in 1 .. Len(s) + Len(t) :
            (s \o t)[j] = IF j <= Len(s) THEN s[j] ELSE t[j - Len(s)]
  BY <1>1, ConcatProperties
<1>3. Len(s) + Len(t) = 2
  BY <1>1
<1>4. (s \o t)[1] = a /\ (s \o t)[2] = b
  BY <1>1, <1>2, <1>3
<1>5. Len(s \o t) = 2 /\ \A j \in 1..2 : (s \o t)[j] = u[j]
  BY <1>1, <1>2, <1>3, <1>4
<1>6. s \o t = u
  BY <1>1, <1>2, <1>5, SeqEqual
<1> QED  BY <1>6 DEF s, t, u

LEMMA JoinedThree ==
  ASSUME NEW a, NEW b, NEW c
  PROVE  <<a, b>> \o <<c>> = <<a, b, c>>
<1> DEFINE S == {a, b, c}
           s == <<a, b>>
           t == <<c>>
           u == <<a, b, c>>
<1>1. /\ s \in Seq(S) /\ Len(s) = 2 /\ s[1] = a /\ s[2] = b
      /\ t \in Seq(S) /\ Len(t) = 1 /\ t[1] = c
      /\ u \in Seq(S) /\ Len(u) = 3 /\ u[1] = a /\ u[2] = b /\ u[3] = c
  OBVIOUS
<1> HIDE DEF S, s, t, u
<1>2. /\ s \o t \in Seq(S) /\ Len(s \o t) = Len(s) + Len(t)
      /\ \A j \in 1 .. Len(s) + Len(t) :
            (s \o t)[j] = IF j <= Len(s) THEN s[j] ELSE t[j - Len(s)]
  BY <1>1, ConcatProperties
<1>3. Len(s) + Len(t) = 3
  BY <1>1
<1>4. (s \o t)[1] = a /\ (s \o t)[2] = b /\ (s \o t)[3] = c
  BY <1>1, <1>2, <1>3
<1>5. Len(s \o t) = 3 /\ \A j \in 1..3 : (s \o t)[j] = u[j]
  BY <1>1, <1>2, <1>3, <1>4
<1>6. s \o t = u
  BY <1>1, <1>2, <1>5, SeqEqual
<1> QED  BY <1>6 DEF s, t, u

LEMMA JoinedEmpty ==
  ASSUME NEW S, NEW s \in Seq(S)
  PROVE  s \o <<>> = s /\ <<>> \o s = s
BY ConcatEmptySeq

\* What the slots and hints of a transfer are, for a change and a fee.
LEMMA TransferParts ==
  ASSUME NEW change \in Nat, NEW fee \in Nat
  PROVE  /\ change > 0 /\ fee > 0 => /\ TransferSlots(change, fee) = <<"own", "change", "fee">>
                                     /\ TransferHints(change, fee) = <<"own", "own", "own">>
         /\ change > 0 /\ fee = 0 => /\ TransferSlots(change, fee) = <<"own", "change">>
                                     /\ TransferHints(change, fee) = <<"own", "own">>
         /\ change = 0 /\ fee > 0 => /\ TransferSlots(change, fee) = <<"own", "fee">>
                                     /\ TransferHints(change, fee) = <<"own", "own">>
         /\ change = 0 /\ fee = 0 => /\ TransferSlots(change, fee) = <<"own", "dummy">>
                                     /\ TransferHints(change, fee) = <<"own", "0">>
<1>1. /\ <<"own">> \o <<"change">> = <<"own", "change">>
      /\ <<"own">> \o <<"own">> = <<"own", "own">>
      /\ <<"own">> \o <<"dummy">> = <<"own", "dummy">>
      /\ <<"own">> \o <<"0">> = <<"own", "0">>
      /\ <<"own">> \o <<"fee">> = <<"own", "fee">>
  BY JoinedTwo
<1>2. /\ <<"own", "change">> \o <<"fee">> = <<"own", "change", "fee">>
      /\ <<"own", "own">> \o <<"own">> = <<"own", "own", "own">>
  BY JoinedThree
<1>3. \A a, b : <<a, b>> \o <<>> = <<a, b>>
  <2> SUFFICES ASSUME NEW a, NEW b
               PROVE  <<a, b>> \o <<>> = <<a, b>>
    OBVIOUS
  <2>1. <<a, b>> \in Seq({a, b})
    OBVIOUS
  <2> QED  BY <2>1, JoinedEmpty
<1>4. <<"own">> \o <<>> = <<"own">>
  <2>1. <<"own">> \in Seq({"own"})
    OBVIOUS
  <2> QED  BY <2>1, JoinedEmpty
<1>5. CASE change > 0 /\ fee > 0
  <2>1. /\ TransferSlots(change, fee) = <<"own">> \o <<"change">> \o <<"fee">>
        /\ TransferHints(change, fee) = <<"own">> \o <<"own">> \o <<"own">>
    BY <1>5, Zenon DEF TransferSlots, TransferHints, FeeSlot
  <2>2. /\ TransferSlots(change, fee) = <<"own", "change", "fee">>
        /\ TransferHints(change, fee) = <<"own", "own", "own">>
    BY <1>1, <1>2, <2>1, Zenon
  <2> QED  BY <1>5, <2>2
<1>6. CASE change > 0 /\ fee = 0
  <2>1. /\ TransferSlots(change, fee) = <<"own">> \o <<"change">> \o <<>>
        /\ TransferHints(change, fee) = <<"own">> \o <<"own">> \o <<>>
    BY <1>6 DEF TransferSlots, TransferHints, FeeSlot
  <2> QED  BY <1>1, <1>3, <1>6, <2>1
<1>7. CASE change = 0 /\ fee > 0
  <2>1. /\ TransferSlots(change, fee) = <<"own">> \o <<>> \o <<"fee">>
        /\ TransferHints(change, fee) = <<"own">> \o <<>> \o <<"own">>
    BY <1>7 DEF TransferSlots, TransferHints, FeeSlot
  <2> QED  BY <1>1, <1>4, <1>7, <2>1
<1>8. CASE change = 0 /\ fee = 0
  <2>1. /\ TransferSlots(change, fee) = <<"own">> \o <<"dummy">> \o <<>>
        /\ TransferHints(change, fee) = <<"own">> \o <<"0">> \o <<>>
    BY <1>8 DEF TransferSlots, TransferHints, FeeSlot
  <2> QED  BY <1>1, <1>3, <1>8, <2>1
<1> QED  BY <1>5, <1>6, <1>7, <1>8

LEMMA FewParts ==
  ASSUME NEW change \in Nat, NEW fee \in Nat
  PROVE  /\ WithdrawSlots(change, fee)
              = IF change > 0 THEN IF fee > 0 THEN <<"change", "fee">> ELSE <<"change">>
                ELSE IF fee > 0 THEN <<"fee">> ELSE <<>>
         /\ WithdrawHints(change, fee)
              = IF change > 0 THEN IF fee > 0 THEN <<"own", "own">> ELSE <<"own">>
                ELSE IF fee > 0 THEN <<"own">> ELSE <<"0">>
         /\ <<"own">> \o FeeSlot(fee) = IF fee > 0 THEN <<"own", "fee">> ELSE <<"own">>
<1>1. /\ <<"change">> \o <<"fee">> = <<"change", "fee">>
      /\ <<"own">> \o <<"own">> = <<"own", "own">>
      /\ <<"own">> \o <<"fee">> = <<"own", "fee">>
  BY JoinedTwo
<1>2. \A a : <<a>> \o <<>> = <<a>> /\ <<>> \o <<a>> = <<a>>
  <2> SUFFICES ASSUME NEW a
               PROVE  <<a>> \o <<>> = <<a>> /\ <<>> \o <<a>> = <<a>>
    OBVIOUS
  <2>1. <<a>> \in Seq({a})
    OBVIOUS
  <2> QED  BY <2>1, JoinedEmpty
<1>3. <<>> \o <<>> = <<>>
  <2>1. <<>> \in Seq({})
    OBVIOUS
  <2> QED  BY <2>1, JoinedEmpty
<1>4. CASE change > 0 /\ fee > 0
  <2>1. change # 0
    BY <1>4
  <2> QED  BY <1>1, <1>4, <2>1, Zenon DEF WithdrawSlots, WithdrawHints, FeeSlot
<1>5. CASE change > 0 /\ ~(fee > 0)
  <2>1. change # 0
    BY <1>5
  <2> QED  BY <1>1, <1>2, <1>5, <2>1, Zenon DEF WithdrawSlots, WithdrawHints, FeeSlot
<1>6. CASE ~(change > 0) /\ fee > 0
  <2>1. fee # 0
    BY <1>6
  <2> QED  BY <1>1, <1>2, <1>6, <2>1, Zenon DEF WithdrawSlots, WithdrawHints, FeeSlot
<1>7. CASE ~(change > 0) /\ ~(fee > 0)
  <2>1. change = 0 /\ fee = 0
    BY <1>7
  <2> QED  BY <1>2, <1>3, <1>7, <2>1, Zenon DEF WithdrawSlots, WithdrawHints, FeeSlot
<1> QED  BY <1>4, <1>5, <1>6, <1>7

LEMMA TransferLaidOut ==
  ASSUME NEW own \in Nat, own > 0, NEW change \in Nat, NEW fee \in Nat
  PROVE  /\ LaidOut(own, change, fee, TransferSlots(change, fee), TransferHints(change, fee))
         /\ Len(TransferSlots(change, fee)) = IF change > 0 /\ fee > 0 THEN 3 ELSE 2
         /\ Len(TransferHints(change, fee)) = IF change > 0 /\ fee > 0 THEN 3 ELSE 2
<1>1. CASE change > 0 /\ fee > 0
  <2>1. TransferSlots(change, fee) = <<"own", "change", "fee">> /\ TransferHints(change, fee) = <<"own", "own", "own">>
    BY <1>1, TransferParts
  <2>2. LaidOut(own, change, fee, <<"own", "change", "fee">>, <<"own", "own", "own">>)
    BY <1>1 DEF LaidOut, SlotFor
  <2>3. Len(<<"own", "change", "fee">>) = 3 /\ Len(<<"own", "own", "own">>) = 3
    OBVIOUS
  <2> QED  BY <1>1, <2>1, <2>2, <2>3
<1>2. CASE change > 0 /\ fee = 0
  <2>1. TransferSlots(change, fee) = <<"own", "change">> /\ TransferHints(change, fee) = <<"own", "own">>
    BY <1>2, TransferParts
  <2>2. LaidOut(own, change, fee, <<"own", "change">>, <<"own", "own">>)
    BY <1>2 DEF LaidOut, SlotFor
  <2>3. Len(<<"own", "change">>) = 2 /\ Len(<<"own", "own">>) = 2
    OBVIOUS
  <2> QED  BY <1>2, <2>1, <2>2, <2>3
<1>3. CASE change = 0 /\ fee > 0
  <2>1. TransferSlots(change, fee) = <<"own", "fee">> /\ TransferHints(change, fee) = <<"own", "own">>
    BY <1>3, TransferParts
  <2>2. LaidOut(own, change, fee, <<"own", "fee">>, <<"own", "own">>)
    BY <1>3 DEF LaidOut, SlotFor
  <2>3. Len(<<"own", "fee">>) = 2 /\ Len(<<"own", "own">>) = 2
    OBVIOUS
  <2> QED  BY <1>3, <2>1, <2>2, <2>3
<1>4. CASE change = 0 /\ fee = 0
  <2>1. TransferSlots(change, fee) = <<"own", "dummy">> /\ TransferHints(change, fee) = <<"own", "0">>
    BY <1>4, TransferParts
  <2>2. LaidOut(own, change, fee, <<"own", "dummy">>, <<"own", "0">>)
    BY <1>4 DEF LaidOut, SlotFor
  <2>3. Len(<<"own", "dummy">>) = 2 /\ Len(<<"own", "0">>) = 2
    OBVIOUS
  <2> QED  BY <1>4, <2>1, <2>2, <2>3
<1> QED  BY <1>1, <1>2, <1>3, <1>4

LEMMA WithdrawLaidOut ==
  ASSUME NEW change \in Nat, NEW fee \in Nat
  PROVE  /\ LaidOut(0, change, fee, WithdrawSlots(change, fee), WithdrawHints(change, fee))
         /\ Len(WithdrawSlots(change, fee)) \in 0..2
         /\ Len(WithdrawHints(change, fee)) \in 0..2
<1>1. CASE change > 0 /\ fee > 0
  <2>1. WithdrawSlots(change, fee) = <<"change", "fee">> /\ WithdrawHints(change, fee) = <<"own", "own">>
    BY <1>1, FewParts
  <2>2. LaidOut(0, change, fee, <<"change", "fee">>, <<"own", "own">>)
    BY <1>1 DEF LaidOut, SlotFor
  <2>3. Len(<<"change", "fee">>) = 2 /\ Len(<<"own", "own">>) = 2
    OBVIOUS
  <2> QED  BY <1>1, <2>1, <2>2, <2>3
<1>2. CASE change > 0 /\ fee = 0
  <2>1. WithdrawSlots(change, fee) = <<"change">> /\ WithdrawHints(change, fee) = <<"own">>
    <3>1. (change > 0) /\ ~(fee > 0)
      BY <1>2
    <3> QED  BY <3>1, FewParts, Zenon
  <2>2. LaidOut(0, change, fee, <<"change">>, <<"own">>)
    BY <1>2 DEF LaidOut, SlotFor
  <2>3. Len(<<"change">>) = 1 /\ Len(<<"own">>) = 1
    OBVIOUS
  <2> QED  BY <1>2, <2>1, <2>2, <2>3
<1>3. CASE change = 0 /\ fee > 0
  <2>1. WithdrawSlots(change, fee) = <<"fee">> /\ WithdrawHints(change, fee) = <<"own">>
    <3>1. ~(change > 0) /\ (fee > 0)
      BY <1>3
    <3> QED  BY <3>1, FewParts, Zenon
  <2>2. LaidOut(0, change, fee, <<"fee">>, <<"own">>)
    BY <1>3 DEF LaidOut, SlotFor
  <2>3. Len(<<"fee">>) = 1 /\ Len(<<"own">>) = 1
    OBVIOUS
  <2> QED  BY <1>3, <2>1, <2>2, <2>3
<1>4. CASE change = 0 /\ fee = 0
  <2>1. WithdrawSlots(change, fee) = <<>> /\ WithdrawHints(change, fee) = <<"0">>
    <3>1. ~(change > 0) /\ ~(fee > 0)
      BY <1>4
    <3> QED  BY <3>1, FewParts, Zenon
  <2>2. LaidOut(0, change, fee, <<>>, <<"0">>)
    BY <1>4 DEF LaidOut, SlotFor
  <2>3. Len(<<>>) = 0 /\ Len(<<"0">>) = 1
    OBVIOUS
  <2> QED  BY <1>4, <2>1, <2>2, <2>3
<1> QED  BY <1>1, <1>2, <1>3, <1>4

LEMMA DepositLaidOut ==
  ASSUME NEW own \in Nat, own > 0, NEW fee \in Nat,
         NEW slots, slots = <<"own">> \o FeeSlot(fee)
  PROVE  /\ LaidOut(own, 0, fee, slots, [j \in 1..Len(slots) |-> "own"])
         /\ Len(slots) \in 0..2
<1> DEFINE hints == [j \in 1..Len(slots) |-> "own"]
<1>1. CASE fee > 0
  <2>1. slots = <<"own", "fee">>
    BY <1>1, FewParts
  <2> DEFINE u == <<"own", "fee">>
  <2>a. Len(u) = 2 /\ DOMAIN u = {1, 2} /\ u[1] = "own" /\ u[2] = "fee"
    OBVIOUS
  <2> HIDE DEF u
  <2>2. Len(slots) = 2 /\ DOMAIN slots = {1, 2} /\ slots[1] = "own" /\ slots[2] = "fee"
    BY <2>1, <2>a, Zenon DEF u
  <2>3. Len(hints) = 2 /\ hints[1] = "own" /\ hints[2] = "own"
    BY <2>2
  <2> HIDE DEF hints
  <2>4. LaidOut(own, 0, fee, slots, hints)
    BY <1>1, <2>2, <2>3 DEF LaidOut, SlotFor
  <2> QED  BY <2>2, <2>4 DEF hints
<1>2. CASE fee = 0
  <2>1. slots = <<"own">>
    <3>1. 0 \in Nat /\ ~(fee > 0)
      BY <1>2
    <3> QED  BY <3>1, FewParts, Zenon
  <2> DEFINE u == <<"own">>
  <2>a. Len(u) = 1 /\ DOMAIN u = {1} /\ u[1] = "own"
    OBVIOUS
  <2> HIDE DEF u
  <2>2. Len(slots) = 1 /\ DOMAIN slots = {1} /\ slots[1] = "own"
    BY <2>1, <2>a, Zenon DEF u
  <2>3. Len(hints) = 1 /\ hints[1] = "own"
    BY <2>2
  <2> HIDE DEF hints
  <2>4. LaidOut(own, 0, fee, slots, hints)
    BY <1>2, <2>2, <2>3 DEF LaidOut, SlotFor
  <2> QED  BY <2>2, <2>4 DEF hints
<1> QED  BY <1>1, <1>2

---------------------------------------------------------------------------
\* Every plan the SDK makes agrees with itself.

OutputsFit(p, i) ==
  /\ p.refusal \notin {"slots", "recipient"}
  /\ p.refusal = "none" =>
        /\ LaidOut(p.own, p.change, p.fee, p.slots, p.outputHints)
        /\ i.application = "own" => p.inputHints = p.inputs

LEMMA RefusedFits ==
  ASSUME NEW i, NEW why, why \notin {"none", "slots", "recipient"}
  PROVE  OutputsFit(Refused(why), i)
BY DEF OutputsFit, Refused, NoPlan

LEMMA SideOfNonce == \A nonce : Side(nonce) \in {2, 6}
BY DEF Side

\* The prover keeps the outputs of an instance that fits its circuit.
LEMMA ProvedFits ==
  ASSUME NEW i, NEW nonce, NEW instance, DOMAIN instance = DOMAIN NoPlan, instance.refusal = "none",
         LaidOut(instance.own, instance.change, instance.fee, instance.slots, instance.outputHints),
         i.application = "own" => instance.inputHints = instance.inputs,
         ~(Len(instance.inputs) > Side(nonce)), ~(Len(instance.slots) > Side(nonce)),
         ~(Len(instance.outputHints) > Side(nonce))
  PROVE  OutputsFit(Prove(nonce, instance), i)
<1> DEFINE proved == [instance EXCEPT !.nonce = nonce]
<1>1. /\ proved.refusal = "none" /\ proved.own = instance.own /\ proved.change = instance.change
      /\ proved.fee = instance.fee /\ proved.slots = instance.slots
      /\ proved.outputHints = instance.outputHints
      /\ proved.inputHints = instance.inputHints /\ proved.inputs = instance.inputs
  BY DEF NoPlan
<1>2. Prove(nonce, instance) = Refused("circuit") \/ Prove(nonce, instance) = proved
  BY Zenon DEF Prove
<1> HIDE DEF proved
<1>3. OutputsFit(proved, i)
  BY <1>1 DEF OutputsFit
<1> QED  BY <1>2, <1>3, RefusedFits

LEMMA InstanceFits ==
  ASSUME NEW i, NEW nonce, NEW inputs, NEW spent, NEW legs, NEW own, NEW change, NEW fee,
         NEW slots, NEW hints, LaidOut(own, change, fee, slots, hints),
         i.application = "own" => [j \in 1..Len(inputs) |-> "own"] = inputs,
         ~(Len(inputs) > Side(nonce)), ~(Len(slots) > Side(nonce)), ~(Len(hints) > Side(nonce))
  PROVE  /\ OutputsFit(Prove(nonce, Instance(inputs, spent, legs, <<own, change, fee>>, slots, hints)), i)
         /\ \A owner : OutputsFit(Prove(nonce,
               [Instance(inputs, spent, legs, <<own, change, fee>>, slots, hints)
                  EXCEPT !.owner = owner]), i)
<1> DEFINE p == Instance(inputs, spent, legs, <<own, change, fee>>, slots, hints)
           Made(q) == /\ DOMAIN q = DOMAIN NoPlan /\ q.refusal = "none"
                      /\ q.own = own /\ q.change = change /\ q.fee = fee
                      /\ q.slots = slots /\ q.outputHints = hints /\ q.inputs = inputs
                      /\ q.inputHints = [j \in 1..Len(inputs) |-> "own"]
<1>1. Made(p) /\ \A owner : Made([p EXCEPT !.owner = owner])
  BY DEF Instance, NoPlan
<1> HIDE DEF p
<1>2. ASSUME NEW q, Made(q)
      PROVE  OutputsFit(Prove(nonce, q), i)
  <2>1. LaidOut(q.own, q.change, q.fee, q.slots, q.outputHints)
    BY <1>2
  <2>2. i.application = "own" => q.inputHints = q.inputs
    BY <1>2
  <2>3. /\ ~(Len(q.inputs) > Side(nonce)) /\ ~(Len(q.slots) > Side(nonce))
        /\ ~(Len(q.outputHints) > Side(nonce))
    BY <1>2
  <2> QED  BY <1>2, <2>1, <2>2, <2>3, ProvedFits
<1> HIDE DEF Made
<1> QED  BY <1>1, <1>2 DEF p

\* Every circuit has room for two.
LEMMA RoomForTwo ==
  ASSUME NEW nonce, NEW n, n \in 0..2
  PROVE  ~(n > Side(nonce))
<1>1. Side(nonce) = 2 \/ Side(nonce) = 6
  BY SideOfNonce
<1> QED  BY <1>1

LEMMA DepositFits ==
  ASSUME NEW i, NEW nonce, NEW user \in Nat, user > 0, NEW fee \in Nat, NEW deposited
  PROVE  OutputsFit(DepositPlan(i, nonce, user, fee, deposited), i)
<1> DEFINE slots == <<"own">> \o FeeSlot(fee)
           hints == [j \in 1..Len(slots) |-> "own"]
           legs  == DepositLegs(deposited)
           none  == <<>>
<1>1. DepositPlan(i, nonce, user, fee, deposited)
        = Prove(nonce, Instance(none, 0, legs, <<user, 0, fee>>, slots, hints))
  BY DEF DepositPlan
<1>2. LaidOut(user, 0, fee, slots, hints) /\ Len(slots) \in 0..2
  BY DepositLaidOut
<1> HIDE DEF slots, legs
<1>3. Len(hints) = Len(slots)
  BY <1>2
<1>4. [j \in 1..Len(none) |-> "own"] = none /\ Len(none) \in 0..2
  OBVIOUS
<1> HIDE DEF hints, none
<1>5. Len(hints) \in 0..2
  BY <1>2, <1>3
<1>6. ~(Len(none) > Side(nonce))
  BY <1>4, RoomForTwo
<1>7. ~(Len(slots) > Side(nonce))
  BY <1>2, RoomForTwo
<1>8. ~(Len(hints) > Side(nonce))
  BY <1>5, RoomForTwo
<1>9. i.application = "own" => [j \in 1..Len(none) |-> "own"] = none
  BY <1>4
<1>10. LaidOut(user, 0, fee, slots, hints)
  BY <1>2
<1>11. OutputsFit(Prove(nonce, Instance(none, 0, legs, <<user, 0, fee>>, slots, hints)), i)
  BY <1>6, <1>7, <1>8, <1>9, <1>10, InstanceFits
<1> QED  BY <1>1, <1>11

\* The applications of the notes that are spent, when they are the wallet's own.
LEMMA OwnInputs ==
  ASSUME NEW i \in Intents
  PROVE  /\ Len(NoteApplications(i)) \in 0..2
         /\ i.application = "own" =>
               [j \in 1..Len(NoteApplications(i)) |-> "own"] = NoteApplications(i)
<1> DEFINE n == Len(i.notes)
<1>1. n \in 0..2
  BY IntentTypes
<1> HIDE DEF n
<1>2. NoteApplications(i) = [j \in 1..n |-> i.application]
  BY Zenon DEF NoteApplications, n
<1>3. Len(NoteApplications(i)) = n
  BY <1>1, <1>2
<1>4. i.application = "own" => [j \in 1..n |-> "own"] = NoteApplications(i)
  BY <1>2
<1> QED  BY <1>1, <1>3, <1>4

\* What a refusal is about.
LEMMA RefusalFits ==
  ASSUME NEW left, NEW changeTo, left # {} /\ left # {0} => changeTo # "nobody"
  PROVE  Refusal(left, changeTo) \in {"amount", "none"}
BY DEF Refusal

LEMMA WithdrawInstanceFits ==
  ASSUME NEW i, NEW nonce, NEW applications, NEW change \in Nat, NEW fee \in Nat,
         i.application = "own" => [j \in 1..Len(applications) |-> "own"] = applications,
         Len(applications) \in 0..2
  PROVE  OutputsFit(Prove(nonce, WithdrawInstance(i, applications, change, fee)), i)
<1> DEFINE slots == WithdrawSlots(change, fee)
           hints == WithdrawHints(change, fee)
           spent == Spent(i)
           legs  == WithdrawLegs(i.amount)
<1>1. WithdrawInstance(i, applications, change, fee)
        = Instance(applications, spent, legs, <<0, change, fee>>, slots, hints)
  BY DEF WithdrawInstance
<1>2. LaidOut(0, change, fee, slots, hints) /\ Len(slots) \in 0..2 /\ Len(hints) \in 0..2
  BY WithdrawLaidOut
<1> HIDE DEF slots, hints, spent, legs
<1>3. ~(Len(applications) > Side(nonce))
  BY RoomForTwo
<1>4. ~(Len(slots) > Side(nonce))
  BY <1>2, RoomForTwo
<1>5. ~(Len(hints) > Side(nonce))
  BY <1>2, RoomForTwo
<1>6. LaidOut(0, change, fee, slots, hints)
  BY <1>2
<1>7. OutputsFit(Prove(nonce, Instance(applications, spent, legs, <<0, change, fee>>, slots, hints)), i)
  BY <1>3, <1>4, <1>5, <1>6, InstanceFits
<1> QED  BY <1>1, <1>7

LEMMA WithdrawFits ==
  ASSUME NEW i \in Intents, NEW nonce, NEW a,
         NEW fields \in WithdrawFeeFields(i, a, Spent(i))
  PROVE  OutputsFit(WithdrawPlan(i, nonce, fields), i)
<1> DEFINE fee == fields.fee
<1>1. fee \in Nat
  BY FeeTypes DEF WithdrawFeeFields
<1>2. fields.changeTo = IF Remaining(Spent(i), i.amount, fee) = {0} THEN "nobody" ELSE "self"
  BY DEF WithdrawFeeFields
<1> HIDE DEF fee
<1>3. CASE Len(i.notes) = 1
  <2> DEFINE left == SingleWithdrawLeft(i, fields.fee)
             c    == CHOOSE x \in left : TRUE
             own  == <<"own">>
  <2>1. left # {} => left = Remaining(Spent(i), i.amount, fee)
    BY <1>3, IntentTypes DEF SingleWithdrawLeft, Remaining, fee
  <2>2. ASSUME left # {}
        PROVE  c \in Nat
    <3>1. c \in left  BY <2>2
    <3> HIDE DEF c
    <3> QED  BY <1>1, <1>3, <2>1, <2>2, <3>1, IntentTypes DEF Remaining
  <2>3. [j \in 1..Len(own) |-> "own"] = own /\ Len(own) \in 0..2
    OBVIOUS
  <2> HIDE DEF c, left, own
  <2>4. Refusal(left, fields.changeTo) \in {"amount", "none"}
    BY <1>2, <2>1, RefusalFits
  <2>5. left # {} => OutputsFit(Prove(nonce, WithdrawInstance(i, own, c, fee)), i)
    BY <1>1, <2>2, <2>3, WithdrawInstanceFits
  <2>6. \/ WithdrawPlan(i, nonce, fields) = Refused(Refusal(left, fields.changeTo))
           /\ Refusal(left, fields.changeTo) # "none"
        \/ WithdrawPlan(i, nonce, fields) = Prove(nonce, WithdrawInstance(i, own, c, fee))
           /\ Refusal(left, fields.changeTo) = "none"
    BY <1>3, Zenon DEF WithdrawPlan, SingleWithdrawPlan, c, left, own, fee
  <2>7. Refusal(left, fields.changeTo) = "none" => left # {}
    BY RefusalIsSound
  <2> QED  BY <2>4, <2>5, <2>6, <2>7, RefusedFits
<1>4. CASE Len(i.notes) # 1
  <2> DEFINE left == DualWithdrawLeft(i, fields.fee)
             c    == CHOOSE x \in left : TRUE
             own  == NoteApplications(i)
  <2>1. left # {} => left = Remaining(Spent(i), i.amount, fee)
    BY <1>4, IntentTypes DEF DualWithdrawLeft, Remaining, fee
  <2>2. ASSUME left # {}
        PROVE  c \in Nat
    <3>1. c \in left  BY <2>2
    <3> HIDE DEF c
    <3> QED  BY <1>1, <1>4, <2>1, <2>2, <3>1, IntentTypes DEF Remaining
  <2>3. /\ i.application = "own" => [j \in 1..Len(own) |-> "own"] = own
        /\ Len(own) \in 0..2
    BY OwnInputs
  <2> HIDE DEF c, left, own
  <2>4. Refusal(left, fields.changeTo) \in {"amount", "none"}
    BY <1>2, <2>1, RefusalFits
  <2>5. left # {} => OutputsFit(Prove(nonce, WithdrawInstance(i, own, c, fee)), i)
    BY <1>1, <2>2, <2>3, WithdrawInstanceFits
  <2>6. \/ WithdrawPlan(i, nonce, fields) = Refused(Refusal(left, fields.changeTo))
           /\ Refusal(left, fields.changeTo) # "none"
        \/ WithdrawPlan(i, nonce, fields) = Prove(nonce, WithdrawInstance(i, own, c, fee))
           /\ Refusal(left, fields.changeTo) = "none"
    BY <1>4, Zenon DEF WithdrawPlan, DualWithdrawPlan, c, left, own, fee
  <2>7. Refusal(left, fields.changeTo) = "none" => left # {}
    BY RefusalIsSound
  <2> QED  BY <2>4, <2>5, <2>6, <2>7, RefusedFits
<1> QED  BY <1>3, <1>4

\* A fee that is attached to a transfer raises its circuit to the larger one.
LEMMA FeeRaisesCircuit ==
  ASSUME NEW i, i.kind = "transfer", NEW a \in PreparedArtifacts, NEW fee \in FeeOutput(i, a)
  PROVE  fee > 0 => Side(TransferProofNonce(i, a)) = 6
<1> DEFINE said == FeeOutputKind("transfer", a)
<1>1. SUFFICES ASSUME fee > 0
               PROVE  Side(TransferProofNonce(i, a)) = 6
  OBVIOUS
<1>2. said.kind = "transfer"
  BY DEF FeeOutputKind
<1> HIDE DEF said
<1>3. ShouldAttachFeeOutput(said)
  BY <1>1 DEF FeeOutput, said
<1>4. FeeBearingNonce(said, i.configured) = SixBySixBindingNonce
  BY <1>2, <1>3 DEF FeeBearingNonce
<1>5. TransferProofNonce(i, a) = SixBySixBindingNonce
  BY <1>4, TransferNonces DEF said
<1> QED  BY <1>5 DEF Side

LEMMA TransferInstanceFits ==
  ASSUME NEW i \in Intents, NEW owner, NEW nonce, i.amount > 0,
         NEW change \in Nat, NEW fee \in Nat, fee > 0 => Side(nonce) = 6
  PROVE  OutputsFit(Prove(nonce, TransferInstance(i, owner, change, fee)), i)
<1> DEFINE slots  == TransferSlots(change, fee)
           hints  == TransferHints(change, fee)
           inputs == NoteApplications(i)
           spent  == Spent(i)
           legs   == ZeroLegs
           own    == i.amount
           room   == IF change > 0 /\ fee > 0 THEN 3 ELSE 2
<1>1. TransferInstance(i, owner, change, fee)
        = [Instance(inputs, spent, legs, <<own, change, fee>>, slots, hints) EXCEPT !.owner = owner]
  BY DEF TransferInstance, TransferWitnesses
<1>2. own \in Nat /\ own > 0
  BY IntentTypes
<1> HIDE DEF own
<1>3. LaidOut(own, change, fee, slots, hints) /\ Len(slots) = room /\ Len(hints) = room
  BY <1>2, TransferLaidOut
<1>4. /\ i.application = "own" => [j \in 1..Len(inputs) |-> "own"] = inputs
      /\ Len(inputs) \in 0..2
  BY OwnInputs
<1>5. ~(room > Side(nonce))
  <2>1. Side(nonce) = 2 \/ Side(nonce) = 6
    BY SideOfNonce
  <2> QED  BY <2>1
<1> HIDE DEF slots, hints, inputs, spent, legs, room
<1>6. ~(Len(inputs) > Side(nonce))
  BY <1>4, RoomForTwo
<1>7. ~(Len(slots) > Side(nonce)) /\ ~(Len(hints) > Side(nonce))
  BY <1>3, <1>5
<1>8. LaidOut(own, change, fee, slots, hints)
  BY <1>3
<1>9. \A o : OutputsFit(Prove(nonce,
         [Instance(inputs, spent, legs, <<own, change, fee>>, slots, hints) EXCEPT !.owner = o]), i)
  BY <1>4, <1>6, <1>7, <1>8, InstanceFits
<1> QED  BY <1>1, <1>9

LEMMA TransferFits ==
  ASSUME NEW i \in Intents, NEW owner, NEW nonce, NEW fee \in Nat, fee > 0 => Side(nonce) = 6
  PROVE  OutputsFit(TransferPlan(i, owner, nonce, fee), i)
<1>1. CASE Len(i.notes) = 1
  <2> DEFINE left   == SingleTransferLeft(i, fee)
             c      == CHOOSE x \in left : TRUE
             target == ChangeRecipient(i, i.notes[1], fee)
  <2>1. left # {} => /\ left = {i.notes[1] - i.amount - fee}
                     /\ i.notes[1] - i.amount - fee \in Nat /\ i.amount > 0
    BY <1>1, IntentTypes DEF SingleTransferLeft, Remaining, MinTransfer
  <2>2. left # {} /\ left # {0} => target # "nobody"
    BY <2>1 DEF ChangeRecipient
  <2>3. left # {} => c \in Nat
    BY <2>1
  <2> HIDE DEF c, left, target
  <2>4. Refusal(left, target) \in {"amount", "none"}
    BY <2>2, RefusalFits
  <2>5. left # {} => OutputsFit(Prove(nonce, TransferInstance(i, owner, c, fee)), i)
    BY <2>1, <2>3, TransferInstanceFits
  <2>6. \/ TransferPlan(i, owner, nonce, fee) = Refused(Refusal(left, target))
           /\ Refusal(left, target) # "none"
        \/ TransferPlan(i, owner, nonce, fee) = Prove(nonce, TransferInstance(i, owner, c, fee))
           /\ Refusal(left, target) = "none"
    BY <1>1, Zenon DEF TransferPlan, SingleTransferPlan, c, left, target
  <2>7. Refusal(left, target) = "none" => left # {}
    BY RefusalIsSound
  <2> QED  BY <2>4, <2>5, <2>6, <2>7, RefusedFits
<1>2. CASE Len(i.notes) # 1
  <2> DEFINE left   == DualTransferLeft(i, fee)
             c      == CHOOSE x \in left : TRUE
             notes  == i.notes[1] + i.notes[2]
             target == ChangeRecipient(i, i.notes[1] + i.notes[2], fee)
  <2>1. left # {} => /\ left = {notes - i.amount - fee}
                     /\ notes - i.amount - fee \in Nat /\ i.amount > 0
    BY <1>2, IntentTypes DEF DualTransferLeft, Remaining, MinTransfer
  <2>2. left # {} /\ left # {0} => target # "nobody"
    BY <2>1 DEF ChangeRecipient
  <2>3. left # {} => c \in Nat
    BY <2>1
  <2> HIDE DEF c, left, target
  <2>4. Refusal(left, target) \in {"amount", "none"}
    BY <2>2, RefusalFits
  <2>5. left # {} => OutputsFit(Prove(nonce, TransferInstance(i, owner, c, fee)), i)
    BY <2>1, <2>3, TransferInstanceFits
  <2>6. \/ TransferPlan(i, owner, nonce, fee) = Refused(Refusal(left, target))
           /\ Refusal(left, target) # "none"
        \/ TransferPlan(i, owner, nonce, fee) = Prove(nonce, TransferInstance(i, owner, c, fee))
           /\ Refusal(left, target) = "none"
    BY <1>2, Zenon DEF TransferPlan, DualTransferPlan, c, left, target
  <2>7. Refusal(left, target) = "none" => left # {}
    BY RefusalIsSound
  <2> QED  BY <2>4, <2>5, <2>6, <2>7, RefusedFits
<1> QED  BY <1>1, <1>2

\* The inductive invariant: the plan fits what was asked for.
OutputsInv == OutputsFit(plan, intent)

LEMMA OutputsInvInit == PlanInit => OutputsInv
<1>1. SUFFICES ASSUME PlanInit
               PROVE  OutputsInv
  OBVIOUS
<1>2. plan = NoPlan
  BY <1>1 DEF PlanInit
<1>3. LaidOut(0, 0, 0, <<>>, <<>>)
  BY DEF LaidOut, SlotFor
<1>4. /\ NoPlan.refusal = "none" /\ NoPlan.own = 0 /\ NoPlan.change = 0 /\ NoPlan.fee = 0
      /\ NoPlan.slots = <<>> /\ NoPlan.outputHints = <<>>
      /\ NoPlan.inputHints = NoPlan.inputs
  BY DEF NoPlan
<1>5. OutputsFit(NoPlan, intent)
  BY <1>3, <1>4, Zenon DEF OutputsFit
<1> QED  BY <1>2, <1>5 DEF OutputsInv

LEMMA OutputsStepKeeps == PlanInv /\ NonceInv /\ OutputsInv /\ [PlanNext]_planVars => OutputsInv'
<1> SUFFICES ASSUME PlanInv, NonceInv, OutputsInv, [PlanNext]_planVars
             PROVE  OutputsInv'
  OBVIOUS
<1>0. intent \in Intents
  BY DEF PlanInv
<1>1. CASE PrepareDeposit
  <2>1. intent' = intent  BY <1>1 DEF PrepareDeposit
  <2>2. PICK fee, nonce :
           /\ fee \in FeeOutput(intent, NoArtifacts)
           /\ \/ Settles(Refused("amount"))
              \/ \E user \in UserAmount(intent, fee) :
                    Settles(DepositPlan(intent, nonce, user, fee, intent.amount))
    BY <1>1, Zenon DEF PrepareDeposit
  <2>3. CASE Settles(Refused("amount"))
    BY <2>1, <2>3, RefusedFits DEF Settles, OutputsInv
  <2>4. ASSUME NEW user \in UserAmount(intent, fee),
               Settles(DepositPlan(intent, nonce, user, fee, intent.amount))
        PROVE  OutputsInv'
    <3>1. fee \in Nat /\ intent.amount \in Nat  BY <1>0, <2>2, FeeTypes, IntentTypes
    <3>2. user \in Nat /\ user > 0  BY <3>1 DEF UserAmount
    <3>3. OutputsFit(DepositPlan(intent, nonce, user, fee, intent.amount), intent)
      BY <3>1, <3>2, DepositFits
    <3> QED  BY <2>1, <2>4, <3>3 DEF Settles, OutputsInv
  <2> QED  BY <2>2, <2>3, <2>4
<1>2. CASE SorobanDeposit
  <2>1. PICK nonce : plan' = DepositPlan(intent, nonce, intent.amount, 0, intent.amount)
    BY <1>2, Zenon DEF SorobanDeposit, SorobanDepositPlan
  <2>2. intent.amount \in Nat /\ intent.amount > 0 /\ intent' = intent
    BY <1>0, <1>2, IntentTypes DEF SorobanDeposit
  <2>3. OutputsFit(DepositPlan(intent, nonce, intent.amount, 0, intent.amount), intent)
    BY <2>2, DepositFits
  <2> QED  BY <2>1, <2>2, <2>3 DEF OutputsInv
<1>3. CASE FinalizeTransfer
  <2> DEFINE nonce == TransferProofNonce(intent, artifacts)
             owner == TransferOwner(intent)
  <2>1. /\ intent.kind = "transfer" /\ intent' = intent
        /\ artifacts \in PreparedArtifacts
    BY <1>3 DEF FinalizeTransfer, NonceInv
  <2>2. PICK fee \in FeeOutput(intent, artifacts) :
           plan' = TransferPlan(intent, owner, nonce, fee)
    BY <1>3, Zenon DEF FinalizeTransfer, Settles
  <2>3. fee \in Nat
    BY <2>2, FeeTypes
  <2>4. fee > 0 => Side(nonce) = 6
    BY <2>1, <2>2, FeeRaisesCircuit
  <2> HIDE DEF nonce, owner
  <2>5. OutputsFit(TransferPlan(intent, owner, nonce, fee), intent)
    BY <1>0, <2>3, <2>4, TransferFits
  <2> QED  BY <2>1, <2>2, <2>5 DEF OutputsInv
<1>4. CASE FinalizeWithdraw
  <2>1. PICK fields, nonce :
           /\ fields \in WithdrawFeeFields(intent, artifacts, Spent(intent))
           /\ plan' = WithdrawPlan(intent, nonce, fields)
    BY <1>4, Zenon DEF FinalizeWithdraw, Settles
  <2>2. OutputsFit(WithdrawPlan(intent, nonce, fields), intent)
    BY <1>0, <2>1, WithdrawFits
  <2>3. intent' = intent
    BY <1>4 DEF FinalizeWithdraw
  <2> QED  BY <2>1, <2>2, <2>3 DEF OutputsInv
<1>5. CASE \/ RecipientRegisters \/ PrepareSpend \/ PrepareSweep \/ QuoteFails \/ AskRoute
           \/ SubmitDirect \/ SubmitConfidentialTransfer \/ PackageForRelay
           \/ UNCHANGED planVars
  <2>1. UNCHANGED <<plan, intent>>
    BY <1>5 DEF RecipientRegisters, PrepareSpend, PrepareSweep, QuoteFails, AskRoute,
                SubmitDirect, SubmitConfidentialTransfer, PackageForRelay, planVars
  <2> QED  BY <2>1 DEF OutputsInv
<1> QED  BY <1>1, <1>2, <1>3, <1>4, <1>5 DEF PlanNext

LEMMA OutputsInvAgrees == OutputsInv => OutputsAgree
<1> SUFFICES ASSUME OutputsInv
             PROVE  OutputsAgree
  OBVIOUS
<1>1. plan.refusal \notin {"slots", "recipient"}
  BY DEF OutputsInv, OutputsFit
<1>2. ASSUME Planned
      PROVE  SlotsCarryValues
  <2>1. LaidOut(plan.own, plan.change, plan.fee, plan.slots, plan.outputHints)
    BY <1>2 DEF Planned, OutputsInv, OutputsFit
  <2> QED  BY <2>1 DEF LaidOut, SlotFor, SlotsCarryValues
<1>3. ASSUME Planned, intent.application = "own"
      PROVE  HintsMatchSlots
  <2>1. /\ LaidOut(plan.own, plan.change, plan.fee, plan.slots, plan.outputHints)
        /\ plan.inputHints = plan.inputs
    BY <1>3 DEF Planned, OutputsInv, OutputsFit
  <2>2. 1..Side(plan.nonce) \subseteq 1..6
    <3>1. Side(plan.nonce) = 2 \/ Side(plan.nonce) = 6
      BY SideOfNonce
    <3> QED  BY <3>1
  <2> QED  BY <2>1, <2>2 DEF LaidOut, HintsMatchSlots
<1> QED  BY <1>1, <1>2, <1>3 DEF OutputsAgree

\* The values, the slots and the hints of a proof agree, and no operation is
\* refused for a slot or for a recipient that it lacks, whatever the notes, the
\* amounts, the quoted fee, the circuits and the configured nonce: a fee has
\* raised the circuit of the one plan with three outputs, a transfer with change.
THEOREM OutputsAlwaysAgree == TransactionSpec => []OutputsAgree
<1>1. TransactionInit => PlanInit  BY DEF TransactionInit
<1>2. [TransactionNext]_transactionVars => [PlanNext]_planVars
  BY DEF TransactionNext, transactionVars
<1> QED
  BY <1>1, <1>2, PlanInvInit, PlanStepKeeps, NonceInvInit, NonceStepKeeps, OutputsInvInit,
     OutputsStepKeeps, OutputsInvAgrees, PTL DEF TransactionSpec

---------------------------------------------------------------------------
\* What the host is told: a status is final once it is a success or a failure,
\* and the details are read from what the call itself invoked and moved.

\* The pool call t, once it is sent.
PoolCall(t) ==
  /\ DOMAIN t = DOMAIN NoTx
  /\ t.status # "none" => t.ops \in {<<{PoolId}>>, <<{}, {PoolId}>>}
  /\ t.status = "success" => \E m \in Metas : t.meta = {m}

\* What is told of it.
Said(told, t) ==
  /\ told.status \in {"success", "failed"} => told.status = t.status
  /\ told.invoked \subseteq {PoolId}
  /\ told.amount \subseteq {Moved}

TruthInv ==
  /\ DOMAIN subs = Submissions /\ DOMAIN txs = Submissions
  /\ \A c \in Submissions :
        /\ DOMAIN subs[c] = DOMAIN Idle
        /\ subs[c].at \notin {"confirming", "told"} => subs[c].told = Told("nothing")
        /\ DOMAIN txs[c] = TxKinds
        /\ \A k \in TxKinds : DOMAIN txs[c][k] = DOMAIN NoTx
        /\ PoolCall(txs[c]["transact"])
        /\ Said(subs[c].told, txs[c]["transact"])

LEMMA ToldSaid ==
  ASSUME NEW t, NEW status, status \in {"success", "failed"} => status = t.status
  PROVE  Said(Told(status), t)
BY DEF Said, Told

\* No transfer but the pool's own has the pool at an end and an amount.
LEMMA EventsOfMetas ==
  ASSUME NEW m \in Metas
  PROVE  /\ DOMAIN CollectedEvents(m) \in {{}, {1, 2}, {1, 2, 3}}
         /\ \A j \in DOMAIN CollectedEvents(m) :
               TransferOf(CollectedEvents(m)[j], PoolId) \subseteq {Moved}
<1> DEFINE fee == Event("contract", "fee", OtherId, OtherId, {1})
           other == Event("contract", "transfer", OtherId, OtherId, {1})
           opaque == Event("contract", "transfer", OtherId, PoolId, {})
           Safe(e) == TransferOf(e, PoolId) \subseteq {Moved}
<1>1. OtherId # PoolId
  BY SubmissionAssumption
<1>2. Safe(fee) /\ Safe(other) /\ Safe(opaque) /\ Safe(PoolTransfer)
  BY <1>1 DEF TransferOf, Event, PoolTransfer
<1>3. \/ m = [version |-> 3, tx |-> <<>>, ops |-> <<other, PoolTransfer>>]
      \/ m = [version |-> 4, tx |-> <<fee>>, ops |-> <<opaque, PoolTransfer>>]
      \/ m = [version |-> 2, tx |-> <<>>, ops |-> <<PoolTransfer>>]
  BY DEF Metas
<1> HIDE DEF fee, other, opaque, Safe
<1>4. CASE m = [version |-> 3, tx |-> <<>>, ops |-> <<other, PoolTransfer>>]
  <2>1. CollectedEvents(m) = <<other, PoolTransfer>>
    BY <1>4 DEF CollectedEvents
  <2>2. DOMAIN <<other, PoolTransfer>> = {1, 2}
    OBVIOUS
  <2> QED  BY <1>2, <2>1, <2>2 DEF Safe
<1>5. CASE m = [version |-> 4, tx |-> <<fee>>, ops |-> <<opaque, PoolTransfer>>]
  <2> DEFINE S == {fee, opaque, PoolTransfer}
             s == <<fee>>
             t == <<opaque, PoolTransfer>>
             e == s \o t
  <2>1. CollectedEvents(m) = e
    BY <1>5 DEF CollectedEvents
  <2>2. /\ s \in Seq(S) /\ Len(s) = 1 /\ s[1] = fee
        /\ t \in Seq(S) /\ Len(t) = 2 /\ t[1] = opaque /\ t[2] = PoolTransfer
    OBVIOUS
  <2> HIDE DEF S, s, t
  <2>3. /\ s \o t \in Seq(S) /\ Len(s \o t) = Len(s) + Len(t)
        /\ \A i \in 1 .. Len(s) + Len(t) :
              (s \o t)[i] = IF i <= Len(s) THEN s[i] ELSE t[i - Len(s)]
    BY <2>2, ConcatProperties
  <2>4. Len(s) + Len(t) = 3
    BY <2>2
  <2>5. DOMAIN e = {1, 2, 3}
    BY <2>3, <2>4
  <2>6. e[1] = fee /\ e[2] = opaque /\ e[3] = PoolTransfer
    BY <2>2, <2>3, <2>4
  <2> HIDE DEF e
  <2> QED  BY <1>2, <2>1, <2>5, <2>6 DEF Safe
<1>6. CASE m = [version |-> 2, tx |-> <<>>, ops |-> <<PoolTransfer>>]
  <2>1. CollectedEvents(m) = <<>> /\ DOMAIN <<>> = {}
    BY <1>6 DEF CollectedEvents
  <2> QED  BY <2>1
<1> QED  BY <1>3, <1>4, <1>5, <1>6

LEMMA AmountIsMoved ==
  ASSUME NEW m \in Metas
  PROVE  TransferAmount(m, PoolId) \subseteq {Moved}
<1> DEFINE events == CollectedEvents(m)
           with == {j \in DOMAIN events : TransferOf(events[j], PoolId) # {}}
           First(j) == \A k \in with : j <= k
<1>1. /\ DOMAIN events \in {{}, {1, 2}, {1, 2, 3}}
      /\ \A j \in DOMAIN events : TransferOf(events[j], PoolId) \subseteq {Moved}
  BY EventsOfMetas
<1> HIDE DEF events
<1>2. CASE with = {}
  BY <1>2 DEF TransferAmount, events
<1>3. CASE with # {}
  <2>1. with \subseteq {1, 2, 3} /\ with \subseteq DOMAIN events
    BY <1>1
  <2>2. TransferAmount(m, PoolId) = TransferOf(events[CHOOSE j \in with : First(j)], PoolId)
    BY <1>3 DEF TransferAmount, events
  <2> HIDE DEF with
  <2>3. \E j \in with : First(j)
    <3>1. CASE 1 \in with
      BY <2>1, <3>1
    <3>2. CASE 1 \notin with /\ 2 \in with
      BY <2>1, <3>2
    <3>3. CASE 1 \notin with /\ 2 \notin with
      <4>1. \A k \in with : k = 3
        BY <2>1, <3>3
      <4>2. 3 \in with
        BY <1>3, <4>1
      <4> QED  BY <4>1, <4>2
    <3> QED  BY <3>1, <3>2, <3>3
  <2>4. (CHOOSE j \in with : First(j)) \in with
    BY <2>3
  <2> QED  BY <1>1, <2>1, <2>2, <2>4
<1> QED  BY <1>2, <1>3

LEMMA PoolIsInvoked ==
  ASSUME NEW ops \in {<<{PoolId}>>, <<{}, {PoolId}>>}
  PROVE  InvokedContract(ops) = {PoolId}
<1> DEFINE calls == {j \in DOMAIN ops : ops[j] # {}}
           First(j) == \A k \in calls : j <= k
<1>1. \E n \in {1, 2} : calls = {n} /\ ops[n] = {PoolId}
  <2>1. CASE ops = <<{PoolId}>>
    <3>1. DOMAIN ops = {1} /\ ops[1] = {PoolId}
      BY <2>1
    <3> QED  BY <3>1
  <2>2. CASE ops = <<{}, {PoolId}>>
    <3>1. DOMAIN ops = {1, 2} /\ ops[1] = {} /\ ops[2] = {PoolId}
      BY <2>2
    <3> QED  BY <3>1
  <2> QED  BY <2>1, <2>2
<1>2. PICK n \in {1, 2} : calls = {n} /\ ops[n] = {PoolId}
  BY <1>1
<1>3. InvokedContract(ops) = ops[CHOOSE j \in calls : First(j)]
  BY <1>2 DEF InvokedContract
<1> HIDE DEF calls
<1>4. (CHOOSE j \in calls : First(j)) = n
  BY <1>2
<1> QED  BY <1>2, <1>3, <1>4

LEMMA DetailsSaid ==
  ASSUME NEW t, PoolCall(t), NEW answer \in FetchedDetails(t)
  PROVE  Said(answer, t) /\ Said(Told(answer.status), t)
<1>1. \/ answer = Told("rpc_error") \/ answer = Told("not_found")
      \/ answer = Told("failed") /\ t.status = "failed"
      \/ answer = SuccessDetails(t) /\ t.status = "success"
  BY DEF FetchedDetails
<1>2. \A status : Told(status).status = status
  BY DEF Told
<1>3. CASE answer = SuccessDetails(t) /\ t.status = "success"
  <2>1. PICK m \in Metas : t.meta = {m}
    BY <1>3 DEF PoolCall
  <2>2. t.ops \in {<<{PoolId}>>, <<{}, {PoolId}>>}
    BY <1>3 DEF PoolCall
  <2>3. InvokedContract(t.ops) = {PoolId}
    BY <2>2, PoolIsInvoked
  <2>4. /\ answer.status = "success" /\ answer.invoked = {PoolId}
        /\ answer.amount = UNION {TransferAmount(n, pool) : n \in {m}, pool \in {PoolId}}
    BY <1>3, <2>1, <2>3 DEF SuccessDetails
  <2>5. answer.amount = TransferAmount(m, PoolId)
    BY <2>4
  <2>6. TransferAmount(m, PoolId) \subseteq {Moved}
    BY AmountIsMoved
  <2> QED  BY <1>3, <2>4, <2>5, <2>6, ToldSaid DEF Said
<1> QED  BY <1>1, <1>2, <1>3, ToldSaid

---------------------------------------------------------------------------
\* The steps.

\* A step of a submission that is told nothing.
LEMMA QuietStepKeeps ==
  ASSUME TruthInv, NEW c \in Submissions, NEW new, Moves(c, new), UNCHANGED txs,
         subs[c].at \notin {"confirming", "told"}, DOMAIN new = DOMAIN subs[c], new.told = subs[c].told
  PROVE  TruthInv'
BY DEF TruthInv, Moves

LEMMA ThrowsTrue ==
  ASSUME TruthInv, NEW c \in Submissions, Throws(c), UNCHANGED txs,
         subs[c].at \notin {"confirming", "told"}
  PROVE  TruthInv'
<1> DEFINE new == [subs[c] EXCEPT !.at = "failed"]
<1>1. DOMAIN new = DOMAIN subs[c] /\ new.told = subs[c].told /\ Moves(c, new)
  BY DEF Throws, TruthInv, Idle
<1> HIDE DEF new
<1> QED  BY <1>1, QuietStepKeeps

\* A step that tells what it was answered of the call.
LEMMA TellingStepKeeps ==
  ASSUME TruthInv, NEW c \in Submissions, NEW new, Moves(c, new), UNCHANGED txs,
         new.at \in {"confirming", "told"}, DOMAIN new = DOMAIN subs[c],
         Said(new.told, txs[c]["transact"])
  PROVE  TruthInv'
BY DEF TruthInv, Moves

\* A transaction is sent, or decided by the ledger.
LEMMA TransactionKeepsTruth ==
  ASSUME TruthInv, NEW c \in Submissions, NEW k \in TxKinds, NEW t, txs' = [txs EXCEPT ![c][k] = t],
         DOMAIN t = DOMAIN NoTx, k = "transact" => PoolCall(t) /\ Said(subs'[c].told, t),
         DOMAIN subs' = Submissions, \A d \in Submissions : d # c => subs'[d] = subs[d],
         DOMAIN subs'[c] = DOMAIN subs[c], subs'[c].told = subs[c].told,
         subs'[c].at \notin {"confirming", "told"} => subs'[c].told = Told("nothing")
  PROVE  TruthInv'
<1>1. /\ DOMAIN txs' = Submissions /\ \A d \in Submissions : d # c => txs'[d] = txs[d]
      /\ DOMAIN txs'[c] = TxKinds /\ txs'[c][k] = t
      /\ \A j \in TxKinds : j # k => txs'[c][j] = txs[c][j]
  BY DEF TruthInv
<1>2. "transact" \in TxKinds
  BY DEF TxKinds
<1> QED  BY <1>1, <1>2 DEF TruthInv

LEMMA SendingTrue ==
  ASSUME TruthInv, NEW c \in Submissions, NEW k \in TxKinds, k # "transact", SendTransaction(c, k)
  PROVE  TruthInv'
<1> DEFINE sub  == subs[c]
           t    == [NoTx EXCEPT !.status = "pending", !.sequence = sub.sequence]
           fail == [sub EXCEPT !.at = "failed"]
           wait == [sub EXCEPT !.polls = 0, !.at = PollingAt(k)]
<1>1. sub.at \notin {"confirming", "told"} /\ DOMAIN sub = DOMAIN Idle /\ sub.told = Told("nothing")
  BY DEF SendTransaction, Stands, SigningAt, TruthInv
<1>2. CASE Throws(c) /\ UNCHANGED txs
  BY <1>1, <1>2, ThrowsTrue
<1>3. CASE txs' = [txs EXCEPT ![c][k] = t] /\ (Moves(c, fail) \/ Moves(c, wait))
  <2>1. DOMAIN t = DOMAIN NoTx
    BY DEF NoTx
  <2>2. \A new \in {fail, wait} : DOMAIN new = DOMAIN sub /\ new.told = sub.told
    BY <1>1 DEF Idle
  <2> HIDE DEF t, fail, wait
  <2>3. PICK new \in {fail, wait} : Moves(c, new)
    BY <1>3
  <2>4. /\ DOMAIN subs' = Submissions /\ \A d \in Submissions : d # c => subs'[d] = subs[d]
        /\ subs'[c] = new
    BY <2>3 DEF Moves, TruthInv
  <2> QED  BY <1>1, <1>3, <2>1, <2>2, <2>4, TransactionKeepsTruth
<1> QED  BY <1>2, <1>3, Zenon DEF SendTransaction, Throws

LEMMA SigningTrue ==
  ASSUME TruthInv, NEW c \in Submissions, SignAndSend(c)
  PROVE  TruthInv'
<1> DEFINE sub == subs[c]
           new == [sub EXCEPT !.at = "sent"]
<1>1. sub.at \notin {"confirming", "told"} /\ DOMAIN sub = DOMAIN Idle /\ sub.told = Told("nothing")
  BY DEF SignAndSend, Stands, TruthInv
<1>2. CASE Throws(c) /\ UNCHANGED txs
  BY <1>1, <1>2, ThrowsTrue
<1>3. ASSUME Moves(c, new), NEW ops \in {<<{PoolId}>>, <<{}, {PoolId}>>},
             txs' = [txs EXCEPT ![c]["transact"] =
                 [NoTx EXCEPT !.status = "pending", !.sequence = sub.sequence, !.ops = ops]]
      PROVE  TruthInv'
  <2> DEFINE t == [NoTx EXCEPT !.status = "pending", !.sequence = sub.sequence, !.ops = ops]
  <2>1. DOMAIN t = DOMAIN NoTx /\ t.status = "pending" /\ t.ops = ops
    BY DEF NoTx
  <2>2. DOMAIN new = DOMAIN sub /\ new.told = sub.told
    BY <1>1 DEF Idle
  <2>3. txs' = [txs EXCEPT ![c]["transact"] = t]
    BY <1>3
  <2> HIDE DEF t, new
  <2>4. PoolCall(t)
    BY <2>1 DEF PoolCall
  <2>5. Said(Told("nothing"), t)
    BY ToldSaid
  <2>6. /\ DOMAIN subs' = Submissions /\ \A d \in Submissions : d # c => subs'[d] = subs[d]
        /\ subs'[c] = new
    BY <1>3 DEF Moves, TruthInv
  <2>7. "transact" \in TxKinds
    BY DEF TxKinds
  <2>8. /\ DOMAIN subs'[c] = DOMAIN subs[c] /\ subs'[c].told = subs[c].told
        /\ subs'[c].told = Told("nothing")
    BY <1>1, <2>2, <2>6
  <2>9. "transact" = "transact" => PoolCall(t) /\ Said(subs'[c].told, t)
    BY <2>4, <2>5, <2>8
  <2> QED  BY <2>1, <2>3, <2>6, <2>7, <2>8, <2>9, TransactionKeepsTruth
<1> QED  BY <1>2, <1>3, Zenon DEF SignAndSend

\* A success and a failure are final.
LEMMA DecisionsTrue ==
  ASSUME TruthInv, NEW c \in Submissions, NEW k \in TxKinds, Include(c, k) \/ Discard(c, k)
  PROVE  TruthInv'
<1> DEFINE old == txs[c][k]
<1>1. old.status = "pending" /\ subs' = subs
  BY DEF Include, Discard
<1>2. /\ DOMAIN subs = Submissions /\ DOMAIN old = DOMAIN NoTx
      /\ subs[c].at \notin {"confirming", "told"} => subs[c].told = Told("nothing")
      /\ k = "transact" => PoolCall(old) /\ Said(subs[c].told, old)
  BY DEF TruthInv
<1>3. ASSUME NEW t, txs' = [txs EXCEPT ![c][k] = t], DOMAIN t = DOMAIN NoTx, t.ops = old.ops,
             k = "transact" /\ t.status = "success" => \E m \in Metas : t.meta = {m}
      PROVE  TruthInv'
  <2>1. k = "transact" => PoolCall(t)
    BY <1>1, <1>2, <1>3 DEF PoolCall
  <2>2. k = "transact" => Said(subs[c].told, t)
    BY <1>1, <1>2 DEF Said
  <2> QED  BY <1>1, <1>2, <1>3, <2>1, <2>2, TransactionKeepsTruth
<1>4. ASSUME NEW status, status # "success", txs' = [txs EXCEPT ![c][k].status = status]
      PROVE  TruthInv'
  <2> DEFINE t == [old EXCEPT !.status = status]
  <2>1. DOMAIN t = DOMAIN NoTx /\ t.ops = old.ops /\ t.status = status
    BY <1>2 DEF NoTx
  <2>2. txs' = [txs EXCEPT ![c][k] = t]
    BY <1>4 DEF TruthInv
  <2> HIDE DEF t
  <2> QED  BY <1>3, <1>4, <2>1, <2>2
<1>5. ASSUME NEW meta, k = "transact" => \E m \in Metas : meta = {m},
             txs' = [txs EXCEPT ![c][k].status = "success", ![c][k].meta = meta]
      PROVE  TruthInv'
  <2> DEFINE t == [old EXCEPT !.status = "success", !.meta = meta]
  <2>1. DOMAIN t = DOMAIN NoTx /\ t.ops = old.ops /\ t.meta = meta
    BY <1>2 DEF NoTx
  <2>2. txs' = [txs EXCEPT ![c][k] = t]
    BY <1>5 DEF TruthInv
  <2> HIDE DEF t
  <2> QED  BY <1>3, <1>5, <2>1, <2>2
<1>6. \/ txs' = [txs EXCEPT ![c][k].status = "failed"]
      \/ txs' = [txs EXCEPT ![c][k].status = "discarded"]
      \/ \E meta : /\ k = "transact" => \E m \in Metas : meta = {m}
                   /\ txs' = [txs EXCEPT ![c][k].status = "success", ![c][k].meta = meta]
  <2>1. CASE Discard(c, k)
    BY <2>1 DEF Discard
  <2>2. CASE txs' = [txs EXCEPT ![c][k].status = "failed"]
    BY <2>2
  <2>3. ASSUME NEW meta \in IF k = "transact" THEN {{m} : m \in Metas} ELSE {{}},
               txs' = [txs EXCEPT ![c][k].status = "success", ![c][k].meta = meta]
        PROVE  \E any : /\ k = "transact" => \E m \in Metas : any = {m}
                        /\ txs' = [txs EXCEPT ![c][k].status = "success", ![c][k].meta = any]
    <3>1. k = "transact" => \E m \in Metas : meta = {m}
      BY <2>3
    <3> QED  BY <2>3, <3>1
  <2> QED  BY <2>1, <2>2, <2>3, Zenon DEF Include
<1> QED  BY <1>4, <1>5, <1>6

\* The steps that neither send the call nor ask about it.
LEMMA QuietTrue ==
  ASSUME TruthInv, NEW c \in Submissions,
         \/ FetchLedger(c) \/ PostKytInspect(c) \/ RegisterKytPassage(c)
         \/ CheckTtl(c) \/ AssembleTransact(c) \/ RunTtlPreflight(c)
         \/ ReturnHash(c) \/ SimulateSweep(c)
         \/ \E k \in TxKinds : BuildTransaction(c, k) \/ PollTransaction(c, k)
  PROVE  TruthInv'
<1> DEFINE sub == subs[c]
           Quiet(new) == DOMAIN new = DOMAIN sub /\ new.told = sub.told
<1>1. DOMAIN sub = DOMAIN Idle
  BY DEF TruthInv
<1>2. UNCHANGED txs /\ sub.at \notin {"confirming", "told"}
  BY DEF FetchLedger, PostKytInspect, RegisterKytPassage, CheckTtl, AssembleTransact,
         RunTtlPreflight, ReturnHash, SimulateSweep, BuildTransaction, PollTransaction, Stands,
         ReadingAt, PollingAt
<1>3. ASSUME NEW new, Moves(c, new), Quiet(new)
      PROVE  TruthInv'
  BY <1>2, <1>3, QuietStepKeeps
<1>4. CASE Throws(c)
  BY <1>2, <1>4, ThrowsTrue
<1>5. /\ \A at : Quiet([sub EXCEPT !.at = at])
      /\ \A at, e : Quiet([sub EXCEPT !.expires = e, !.at = at])
      /\ \A kind, at, n : Quiet([sub EXCEPT !.kind = kind, !.at = at, !.current = n])
      /\ \A n, at : Quiet([sub EXCEPT !.sequence = n, !.at = at])
      /\ \A n, at : Quiet([sub EXCEPT !.checked = n, !.at = at])
      /\ \A n, at : Quiet([sub EXCEPT !.polls = n, !.at = at])
      /\ Quiet([sub EXCEPT !.polls = @ + 1])
  BY <1>1 DEF Idle
<1> HIDE DEF Quiet
<1>6. ASSUME ~Throws(c)
      PROVE  \E new : Moves(c, new) /\ Quiet(new)
  <2>1. CASE FetchLedger(c)
    BY <1>5, <1>6, <2>1, Zenon DEF FetchLedger
  <2>2. CASE PostKytInspect(c)
    BY <1>5, <1>6, <2>2, Zenon DEF PostKytInspect
  <2>3. CASE RegisterKytPassage(c)
    BY <1>5, <1>6, <2>3, Zenon DEF RegisterKytPassage
  <2>4. CASE CheckTtl(c)
    BY <1>5, <1>6, <2>4, Zenon DEF CheckTtl
  <2>5. CASE AssembleTransact(c)
    BY <1>5, <1>6, <2>5, Zenon DEF AssembleTransact
  <2>6. CASE RunTtlPreflight(c)
    BY <1>5, <1>6, <2>6, Zenon DEF RunTtlPreflight
  <2>7. CASE ReturnHash(c)
    BY <1>5, <1>6, <2>7, Zenon DEF ReturnHash
  <2>8. CASE SimulateSweep(c)
    BY <1>5, <1>6, <2>8, Zenon DEF SimulateSweep
  <2>9. CASE \E k \in TxKinds : BuildTransaction(c, k)
    BY <1>5, <1>6, <2>9, Zenon DEF BuildTransaction
  <2>10. ASSUME NEW k \in TxKinds, PollTransaction(c, k)
         PROVE  \E new : Moves(c, new) /\ Quiet(new)
    <3>1. \/ Moves(c, [sub EXCEPT !.at = After(k, sub)])
          \/ Throws(c)
          \/ Moves(c, [sub EXCEPT !.polls = @ + 1])
      BY <2>10, Zenon DEF PollTransaction
    <3> QED  BY <1>5, <1>6, <3>1, Zenon
  <2> QED  BY <2>1, <2>2, <2>3, <2>4, <2>5, <2>6, <2>7, <2>8, <2>9, <2>10
<1> QED  BY <1>3, <1>4, <1>6

\* The steps that ask about the call.
LEMMA TellingTrue ==
  ASSUME TruthInv, NEW c \in Submissions, PollConfirmation(c) \/ FetchStatus(c) \/ GetDetails(c)
  PROVE  TruthInv'
<1> DEFINE sub == subs[c]
           t   == txs[c]["transact"]
           Tells(new) == /\ DOMAIN new = DOMAIN sub /\ new.at \in {"confirming", "told"}
                         /\ Said(new.told, t)
<1>1. DOMAIN sub = DOMAIN Idle /\ PoolCall(t) /\ Said(sub.told, t)
  BY DEF TruthInv
<1>2. UNCHANGED txs /\ sub.at = "confirming"
  BY DEF PollConfirmation, FetchStatus, GetDetails, Stands
<1>3. ASSUME NEW new, Moves(c, new), Tells(new)
      PROVE  TruthInv'
  BY <1>2, <1>3, TellingStepKeeps
<1>4. ASSUME NEW told, Said(told, t)
      PROVE  /\ Tells([sub EXCEPT !.told = told, !.at = "told"])
             /\ Tells([sub EXCEPT !.told = told])
  BY <1>1, <1>2, <1>4 DEF Idle
<1>5. Tells([sub EXCEPT !.polls = @ + 1])
  BY <1>1, <1>2 DEF Idle
<1>6. \A answer \in FetchedDetails(t) : Said(answer, t) /\ Said(Told(answer.status), t)
  BY <1>1, DetailsSaid
<1>7. Said(Told("timeout"), t) /\ Said(Told("pending"), t)
  BY ToldSaid
<1> HIDE DEF Tells
<1>8. \E new : Moves(c, new) /\ Tells(new)
  <2>1. CASE PollConfirmation(c)
    <3>1. PICK answer \in FetchedDetails(t) :
             \/ Moves(c, [sub EXCEPT !.told = Told(answer.status), !.at = "told"])
             \/ Moves(c, [sub EXCEPT !.polls = @ + 1])
             \/ Moves(c, [sub EXCEPT !.told = Told("timeout"), !.at = "told"])
      BY <2>1, Zenon DEF PollConfirmation
    <3> QED  BY <1>4, <1>5, <1>6, <1>7, <3>1, Zenon
  <2>2. CASE FetchStatus(c)
    <3>1. PICK answer \in FetchedDetails(t) :
             \/ Moves(c, [sub EXCEPT !.told = Told("pending")])
             \/ Moves(c, [sub EXCEPT !.told = Told(answer.status)])
      <4>1. PICK answer \in FetchedDetails(t) :
               Moves(c, [sub EXCEPT !.told =
                  Told(IF answer.status = "not_found" THEN "pending" ELSE answer.status)])
        BY <2>2, Zenon DEF FetchStatus
      <4>2. CASE answer.status = "not_found"
        BY <4>1, <4>2, Zenon
      <4>3. CASE answer.status # "not_found"
        BY <4>1, <4>3, Zenon
      <4> QED  BY <4>2, <4>3
    <3> QED  BY <1>4, <1>6, <1>7, <3>1, Zenon
  <2>3. CASE GetDetails(c)
    BY <1>4, <1>6, <2>3, Zenon DEF GetDetails
  <2> QED  BY <2>1, <2>2, <2>3
<1> QED  BY <1>3, <1>8

LEMMA TruthInvInit == SubmissionInit => TruthInv
<1> SUFFICES ASSUME SubmissionInit
             PROVE  TruthInv
  OBVIOUS
<1>1. /\ txs = [c \in Submissions |-> [k \in TxKinds |-> NoTx]]
      /\ subs = [c \in Submissions |-> Idle]
  BY DEF SubmissionInit
<1>2. Idle.told = Told("nothing") /\ NoTx.status = "none"
  BY DEF Idle, NoTx
<1>3. PoolCall(NoTx) /\ Said(Told("nothing"), NoTx)
  BY <1>2, ToldSaid DEF PoolCall
<1>4. "transact" \in TxKinds
  BY DEF TxKinds
<1> QED  BY <1>1, <1>2, <1>3, <1>4 DEF TruthInv

LEMMA TruthStepKeeps == TruthInv /\ [SubmissionNext]_submissionVars => TruthInv'
<1> SUFFICES ASSUME TruthInv, [SubmissionNext]_submissionVars
             PROVE  TruthInv'
  OBVIOUS
<1>1. CASE UNCHANGED submissionVars \/ CloseLedger \/ OtherTransaction
  BY <1>1 DEF submissionVars, CloseLedger, OtherTransaction, TruthInv
<1>2. CASE \E c \in Submissions, k \in TxKinds : Include(c, k) \/ Discard(c, k)
  BY <1>2, DecisionsTrue
<1>3. CASE \E c \in Submissions, k \in TxKinds \ {"transact"} :
              BuildTransaction(c, k) \/ SendTransaction(c, k) \/ PollTransaction(c, k)
  BY <1>3, SendingTrue, QuietTrue
<1>4. CASE \E c \in Submissions :
              \/ FetchLedger(c) \/ PostKytInspect(c) \/ RegisterKytPassage(c)
              \/ CheckTtl(c) \/ AssembleTransact(c) \/ RunTtlPreflight(c)
              \/ ReturnHash(c) \/ SimulateSweep(c)
  BY <1>4, QuietTrue
<1>5. CASE \E c \in Submissions :
              SignAndSend(c) \/ PollConfirmation(c) \/ FetchStatus(c) \/ GetDetails(c)
  BY <1>5, SigningTrue, TellingTrue
<1> QED  BY <1>1, <1>2, <1>3, <1>4, <1>5 DEF SubmissionNext

\* Whoever asks what became of a call is told what the ledger says of it, and the
\* amount that the pool moved, for each metadata in Metas
\* (rpc/polling.ts, rpc/transactions.ts, rpc/soroban-transaction-meta.ts).
THEOREM HostIsToldTheTruth == TransactionSpec => []ToldTheTruth
<1>1. TruthInv => ToldTheTruth
  BY DEF TruthInv, Said, ToldTheTruth
<1> QED  BY <1>1, SubmissionsOfPath, TruthInvInit, TruthStepKeeps, PTL
=============================================================================
