-------------------------- MODULE ChainSubmission --------------------------
(***************************************************************************)
(* The transactions one wallet sends for a pool call and what it is told   *)
(* of them: the KYT passage, the extension of the circuit's entry, the     *)
(* call itself, the polls after each, and the host's own wait              *)
(* (packages/stellar/src/transact/kyt, transact/submit, rpc, and the       *)
(* sweep authorization of transact/escrow).                                *)
(*                                                                         *)
(* Submissions meet in two places only: the sequence number of the account *)
(* and the entry of the circuit.  The ledger, the KYT service, the wallet  *)
(* and whoever else uses the account or the pool are external.  An option  *)
(* is a set of at most one element.                                        *)
(***************************************************************************)
EXTENDS Integers, Sequences, FiniteSets

CONSTANTS
    Submissions,    \* the pool calls under way together
    LastLedger,     \* bound: the last ledger
    MaxOthers,      \* bound: transactions of other callers
    MaxPolls,       \* KYT_REGISTER_MAX_POLLS, EXTEND_TTL_MAX_POLLS, timeout / interval
    TtlThreshold,   \* ZK_CONFIG_TTL_THRESHOLD_LEDGERS
    TtlExtendTo,    \* ZK_CONFIG_TTL_EXTEND_TO_LEDGERS
    ApprovalLife,   \* how many ledgers a KYT approval is good for
    PoolId,         \* the pool's contract id
    OtherId         \* any other address

ASSUME SubmissionAssumption ==
    /\ LastLedger \in Nat /\ MaxOthers \in Nat
    /\ MaxPolls \in Nat \ {0}
    /\ TtlThreshold \in Nat /\ TtlExtendTo \in Nat /\ TtlThreshold <= TtlExtendTo
    /\ ApprovalLife \in Nat
    /\ PoolId # OtherId

VARIABLES
    environment,    \* registerPassageOnChain, and whether there is a signTransaction
    chain,          \* the ledger, the account's sequence, the config entry's last
                    \* ledger, and how often others used the account
    txs,            \* what each submission sent, by kind
    subs            \* where each submission stands

submissionVars == <<environment, chain, txs, subs>>

---------------------------------------------------------------------------
\* Transactions and their metadata.

TxKinds == {"passage", "extension", "transact"}

NoTx == [status |-> "none", sequence |-> 0, meta |-> {}, ops |-> <<>>]

\* A contract event; data that is not an amount reads as none.
Event(type, name, from, to, amount) ==
    [type |-> type, name |-> name, from |-> from, to |-> to, amount |-> amount]

\* The amount a pool call moves between the pool and an account.
Moved == 2

PoolTransfer == Event("contract", "transfer", OtherId, PoolId, {Moved})

\* What the ledger may record of a pool call that succeeds: its version, the
\* events of the transaction (its fee) and those of its operations.
Metas ==
    LET fee == Event("contract", "fee", OtherId, OtherId, {1})
        other == Event("contract", "transfer", OtherId, OtherId, {1})
        opaque == Event("contract", "transfer", OtherId, PoolId, {})
    IN {[version |-> 3, tx |-> <<>>, ops |-> <<other, PoolTransfer>>],
        [version |-> 4, tx |-> <<fee>>, ops |-> <<opaque, PoolTransfer>>],
        [version |-> 2, tx |-> <<>>, ops |-> <<PoolTransfer>>]}

\* collectContractEventsFromMeta.
CollectedEvents(meta) ==
    CASE meta.version = 3 -> meta.ops
      [] meta.version = 4 -> meta.tx \o meta.ops
      [] OTHER -> <<>>

\* Mutant of TransferOf: a transfer between any two.
TransferOfAny(event, pool) ==
    IF event.type = "contract" /\ event.name = "transfer" THEN event.amount ELSE {}

\* tryParseTransferFromEvent.
TransferOf(event, pool) ==
    IF event.type = "contract" /\ event.name = "transfer" /\ pool \in {event.from, event.to}
      THEN event.amount ELSE {}

\* tryExtractTransferAmountRawFromMeta: of the first event that has one.
TransferAmount(meta, pool) ==
    LET events == CollectedEvents(meta)
        with == {j \in DOMAIN events : TransferOf(events[j], pool) # {}}
    IN IF with = {} THEN {}
       ELSE TransferOf(events[CHOOSE j \in with : \A k \in with : j <= k], pool)

\* extractInvokedPoolContractFromEnvelope: the first operation that calls a contract.
InvokedContract(ops) ==
    LET calls == {j \in DOMAIN ops : ops[j] # {}}
    IN IF calls = {} THEN {} ELSE ops[CHOOSE j \in calls : \A k \in calls : j <= k]

\* buildSuccessDetails.
SuccessDetails(tx) ==
    [status |-> "success", invoked |-> InvokedContract(tx.ops),
     amount |-> UNION {TransferAmount(m, pool) : m \in tx.meta, pool \in InvokedContract(tx.ops)}]

Told(status) == [status |-> status, invoked |-> {}, amount |-> {}]

\* fetchStellarTransactionDetails: the request may fail, and an RPC node may not
\* know a transaction (yet, or any more).
FetchedDetails(tx) ==
    {Told("rpc_error"), Told("not_found")}
    \cup (IF tx.status = "success" THEN {SuccessDetails(tx)} ELSE {})
    \cup (IF tx.status = "failed" THEN {Told("failed")} ELSE {})

---------------------------------------------------------------------------
\* Submissions.

Idle == [kind |-> "transact", at |-> "idle", current |-> 0, expires |-> 0, sequence |-> 0,
         polls |-> 0, checked |-> 0, told |-> Told("nothing")]

Stands(c, at) == subs[c].at = at

Moves(c, sub) == subs' = [subs EXCEPT ![c] = sub]

\* The call throws: the stage it was in is left, what was sent stays sent.
Throws(c) == Moves(c, [subs[c] EXCEPT !.at = "failed"])

\* What follows the passage: submitPoolTransact, or the simulation of a sweep.
AfterPassage(sub) == IF sub.kind = "transact" THEN "ttl" ELSE "simulating"

\* What follows a transaction that was waited for.
After(k, sub) == IF k = "passage" THEN AfterPassage(sub) ELSE "assembling"

SigningAt(k) == CASE k = "passage" -> "signing passage" [] OTHER -> "signing extension"
PollingAt(k) == CASE k = "passage" -> "polling passage" [] OTHER -> "polling extension"
ReadingAt(k) == CASE k = "passage" -> "reading passage" [] OTHER -> "reading extension"

\* needsTtlExtension: no entry, nothing to extend.
NeedsTtlExtension == \E live \in chain.configLive : live - chain.now < TtlThreshold

\* pickUnsignedEscrowAuthorization: the first entry the claimant must sign; the
\* entries with no address credential are <<>>.
PickedAuthorization(auth, claimant) ==
    LET own == {j \in DOMAIN auth : auth[j] = <<claimant>>}
    IN IF own = {} THEN {} ELSE {CHOOSE j \in own : \A k \in own : j <= k}

---------------------------------------------------------------------------
\* The ledger.

CloseLedger ==
    /\ chain.now < LastLedger
    /\ chain' = [chain EXCEPT !.now = @ + 1]
    /\ UNCHANGED <<environment, txs, subs>>

Extended == {IF live > chain.now + TtlExtendTo THEN live ELSE chain.now + TtlExtendTo :
                live \in chain.configLive}

\* Another transaction of the account, perhaps the extension of the same entry.
OtherTransaction ==
    /\ chain.others < MaxOthers
    /\ \E live \in {chain.configLive, Extended} :
          chain' = [chain EXCEPT !.others = @ + 1, !.sequence = @ + 1, !.configLive = live]
    /\ UNCHANGED <<environment, txs, subs>>

\* A pool call needs an approval that has not expired and a live circuit entry.
Accepted(c, k) ==
    k = "transact" => /\ chain.now <= subs[c].expires
                      /\ \E live \in chain.configLive : chain.now <= live

\* The next transaction of the account is included; it may fail for a reason
\* of its own.
Include(c, k) ==
    /\ txs[c][k].status = "pending"
    /\ txs[c][k].sequence = chain.sequence + 1
    /\ \/ /\ Accepted(c, k)
          /\ \E meta \in (IF k = "transact" THEN {{m} : m \in Metas} ELSE {{}}) :
                txs' = [txs EXCEPT ![c][k].status = "success", ![c][k].meta = meta]
          /\ chain' = [chain EXCEPT !.sequence = @ + 1,
                                     !.configLive = IF k = "extension" THEN Extended ELSE @]
       \/ /\ txs' = [txs EXCEPT ![c][k].status = "failed"]
          /\ chain' = [chain EXCEPT !.sequence = @ + 1]
    /\ UNCHANGED <<environment, subs>>

\* A transaction is never included: its sequence number was used, or its time is up.
Discard(c, k) ==
    /\ txs[c][k].status = "pending"
    /\ txs' = [txs EXCEPT ![c][k].status = "discarded"]
    /\ UNCHANGED <<environment, chain, subs>>

---------------------------------------------------------------------------
\* requestKytPassageForPoolInteraction.

\* fetchCurrentLedger, for a pool call or for the authorization of a sweep.
FetchLedger(c) ==
    /\ Stands(c, "idle")
    /\ \/ Throws(c)
       \/ \E kind \in {"transact", "sweep"} :
             Moves(c, [subs[c] EXCEPT !.kind = kind, !.at = "inspecting", !.current = chain.now])
    /\ UNCHANGED <<environment, chain, txs>>

\* postKytInspect: rejected, needs_review and an HTTP error throw.
PostKytInspect(c) ==
    /\ Stands(c, "inspecting")
    /\ \/ Throws(c)
       \/ Moves(c, [subs[c] EXCEPT !.expires = subs[c].current + ApprovalLife,
                        !.at = IF environment.registers THEN "registering" ELSE AfterPassage(subs[c])])
    /\ UNCHANGED <<environment, chain, txs>>

\* registerKytPassage needs a wallet that signs.
RegisterKytPassage(c) ==
    /\ Stands(c, "registering")
    /\ IF environment.signs THEN Moves(c, [subs[c] EXCEPT !.at = ReadingAt("passage")]) ELSE Throws(c)
    /\ UNCHANGED <<environment, chain, txs>>

\* server.getAccount and prepareTransaction, of a passage or of an extension.
BuildTransaction(c, k) ==
    /\ Stands(c, ReadingAt(k))
    /\ \/ Throws(c)
       \/ Moves(c, [subs[c] EXCEPT !.sequence = chain.sequence + 1, !.at = SigningAt(k)])
    /\ UNCHANGED <<environment, chain, txs>>

\* Mutant of SendTransaction: nobody waits for what was sent.
SendWithoutWaiting(c, k) ==
    /\ Stands(c, SigningAt(k))
    /\ \/ Throws(c) /\ UNCHANGED txs
       \/ /\ txs' = [txs EXCEPT ![c][k] = [NoTx EXCEPT !.status = "pending", !.sequence = subs[c].sequence]]
          /\ Moves(c, [subs[c] EXCEPT !.polls = 0, !.at = After(k, subs[c])])
    /\ UNCHANGED <<environment, chain>>

\* The wallet signs and the node takes the transaction, or the call throws, also
\* when only the answer of a node that took it is lost.
SendTransaction(c, k) ==
    /\ Stands(c, SigningAt(k))
    /\ \/ Throws(c) /\ UNCHANGED txs
       \/ /\ txs' = [txs EXCEPT ![c][k] = [NoTx EXCEPT !.status = "pending", !.sequence = subs[c].sequence]]
          /\ Throws(c) \/ Moves(c, [subs[c] EXCEPT !.polls = 0, !.at = PollingAt(k)])
    /\ UNCHANGED <<environment, chain>>

\* Mutant of PollTransaction: when the polls are used up the call goes on.
PollThenGoOn(c, k) ==
    /\ Stands(c, PollingAt(k))
    /\ \E answer \in FetchedDetails(txs[c][k]) :
          CASE answer.status = "success" -> Moves(c, [subs[c] EXCEPT !.at = After(k, subs[c])])
            [] answer.status \in {"failed", "rpc_error"} -> Throws(c)
            [] OTHER -> Moves(c, IF subs[c].polls + 1 < MaxPolls
                                   THEN [subs[c] EXCEPT !.polls = @ + 1]
                                   ELSE [subs[c] EXCEPT !.at = After(k, subs[c])])
    /\ UNCHANGED <<environment, chain, txs>>

\* One poll of waitForKytRegistration or waitForExtendFootprintTtlConfirmation.
PollTransaction(c, k) ==
    /\ Stands(c, PollingAt(k))
    /\ \E answer \in FetchedDetails(txs[c][k]) :
          CASE answer.status = "success" -> Moves(c, [subs[c] EXCEPT !.at = After(k, subs[c])])
            [] answer.status \in {"failed", "rpc_error"} -> Throws(c)
            [] OTHER -> IF subs[c].polls + 1 < MaxPolls
                          THEN Moves(c, [subs[c] EXCEPT !.polls = @ + 1]) ELSE Throws(c)
    /\ UNCHANGED <<environment, chain, txs>>

---------------------------------------------------------------------------
\* submitPoolTransact.

\* extendZkConfigTtlIfNeeded up to its transaction.
CheckTtl(c) ==
    /\ Stands(c, "ttl")
    /\ \/ environment.signs /\ Throws(c)
       \/ Moves(c, [subs[c] EXCEPT !.checked = chain.now,
                        !.at = IF environment.signs /\ NeedsTtlExtension
                                 THEN ReadingAt("extension") ELSE "assembling"])
    /\ UNCHANGED <<environment, chain, txs>>

\* contractClient.transact reads the account and simulates; runTtlPreflight
\* simulates again; the restore of what is archived is the client library's own.
AssembleTransact(c) ==
    /\ Stands(c, "assembling")
    /\ \/ Throws(c)
       \/ Moves(c, [subs[c] EXCEPT !.sequence = chain.sequence + 1, !.at = "preflight"])
    /\ UNCHANGED <<environment, chain, txs>>

RunTtlPreflight(c) ==
    /\ Stands(c, "preflight")
    /\ Throws(c) \/ Moves(c, [subs[c] EXCEPT !.at = "signing"])
    /\ UNCHANGED <<environment, chain, txs>>

\* signAndSend, up to the node's answer.
SignAndSend(c) ==
    /\ Stands(c, "signing")
    /\ \/ Throws(c) /\ UNCHANGED txs
       \/ /\ Moves(c, [subs[c] EXCEPT !.at = "sent"])
          /\ \E ops \in {<<{PoolId}>>, <<{}, {PoolId}>>} :
                txs' = [txs EXCEPT ![c]["transact"] =
                          [NoTx EXCEPT !.status = "pending", !.sequence = subs[c].sequence, !.ops = ops]]
    /\ UNCHANGED <<environment, chain>>

\* The hash is the result, whatever became of the transaction; without one the
\* call throws.
ReturnHash(c) ==
    /\ Stands(c, "sent")
    /\ Throws(c) \/ Moves(c, [subs[c] EXCEPT !.polls = 0, !.at = "confirming"])
    /\ UNCHANGED <<environment, chain, txs>>

---------------------------------------------------------------------------
\* The host asks what became of the transaction.

\* Mutant of PollConfirmation: when the time is up it starts anew.
PollForEver(c) ==
    /\ Stands(c, "confirming")
    /\ \E answer \in FetchedDetails(txs[c]["transact"]) :
          IF answer.status # "not_found"
            THEN Moves(c, [subs[c] EXCEPT !.told = Told(answer.status), !.at = "told"])
            ELSE Moves(c, [subs[c] EXCEPT !.polls = (@ + 1) % MaxPolls])
    /\ UNCHANGED <<environment, chain, txs>>

\* One turn of waitForStellarTransactionConfirmation.
PollConfirmation(c) ==
    /\ Stands(c, "confirming")
    /\ \E answer \in FetchedDetails(txs[c]["transact"]) :
          IF answer.status # "not_found"
            THEN Moves(c, [subs[c] EXCEPT !.told = Told(answer.status), !.at = "told"])
          ELSE IF subs[c].polls + 1 < MaxPolls
            THEN Moves(c, [subs[c] EXCEPT !.polls = @ + 1])
            ELSE Moves(c, [subs[c] EXCEPT !.told = Told("timeout"), !.at = "told"])
    /\ UNCHANGED <<environment, chain, txs>>

\* fetchTransactionConfirmationStatusWithEnvironment.
FetchStatus(c) ==
    /\ Stands(c, "confirming")
    /\ \E answer \in FetchedDetails(txs[c]["transact"]) :
          Moves(c, [subs[c] EXCEPT !.told =
                      Told(IF answer.status = "not_found" THEN "pending" ELSE answer.status)])
    /\ UNCHANGED <<environment, chain, txs>>

\* getTransactionDetailsWithEnvironment: an unknown transaction throws.
GetDetails(c) ==
    /\ Stands(c, "confirming")
    /\ \E answer \in FetchedDetails(txs[c]["transact"]) :
          Moves(c, [subs[c] EXCEPT !.told = answer, !.at = "told"])
    /\ UNCHANGED <<environment, chain, txs>>

---------------------------------------------------------------------------
\* simulateSweepAuthEntries and pickUnsignedEscrowAuthorization; the entries are
\* those of the relayer, of the claimant, and of the invoker.
SimulateSweep(c) ==
    /\ Stands(c, "simulating")
    /\ \/ Throws(c)
       \/ \E auth \in {<<>>, <<<<>>, <<"claimant">>>>, <<<<"relayer">>, <<"claimant">>>>} :
             IF PickedAuthorization(auth, "claimant") = {} THEN Throws(c)
               ELSE Moves(c, [subs[c] EXCEPT !.at = "authorized"])
    /\ UNCHANGED <<environment, chain, txs>>

---------------------------------------------------------------------------
SubmissionInit ==
    /\ environment \in [registers : BOOLEAN, signs : BOOLEAN]
    /\ \E live \in {{}} \cup {{n} : n \in 0..TtlExtendTo} :
          chain = [now |-> 0, sequence |-> 0, configLive |-> live, others |-> 0]
    /\ txs = [c \in Submissions |-> [k \in TxKinds |-> NoTx]]
    /\ subs = [c \in Submissions |-> Idle]

\* The polls, which timers and answers keep going.
Polls(c) == PollTransaction(c, "passage") \/ PollTransaction(c, "extension") \/ PollConfirmation(c)

SubmissionNext ==
    \/ CloseLedger \/ OtherTransaction
    \/ \E c \in Submissions, k \in TxKinds : Include(c, k) \/ Discard(c, k)
    \/ \E c \in Submissions, k \in TxKinds \ {"transact"} :
          BuildTransaction(c, k) \/ SendTransaction(c, k) \/ PollTransaction(c, k)
    \/ \E c \in Submissions :
          \/ FetchLedger(c) \/ PostKytInspect(c) \/ RegisterKytPassage(c)
          \/ CheckTtl(c) \/ AssembleTransact(c) \/ RunTtlPreflight(c)
          \/ SignAndSend(c) \/ ReturnHash(c)
          \/ PollConfirmation(c) \/ FetchStatus(c) \/ GetDetails(c)
          \/ SimulateSweep(c)

SubmissionSpec ==
    SubmissionInit /\ [][SubmissionNext]_submissionVars
    /\ \A c \in Submissions : WF_submissionVars(Polls(c))

---------------------------------------------------------------------------
\* Properties.

\* A pool call is sent only once its passage is on the ledger, when passages are
\* registered there (inspect.ts, submit.ts and the end of its polls).
PassageBeforeTransact ==
    \A c \in Submissions :
       (environment.registers /\ txs[c]["transact"].status # "none")
          => txs[c]["passage"].status = "success"

\* "submits a standalone extendFootprintTtl transaction to bump it before the
\* main transact call is sent" (zk-config-ttl.ts:111): when the call is sent, the
\* entry lives as long as the threshold asked of it at the time of the check.
ExtensionFirst ==
    \A c \in Submissions :
       (environment.signs /\ txs[c]["transact"].status # "none")
          => \A live \in chain.configLive : live >= subs[c].checked + TtlThreshold

\* The pool call comes after the transactions it needs, whatever became of each
\* and however its wait ended.
CallComesLast == PassageBeforeTransact /\ ExtensionFirst

\* No call sends two transactions under one sequence number, of which the
\* ledger would take only one: each is waited for before the next is built.
OneSequenceEach ==
    \A c \in Submissions : \A j, k \in TxKinds :
       (j # k /\ "none" \notin {txs[c][j].status, txs[c][k].status})
          => txs[c][j].sequence # txs[c][k].sequence

\* What the host is told of a call is what the ledger says: its outcome, and
\* the amount the pool moved, never that of another transfer or of the fee.
ToldTheTruth ==
    \A c \in Submissions :
       LET told == subs[c].told
       IN /\ told.status \in {"success", "failed"} => told.status = txs[c]["transact"].status
          /\ told.invoked \subseteq {PoolId}
          /\ told.amount \subseteq {Moved}

\* Every wait for a confirmation ends, whatever the ledger does: the polls are
\* counted (poll.ts, zk-config-ttl.ts) or timed (polling.ts).
EveryWaitEnds ==
    \A c \in Submissions :
       subs[c].at \in {PollingAt("passage"), PollingAt("extension"), "confirming"}
          ~> subs[c].at \notin {PollingAt("passage"), PollingAt("extension"), "confirming"}
=============================================================================
