------------------------------ MODULE Relayer ------------------------------
(***************************************************************************)
(* The two services the relay runtime talks to, modelled from how it uses  *)
(* them: the relayer behind RelayApi (createRequest, readStatus,           *)
(* retryAttempt and the eight lifecycle statuses of types.ts) and the pool *)
(* contract, which accepts the nullifiers of an operation once and so      *)
(* lands at most one transaction for it.                                   *)
(***************************************************************************)
EXTENDS PendingOperation

CONSTANT ReportedStatuses    \* the in-progress statuses this relayer shows

InProgress == {"accepted", "validating", "queued", "submitted", "reconciling"}

ASSUME RelayerAssumption ==
    {"accepted", "submitted"} \subseteq ReportedStatuses
    /\ ReportedStatuses \subseteq InProgress

VARIABLES
    relay,     \* per operation, the report of its relay request
    ledger     \* per operation, the transaction that landed on chain

\* The order in which a request passes through its in-progress statuses.
Stage(status) == CASE status = "accepted"    -> 1
                   [] status = "validating"  -> 2
                   [] status = "queued"      -> 3
                   [] status = "submitted"   -> 4
                   [] status = "reconciling" -> 5
                   [] OTHER                  -> 0

OnChain == {"submitted", "reconciling"}

RelayerInit == /\ relay = [op \in Ops |-> NoReport]
               /\ ledger = [op \in Ops |-> NoTx]

\* createRequest is admitted.
Admit(op) == /\ relay[op].status = NoStatus
             /\ relay' = [relay EXCEPT ![op].status = "accepted"]

\* retryAttempt is admitted.
AdmitRetry(op) == /\ relay[op].status = "failed"
                  /\ relay[op].retryAllowed
                  /\ relay' = [relay EXCEPT ![op] = [NoReport EXCEPT !.status = "accepted"]]

\* A transaction of the operation is accepted by the pool: its nullifiers
\* are spent from now on.
Land(op, tx) == /\ ledger[op] = NoTx
                /\ ledger' = [ledger EXCEPT ![op] = tx]

Process(op) == \E status \in ReportedStatuses :
    /\ relay[op].status \in InProgress
    /\ Stage(status) > Stage(relay[op].status)
    /\ relay' = [relay EXCEPT ![op].status = status]
    /\ UNCHANGED ledger

LandRelayed(op) == /\ relay[op].status \in OnChain
                   /\ Land(op, "relay_tx")
                   /\ UNCHANGED relay

\* A success may be reported before the transaction hash is known.
ReportSuccess(op) == \E hash \in {"relay_tx", NoTx} :
    /\ relay[op].status \in OnChain
    /\ ledger[op] = "relay_tx"
    /\ relay' = [relay EXCEPT ![op].status = "succeeded", ![op].hash = hash]
    /\ UNCHANGED ledger

PublishHash(op) == /\ relay[op].status = "succeeded"
                   /\ relay[op].hash = NoTx
                   /\ relay' = [relay EXCEPT ![op].hash = "relay_tx"]
                   /\ UNCHANGED ledger

Reject(op) == /\ relay[op].status \in InProgress \ OnChain
              /\ relay' = [relay EXCEPT ![op].status = "rejected"]
              /\ UNCHANGED ledger

FailAttempt(op) == \E retryAllowed \in BOOLEAN :
    /\ relay[op].status \in InProgress
    /\ ledger[op] # "relay_tx"
    /\ relay' = [relay EXCEPT ![op].status = "failed", ![op].retryAllowed = retryAllowed]
    /\ UNCHANGED ledger

RelayerStep(op) == \/ Process(op)
                   \/ LandRelayed(op)
                   \/ ReportSuccess(op)
                   \/ PublishHash(op)
                   \/ Reject(op)
                   \/ FailAttempt(op)
=============================================================================
