------------------------ MODULE OperationSettlement ------------------------
(***************************************************************************)
(* What the relay runtime promises about one private operation, whatever   *)
(* calls overlap, fail or are lost in a reload: at most one transaction of *)
(* the operation lands, an escrow send only through the relayer; and the   *)
(* local effects of a success happen after it landed, in their order:      *)
(* notes are updated, then delivered, then the transaction is recorded.    *)
(***************************************************************************)
EXTENDS PendingOperation

VARIABLES
    ledger,       \* per operation, the transaction that landed
    performed     \* per operation, the side effects that have happened

TypeInvariant == /\ ledger \in [Ops -> Txs \cup {NoTx}]
                 /\ performed \in [Ops -> SUBSET Effects]

Init == /\ ledger = [op \in Ops |-> NoTx]
        /\ performed = [op \in Ops |-> {}]

Land(op, tx) == /\ ledger[op] = NoTx
                /\ op \in EscrowOps => tx = "relay_tx"
                /\ ledger' = [ledger EXCEPT ![op] = tx]
                /\ UNCHANGED performed

Perform(op, e) == /\ ledger[op] # NoTx
                  /\ Earlier(e) \subseteq performed[op]
                  /\ performed' = [performed EXCEPT ![op] = @ \cup {e}]
                  /\ UNCHANGED ledger

Next == \E op \in Ops : \/ \E tx \in Txs : Land(op, tx)
                        \/ \E e \in Effects : Perform(op, e)

vars == <<ledger, performed>>

Spec == Init /\ [][Next]_vars
=============================================================================
