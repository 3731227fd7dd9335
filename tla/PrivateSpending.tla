--------------------------- MODULE PrivateSpending ---------------------------
(***************************************************************************)
(* Preparing and executing deposits, transfers and withdrawals             *)
(* (packages/core and packages/stellar) over the private records of one    *)
(* wallet, while the host restores, receives and prunes records.           *)
(*                                                                         *)
(* A caller is one chain of awaits of the host; an action is the code      *)
(* between two awaits that other callers or the chain can tell apart.  A   *)
(* write of the state bridge is atomic; reading the list and writing it    *)
(* back is two awaits.  A reload loses the callers and the prepared        *)
(* operations; the storage and the chain stay.                             *)
(***************************************************************************)
EXTENDS PrivateRecords

CONSTANTS
    Callers,        \* the concurrent calls the host can have outstanding
    InitialValue,   \* the value of each initial note
    Amounts,        \* the amounts of the intents
    RequiredFees,   \* the protocol fees the service can quote; 0 is no fee output
    MaxReceived,    \* bound: records the host upserts
    MaxReloads      \* bound: reloads of the host

ASSUME SpendingAssumption ==
    /\ Ops # {}
    /\ IsFiniteSet(InitialNotes)
    /\ InitialNotes \cap ({"recipient", "own", "pending"} \X (Ops \cup Nat)) = {}
    /\ InitialValue \in [InitialNotes -> Nat]
    /\ Amounts \subseteq Nat \ {0}
    /\ RequiredFees \subseteq Nat
    /\ MaxReceived \in Nat
    /\ MaxReloads \in Nat

VARIABLES
    storage,        \* the private records
    operations,     \* the prepared operations
    callers,        \* the suspended calls
    coordinated,    \* the host makes one call at a time (chosen at the start)
    sent,           \* operations whose transaction is in no ledger yet, or never
    landed,         \* operations whose transaction succeeded
    failed,         \* operations whose transaction is in a ledger and failed
    notes,          \* the notes in the pool and their values
    nullifiers,     \* the notes the pool has seen spent
    received, reloads    \* uses of the bounds

chainVars  == <<sent, landed, failed, notes, nullifiers>>
budgetVars == <<received, reloads>>
vars == <<storage, operations, callers, coordinated, chainVars, budgetVars>>

---------------------------------------------------------------------------
\* Operations and callers.

Phases == {"absent", "preparing", "prepared", "started", "returned", "thrown", "lost"}

Kinds == {"deposit", "transfer", "withdraw"}

\* A prepared operation with its consumed and output records; the outputs of a
\* spend are those of its proof, made when it is executed.
Operations == [phase    : Phases,
               kind     : Kinds,
               amount   : Nat,
               consumed : SUBSET Records,
               outputs  : SUBSET Records]

AbsentOperation == [phase    |-> "absent",
                    kind     |-> "deposit",
                    amount   |-> 0,
                    consumed |-> {},
                    outputs  |-> {}]

SomeOp == CHOOSE op \in Ops : TRUE

\* A caller with nothing outstanding.
Idle == [pc |-> "idle", op |-> SomeOp, todo |-> {}, list |-> {}]

At(c, pc) == callers[c].pc = pc

Step(c, w) == callers' = [callers EXCEPT ![c] = w]

Goto(c, pc) == Step(c, [callers[c] EXCEPT !.pc = pc])

OpOf(c) == operations[callers[c].op]

SetOp(op, o) == operations' = [operations EXCEPT ![op] = o]

SetPhase(op, phase) == SetOp(op, [operations[op] EXCEPT !.phase = phase])

\* The host starts a call: a coordinated one waits until the last returned.
MayCall(c) == /\ At(c, "idle")
              /\ coordinated => \A d \in Callers : At(d, "idle")

---------------------------------------------------------------------------
\* Preparing.

\* The note of a deposit is made while it is prepared; the required fee is
\* taken out of the amount and must leave something.
PrepareDeposit(c, op) ==
    /\ MayCall(c)
    /\ operations[op].phase = "absent"
    /\ \E amount \in Amounts, fee \in RequiredFees :
         /\ amount > fee
         /\ SetOp(op, [phase    |-> "prepared",
                       kind     |-> "deposit",
                       amount   |-> amount,
                       consumed |-> {},
                       outputs  |-> {Record(Own(op), amount - fee, amount - fee)}])
    /\ UNCHANGED <<storage, callers, coordinated, chainVars, budgetVars>>

\* A validated intent goes on to the selection of records.
PrepareSpend(c, op) ==
    /\ MayCall(c)
    /\ operations[op].phase = "absent"
    /\ \E kind \in {"transfer", "withdraw"}, amount \in Amounts :
         SetOp(op, [AbsentOperation EXCEPT !.phase = "preparing", !.kind = kind,
                                           !.amount = amount])
    /\ Step(c, [Idle EXCEPT !.pc = "list", !.op = op])
    /\ UNCHANGED <<storage, coordinated, chainVars, budgetVars>>

\* The storage answers with the records that can be spent.
ListRecords(c) ==
    /\ At(c, "list")
    /\ Available(storage) # {}
    /\ Step(c, [callers[c] EXCEPT !.pc = "check", !.todo = Available(storage)])
    /\ UNCHANGED <<storage, operations, coordinated, chainVars, budgetVars>>

\* The pool answers whether the next record was spent; a record without a coin
\* is not asked about.
CheckNullifier(c) ==
    /\ At(c, "check")
    /\ \E rec \in Largest(callers[c].todo) :
         Step(c, [callers[c] EXCEPT
                    !.pc   = IF callers[c].todo = {rec} THEN "select" ELSE @,
                    !.todo = @ \ {rec},
                    !.list = IF HasCoin(rec) /\ rec.key \in nullifiers
                               THEN @ ELSE @ \cup {rec}])
    /\ UNCHANGED <<storage, operations, coordinated, chainVars, budgetVars>>

\* A withdrawal is prepared with the selection; a transfer asks the pool again.
Select(c) ==
    /\ At(c, "select")
    /\ \E picked \in Picks(callers[c].list,
                           SpendAmountCoveringProtocolFee(OpOf(c).amount)) :
         \/ /\ OpOf(c).kind = "transfer"
            /\ Step(c, [callers[c] EXCEPT !.pc = "assert", !.todo = picked, !.list = {}])
            /\ UNCHANGED operations
         \/ /\ OpOf(c).kind = "withdraw"
            /\ SetOp(callers[c].op,
                     [OpOf(c) EXCEPT !.phase = "prepared", !.consumed = picked])
            /\ Step(c, Idle)
    /\ UNCHANGED <<storage, coordinated, chainVars, budgetVars>>

\* A transfer is prepared when each selected record has a coin nobody spent.
AssertAvailable(c) ==
    /\ At(c, "assert")
    /\ \A rec \in callers[c].todo : HasCoin(rec) /\ rec.key \notin nullifiers
    /\ SetOp(callers[c].op,
             [OpOf(c) EXCEPT !.phase = "prepared", !.consumed = callers[c].todo])
    /\ Step(c, Idle)
    /\ UNCHANGED <<storage, coordinated, chainVars, budgetVars>>

---------------------------------------------------------------------------
\* Executing.

\* Mutant of Execute: the flag is not looked at.
ExecuteAgain(c, op) ==
    /\ MayCall(c)
    /\ operations[op].phase \in {"prepared", "started"}
    /\ SetPhase(op, "started")
    /\ Step(c, [Idle EXCEPT !.pc = "submit", !.op = op])
    /\ UNCHANGED <<storage, coordinated, chainVars, budgetVars>>

\* A prepared operation is executed once: it is marked before anything else.
Execute(c, op) ==
    /\ MayCall(c)
    /\ operations[op].phase = "prepared"
    /\ SetPhase(op, "started")
    /\ Step(c, [Idle EXCEPT !.pc = "submit", !.op = op])
    /\ UNCHANGED <<storage, coordinated, chainVars, budgetVars>>

\* The output records of a spend whose proof was made for a required fee: the
\* planned change is what the amount leaves, the coin of the change what the
\* fee leaves too, and change without a coin keeps its planned id.
ProvenOutputs(op, fee) ==
    LET o       == operations[op]
        planned == Total(o.consumed) - o.amount
        change  == planned - fee
    IN  (IF o.kind = "transfer" THEN {Record(Recipient(op), o.amount, o.amount)} ELSE {})
        \cup (IF planned = 0 THEN {}
              ELSE IF change = 0 THEN {Record(PendingKey(planned), planned, planned)}
              ELSE {Record(Own(op), planned, change)})

\* The commitment of the record's coin is a leaf of the pool's tree.
FoundInTree(rec) == HasCoin(rec) /\ rec.key \in KeysOf(notes)

\* Mutant of Prove: the notes must pay for the amount only.
ProveUnderpaid(op) ==
    /\ \A rec \in operations[op].consumed : FoundInTree(rec)
    /\ \E fee \in RequiredFees :
         /\ Total(operations[op].consumed) >= operations[op].amount
         /\ SetOp(op, [operations[op] EXCEPT !.outputs = ProvenOutputs(op, fee)])

\* The proof of a spend is made: a transfer asks the pool about its records
\* once more, every record needs its coin and the coin its place in the tree,
\* and the notes must pay for the required fee.
Prove(op) ==
    /\ \A rec \in operations[op].consumed : FoundInTree(rec)
    /\ operations[op].kind = "transfer" =>
         KeysOf(operations[op].consumed) \cap nullifiers = {}
    /\ \E fee \in RequiredFees :
         /\ Total(operations[op].consumed) >= operations[op].amount + fee
         /\ SetOp(op, [operations[op] EXCEPT !.outputs = ProvenOutputs(op, fee)])

\* Mutant of Submit: the outputs are saved before the transaction is sent.
SubmitSaved(c) ==
    /\ At(c, "submit")
    /\ \/ OpOf(c).kind = "deposit" /\ UNCHANGED operations
       \/ OpOf(c).kind # "deposit" /\ Prove(callers[c].op)
    /\ storage' = Put(storage, operations'[callers[c].op].outputs)
    /\ sent' = sent \cup {callers[c].op}
    /\ Goto(c, "await")
    /\ UNCHANGED <<coordinated, landed, failed, notes, nullifiers, budgetVars>>

\* The wallet has signed and nobody has aborted: the transaction is sent.
Submit(c) ==
    /\ At(c, "submit")
    /\ \/ OpOf(c).kind = "deposit" /\ UNCHANGED operations
       \/ OpOf(c).kind # "deposit" /\ Prove(callers[c].op)
    /\ sent' = sent \cup {callers[c].op}
    /\ Goto(c, "await")
    /\ UNCHANGED <<storage, coordinated, landed, failed, notes, nullifiers, budgetVars>>

\* signAndSend of the contract client (external) polls until the transaction
\* is in a ledger, and then answers whatever became of it there; while the
\* transaction is in none it can only throw.  The code looks at the hash of
\* the answer and at nothing else, and commits: the outputs are saved first,
\* if there are any, then the consumed records are marked.
Confirmed(c) ==
    /\ At(c, "await")
    /\ callers[c].op \in landed \cup failed
    /\ Goto(c, IF OpOf(c).outputs # {} THEN "save" ELSE "mark_read")
    /\ UNCHANGED <<storage, operations, coordinated, chainVars, budgetVars>>

Return(c) == SetPhase(callers[c].op, "returned") /\ Step(c, Idle)

SaveOutputs(c) ==
    /\ At(c, "save")
    /\ storage' = Put(storage, OpOf(c).outputs)
    /\ \/ OpOf(c).consumed # {} /\ Goto(c, "mark_read") /\ UNCHANGED operations
       \/ OpOf(c).consumed = {} /\ Return(c)
    /\ UNCHANGED <<coordinated, chainVars, budgetVars>>

\* markPrivateRecordsUsed reads the list ...
MarkRead(c) ==
    /\ At(c, "mark_read")
    /\ Step(c, [callers[c] EXCEPT !.pc = "mark_write", !.list = storage])
    /\ UNCHANGED <<storage, operations, coordinated, chainVars, budgetVars>>

\* ... and replaces it by the list it read, with the consumed records marked.
MarkWrite(c) ==
    /\ At(c, "mark_write")
    /\ storage' = MarkSpent(callers[c].list, OpOf(c).consumed)
    /\ Return(c)
    /\ UNCHANGED <<coordinated, chainVars, budgetVars>>

\* A call throws: an abort, a refusal of the wallet, of the service or of the
\* pool, a lost answer, a failing read or write.  A prepare leaves nothing;
\* an executed operation stays executed.
Throw(c) ==
    /\ ~At(c, "idle")
    /\ Step(c, Idle)
    /\ \/ /\ ~At(c, "upsert")
          /\ OpOf(c).phase = "preparing"
          /\ SetOp(callers[c].op, AbsentOperation)
       \/ /\ ~At(c, "upsert")
          /\ OpOf(c).phase = "started"
          /\ SetPhase(callers[c].op, "thrown")
       \/ At(c, "upsert") /\ UNCHANGED operations
    /\ UNCHANGED <<storage, coordinated, chainVars, budgetVars>>

---------------------------------------------------------------------------
\* The pool.

\* A transaction succeeds when none of its notes was spent before.
Land(op) ==
    /\ op \in sent
    /\ KeysOf(operations[op].consumed) \cap nullifiers = {}
    /\ sent' = sent \ {op}
    /\ landed' = landed \cup {op}
    /\ nullifiers' = nullifiers \cup KeysOf(operations[op].consumed)
    /\ notes' = notes \cup NotesOf(operations[op].outputs)
    /\ UNCHANGED <<storage, operations, callers, coordinated, failed, budgetVars>>

\* It fails in its ledger: one of its notes was spent since it was simulated,
\* or the approval it carries has expired.  One that gets into no ledger stays
\* where it is.
Fail(op) ==
    /\ op \in sent
    /\ sent' = sent \ {op}
    /\ failed' = failed \cup {op}
    /\ UNCHANGED <<storage, operations, callers, coordinated, landed, notes,
                   nullifiers, budgetVars>>

---------------------------------------------------------------------------
\* The host.

\* The host upserts a note of the wallet that it restored or was delivered; a
\* coordinated host has checked that it is not spent.
Receive(c) ==
    /\ MayCall(c)
    /\ received < MaxReceived
    /\ received' = received + 1
    /\ \E note \in notes :
         LET rec == Record(note.key, note.value, note.value) IN
         /\ IsOwn(rec)
         /\ coordinated => note.key \notin nullifiers
         /\ Step(c, [Idle EXCEPT !.pc = "upsert", !.todo = {rec}, !.list = storage])
    /\ UNCHANGED <<storage, operations, coordinated, chainVars, reloads>>

\* The list is compared with its merge, in order: nothing is written when the
\* very record is the last one of the list that was read.
Upsert(c) ==
    /\ At(c, "upsert")
    /\ \/ callers[c].todo \subseteq callers[c].list /\ UNCHANGED storage
       \/ storage' = Put(storage, callers[c].todo)
    /\ Step(c, Idle)
    /\ UNCHANGED <<operations, coordinated, chainVars, budgetVars>>

Prune(c) ==
    /\ MayCall(c)
    /\ storage' = Unconsumed(storage)
    /\ UNCHANGED <<operations, callers, coordinated, chainVars, budgetVars>>

Reload ==
    /\ reloads < MaxReloads
    /\ reloads' = reloads + 1
    /\ callers' = [c \in Callers |-> Idle]
    /\ operations' = [op \in Ops |->
                        CASE operations[op].phase = "preparing" -> AbsentOperation
                          [] operations[op].phase \in {"prepared", "started"} ->
                               [operations[op] EXCEPT !.phase = "lost"]
                          [] OTHER -> operations[op]]
    /\ UNCHANGED <<storage, coordinated, chainVars, received>>

---------------------------------------------------------------------------
Init ==
    /\ storage = {Record(n, InitialValue[n], InitialValue[n]) : n \in InitialNotes}
    /\ operations = [op \in Ops |-> AbsentOperation]
    /\ callers = [c \in Callers |-> Idle]
    /\ coordinated \in BOOLEAN
    /\ sent = {} /\ landed = {} /\ failed = {}
    /\ notes = {[key |-> n, value |-> InitialValue[n]] : n \in InitialNotes}
    /\ nullifiers = {}
    /\ received = 0 /\ reloads = 0

Continue(c) ==
    \/ ListRecords(c)  \/ CheckNullifier(c)  \/ Select(c)  \/ AssertAvailable(c)
    \/ Submit(c)       \/ Confirmed(c)
    \/ SaveOutputs(c)  \/ MarkRead(c)        \/ MarkWrite(c)
    \/ Upsert(c)       \/ Throw(c)

Next == \/ \E c \in Callers : \/ \E op \in Ops : \/ PrepareDeposit(c, op)
                                                 \/ PrepareSpend(c, op)
                                                 \/ Execute(c, op)
                              \/ Receive(c)
                              \/ Prune(c)
                              \/ Continue(c)
        \/ \E op \in Ops : Land(op) \/ Fail(op)
        \/ Reload

Spec == Init /\ [][Next]_vars
=============================================================================
