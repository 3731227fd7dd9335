------------------------ MODULE PrivateSpending_proof ------------------------
(***************************************************************************)
(* Type correctness of PrivateSpending.                                    *)
(***************************************************************************)
EXTENDS SpendingRequirements, TLAPS

---------------------------------------------------------------------------
\* The operators on records.

LEMMA KeyTypes ==
  ASSUME NEW op \in Ops
  PROVE  Recipient(op) \in Keys /\ Own(op) \in Keys
BY DEF Recipient, Own, Notes, Keys

LEMMA RecordType ==
  ASSUME NEW key \in Keys, NEW amount \in Nat, NEW value \in Nat
  PROVE  Record(key, amount, value) \in Records
BY DEF Record, Records

\* Writing and marking make records of records.
LEMMA WriteTypes ==
  ASSUME NEW list \in SUBSET Records, NEW recs \in SUBSET Records
  PROVE  /\ Put(list, recs) \subseteq Records
         /\ MarkSpent(list, recs) \subseteq Records
         /\ Unconsumed(list) \subseteq Records
         /\ Available(list) \subseteq Records
<1>1. MarkSpent(list, recs) \subseteq Records
  <2> SUFFICES ASSUME NEW rec \in list
               PROVE  [rec EXCEPT !.consumed = @ \/ rec.key \in KeysOf(recs)] \in Records
    BY DEF MarkSpent
  <2> rec \in Records  OBVIOUS
  <2> (rec.consumed \/ rec.key \in KeysOf(recs)) \in BOOLEAN
    BY Zenon DEF Records
  <2> QED  BY DEF Records
<1> QED  BY <1>1 DEF Put, Unconsumed, Available

\* The notes of a selection add up to a natural number.
LEMMA TotalType ==
  ASSUME NEW recs \in SUBSET Records
  PROVE  Total(recs) \in Nat
<1>1. CASE recs = {}  BY <1>1 DEF Total
<1>2. CASE recs # {}
  <2> DEFINE a == CHOOSE rec \in recs : TRUE
             b == CHOOSE rec \in recs \ {a} : TRUE
  <2>1. a \in recs  BY <1>2
  <2>2. a.value \in Nat  BY <2>1 DEF Records
  <2>3. CASE recs = {a}  BY <1>2, <2>2, <2>3 DEF Total
  <2>4. CASE recs # {a}
    <3>1. b \in recs  BY <2>1, <2>4
    <3>2. b.value \in Nat  BY <3>1 DEF Records
    <3> HIDE DEF b
    <3>3. Total(recs) = a.value + b.value  BY <1>2, <2>4 DEF Total, b
    <3> QED  BY <2>2, <3>2, <3>3
  <2> QED  BY <2>3, <2>4
<1> QED  BY <1>1, <1>2

\* A selection is made of the records it was given.
LEMMA PicksType ==
  ASSUME NEW recs, NEW amount, NEW picked \in Picks(recs, amount)
  PROVE  picked \subseteq recs
BY DEF Picks, Largest

---------------------------------------------------------------------------
\* The outputs of a spend that pays for its fee are records.
LEMMA ProvenOutputsType ==
  ASSUME TypeOK, NEW op \in Ops, NEW fee \in Nat,
         Total(operations[op].consumed) >= operations[op].amount + fee
  PROVE  ProvenOutputs(op, fee) \subseteq Records
<1> DEFINE o       == operations[op]
           planned == Total(o.consumed) - o.amount
           change  == planned - fee
<1>1. o \in Operations  BY DEF TypeOK
<1>2. o.amount \in Nat /\ Total(o.consumed) \in Nat
  BY <1>1, TotalType DEF Operations
<1>3. planned \in Nat /\ change \in Nat  BY <1>2
<1>4. PendingKey(planned) \in Keys  BY <1>3 DEF PendingKey, Keys
<1> HIDE DEF planned, change
<1>5. /\ Record(Recipient(op), o.amount, o.amount) \in Records
      /\ Record(PendingKey(planned), planned, planned) \in Records
      /\ Record(Own(op), planned, change) \in Records
  BY <1>2, <1>3, <1>4, KeyTypes, RecordType
<1>6. ProvenOutputs(op, fee) \subseteq {Record(Recipient(op), o.amount, o.amount),
                                       Record(PendingKey(planned), planned, planned),
                                       Record(Own(op), planned, change)}
  BY Zenon DEF ProvenOutputs, planned, change
<1> QED  BY <1>5, <1>6

---------------------------------------------------------------------------
\* The suspended calls and the prepared operations keep their shapes when one
\* of them is replaced.

PCs == {"idle", "list", "check", "select", "assert", "submit", "await", "save",
        "mark_read", "mark_write", "upsert"}

LEMMA CallerForm ==
  ASSUME NEW pc \in PCs, NEW op \in Ops,
         NEW todo \in SUBSET Records, NEW list \in SUBSET Records
  PROVE  [pc |-> pc, op |-> op, todo |-> todo, list |-> list] \in CallerStates
BY DEF PCs, CallerStates

LEMMA CallerFields ==
  ASSUME TypeOK, NEW c \in Callers
  PROVE  /\ callers[c] \in CallerStates
         /\ callers[c].op \in Ops
         /\ callers[c].todo \subseteq Records
         /\ callers[c].list \subseteq Records
         /\ OpOf(c) \in Operations
BY DEF TypeOK, CallerStates, OpOf

LEMMA IdleType == Idle \in CallerStates
<1>1. SomeOp \in Ops  BY SpendingAssumption DEF SomeOp
<1> QED  BY <1>1 DEF Idle, CallerStates

LEMMA StepType ==
  ASSUME TypeOK, NEW c \in Callers, NEW w \in CallerStates, Step(c, w)
  PROVE  callers' \in [Callers -> CallerStates]
BY DEF TypeOK, Step

LEMMA GotoType ==
  ASSUME TypeOK, NEW c \in Callers, NEW pc \in PCs, Goto(c, pc)
  PROVE  callers' \in [Callers -> CallerStates]
<1>1. [callers[c] EXCEPT !.pc = pc] \in CallerStates
  BY CallerFields DEF CallerStates, PCs
<1> QED  BY <1>1, StepType DEF Goto

LEMMA SetOpType ==
  ASSUME TypeOK, NEW op \in Ops, NEW o \in Operations, SetOp(op, o)
  PROVE  operations' \in [Ops -> Operations]
BY DEF TypeOK, SetOp

LEMMA SetPhaseType ==
  ASSUME TypeOK, NEW op \in Ops, NEW phase \in Phases, SetPhase(op, phase)
  PROVE  operations' \in [Ops -> Operations]
<1>1. [operations[op] EXCEPT !.phase = phase] \in Operations
  BY DEF TypeOK, Operations
<1> QED  BY <1>1, SetOpType DEF SetPhase

LEMMA ReturnType ==
  ASSUME TypeOK, NEW c \in Callers, Return(c)
  PROVE  /\ callers' \in [Callers -> CallerStates]
         /\ operations' \in [Ops -> Operations]
<1>1. "returned" \in Phases  BY DEF Phases
<1> QED  BY <1>1, CallerFields, IdleType, StepType, SetPhaseType DEF Return

---------------------------------------------------------------------------
LEMMA InitTypeOK == Init => TypeOK
<1> SUFFICES ASSUME Init PROVE TypeOK  OBVIOUS
<1> USE DEF Init
<1>1. storage \subseteq Records
  BY RecordType, SpendingAssumption DEF Keys, Notes
<1>2. operations \in [Ops -> Operations]
  BY DEF AbsentOperation, Operations, Phases, Kinds
<1>3. callers \in [Callers -> CallerStates]  BY IdleType
<1>4. notes \subseteq [key : Notes, value : Nat]
  BY SpendingAssumption DEF Notes
<1>5. received \in 0 .. MaxReceived /\ reloads \in 0 .. MaxReloads
  BY SpendingAssumption
<1> QED  BY <1>1, <1>2, <1>3, <1>4, <1>5 DEF TypeOK

\* Preparing leaves the chain and the storage alone.
LEMMA PrepareTypeOK ==
  ASSUME TypeOK, NEW c \in Callers, NEW op \in Ops,
         \/ PrepareDeposit(c, op) \/ PrepareSpend(c, op)
         \/ ListRecords(c) \/ CheckNullifier(c) \/ Select(c) \/ AssertAvailable(c)
  PROVE  TypeOK'
<1> USE DEF chainVars, budgetVars
<1>0. /\ callers[c] \in CallerStates /\ callers[c].op \in Ops
      /\ callers[c].todo \subseteq Records /\ callers[c].list \subseteq Records
      /\ OpOf(c) \in Operations /\ Idle \in CallerStates
  BY CallerFields, IdleType
<1>1. /\ callers' \in [Callers -> CallerStates]
      /\ operations' \in [Ops -> Operations]
  <2>1. CASE PrepareDeposit(c, op)
    <3>1. PICK amount \in Amounts, fee \in RequiredFees :
            /\ amount > fee
            /\ SetOp(op, [phase    |-> "prepared",
                          kind     |-> "deposit",
                          amount   |-> amount,
                          consumed |-> {},
                          outputs  |-> {Record(Own(op), amount - fee, amount - fee)}])
      BY <2>1 DEF PrepareDeposit
    <3>2. amount \in Nat /\ amount - fee \in Nat
      BY <3>1, SpendingAssumption
    <3>3. Record(Own(op), amount - fee, amount - fee) \in Records
      BY <3>2, KeyTypes, RecordType
    <3>4. [phase    |-> "prepared",
           kind     |-> "deposit",
           amount   |-> amount,
           consumed |-> {},
           outputs  |-> {Record(Own(op), amount - fee, amount - fee)}] \in Operations
      BY <3>2, <3>3 DEF Operations, Phases, Kinds
    <3>5. operations' \in [Ops -> Operations]  BY <3>1, <3>4, SetOpType
    <3> QED  BY <2>1, <3>5 DEF PrepareDeposit, TypeOK
  <2>2. CASE PrepareSpend(c, op)
    <3>1. PICK kind \in {"transfer", "withdraw"}, amount \in Amounts :
            SetOp(op, [AbsentOperation EXCEPT !.phase = "preparing", !.kind = kind,
                                              !.amount = amount])
      BY <2>2 DEF PrepareSpend
    <3>2. [AbsentOperation EXCEPT !.phase = "preparing", !.kind = kind,
                                  !.amount = amount] \in Operations
      BY SpendingAssumption DEF AbsentOperation, Operations, Phases, Kinds
    <3>3. [Idle EXCEPT !.pc = "list", !.op = op] \in CallerStates
      BY <1>0 DEF CallerStates
    <3> QED  BY <2>2, <3>1, <3>2, <3>3, SetOpType, StepType DEF PrepareSpend
  <2>3. CASE ListRecords(c)
    <3>1. Available(storage) \subseteq Records  BY WriteTypes DEF TypeOK
    <3>2. [callers[c] EXCEPT !.pc = "check", !.todo = Available(storage)] \in CallerStates
      BY <1>0, <3>1 DEF CallerStates
    <3> QED  BY <2>3, <3>2, StepType DEF ListRecords, TypeOK
  <2>4. CASE CheckNullifier(c)
    <3>1. PICK rec \in Largest(callers[c].todo) :
            Step(c, [callers[c] EXCEPT
                       !.pc   = IF callers[c].todo = {rec} THEN "select" ELSE @,
                       !.todo = @ \ {rec},
                       !.list = IF HasCoin(rec) /\ rec.key \in nullifiers
                                  THEN @ ELSE @ \cup {rec}])
      BY <2>4 DEF CheckNullifier
    <3>2. rec \in Records  BY <1>0 DEF Largest
    <3>3. [callers[c] EXCEPT
             !.pc   = IF callers[c].todo = {rec} THEN "select" ELSE @,
             !.todo = @ \ {rec},
             !.list = IF HasCoin(rec) /\ rec.key \in nullifiers
                        THEN @ ELSE @ \cup {rec}] \in CallerStates
      BY <1>0, <3>2 DEF CallerStates
    <3> QED  BY <2>4, <3>1, <3>3, StepType DEF CheckNullifier, TypeOK
  <2>5. CASE Select(c)
    <3> DEFINE needed == SpendAmountCoveringProtocolFee(OpOf(c).amount)
    <3>1. PICK picked \in Picks(callers[c].list, needed) :
            \/ /\ Step(c, [callers[c] EXCEPT !.pc = "assert", !.todo = picked,
                                              !.list = {}])
               /\ UNCHANGED operations
            \/ /\ SetOp(callers[c].op,
                        [OpOf(c) EXCEPT !.phase = "prepared", !.consumed = picked])
               /\ Step(c, Idle)
      BY <2>5 DEF Select
    <3> HIDE DEF needed
    <3>2. picked \subseteq Records  BY <1>0, PicksType
    <3>3. [callers[c] EXCEPT !.pc = "assert", !.todo = picked, !.list = {}]
            \in CallerStates
      BY <1>0, <3>2 DEF CallerStates
    <3>4. [OpOf(c) EXCEPT !.phase = "prepared", !.consumed = picked] \in Operations
      BY <1>0, <3>2 DEF Operations, Phases
    <3> QED  BY <1>0, <3>1, <3>3, <3>4, StepType, SetOpType DEF TypeOK
  <2>6. CASE AssertAvailable(c)
    <3>1. [OpOf(c) EXCEPT !.phase = "prepared", !.consumed = callers[c].todo]
            \in Operations
      BY <1>0 DEF Operations, Phases
    <3> QED  BY <1>0, <2>6, <3>1, StepType, SetOpType DEF AssertAvailable
  <2> QED  BY <2>1, <2>2, <2>3, <2>4, <2>5, <2>6
<1>2. UNCHANGED <<storage, coordinated, sent, landed, failed, notes, nullifiers, received, reloads>>
  BY DEF PrepareDeposit, PrepareSpend, ListRecords, CheckNullifier, Select, AssertAvailable
<1> QED  BY <1>1, <1>2 DEF TypeOK

LEMMA ProveType ==
  ASSUME TypeOK, NEW op \in Ops, Prove(op)
  PROVE  operations' \in [Ops -> Operations]
<1>1. PICK fee \in RequiredFees :
        /\ Total(operations[op].consumed) >= operations[op].amount + fee
        /\ SetOp(op, [operations[op] EXCEPT !.outputs = ProvenOutputs(op, fee)])
  BY DEF Prove
<1>2. ProvenOutputs(op, fee) \subseteq Records
  BY <1>1, ProvenOutputsType, SpendingAssumption
<1>3. [operations[op] EXCEPT !.outputs = ProvenOutputs(op, fee)] \in Operations
  BY <1>2 DEF TypeOK, Operations
<1> QED  BY <1>1, <1>3, SetOpType

LEMMA ExecuteTypeOK ==
  ASSUME TypeOK, NEW c \in Callers, NEW op \in Ops,
         \/ Execute(c, op) \/ Submit(c) \/ Confirmed(c)
         \/ SaveOutputs(c) \/ MarkRead(c) \/ MarkWrite(c) \/ Throw(c)
  PROVE  TypeOK'
<1> USE DEF chainVars, budgetVars
<1>0. /\ callers[c] \in CallerStates /\ callers[c].op \in Ops
      /\ callers[c].todo \subseteq Records /\ callers[c].list \subseteq Records
      /\ OpOf(c) \in Operations /\ Idle \in CallerStates
  BY CallerFields, IdleType
<1>1. CASE Execute(c, op)
  <2>1. [Idle EXCEPT !.pc = "submit", !.op = op] \in CallerStates
    BY <1>0 DEF CallerStates
  <2>2. "started" \in Phases  BY DEF Phases
  <2>3. /\ callers' \in [Callers -> CallerStates]
        /\ operations' \in [Ops -> Operations]
    BY <1>1, <2>1, <2>2, StepType, SetPhaseType DEF Execute
  <2> QED  BY <1>1, <2>3 DEF Execute, TypeOK
<1>2. CASE Submit(c)
  <2>1. "await" \in PCs  BY DEF PCs
  <2>2. callers' \in [Callers -> CallerStates]
    BY <1>2, <2>1, GotoType DEF Submit
  <2>3. operations' \in [Ops -> Operations]
    BY <1>0, <1>2, ProveType DEF Submit, TypeOK
  <2> QED  BY <1>0, <1>2, <2>2, <2>3 DEF Submit, TypeOK
<1>3. CASE Confirmed(c)
  <2>1. "save" \in PCs /\ "mark_read" \in PCs  BY DEF PCs
  <2>2. callers' \in [Callers -> CallerStates]
    BY <1>3, <2>1, GotoType DEF Confirmed
  <2> QED  BY <1>3, <2>2 DEF Confirmed, TypeOK
<1>4. CASE SaveOutputs(c)
  <2>1. "mark_read" \in PCs  BY DEF PCs
  <2>2. /\ callers' \in [Callers -> CallerStates]
        /\ operations' \in [Ops -> Operations]
    <3>1. CASE Goto(c, "mark_read") /\ UNCHANGED operations
      BY <2>1, <3>1, GotoType DEF TypeOK
    <3>2. CASE Return(c)  BY <3>2, ReturnType
    <3> QED  BY <1>4, <3>1, <3>2 DEF SaveOutputs
  <2>3. storage' \subseteq Records
    BY <1>0, <1>4, WriteTypes DEF SaveOutputs, TypeOK, Operations
  <2> QED  BY <1>4, <2>2, <2>3 DEF SaveOutputs, TypeOK
<1>5. CASE MarkRead(c)
  <2>1. [callers[c] EXCEPT !.pc = "mark_write", !.list = storage] \in CallerStates
    BY <1>0 DEF CallerStates, TypeOK
  <2> QED  BY <1>5, <2>1, StepType DEF MarkRead, TypeOK
<1>6. CASE MarkWrite(c)
  <2>1. storage' \subseteq Records
    BY <1>0, <1>6, WriteTypes DEF MarkWrite, Operations
  <2> QED  BY <1>6, <2>1, ReturnType DEF MarkWrite, TypeOK
<1>7. CASE Throw(c)
  <2>1. AbsentOperation \in Operations
    BY DEF AbsentOperation, Operations, Phases, Kinds
  <2>2. "thrown" \in Phases  BY DEF Phases
  <2>3. operations' \in [Ops -> Operations]
    BY <1>0, <1>7, <2>1, <2>2, SetOpType, SetPhaseType DEF Throw, TypeOK
  <2>4. callers' \in [Callers -> CallerStates]
    BY <1>0, <1>7, StepType DEF Throw
  <2> QED  BY <1>7, <2>3, <2>4 DEF Throw, TypeOK
<1> QED  BY <1>1, <1>2, <1>3, <1>4, <1>5, <1>6, <1>7

LEMMA PoolTypeOK ==
  ASSUME TypeOK, NEW op \in Ops, Land(op) \/ Fail(op)
  PROVE  TypeOK'
<1>1. CASE Land(op)
  <2>1. operations[op] \in Operations  BY DEF TypeOK
  <2>2. KeysOf(operations[op].consumed) \subseteq Keys
    BY <2>1 DEF Operations, Records, KeysOf
  <2>3. NotesOf(operations[op].outputs) \subseteq [key : Notes, value : Nat]
    BY <2>1 DEF Operations, Records, HasCoin, NotesOf
  <2> QED  BY <1>1, <2>2, <2>3 DEF Land, TypeOK, budgetVars
<1>2. CASE Fail(op)  BY <1>2 DEF Fail, TypeOK, budgetVars
<1> QED  BY <1>1, <1>2

LEMMA HostTypeOK ==
  ASSUME TypeOK,
         \/ \E c \in Callers : Receive(c) \/ Upsert(c) \/ Prune(c)
         \/ Reload
  PROVE  TypeOK'
<1> USE DEF chainVars, budgetVars
<1>1. ASSUME NEW c \in Callers, Receive(c) PROVE TypeOK'
  <2>1. PICK note \in notes :
          Step(c, [Idle EXCEPT !.pc = "upsert",
                               !.todo = {Record(note.key, note.value, note.value)},
                               !.list = storage])
    BY <1>1 DEF Receive
  <2>2. note.key \in Keys /\ note.value \in Nat  BY DEF TypeOK, Keys
  <2>3. Record(note.key, note.value, note.value) \in Records
    BY <2>2, RecordType
  <2>4. [Idle EXCEPT !.pc = "upsert",
                     !.todo = {Record(note.key, note.value, note.value)},
                     !.list = storage] \in CallerStates
    BY <2>3, IdleType DEF CallerStates, TypeOK
  <2>5. callers' \in [Callers -> CallerStates]  BY <2>1, <2>4, StepType
  <2>6. received' \in 0 .. MaxReceived
    <3>1. received < MaxReceived /\ received' = received + 1  BY <1>1 DEF Receive
    <3> QED  BY <3>1, SpendingAssumption DEF TypeOK
  <2>7. UNCHANGED <<storage, operations, coordinated, sent, landed, failed, notes, nullifiers,
                   reloads>>
    BY <1>1 DEF Receive
  <2> QED  BY <2>5, <2>6, <2>7 DEF TypeOK
<1>2. ASSUME NEW c \in Callers, Upsert(c) PROVE TypeOK'
  <2>1. storage' \subseteq Records
    <3>1. callers[c].todo \subseteq Records /\ storage \subseteq Records
      BY CallerFields DEF TypeOK
    <3>2. Put(storage, callers[c].todo) \subseteq Records  BY <3>1, WriteTypes
    <3> QED  BY <1>2, <3>1, <3>2 DEF Upsert
  <2>2. callers' \in [Callers -> CallerStates]
    BY <1>2, IdleType, StepType DEF Upsert
  <2> QED  BY <1>2, <2>1, <2>2 DEF Upsert, TypeOK
<1>3. ASSUME NEW c \in Callers, Prune(c) PROVE TypeOK'
  <2>1. storage' \subseteq Records  BY <1>3 DEF Prune, Unconsumed, TypeOK
  <2> QED  BY <1>3, <2>1 DEF Prune, TypeOK
<1>4. CASE Reload
  <2>1. callers' \in [Callers -> CallerStates]  BY <1>4, IdleType DEF Reload
  <2>2. AbsentOperation \in Operations
    BY DEF AbsentOperation, Operations, Phases, Kinds
  <2>3. ASSUME NEW op \in Ops
        PROVE  /\ operations[op] \in Operations
               /\ [operations[op] EXCEPT !.phase = "lost"] \in Operations
    BY DEF TypeOK, Operations, Phases
  <2>4. operations' \in [Ops -> Operations]
    BY <1>4, <2>2, <2>3 DEF Reload
  <2>5. reloads' \in 0 .. MaxReloads
    BY <1>4, SpendingAssumption DEF Reload, TypeOK
  <2> QED  BY <1>4, <2>1, <2>4, <2>5 DEF Reload, TypeOK
<1> QED  BY <1>1, <1>2, <1>3, <1>4

\* Every variable keeps its shape in every reachable state: no sequence of
\* selections and fees makes an amount or a value negative.
THEOREM SpendingTypeCorrect == Spec => []TypeOK
<1>1. ASSUME TypeOK, [Next]_vars PROVE TypeOK'
  <2>1. CASE UNCHANGED vars
    BY <1>1, <2>1 DEF vars, chainVars, budgetVars, TypeOK
  <2>2. CASE Next
    <3>1. ASSUME NEW c \in Callers, NEW op \in Ops,
                 \/ PrepareDeposit(c, op) \/ PrepareSpend(c, op) \/ Execute(c, op)
          PROVE  TypeOK'
      BY <1>1, <3>1, PrepareTypeOK, ExecuteTypeOK
    <3>2. ASSUME NEW c \in Callers, Receive(c) \/ Prune(c)
          PROVE  TypeOK'
      BY <1>1, <3>2, HostTypeOK
    <3>3. ASSUME NEW c \in Callers, Continue(c)
          PROVE  TypeOK'
      <4>1. PICK op \in Ops : TRUE  BY SpendingAssumption
      <4> QED  BY <1>1, <3>3, <4>1, PrepareTypeOK, ExecuteTypeOK, HostTypeOK DEF Continue
    <3>4. ASSUME NEW op \in Ops, Land(op) \/ Fail(op)
          PROVE  TypeOK'
      BY <1>1, <3>4, PoolTypeOK
    <3>5. CASE Reload  BY <1>1, <3>5, HostTypeOK
    <3> QED  BY <2>2, <3>1, <3>2, <3>3, <3>4, <3>5 DEF Next
  <2> QED  BY <1>1, <2>1, <2>2
<1> QED  BY <1>1, InitTypeOK, PTL DEF Spec
=============================================================================
