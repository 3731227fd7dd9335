------------------------- MODULE SpendingSafety_proof -------------------------
(***************************************************************************)
(* A prepared operation is executed once, and the stored records run ahead *)
(* of the pool only by calls that failed in their ledgers, whatever calls  *)
(* overlap.  When the host makes one call at a time, an operation that     *)
(* landed and returned has left its mark in the storage.  A selection of   *)
(* records covers its amount.                                              *)
(***************************************************************************)
EXTENDS PrivateSpending_proof, FiniteSetTheorems

Preparing(c) == callers[c].pc \in {"list", "check", "select", "assert"}

Busy(c) == Preparing(c) \/ Executing(c)

---------------------------------------------------------------------------
\* ExecutedOnce with what it rests on: an operation that is being prepared or
\* executed has one caller, and nothing that was sent can be executed.
Preparers == \A c \in Callers : Preparing(c) => OpOf(c).phase = "preparing"
Executors == \A c \in Callers : Executing(c) => OpOf(c).phase = "started"

OneCaller == \A c, d \in Callers :
                Busy(c) /\ Busy(d) /\ callers[c].op = callers[d].op => c = d

Unsent == \A c \in Callers :
             At(c, "submit") => callers[c].op \notin sent \cup landed \cup failed

SentStarted == \A op \in sent \cup landed \cup failed :
                  operations[op].phase \in {"started", "returned", "thrown", "lost"}

Owned == Preparers /\ Executors /\ OneCaller /\ Unsent /\ SentStarted

---------------------------------------------------------------------------
\* AheadOnlyByFailedCalls with what it rests on: every list a call will write
\* was no further ahead when it was read; a call commits only when its
\* transaction is in a ledger, and then its outputs and what it consumed are
\* in the pool or those of a call that failed.
HeldListsFollow ==
    \A c \in Callers : /\ At(c, "mark_write") => AheadOnlyByFailed(callers[c].list)
                       /\ At(c, "upsert") => AheadOnlyByFailed(callers[c].todo)

OutputsUnconsumed ==
    \A op \in Ops : \A rec \in operations[op].outputs : ~rec.consumed

Settled(op) == /\ AheadOnlyByFailed(operations[op].outputs)
               /\ KeysOf(operations[op].consumed) \subseteq SpentOrFailed

AllSettled == \A op \in landed \cup failed : Settled(op)

LandedSpent == \A op \in landed : KeysOf(operations[op].consumed) \subseteq nullifiers

Committing(c) == callers[c].pc \in {"save", "mark_read", "mark_write"}

CommitsIncluded == \A c \in Callers : Committing(c) => callers[c].op \in landed \cup failed

Follows == /\ AheadOnlyByFailedCalls /\ HeldListsFollow /\ OutputsUnconsumed
           /\ AllSettled /\ LandedSpent /\ CommitsIncluded

IInv == TypeOK /\ Owned /\ Follows

---------------------------------------------------------------------------
\* What a step of one caller, or a change of one operation, leaves alone.

LEMMA StepEffect ==
  ASSUME TypeOK, NEW c \in Callers, NEW w, Step(c, w)
  PROVE  callers'[c] = w /\ \A d \in Callers \ {c} : callers'[d] = callers[d]
BY DEF TypeOK, Step

LEMMA GotoEffect ==
  ASSUME TypeOK, NEW c \in Callers, NEW pc, Goto(c, pc)
  PROVE  /\ callers'[c].pc = pc
         /\ callers'[c].op = callers[c].op
         /\ callers'[c].list = callers[c].list
         /\ callers'[c].todo = callers[c].todo
         /\ \A d \in Callers \ {c} : callers'[d] = callers[d]
BY DEF TypeOK, CallerStates, Goto, Step

LEMMA SetOpEffect ==
  ASSUME TypeOK, NEW op \in Ops, NEW o, SetOp(op, o)
  PROVE  operations'[op] = o /\ \A p \in Ops \ {op} : operations'[p] = operations[p]
BY DEF TypeOK, SetOp

LEMMA SetPhaseEffect ==
  ASSUME TypeOK, NEW op \in Ops, NEW phase, SetPhase(op, phase)
  PROVE  /\ operations'[op].phase = phase
         /\ operations'[op].outputs = operations[op].outputs
         /\ operations'[op].consumed = operations[op].consumed
         /\ operations'[op].kind = operations[op].kind
         /\ \A p \in Ops \ {op} : operations'[p] = operations[p]
BY DEF TypeOK, Operations, SetPhase, SetOp

LEMMA IdleForm == Idle.pc = "idle" /\ Idle.todo = {} /\ Idle.list = {}
BY DEF Idle

---------------------------------------------------------------------------
\* How a caller and its operation can change without losing Owned.

\* A caller goes on with its operation; what is sent is its own.
LEMMA GoesOn ==
  ASSUME TypeOK, Owned, NEW c \in Callers,
         \A d \in Callers \ {c} : callers'[d] = callers[d],
         callers'[c].op = callers[c].op,
         Preparing(c)' => Preparing(c),
         Executing(c)' => Executing(c),
         ~At(c, "submit")',
         \A op \in Ops : operations'[op].phase = operations[op].phase,
         \/ (sent \cup landed \cup failed)' \subseteq sent \cup landed \cup failed
         \/ /\ Executing(c)
            /\ (sent \cup landed \cup failed)'
                 \subseteq sent \cup landed \cup failed \cup {callers[c].op}
  PROVE  Owned'
<1> USE DEF Preparers, Executors, OneCaller, Unsent, SentStarted
<1>0. \A d \in Callers : callers[d].op \in Ops  BY CallerFields
<1>1. \A d \in Callers : /\ callers'[d].op = callers[d].op
                         /\ Preparing(d)' => Preparing(d)
                         /\ Executing(d)' => Executing(d)
  BY DEF Preparing, Executing
<1>2. \A d \in Callers : OpOf(d)'.phase = OpOf(d).phase
  BY <1>0, <1>1 DEF OpOf
<1>3. Preparers' /\ Executors'  BY <1>1, <1>2 DEF Owned
<1>4. OneCaller'  BY <1>1 DEF Owned, Busy
<1>5. Unsent'
  <2> SUFFICES ASSUME NEW d \in Callers, At(d, "submit")'
               PROVE  callers[d].op \notin (sent \cup landed \cup failed)'
    BY <1>1
  <2>1. d # c /\ At(d, "submit")  BY DEF At
  <2>2. Executing(c) => callers[d].op # callers[c].op
    BY <2>1 DEF Owned, Busy, Executing, At
  <2> QED  BY <2>1, <2>2 DEF Owned
<1>6. SentStarted'
  <2> SUFFICES ASSUME NEW op \in (sent \cup landed \cup failed)'
               PROVE  operations[op].phase \in {"started", "returned", "thrown", "lost"}
    BY <1>0 DEF TypeOK
  <2>1. CASE op \in sent \cup landed \cup failed  BY <2>1 DEF Owned
  <2>2. CASE Executing(c) /\ op = callers[c].op  BY <2>2 DEF Owned, OpOf
  <2> QED  BY <2>1, <2>2
<1> QED  BY <1>3, <1>4, <1>5, <1>6 DEF Owned

\* A caller leaves its operation in a phase where nobody works on it.
LEMMA Leaves ==
  ASSUME TypeOK, Owned, NEW c \in Callers, Busy(c),
         \A d \in Callers \ {c} : callers'[d] = callers[d],
         callers'[c] = Idle,
         \A op \in Ops \ {callers[c].op} : operations'[op] = operations[op],
         \/ Executing(c) /\ operations'[callers[c].op].phase \in {"returned", "thrown", "lost"}
         \/ Preparing(c),
         UNCHANGED <<sent, landed, failed>>
  PROVE  Owned'
<1> USE DEF Preparers, Executors, OneCaller, Unsent, SentStarted
<1>0. \A d \in Callers : callers[d].op \in Ops  BY CallerFields
<1>1. /\ ~Preparing(c)' /\ ~Executing(c)' /\ ~At(c, "submit")'
  BY IdleForm DEF Preparing, Executing, At
<1>2. ASSUME NEW d \in Callers, Busy(d)'
      PROVE  /\ d # c /\ Busy(d)
             /\ callers'[d] = callers[d]
             /\ callers[d].op # callers[c].op
             /\ operations'[callers[d].op] = operations[callers[d].op]
  <2>1. d # c  BY <1>1, <1>2 DEF Busy
  <2>2. callers'[d] = callers[d] /\ Busy(d)
    BY <1>2, <2>1 DEF Busy, Preparing, Executing
  <2>3. callers[d].op # callers[c].op  BY <2>1, <2>2 DEF Owned
  <2> QED  BY <1>0, <2>1, <2>2, <2>3
<1>3. Preparers' /\ Executors'
  BY <1>2 DEF Owned, Busy, Preparing, Executing, OpOf
<1>4. OneCaller'  BY <1>2 DEF Owned
<1>5. Unsent'
  BY <1>1 DEF Owned, At
<1>6. SentStarted'
  <2>1. Preparing(c) => callers[c].op \notin sent \cup landed \cup failed
    BY DEF Owned, OpOf
  <2> QED  BY <2>1 DEF Owned, TypeOK
<1> QED  BY <1>3, <1>4, <1>5, <1>6 DEF Owned

\* A caller begins with an operation nobody works on.
LEMMA Begins ==
  ASSUME TypeOK, Owned, NEW c \in Callers, NEW op \in Ops,
         operations[op].phase \in {"absent", "prepared"},
         \A d \in Callers \ {c} : callers'[d] = callers[d],
         callers'[c].op = op,
         \A p \in Ops \ {op} : operations'[p] = operations[p],
         \/ callers'[c].pc = "list" /\ operations'[op].phase = "preparing"
         \/ callers'[c].pc = "submit" /\ operations'[op].phase = "started",
         UNCHANGED <<sent, landed, failed>>
  PROVE  Owned'
<1> USE DEF Preparers, Executors, OneCaller, Unsent, SentStarted
<1>0. \A d \in Callers : callers[d].op \in Ops  BY CallerFields
<1>1. \A d \in Callers : Busy(d) => callers[d].op # op
  BY DEF Owned, Busy, OpOf
<1>2. op \notin sent \cup landed \cup failed  BY DEF Owned
<1>3. ASSUME NEW d \in Callers \ {c}
      PROVE  /\ callers'[d] = callers[d]
             /\ Busy(d)' => Busy(d) /\ callers[d].op # op
             /\ Busy(d) => operations'[callers[d].op] = operations[callers[d].op]
  BY <1>0, <1>1 DEF Busy, Preparing, Executing
<1>4. Preparers' /\ Executors'
  <2> SUFFICES ASSUME NEW d \in Callers
               PROVE  /\ Preparing(d)' => OpOf(d)'.phase = "preparing"
                      /\ Executing(d)' => OpOf(d)'.phase = "started"
    OBVIOUS
  <2>1. CASE d = c  BY <2>1 DEF Preparing, Executing, OpOf
  <2>2. CASE d # c
    BY <1>3, <2>2 DEF Owned, Busy, Preparing, Executing, OpOf
  <2> QED  BY <2>1, <2>2
<1>5. OneCaller'  BY <1>3 DEF Owned
<1>6. Unsent'  BY <1>2, <1>3 DEF Owned, At
<1>7. SentStarted'  BY <1>2 DEF Owned, TypeOK
<1> QED  BY <1>4, <1>5, <1>6, <1>7 DEF Owned

\* Nobody begins or goes on with anything.
LEMMA Quiet ==
  ASSUME TypeOK, Owned,
         \A d \in Callers : Busy(d)' => callers'[d] = callers[d],
         \A op \in Ops : operations'[op].phase = operations[op].phase,
         (sent \cup landed \cup failed)' \subseteq sent \cup landed \cup failed
  PROVE  Owned'
<1> USE DEF Preparers, Executors, OneCaller, Unsent, SentStarted
<1>0. \A d \in Callers : callers[d].op \in Ops  BY CallerFields
<1>1. \A d \in Callers : Busy(d)' => Busy(d) /\ OpOf(d)'.phase = OpOf(d).phase
  BY <1>0 DEF Busy, Preparing, Executing, OpOf
<1>2. Preparers' /\ Executors'
  BY <1>1 DEF Owned, Busy, Preparing, Executing
<1>3. OneCaller'  BY <1>1 DEF Owned
<1>4. Unsent'
  BY DEF Owned, At, Busy, Executing
<1>5. SentStarted'  BY DEF Owned, TypeOK
<1> QED  BY <1>2, <1>3, <1>4, <1>5 DEF Owned

---------------------------------------------------------------------------
LEMMA InitOwned == Init => Owned
<1> SUFFICES ASSUME Init PROVE Owned  OBVIOUS
<1>1. \A c \in Callers : callers[c].pc = "idle"  BY IdleForm DEF Init
<1> QED  BY <1>1 DEF Init, Owned, Preparers, Executors, OneCaller, Unsent, SentStarted,
            Preparing, Executing, Busy, At

LEMMA PreparingOwned ==
  ASSUME TypeOK, Owned, NEW c \in Callers,
         \/ ListRecords(c) \/ CheckNullifier(c) \/ Select(c) \/ AssertAvailable(c)
  PROVE  Owned'
<1>0. callers[c].op \in Ops /\ callers[c] \in CallerStates  BY CallerFields
<1>1. Preparing(c) /\ Busy(c)
  BY DEF ListRecords, CheckNullifier, Select, AssertAvailable, At, Preparing, Busy
<1>2. ASSUME NEW pc \in {"check", "select", "assert"}, NEW todo, NEW list,
             Step(c, [callers[c] EXCEPT !.pc = pc, !.todo = todo, !.list = list]),
             UNCHANGED <<operations, sent, landed, failed>>
      PROVE  Owned'
  <2>1. callers'[c].pc = pc /\ callers'[c].op = callers[c].op
    <3>1. callers'[c] = [callers[c] EXCEPT !.pc = pc, !.todo = todo, !.list = list]
      BY <1>2, StepEffect
    <3> QED  BY <1>0, <3>1 DEF CallerStates
  <2>2. \A d \in Callers \ {c} : callers'[d] = callers[d]
    BY <1>2, StepEffect
  <2>3. Preparing(c)' /\ ~Executing(c)' /\ ~At(c, "submit")'
    BY <2>1 DEF Preparing, Executing, At
  <2> QED  BY <1>1, <1>2, <2>1, <2>2, <2>3, GoesOn
<1>3. ASSUME NEW o, SetOp(callers[c].op, o), Step(c, Idle),
             UNCHANGED <<sent, landed, failed>>
      PROVE  Owned'
  BY <1>0, <1>1, <1>3, StepEffect, SetOpEffect, Leaves
<1>4. CASE ListRecords(c)
  <2>1. [callers[c] EXCEPT !.pc = "check", !.todo = Available(storage)] =
        [callers[c] EXCEPT !.pc = "check", !.todo = Available(storage),
                           !.list = callers[c].list]
    BY <1>0 DEF CallerStates
  <2> QED  BY <1>2, <1>4, <2>1 DEF ListRecords, chainVars
<1>5. CASE CheckNullifier(c)
  <2>1. PICK rec \in Largest(callers[c].todo) :
          Step(c, [callers[c] EXCEPT
                     !.pc   = IF callers[c].todo = {rec} THEN "select" ELSE @,
                     !.todo = @ \ {rec},
                     !.list = IF HasCoin(rec) /\ rec.key \in nullifiers
                                THEN @ ELSE @ \cup {rec}])
    BY <1>5 DEF CheckNullifier
  <2>2. (IF callers[c].todo = {rec} THEN "select" ELSE callers[c].pc)
          \in {"check", "select", "assert"}
    BY <1>5 DEF CheckNullifier, At
  <2> DEFINE pc   == IF callers[c].todo = {rec} THEN "select" ELSE callers[c].pc
             todo == callers[c].todo \ {rec}
             list == IF HasCoin(rec) /\ rec.key \in nullifiers
                       THEN callers[c].list ELSE callers[c].list \cup {rec}
  <2>3. Step(c, [callers[c] EXCEPT !.pc = pc, !.todo = todo, !.list = list])
    BY <2>1, <1>0 DEF CallerStates
  <2> HIDE DEF pc, todo, list
  <2>4. UNCHANGED <<operations, sent, landed, failed>>
    BY <1>5 DEF CheckNullifier, chainVars
  <2>5. pc \in {"check", "select", "assert"}  BY <2>2 DEF pc
  <2> QED  BY <1>2, <2>3, <2>4, <2>5
<1>6. CASE Select(c)
  <2>1. PICK picked :
          \/ /\ Step(c, [callers[c] EXCEPT !.pc = "assert", !.todo = picked, !.list = {}])
             /\ UNCHANGED operations
          \/ /\ SetOp(callers[c].op,
                      [OpOf(c) EXCEPT !.phase = "prepared", !.consumed = picked])
             /\ Step(c, Idle)
    BY <1>6 DEF Select
  <2>2. UNCHANGED <<sent, landed, failed>>  BY <1>6 DEF Select, chainVars
  <2> QED  BY <1>2, <1>3, <2>1, <2>2
<1>7. CASE AssertAvailable(c)
  BY <1>3, <1>7 DEF AssertAvailable, chainVars
<1> QED  BY <1>4, <1>5, <1>6, <1>7

LEMMA ExecutingOwned ==
  ASSUME TypeOK, Owned, NEW c \in Callers,
         \/ Submit(c) \/ Confirmed(c) \/ SaveOutputs(c) \/ MarkRead(c)
         \/ MarkWrite(c) \/ Throw(c)
  PROVE  Owned'
<1>0. callers[c].op \in Ops /\ callers[c] \in CallerStates  BY CallerFields
<1>1. ASSUME NEW pc \in {"await", "save", "mark_read", "mark_write"},
             Executing(c), callers'[c].pc = pc, callers'[c].op = callers[c].op,
             \A d \in Callers \ {c} : callers'[d] = callers[d],
             \A op \in Ops : operations'[op].phase = operations[op].phase,
             UNCHANGED <<landed, failed>>, sent' \subseteq sent \cup {callers[c].op}
      PROVE  Owned'
  <2>1. Executing(c)' /\ ~Preparing(c)' /\ ~At(c, "submit")'
    BY <1>1 DEF Preparing, Executing, At
  <2> QED  BY <1>1, <2>1, GoesOn
<1>2. ASSUME Executing(c), Return(c), UNCHANGED <<sent, landed, failed>>
      PROVE  Owned'
  <2>1. Busy(c)  BY <1>2 DEF Busy
  <2> QED  BY <1>0, <1>2, <2>1, StepEffect, SetPhaseEffect, Leaves DEF Return
<1>3. CASE Submit(c)
  <2>1. \A op \in Ops : operations'[op].phase = operations[op].phase
    <3>1. ASSUME NEW outputs,
                 SetOp(callers[c].op, [operations[callers[c].op] EXCEPT !.outputs = outputs])
          PROVE  \A op \in Ops : operations'[op].phase = operations[op].phase
      BY <1>0, <3>1 DEF SetOp, TypeOK, Operations
    <3>2. \/ UNCHANGED operations
          \/ \E fee : SetOp(callers[c].op, [operations[callers[c].op] EXCEPT
                                             !.outputs = ProvenOutputs(callers[c].op, fee)])
      BY <1>3 DEF Submit, Prove
    <3> QED  BY <3>1, <3>2
  <2>2. Executing(c)  BY <1>3 DEF Submit, At, Executing
  <2> QED  BY <1>1, <1>3, <2>1, <2>2, GotoEffect DEF Submit
<1>4. CASE Confirmed(c)
  <2>1. Executing(c) /\ UNCHANGED <<operations, sent, landed, failed>>
    BY <1>4 DEF Confirmed, At, Executing, chainVars
  <2> QED  BY <1>1, <1>4, <2>1, GotoEffect DEF Confirmed
<1>5. CASE SaveOutputs(c)
  <2>1. Executing(c) /\ UNCHANGED <<sent, landed, failed>>
    BY <1>5 DEF SaveOutputs, At, Executing, chainVars
  <2> QED  BY <1>1, <1>2, <1>5, <2>1, GotoEffect DEF SaveOutputs
<1>6. CASE MarkRead(c)
  <2>1. Executing(c) /\ UNCHANGED <<operations, sent, landed, failed>>
    BY <1>6 DEF MarkRead, At, Executing, chainVars
  <2>2. callers'[c].pc = "mark_write" /\ callers'[c].op = callers[c].op
    <3>1. callers'[c] = [callers[c] EXCEPT !.pc = "mark_write", !.list = storage]
      BY <1>6, StepEffect DEF MarkRead
    <3> QED  BY <1>0, <3>1 DEF CallerStates
  <2> QED  BY <1>1, <1>6, <2>1, <2>2, StepEffect DEF MarkRead
<1>7. CASE MarkWrite(c)
  <2>1. Executing(c) /\ UNCHANGED <<sent, landed, failed>>
    BY <1>7 DEF MarkWrite, At, Executing, chainVars
  <2> QED  BY <1>2, <1>7, <2>1 DEF MarkWrite
<1>8. CASE Throw(c)
  <2>1. UNCHANGED <<sent, landed, failed>> /\ Step(c, Idle) /\ ~At(c, "idle")
    BY <1>8 DEF Throw, chainVars
  <2>2. callers'[c] = Idle /\ \A d \in Callers \ {c} : callers'[d] = callers[d]
    BY <2>1, StepEffect
  <2>3. CASE At(c, "upsert")
    <3>1. UNCHANGED operations  BY <1>8, <2>3 DEF Throw
    <3>2. \A d \in Callers : Busy(d)' => callers'[d] = callers[d]
      BY <2>2, IdleForm DEF Busy, Preparing, Executing
    <3> QED  BY <2>1, <3>1, <3>2, Quiet
  <2>4. CASE ~At(c, "upsert")
    <3>1. Busy(c)
      BY <1>0, <2>1, <2>4 DEF CallerStates, At, Busy, Preparing, Executing
    <3>2. CASE /\ OpOf(c).phase = "preparing"
               /\ SetOp(callers[c].op, AbsentOperation)
      <4>1. Preparing(c)  BY <3>1, <3>2 DEF Owned, Executors, Busy
      <4> QED  BY <1>0, <2>1, <2>2, <3>1, <3>2, <4>1, SetOpEffect, Leaves
    <3>3. CASE /\ OpOf(c).phase = "started"
               /\ SetPhase(callers[c].op, "thrown")
      <4>1. Executing(c)  BY <3>1, <3>3 DEF Owned, Preparers, Busy
      <4> QED  BY <1>0, <2>1, <2>2, <3>1, <3>3, <4>1, SetPhaseEffect, Leaves
    <3> QED  BY <1>8, <2>4, <3>2, <3>3 DEF Throw
  <2> QED  BY <2>3, <2>4
<1> QED  BY <1>3, <1>4, <1>5, <1>6, <1>7, <1>8

LEMMA BeginningOwned ==
  ASSUME TypeOK, Owned, NEW c \in Callers, NEW op \in Ops,
         PrepareDeposit(c, op) \/ PrepareSpend(c, op) \/ Execute(c, op)
  PROVE  Owned'
<1>1. CASE PrepareDeposit(c, op)
  <2>1. /\ operations[op].phase = "absent"
        /\ UNCHANGED <<callers, sent, landed, failed>>
        /\ \A p \in Ops \ {op} : operations'[p] = operations[p]
    BY <1>1, SetOpEffect DEF PrepareDeposit, chainVars
  <2>2. \A d \in Callers : Busy(d) => callers[d].op \in Ops \ {op}
    BY <2>1, CallerFields DEF Owned, Preparers, Executors, Busy, OpOf
  <2>3. op \notin sent \cup landed \cup failed  BY <2>1 DEF Owned, SentStarted
  <2>4. Preparers' /\ Executors' /\ OneCaller' /\ Unsent'
    BY <2>1, <2>2 DEF Owned, Preparers, Executors, OneCaller, Unsent, Busy, Preparing,
                      Executing, OpOf, At
  <2>5. SentStarted'  BY <2>1, <2>3 DEF Owned, SentStarted, TypeOK
  <2> QED  BY <2>4, <2>5 DEF Owned
<1>2. CASE PrepareSpend(c, op)
  <2>1. /\ operations[op].phase = "absent"
        /\ Step(c, [Idle EXCEPT !.pc = "list", !.op = op])
        /\ UNCHANGED <<sent, landed, failed>>
    BY <1>2 DEF PrepareSpend, chainVars
  <2>2. callers'[c].pc = "list" /\ callers'[c].op = op
    <3>1. callers'[c] = [Idle EXCEPT !.pc = "list", !.op = op]
      BY <2>1, StepEffect
    <3> QED  BY <3>1 DEF Idle
  <2>3. PICK kind, amount :
          SetOp(op, [AbsentOperation EXCEPT !.phase = "preparing", !.kind = kind,
                                            !.amount = amount])
    BY <1>2 DEF PrepareSpend
  <2>4. operations'[op].phase = "preparing"
    <3>1. operations'[op] = [AbsentOperation EXCEPT !.phase = "preparing", !.kind = kind,
                                                    !.amount = amount]
      BY <2>3, SetOpEffect
    <3> QED  BY <3>1 DEF AbsentOperation
  <2> QED  BY <2>1, <2>2, <2>3, <2>4, StepEffect, SetOpEffect, Begins
<1>3. CASE Execute(c, op)
  <2>1. /\ operations[op].phase = "prepared"
        /\ SetPhase(op, "started")
        /\ Step(c, [Idle EXCEPT !.pc = "submit", !.op = op])
        /\ UNCHANGED <<sent, landed, failed>>
    BY <1>3 DEF Execute, chainVars
  <2>2. callers'[c].pc = "submit" /\ callers'[c].op = op
    <3>1. callers'[c] = [Idle EXCEPT !.pc = "submit", !.op = op]
      BY <2>1, StepEffect
    <3> QED  BY <3>1 DEF Idle
  <2> QED  BY <2>1, <2>2, StepEffect, SetPhaseEffect, Begins
<1> QED  BY <1>1, <1>2, <1>3

LEMMA EnvironmentOwned ==
  ASSUME TypeOK, Owned,
         \/ \E c \in Callers : Receive(c) \/ Upsert(c) \/ Prune(c)
         \/ \E op \in Ops : Land(op) \/ Fail(op)
         \/ Reload
  PROVE  Owned'
<1> USE DEF chainVars
<1>1. ASSUME NEW c \in Callers, Receive(c) \/ Upsert(c) PROVE Owned'
  <2>1. PICK w : Step(c, w) /\ w.pc \in {"upsert", "idle"}
    <3>1. CASE Upsert(c)
      <4>1. Step(c, Idle)  BY <3>1 DEF Upsert
      <4> QED  BY <4>1, IdleForm
    <3>2. CASE Receive(c)
      <4>1. PICK todo : Step(c, [Idle EXCEPT !.pc = "upsert", !.todo = todo, !.list = storage])
        BY <3>2 DEF Receive
      <4>2. [Idle EXCEPT !.pc = "upsert", !.todo = todo, !.list = storage].pc = "upsert"
        BY DEF Idle
      <4> QED  BY <4>1, <4>2
    <3> QED  BY <1>1, <3>1, <3>2
  <2>2. \A d \in Callers : Busy(d)' => callers'[d] = callers[d]
    BY <2>1, StepEffect DEF Busy, Preparing, Executing
  <2>3. UNCHANGED <<operations, sent, landed, failed>>  BY <1>1 DEF Receive, Upsert
  <2> QED  BY <2>2, <2>3, Quiet
<1>2. ASSUME NEW c \in Callers, Prune(c) PROVE Owned'
  <2>1. UNCHANGED <<callers, operations, sent, landed, failed>>  BY <1>2 DEF Prune
  <2> QED  BY <2>1, Quiet
<1>3. ASSUME NEW op \in Ops, Land(op) \/ Fail(op) PROVE Owned'
  <2>1. /\ (sent \cup landed \cup failed)' \subseteq sent \cup landed \cup failed
        /\ UNCHANGED <<callers, operations>>
    BY <1>3 DEF Land, Fail
  <2> QED  BY <2>1, Quiet
<1>4. CASE Reload
  <2>1. \A d \in Callers : callers'[d].pc = "idle"
    BY <1>4, IdleForm DEF Reload
  <2>2. \A op \in Ops : operations[op].phase \in {"started", "returned", "thrown", "lost"}
           => operations'[op].phase \in {"started", "returned", "thrown", "lost"}
    <3> SUFFICES ASSUME NEW op \in Ops,
                        operations[op].phase \in {"started", "returned", "thrown", "lost"}
                 PROVE  operations'[op].phase \in {"started", "returned", "thrown", "lost"}
      OBVIOUS
    <3>1. operations[op] \in Operations  BY DEF TypeOK
    <3>2. operations'[op] = [operations[op] EXCEPT !.phase = "lost"]
             \/ operations'[op] = operations[op]
      BY <1>4 DEF Reload
    <3> QED  BY <3>1, <3>2 DEF Operations
  <2>3. SentStarted'  BY <1>4, <2>2 DEF Reload, Owned, SentStarted, TypeOK
  <2> QED  BY <2>1, <2>3 DEF Owned, Preparers, Executors, OneCaller, Unsent,
                             Busy, Preparing, Executing, At
<1> QED  BY <1>1, <1>2, <1>3, <1>4

LEMMA NextOwned ==
  ASSUME TypeOK, Owned, [Next]_vars
  PROVE  Owned'
<1>1. CASE UNCHANGED vars
  BY <1>1, Quiet DEF vars, chainVars
<1>2. CASE Next
  BY <1>2, BeginningOwned, PreparingOwned, ExecutingOwned, EnvironmentOwned
     DEF Next, Continue
<1> QED  BY <1>1, <1>2

\* However many callers overlap, and whatever is reloaded, a prepared operation
\* is executed by one call and sent once.
THEOREM OperationsExecuteOnce == Spec => []ExecutedOnce
<1>1. Owned => ExecutedOnce
  BY DEF Owned, Executors, OneCaller, Unsent, ExecutedOnce, Busy
<1>2. Spec => []Owned
  BY InitOwned, NextOwned, SpendingTypeCorrect, PTL DEF Spec
<1> QED  BY <1>1, <1>2, PTL

---------------------------------------------------------------------------
\* What writing, marking and pruning do to records that are no further ahead.

LEMMA WritesFollow ==
  ASSUME NEW list \in SUBSET Records, NEW recs \in SUBSET Records,
         AheadOnlyByFailed(list)
  PROVE  /\ AheadOnlyByFailed(recs) => AheadOnlyByFailed(Put(list, recs))
         /\ KeysOf(recs) \subseteq SpentOrFailed => AheadOnlyByFailed(MarkSpent(list, recs))
         /\ AheadOnlyByFailed(Unconsumed(list))
<1>1. AheadOnlyByFailed(recs) => AheadOnlyByFailed(Put(list, recs))
  BY DEF AheadOnlyByFailed, Put
<1>2. ASSUME KeysOf(recs) \subseteq SpentOrFailed
      PROVE  AheadOnlyByFailed(MarkSpent(list, recs))
  <2> SUFFICES ASSUME NEW rec \in list,
                      NEW new, new = [rec EXCEPT !.consumed = @ \/ rec.key \in KeysOf(recs)]
               PROVE  /\ new.consumed => new.key \in SpentOrFailed
                      /\ HasCoin(new) => [key |-> new.key, value |-> new.value] \in NotesOrFailed
    BY DEF AheadOnlyByFailed, MarkSpent
  <2>1. /\ new.key = rec.key /\ new.value = rec.value
        /\ new.consumed => rec.consumed \/ rec.key \in KeysOf(recs)
    BY DEF Records
  <2> QED  BY <1>2, <2>1 DEF AheadOnlyByFailed, HasCoin
<1>3. AheadOnlyByFailed(Unconsumed(list))  BY DEF AheadOnlyByFailed, Unconsumed
<1> QED  BY <1>1, <1>2, <1>3

LEMMA RecordUnconsumed ==
  ASSUME NEW key, NEW amount, NEW value
  PROVE  ~Record(key, amount, value).consumed
BY DEF Record

LEMMA ProvenUnconsumed ==
  ASSUME NEW op, NEW fee, NEW rec \in ProvenOutputs(op, fee)
  PROVE  ~rec.consumed
<1> DEFINE planned == Total(operations[op].consumed) - operations[op].amount
<1>1. \/ rec = Record(Recipient(op), operations[op].amount, operations[op].amount)
      \/ rec = Record(PendingKey(planned), planned, planned)
      \/ rec = Record(Own(op), planned, planned - fee)
  BY Zenon DEF ProvenOutputs
<1> QED  BY <1>1, RecordUnconsumed

---------------------------------------------------------------------------
\* A step that puts nothing into a ledger keeps Follows when the list it writes
\* is no further ahead, the callers it moves hold what they should, and the
\* operations it changes are in no ledger.

Holds(w) == /\ w.pc = "mark_write" => AheadOnlyByFailed(w.list)
            /\ w.pc = "upsert" => AheadOnlyByFailed(w.todo)
            /\ w.pc \in {"save", "mark_read", "mark_write"} => w.op \in landed \cup failed

LEMMA Keeps ==
  ASSUME TypeOK, Follows,
         UNCHANGED <<landed, failed, notes, nullifiers>>,
         AheadOnlyByFailed(storage'),
         \A d \in Callers : callers'[d] = callers[d] \/ Holds(callers'[d]),
         \A op \in Ops :
           \/ /\ operations'[op].outputs = operations[op].outputs
              /\ operations'[op].consumed = operations[op].consumed
           \/ op \notin landed \cup failed /\ \A rec \in operations'[op].outputs : ~rec.consumed
  PROVE  Follows'
<1>1. \A op \in landed \cup failed : /\ operations'[op].outputs = operations[op].outputs
                                  /\ operations'[op].consumed = operations[op].consumed
  BY DEF TypeOK
<1>2. SpentOrFailed' = SpentOrFailed /\ NotesOrFailed' = NotesOrFailed
  BY <1>1 DEF SpentOrFailed, NotesOrFailed
<1>3. AheadOnlyByFailedCalls'  BY <1>2 DEF AheadOnlyByFailedCalls, AheadOnlyByFailed
<1>4. \A d \in Callers : Holds(callers'[d])
  BY DEF Follows, HeldListsFollow, CommitsIncluded, Committing, Holds, At
<1>5. HeldListsFollow'
  BY <1>4, <1>2 DEF HeldListsFollow, Holds, At, AheadOnlyByFailed
<1>6. CommitsIncluded'  BY <1>4 DEF CommitsIncluded, Committing, Holds
<1>7. OutputsUnconsumed'  BY DEF Follows, OutputsUnconsumed
<1>8. AllSettled' /\ LandedSpent'
  BY <1>1, <1>2 DEF Follows, AllSettled, LandedSpent, Settled, AheadOnlyByFailed
<1> QED  BY <1>3, <1>5, <1>6, <1>7, <1>8 DEF Follows

LEMMA IdleHolds == Holds(Idle)
BY IdleForm DEF Holds

LEMMA InitFollows == Init => Follows
<1> SUFFICES ASSUME Init PROVE Follows  OBVIOUS
<1>1. \A c \in Callers : callers[c].pc = "idle"  BY IdleForm DEF Init
<1>2. AheadOnlyByFailedCalls
  BY DEF Init, AheadOnlyByFailedCalls, AheadOnlyByFailed, Record, NotesOrFailed
<1>3. OutputsUnconsumed  BY DEF Init, OutputsUnconsumed, AbsentOperation
<1>4. AllSettled /\ LandedSpent  BY DEF Init, AllSettled, LandedSpent
<1> QED  BY <1>1, <1>2, <1>3, <1>4 DEF Follows, HeldListsFollow, CommitsIncluded,
                                       Committing, At

---------------------------------------------------------------------------
\* The change of the operations that Keeps asks for.
OperationsKeep ==
    \A op \in Ops :
      \/ /\ operations'[op].outputs = operations[op].outputs
         /\ operations'[op].consumed = operations[op].consumed
      \/ op \notin landed \cup failed /\ \A rec \in operations'[op].outputs : ~rec.consumed

LEMMA SetOpKeeps ==
  ASSUME TypeOK, NEW op \in Ops, NEW o, SetOp(op, o), op \notin landed \cup failed,
         \A rec \in o.outputs : ~rec.consumed
  PROVE  OperationsKeep
BY SetOpEffect DEF OperationsKeep

LEMMA SetPhaseKeeps ==
  ASSUME TypeOK, NEW op \in Ops, NEW phase, SetPhase(op, phase)
  PROVE  OperationsKeep
BY SetPhaseEffect DEF OperationsKeep

\* Nothing is written, and the caller that moves is not going to write a list.
LEMMA MovesOn ==
  ASSUME TypeOK, Follows, NEW c \in Callers, NEW w, Step(c, w),
         Holds(w), OperationsKeep,
         UNCHANGED <<storage, landed, failed, notes, nullifiers>>
  PROVE  Follows'
<1>1. \A d \in Callers : callers'[d] = callers[d] \/ Holds(callers'[d])
  BY StepEffect
<1>2. AheadOnlyByFailed(storage')  BY DEF Follows, AheadOnlyByFailedCalls
<1> QED  BY <1>1, <1>2, Keeps DEF OperationsKeep

LEMMA BeginningFollows ==
  ASSUME TypeOK, Owned, Follows, NEW c \in Callers, NEW op \in Ops,
         PrepareDeposit(c, op) \/ PrepareSpend(c, op) \/ Execute(c, op)
  PROVE  Follows'
<1> USE DEF chainVars
<1>1. CASE PrepareDeposit(c, op)
  <2>1. PICK amount, fee :
          SetOp(op, [phase    |-> "prepared",
                     kind     |-> "deposit",
                     amount   |-> amount,
                     consumed |-> {},
                     outputs  |-> {Record(Own(op), amount - fee, amount - fee)}])
    BY <1>1 DEF PrepareDeposit
  <2>2. op \notin landed \cup failed  BY <1>1 DEF PrepareDeposit, Owned, SentStarted
  <2>3. OperationsKeep
    BY <2>1, <2>2, SetOpKeeps, RecordUnconsumed
  <2>4. UNCHANGED <<storage, callers, landed, failed, notes, nullifiers>>
    BY <1>1 DEF PrepareDeposit
  <2>5. AheadOnlyByFailed(storage')  BY <2>4 DEF Follows, AheadOnlyByFailedCalls
  <2> QED  BY <2>3, <2>4, <2>5, Keeps DEF OperationsKeep
<1>2. CASE PrepareSpend(c, op)
  <2>1. PICK kind, amount :
          SetOp(op, [AbsentOperation EXCEPT !.phase = "preparing", !.kind = kind,
                                            !.amount = amount])
    BY <1>2 DEF PrepareSpend
  <2>2. op \notin landed \cup failed  BY <1>2 DEF PrepareSpend, Owned, SentStarted
  <2>3. [AbsentOperation EXCEPT !.phase = "preparing", !.kind = kind,
                                !.amount = amount].outputs = {}
    BY DEF AbsentOperation
  <2>4. OperationsKeep  BY <2>1, <2>2, <2>3, SetOpKeeps
  <2>5. Holds([Idle EXCEPT !.pc = "list", !.op = op])  BY DEF Idle, Holds
  <2>6. /\ Step(c, [Idle EXCEPT !.pc = "list", !.op = op])
        /\ UNCHANGED <<storage, landed, failed, notes, nullifiers>>
    BY <1>2 DEF PrepareSpend
  <2> QED  BY <2>4, <2>5, <2>6, MovesOn
<1>3. CASE Execute(c, op)
  <2>1. OperationsKeep  BY <1>3, SetPhaseKeeps DEF Execute
  <2>2. Holds([Idle EXCEPT !.pc = "submit", !.op = op])  BY DEF Idle, Holds
  <2>3. /\ Step(c, [Idle EXCEPT !.pc = "submit", !.op = op])
        /\ UNCHANGED <<storage, landed, failed, notes, nullifiers>>
    BY <1>3 DEF Execute
  <2> QED  BY <2>1, <2>2, <2>3, MovesOn
<1> QED  BY <1>1, <1>2, <1>3

LEMMA PreparingFollows ==
  ASSUME TypeOK, Owned, Follows, NEW c \in Callers,
         \/ ListRecords(c) \/ CheckNullifier(c) \/ Select(c) \/ AssertAvailable(c)
  PROVE  Follows'
<1>0. /\ callers[c] \in CallerStates /\ callers[c].op \in Ops
      /\ OpOf(c) \in Operations
  BY CallerFields
<1>1. callers[c].op \notin landed \cup failed
  <2>1. Preparing(c)
    BY DEF ListRecords, CheckNullifier, Select, AssertAvailable, At, Preparing
  <2> QED  BY <2>1 DEF Owned, Preparers, SentStarted, OpOf
<1>2. UNCHANGED <<storage, landed, failed, notes, nullifiers>>
  BY DEF ListRecords, CheckNullifier, Select, AssertAvailable, chainVars
<1>3. ASSUME NEW w, Step(c, w), w.pc \in {"check", "select", "assert"},
             UNCHANGED operations
      PROVE  Follows'
  BY <1>2, <1>3, MovesOn DEF Holds, OperationsKeep
<1>4. ASSUME NEW picked, Step(c, Idle),
             SetOp(callers[c].op, [OpOf(c) EXCEPT !.phase = "prepared", !.consumed = picked])
      PROVE  Follows'
  <2>1. [OpOf(c) EXCEPT !.phase = "prepared", !.consumed = picked].outputs = OpOf(c).outputs
    BY <1>0 DEF Operations
  <2>2. \A rec \in OpOf(c).outputs : ~rec.consumed
    BY <1>0 DEF Follows, OutputsUnconsumed, OpOf
  <2>3. OperationsKeep  BY <1>0, <1>1, <1>4, <2>1, <2>2, SetOpKeeps
  <2> QED  BY <1>2, <1>4, <2>3, IdleHolds, MovesOn
<1>5. CASE ListRecords(c)
  <2>1. [callers[c] EXCEPT !.pc = "check", !.todo = Available(storage)].pc = "check"
    BY <1>0 DEF CallerStates
  <2> QED  BY <1>3, <1>5, <2>1 DEF ListRecords
<1>6. CASE CheckNullifier(c)
  <2>1. PICK todo, list :
          Step(c, [callers[c] EXCEPT
                     !.pc   = IF todo = {} THEN "select" ELSE @,
                     !.todo = todo, !.list = list])
    <3>1. PICK rec \in Largest(callers[c].todo) :
            Step(c, [callers[c] EXCEPT
                       !.pc   = IF callers[c].todo = {rec} THEN "select" ELSE @,
                       !.todo = @ \ {rec},
                       !.list = IF HasCoin(rec) /\ rec.key \in nullifiers
                                  THEN @ ELSE @ \cup {rec}])
      BY <1>6 DEF CheckNullifier
    <3>2. (callers[c].todo = {rec}) <=> (callers[c].todo \ {rec} = {})
      BY DEF Largest
    <3> QED  BY <1>0, <3>1, <3>2 DEF CallerStates
  <2>2. callers[c].pc = "check" /\ UNCHANGED operations
    BY <1>6 DEF CheckNullifier, At
  <2>3. [callers[c] EXCEPT !.pc   = IF todo = {} THEN "select" ELSE @,
                           !.todo = todo, !.list = list].pc \in {"check", "select"}
    BY <1>0, <2>2 DEF CallerStates
  <2> QED  BY <1>3, <2>1, <2>2, <2>3
<1>7. CASE Select(c)
  <2>1. PICK picked :
          \/ /\ Step(c, [callers[c] EXCEPT !.pc = "assert", !.todo = picked, !.list = {}])
             /\ UNCHANGED operations
          \/ /\ SetOp(callers[c].op,
                      [OpOf(c) EXCEPT !.phase = "prepared", !.consumed = picked])
             /\ Step(c, Idle)
    BY <1>7 DEF Select
  <2>2. [callers[c] EXCEPT !.pc = "assert", !.todo = picked, !.list = {}].pc = "assert"
    BY <1>0 DEF CallerStates
  <2> QED  BY <1>3, <1>4, <2>1, <2>2
<1>8. CASE AssertAvailable(c)  BY <1>4, <1>8 DEF AssertAvailable
<1> QED  BY <1>5, <1>6, <1>7, <1>8

\* What holds of the operation of a caller that commits.
LEMMA CommitFacts ==
  ASSUME TypeOK, Follows, NEW c \in Callers, Committing(c)
  PROVE  /\ callers[c].op \in landed \cup failed
         /\ OpOf(c).outputs \in SUBSET Records /\ OpOf(c).consumed \in SUBSET Records
         /\ AheadOnlyByFailed(OpOf(c).outputs)
         /\ KeysOf(OpOf(c).consumed) \subseteq SpentOrFailed
<1>1. OpOf(c) \in Operations  BY CallerFields
<1>2. callers[c].op \in landed \cup failed  BY DEF Follows, CommitsIncluded
<1>3. Settled(callers[c].op)  BY <1>2 DEF Follows, AllSettled
<1> QED  BY <1>1, <1>2, <1>3 DEF Settled, OpOf, Operations

LEMMA ExecutingFollows ==
  ASSUME TypeOK, Owned, Follows, NEW c \in Callers,
         \/ Submit(c) \/ Confirmed(c) \/ SaveOutputs(c) \/ MarkRead(c)
         \/ MarkWrite(c) \/ Throw(c)
  PROVE  Follows'
<1> USE DEF chainVars
<1>0. /\ callers[c] \in CallerStates /\ callers[c].op \in Ops
      /\ storage \in SUBSET Records /\ callers[c].list \in SUBSET Records
  BY CallerFields DEF TypeOK
<1>1. UNCHANGED <<landed, failed, notes, nullifiers>>
  BY DEF Submit, Confirmed, SaveOutputs, MarkRead, MarkWrite, Throw
<1>2. ASSUME NEW pc, Goto(c, pc), UNCHANGED storage, OperationsKeep,
             pc \in {"await", "save", "mark_read"},
             pc \in {"save", "mark_read"} => callers[c].op \in landed \cup failed
      PROVE  Follows'
  <2>1. Holds([callers[c] EXCEPT !.pc = pc])
    BY <1>0, <1>2 DEF Holds, CallerStates
  <2> QED  BY <1>1, <1>2, <2>1, MovesOn DEF Goto
<1>3. ASSUME NEW w, Step(c, w), Holds(w), AheadOnlyByFailed(storage'), OperationsKeep
      PROVE  Follows'
  <2>1. \A d \in Callers : callers'[d] = callers[d] \/ Holds(callers'[d])
    BY <1>3, StepEffect
  <2> QED  BY <1>1, <1>3, <2>1, Keeps DEF OperationsKeep
<1>4. CASE Submit(c)
  <2>1. callers[c].op \notin landed \cup failed  BY <1>4 DEF Submit, Owned, Unsent
  <2>2. OperationsKeep
    <3>1. CASE UNCHANGED operations  BY <3>1 DEF OperationsKeep
    <3>2. CASE Prove(callers[c].op)
      <4>1. PICK fee : SetOp(callers[c].op, [operations[callers[c].op] EXCEPT
                                 !.outputs = ProvenOutputs(callers[c].op, fee)])
        BY <3>2 DEF Prove
      <4>2. [operations[callers[c].op] EXCEPT
               !.outputs = ProvenOutputs(callers[c].op, fee)].outputs
              = ProvenOutputs(callers[c].op, fee)
        BY <1>0 DEF TypeOK, Operations
      <4> QED  BY <1>0, <2>1, <4>1, <4>2, ProvenUnconsumed, SetOpKeeps
    <3> QED  BY <1>4, <3>1, <3>2 DEF Submit
  <2>3. Goto(c, "await") /\ UNCHANGED storage  BY <1>4 DEF Submit
  <2> QED  BY <1>2, <2>2, <2>3
<1>5. CASE Confirmed(c)
  <2>1. UNCHANGED <<storage, operations>> /\ callers[c].op \in landed \cup failed
    BY <1>5 DEF Confirmed
  <2>2. OperationsKeep  BY <2>1 DEF OperationsKeep
  <2> QED  BY <1>2, <1>5, <2>1, <2>2 DEF Confirmed
<1>6. CASE SaveOutputs(c)
  <2>1. Committing(c)  BY <1>6 DEF SaveOutputs, At, Committing
  <2>2. AheadOnlyByFailed(storage')
    <3>1. AheadOnlyByFailed(Put(storage, OpOf(c).outputs))
      BY <1>0, <2>1, CommitFacts, WritesFollow DEF Follows, AheadOnlyByFailedCalls
    <3> QED  BY <1>6, <3>1 DEF SaveOutputs
  <2>3. CASE Goto(c, "mark_read") /\ UNCHANGED operations
    <3>1. OperationsKeep  BY <2>3 DEF OperationsKeep
    <3>2. Holds([callers[c] EXCEPT !.pc = "mark_read"])
      BY <1>0, <2>1, CommitFacts DEF Holds, CallerStates
    <3> QED  BY <1>3, <2>2, <2>3, <3>1, <3>2 DEF Goto
  <2>4. CASE Return(c)
    <3>1. OperationsKeep  BY <1>0, <2>4, SetPhaseKeeps DEF Return
    <3> QED  BY <1>3, <2>2, <2>4, <3>1, IdleHolds DEF Return
  <2> QED  BY <1>6, <2>3, <2>4 DEF SaveOutputs
<1>7. CASE MarkRead(c)
  <2>1. callers[c].op \in landed \cup failed
    BY <1>7, CommitFacts DEF MarkRead, At, Committing
  <2>2. Holds([callers[c] EXCEPT !.pc = "mark_write", !.list = storage])
    BY <1>0, <2>1 DEF Holds, CallerStates, Follows, AheadOnlyByFailedCalls
  <2>3. UNCHANGED <<storage, operations>>  BY <1>7 DEF MarkRead
  <2>4. OperationsKeep  BY <2>3 DEF OperationsKeep
  <2> QED  BY <1>1, <1>7, <2>2, <2>3, <2>4, MovesOn DEF MarkRead
<1>8. CASE MarkWrite(c)
  <2>1. Committing(c)  BY <1>8 DEF MarkWrite, At, Committing
  <2>2. AheadOnlyByFailed(callers[c].list)
    BY <1>8 DEF MarkWrite, Follows, HeldListsFollow
  <2>3. AheadOnlyByFailed(MarkSpent(callers[c].list, OpOf(c).consumed))
    BY <1>0, <2>1, <2>2, CommitFacts, WritesFollow
  <2>4. AheadOnlyByFailed(storage')  BY <1>8, <2>3 DEF MarkWrite
  <2>5. Return(c)  BY <1>8 DEF MarkWrite
  <2>6. OperationsKeep  BY <1>0, <2>5, SetPhaseKeeps DEF Return
  <2> QED  BY <1>3, <2>4, <2>5, <2>6, IdleHolds DEF Return
<1>9. CASE Throw(c)
  <2>1. OperationsKeep
    <3>1. CASE UNCHANGED operations  BY <3>1 DEF OperationsKeep
    <3>2. CASE SetPhase(callers[c].op, "thrown")  BY <1>0, <3>2, SetPhaseKeeps
    <3>3. CASE OpOf(c).phase = "preparing" /\ SetOp(callers[c].op, AbsentOperation)
      <4>1. callers[c].op \notin landed \cup failed  BY <3>3 DEF Owned, SentStarted, OpOf
      <4> QED  BY <1>0, <3>3, <4>1, SetOpKeeps DEF AbsentOperation
    <3> QED  BY <1>9, <3>1, <3>2, <3>3 DEF Throw
  <2>2. Step(c, Idle) /\ UNCHANGED storage  BY <1>9 DEF Throw
  <2> QED  BY <1>1, <2>1, <2>2, IdleHolds, MovesOn
<1> QED  BY <1>4, <1>5, <1>6, <1>7, <1>8, <1>9

\* A transaction that lands puts into the pool what its operation will save,
\* and one that fails is an exception from now on.
LEMMA PoolFollows ==
  ASSUME TypeOK, Owned, Follows, NEW op \in Ops, Land(op) \/ Fail(op)
  PROVE  Follows'
<1>1. /\ (landed \cup failed)' = landed \cup failed \cup {op}
      /\ landed \subseteq landed' /\ failed \subseteq failed'
      /\ nullifiers \subseteq nullifiers' /\ notes \subseteq notes'
      /\ UNCHANGED <<storage, operations, callers>>
  BY DEF Land, Fail
<1>2. SpentOrFailed \subseteq SpentOrFailed' /\ NotesOrFailed \subseteq NotesOrFailed'
  BY <1>1 DEF SpentOrFailed, NotesOrFailed
<1>3. /\ KeysOf(operations[op].consumed) \subseteq SpentOrFailed'
      /\ NotesOf(operations[op].outputs) \subseteq NotesOrFailed'
  <2>1. CASE Land(op)  BY <2>1 DEF Land, SpentOrFailed, NotesOrFailed
  <2>2. CASE Fail(op)  BY <2>2 DEF Fail, SpentOrFailed, NotesOrFailed
  <2> QED  BY <2>1, <2>2
<1>4. Settled(op)'
  <2>1. \A rec \in operations[op].outputs : ~rec.consumed
    BY DEF Follows, OutputsUnconsumed
  <2>2. \A rec \in operations[op].outputs :
          HasCoin(rec) => [key |-> rec.key, value |-> rec.value] \in NotesOrFailed'
    BY <1>3 DEF NotesOf
  <2> QED  BY <1>1, <1>3, <2>1, <2>2 DEF Settled, AheadOnlyByFailed
<1>5. AheadOnlyByFailedCalls'
  BY <1>1, <1>2 DEF Follows, AheadOnlyByFailedCalls, AheadOnlyByFailed
<1>6. HeldListsFollow'
  BY <1>1, <1>2 DEF Follows, HeldListsFollow, At, AheadOnlyByFailed
<1>7. OutputsUnconsumed'  BY <1>1 DEF Follows, OutputsUnconsumed
<1>8. AllSettled'
  <2> SUFFICES ASSUME NEW p \in landed \cup failed PROVE Settled(p)'
    BY <1>1, <1>4 DEF AllSettled
  <2>1. Settled(p)  BY DEF Follows, AllSettled
  <2> QED  BY <1>1, <1>2, <2>1 DEF Settled, AheadOnlyByFailed
<1>9. LandedSpent'
  BY DEF Follows, LandedSpent, Land, Fail
<1>10. CommitsIncluded'  BY <1>1 DEF Follows, CommitsIncluded, Committing
<1> QED  BY <1>5, <1>6, <1>7, <1>8, <1>9, <1>10 DEF Follows

LEMMA EnvironmentFollows ==
  ASSUME TypeOK, Owned, Follows,
         \/ \E c \in Callers : Receive(c) \/ Upsert(c) \/ Prune(c)
         \/ Reload
  PROVE  Follows'
<1> USE DEF chainVars
<1>1. AheadOnlyByFailed(storage) /\ storage \in SUBSET Records
  BY DEF Follows, AheadOnlyByFailedCalls, TypeOK
<1>2. ASSUME NEW c \in Callers, Receive(c) PROVE Follows'
  <2>1. PICK note \in notes :
          Step(c, [Idle EXCEPT !.pc = "upsert",
                               !.todo = {Record(note.key, note.value, note.value)},
                               !.list = storage])
    BY <1>2 DEF Receive
  <2>2. AheadOnlyByFailed({Record(note.key, note.value, note.value)})
    <3>1. note = [key |-> note.key, value |-> note.value]  BY DEF TypeOK
    <3> QED  BY <3>1 DEF AheadOnlyByFailed, Record, NotesOrFailed
  <2>3. Holds([Idle EXCEPT !.pc = "upsert",
                           !.todo = {Record(note.key, note.value, note.value)},
                           !.list = storage])
    BY <2>2 DEF Holds, Idle
  <2>4. UNCHANGED <<storage, operations, landed, failed, notes, nullifiers>>
    BY <1>2 DEF Receive
  <2>5. OperationsKeep  BY <2>4 DEF OperationsKeep
  <2> QED  BY <2>1, <2>3, <2>4, <2>5, MovesOn
<1>3. ASSUME NEW c \in Callers, Upsert(c) PROVE Follows'
  <2>1. callers[c].todo \in SUBSET Records /\ AheadOnlyByFailed(callers[c].todo)
    BY <1>3, CallerFields DEF Upsert, Follows, HeldListsFollow
  <2>2. AheadOnlyByFailed(Put(storage, callers[c].todo))  BY <1>1, <2>1, WritesFollow
  <2>3. AheadOnlyByFailed(storage')  BY <1>1, <1>3, <2>2 DEF Upsert
  <2>4. Step(c, Idle) /\ UNCHANGED <<operations, landed, failed, notes, nullifiers>>
    BY <1>3 DEF Upsert
  <2>5. \A d \in Callers : callers'[d] = callers[d] \/ Holds(callers'[d])
    BY <2>4, StepEffect, IdleHolds
  <2> QED  BY <2>3, <2>4, <2>5, Keeps
<1>4. ASSUME NEW c \in Callers, Prune(c) PROVE Follows'
  <2>1. AheadOnlyByFailed(Unconsumed(storage))  BY <1>1, WritesFollow
  <2> QED  BY <1>4, <2>1, Keeps DEF Prune
<1>5. CASE Reload
  <2>1. \A d \in Callers : Holds(callers'[d])  BY <1>5, IdleHolds DEF Reload
  <2>2. OperationsKeep
    <3> SUFFICES ASSUME NEW op \in Ops
                 PROVE  \/ /\ operations'[op].outputs = operations[op].outputs
                           /\ operations'[op].consumed = operations[op].consumed
                        \/ op \notin landed \cup failed /\ operations'[op].outputs = {}
      BY DEF OperationsKeep
    <3>1. operations[op] \in Operations  BY DEF TypeOK
    <3>2. CASE operations[op].phase = "preparing"
      BY <1>5, <3>2 DEF Reload, AbsentOperation, Owned, SentStarted
    <3>3. CASE operations[op].phase # "preparing"
      <4>1. operations'[op] = [operations[op] EXCEPT !.phase = "lost"]
              \/ operations'[op] = operations[op]
        BY <1>5, <3>3 DEF Reload
      <4> QED  BY <3>1, <4>1 DEF Operations
    <3> QED  BY <3>2, <3>3
  <2>3. AheadOnlyByFailed(storage') /\ UNCHANGED <<landed, failed, notes, nullifiers>>
    BY <1>1, <1>5 DEF Reload
  <2> QED  BY <2>1, <2>2, <2>3, Keeps DEF OperationsKeep
<1> QED  BY <1>2, <1>3, <1>4, <1>5

LEMMA NextFollows ==
  ASSUME TypeOK, Owned, Follows, [Next]_vars
  PROVE  Follows'
<1>1. CASE UNCHANGED vars
  <2>1. AheadOnlyByFailed(storage')
    BY <1>1 DEF vars, Follows, AheadOnlyByFailedCalls
  <2> QED  BY <1>1, <2>1, Keeps DEF vars, chainVars
<1>2. CASE Next
  BY <1>2, BeginningFollows, PreparingFollows, ExecutingFollows, PoolFollows,
     EnvironmentFollows DEF Next, Continue
<1> QED  BY <1>1, <1>2

\* Whatever calls overlap, throw or are lost in a reload, the stored records run
\* ahead of the pool only by calls that failed in their ledgers: what is marked
\* as spent is spent in the pool or was consumed by such a call, and what has a
\* coin is a note of that value or an output of such a call.
THEOREM StorageAheadOnlyByFailures == Spec => []AheadOnlyByFailedCalls
<1>1. Spec => []IInv
  <2>1. Init => IInv  BY InitTypeOK, InitOwned, InitFollows DEF IInv
  <2>2. IInv /\ [Next]_vars /\ TypeOK' => IInv'
    BY NextOwned, NextFollows DEF IInv
  <2> QED  BY <2>1, <2>2, SpendingTypeCorrect, PTL DEF Spec
<1>2. IInv => AheadOnlyByFailedCalls  BY DEF IInv, Follows
<1> QED  BY <1>1, <1>2, PTL

---------------------------------------------------------------------------
\* Where records come from.

\* The notes the wallet can have heard of: its own, and those of operations
\* whose transaction is in a ledger.
IncludedKeys == InitialNotes \cup ({"recipient", "own"} \X (landed \cup failed))

Known(recs) == KeysOf(recs) \cap Notes \subseteq IncludedKeys

KnownCall(w) == Known(w.todo) /\ Known(w.list)

\* An operation consumes known records and puts out its own; a deposit
\* consumes none; one that returned is in a ledger.
Traced(op, o) ==
    /\ Known(o.consumed)
    /\ KeysOf(o.outputs) \subseteq {Own(op), Recipient(op)} \cup ({"pending"} \X Nat)
    /\ o.kind = "deposit" => o.consumed = {}
    /\ o.phase = "preparing" => o.kind # "deposit"
    /\ o.phase = "returned" => op \in landed \cup failed

\* What is sent consumes notes of the pool.
SentCoins ==
    \A op \in sent \cup landed \cup failed : KeysOf(operations[op].consumed) \subseteq Notes

Origins ==
    /\ \A note \in notes : note.key \in IncludedKeys
    /\ nullifiers \subseteq IncludedKeys
    /\ Known(storage)
    /\ \A c \in Callers : KnownCall(callers[c])
    /\ \A op \in Ops : Traced(op, operations[op])
    /\ SentCoins

\* The keys of different makes are different.
LEMMA KeysApart ==
  /\ Notes \cap ({"pending"} \X Nat) = {}
  /\ \A op \in Ops : /\ {Own(op), Recipient(op)} \subseteq Notes
                     /\ {Own(op), Recipient(op)} \cap InitialNotes = {}
  /\ \A op \in Ops : op \notin landed \cup failed =>
       {Own(op), Recipient(op)} \cap IncludedKeys = {}
  /\ \A op \in landed \cup failed : {Own(op), Recipient(op)} \subseteq IncludedKeys
<1>1. \A op \in Ops : /\ Own(op) \in {"recipient", "own", "pending"} \X (Ops \cup Nat)
                      /\ Recipient(op) \in {"recipient", "own", "pending"} \X (Ops \cup Nat)
                      /\ Own(op) \in {"recipient", "own"} \X Ops
                      /\ Recipient(op) \in {"recipient", "own"} \X Ops
  BY DEF Own, Recipient
<1>2. ({"pending"} \X Nat) \subseteq {"recipient", "own", "pending"} \X (Ops \cup Nat)
  OBVIOUS
<1>3. ({"pending"} \X Nat) \cap ({"recipient", "own"} \X Ops) = {}
  OBVIOUS
<1>4. Notes \cap ({"pending"} \X Nat) = {}
  BY <1>2, <1>3, SpendingAssumption DEF Notes
<1>5. \A op \in Ops : {Own(op), Recipient(op)} \cap InitialNotes = {}
  BY <1>1, SpendingAssumption
<1>6. ASSUME NEW op \in Ops, op \notin landed \cup failed
      PROVE  {Own(op), Recipient(op)}
               \cap ({"recipient", "own"} \X (landed \cup failed)) = {}
  BY <1>6 DEF Own, Recipient
<1>7. \A op \in landed \cup failed :
        {Own(op), Recipient(op)} \subseteq {"recipient", "own"} \X (landed \cup failed)
  BY DEF Own, Recipient
<1> QED  BY <1>1, <1>4, <1>5, <1>6, <1>7 DEF Notes, IncludedKeys

LEMMA KnownParts ==
  ASSUME NEW list, NEW recs
  PROVE  /\ Known({})
         /\ Known(list) /\ recs \subseteq list => Known(recs)
         /\ Known(list) /\ Known(recs) => Known(Put(list, recs)) /\ Known(list \cup recs)
         /\ KeysOf(recs) \subseteq IncludedKeys \cup ({"pending"} \X Nat) => Known(recs)
<1>1. Known({})  BY DEF Known, KeysOf
<1>2. Known(list) /\ recs \subseteq list => Known(recs)  BY DEF Known, KeysOf
<1>3. KeysOf(list \cup recs) = KeysOf(list) \cup KeysOf(recs)  BY DEF KeysOf
<1>4. Known(list) /\ Known(recs) => Known(list \cup recs)  BY <1>3 DEF Known
<1>5. KeysOf(Put(list, recs)) \subseteq KeysOf(list \cup recs)  BY DEF Put, KeysOf
<1>6. Known(list) /\ Known(recs) => Known(Put(list, recs))  BY <1>4, <1>5 DEF Known
<1>7. KeysOf(recs) \subseteq IncludedKeys \cup ({"pending"} \X Nat) => Known(recs)
  BY KeysApart DEF Known
<1> QED  BY <1>1, <1>2, <1>4, <1>6, <1>7

\* Writes keep the keys of a list.
LEMMA KeysWritten ==
  ASSUME NEW list \in SUBSET Records, NEW recs \in SUBSET Records
  PROVE  /\ KeysOf(Put(list, recs)) = KeysOf(list) \cup KeysOf(recs)
         /\ KeysOf(MarkSpent(list, recs)) = KeysOf(list)
         /\ KeysOf(Unconsumed(Put(list, recs)))
              \subseteq KeysOf(Unconsumed(list)) \cup KeysOf(recs)
         /\ KeysOf(Unconsumed(MarkSpent(list, recs)))
              = KeysOf(Unconsumed(list)) \ KeysOf(recs)
<1>1. KeysOf(Put(list, recs)) = KeysOf(list) \cup KeysOf(recs)
  BY DEF KeysOf, Put
<1>2. KeysOf(Unconsumed(Put(list, recs))) \subseteq KeysOf(Unconsumed(list)) \cup KeysOf(recs)
  BY DEF KeysOf, Put, Unconsumed
<1> DEFINE marked(rec) == [rec EXCEPT !.consumed = @ \/ rec.key \in KeysOf(recs)]
<1>3. \A rec \in list : /\ marked(rec).key = rec.key
                        /\ marked(rec).consumed <=> rec.consumed \/ rec.key \in KeysOf(recs)
  BY DEF Records
<1>4. MarkSpent(list, recs) = {marked(rec) : rec \in list}
  BY DEF MarkSpent
<1> HIDE DEF marked
<1>5. KeysOf(MarkSpent(list, recs)) = KeysOf(list)
  BY <1>3, <1>4 DEF KeysOf
<1>6. ASSUME NEW key
      PROVE  key \in KeysOf(Unconsumed(MarkSpent(list, recs)))
               <=> key \in KeysOf(Unconsumed(list)) \ KeysOf(recs)
  <2>1. key \in KeysOf(Unconsumed(MarkSpent(list, recs)))
          <=> \E rec \in list : marked(rec).key = key /\ ~marked(rec).consumed
    BY <1>4 DEF KeysOf, Unconsumed
  <2>2. key \in KeysOf(Unconsumed(list)) \ KeysOf(recs)
          <=> \E rec \in list : rec.key = key /\ ~rec.consumed /\ key \notin KeysOf(recs)
    BY DEF KeysOf, Unconsumed
  <2> QED  BY <1>3, <2>1, <2>2
<1> QED  BY <1>1, <1>2, <1>5, <1>6

---------------------------------------------------------------------------
\* A step that puts nothing into a ledger keeps Origins when what it writes and what it
\* leaves a call with is known.
LEMMA OriginsKeep ==
  ASSUME TypeOK, Origins,
         UNCHANGED <<landed, failed, notes, nullifiers>>,
         Known(storage'),
         \A d \in Callers : callers'[d] = callers[d] \/ KnownCall(callers'[d]),
         \A op \in Ops : operations'[op] = operations[op] \/ Traced(op, operations'[op]),
         SentCoins'
  PROVE  Origins'
<1>1. IncludedKeys' = IncludedKeys  BY DEF IncludedKeys
<1>2. \A d \in Callers : KnownCall(callers'[d])  BY DEF Origins
<1>3. \A op \in Ops : Traced(op, operations'[op])  BY DEF Origins
<1>4. Known(storage)' /\ (\A c \in Callers : KnownCall(callers[c]))'
  BY <1>1, <1>2 DEF KnownCall, Known, KeysOf
<1>5. (\A op \in Ops : Traced(op, operations[op]))'
  BY <1>1, <1>3 DEF Traced, Known
<1> QED  BY <1>1, <1>4, <1>5 DEF Origins

\* What is sent stays as it was sent.
LEMMA SentCoinsKeep ==
  ASSUME SentCoins, (sent \cup landed \cup failed)' \subseteq sent \cup landed \cup failed,
         \A op \in sent \cup landed \cup failed :
           operations'[op].consumed = operations[op].consumed
  PROVE  SentCoins'
BY DEF SentCoins

\* A phase changes, and nothing else of an operation.
LEMMA PhaseTraced ==
  ASSUME TypeOK, Origins, NEW op \in Ops, NEW phase, SetPhase(op, phase),
         phase # "preparing", phase = "returned" => op \in landed \cup failed,
         (sent \cup landed \cup failed)' \subseteq sent \cup landed \cup failed
  PROVE  /\ \A p \in Ops : operations'[p] = operations[p] \/ Traced(p, operations'[p])
         /\ SentCoins'
<1>1. /\ operations'[op].phase = phase
      /\ operations'[op].outputs = operations[op].outputs
      /\ operations'[op].consumed = operations[op].consumed
      /\ operations'[op].kind = operations[op].kind
      /\ \A p \in Ops \ {op} : operations'[p] = operations[p]
  BY SetPhaseEffect
<1>2. Traced(op, operations[op]) /\ SentCoins  BY DEF Origins
<1>3. Traced(op, operations'[op])  BY <1>1, <1>2 DEF Traced
<1>4. sent \cup landed \cup failed \subseteq Ops  BY DEF TypeOK
<1>5. SentCoins'  BY <1>1, <1>2, <1>4, SentCoinsKeep
<1> QED  BY <1>1, <1>3, <1>5

\* An operation that nobody sent is written.
LEMMA UnsentTraced ==
  ASSUME TypeOK, Origins, NEW op \in Ops \ (sent \cup landed \cup failed),
         NEW o, SetOp(op, o), Traced(op, o), UNCHANGED <<sent, landed, failed>>
  PROVE  /\ \A p \in Ops : operations'[p] = operations[p] \/ Traced(p, operations'[p])
         /\ SentCoins'
<1>1. operations'[op] = o /\ \A p \in Ops \ {op} : operations'[p] = operations[p]
  BY SetOpEffect
<1>2. sent \cup landed \cup failed \subseteq Ops \ {op}  BY DEF TypeOK
<1> QED  BY <1>1, <1>2 DEF Origins, SentCoins

LEMMA IdleKnown == KnownCall(Idle)
BY IdleForm, KnownParts DEF KnownCall

LEMMA InitOrigins == Init => Origins
<1> SUFFICES ASSUME Init PROVE Origins  OBVIOUS
<1>1. /\ landed = {} /\ failed = {} /\ sent = {} /\ nullifiers = {}
      /\ notes = {[key |-> n, value |-> InitialValue[n]] : n \in InitialNotes}
      /\ storage = {Record(n, InitialValue[n], InitialValue[n]) : n \in InitialNotes}
      /\ \A c \in Callers : callers[c] = Idle
      /\ \A op \in Ops : operations[op] = AbsentOperation
  BY DEF Init
<1>2. InitialNotes \subseteq IncludedKeys  BY DEF IncludedKeys
<1>3. Known(storage)
  BY <1>1, <1>2 DEF Known, KeysOf, Record
<1>4. \A op \in Ops : Traced(op, AbsentOperation)
  BY KnownParts DEF Traced, AbsentOperation, KeysOf
<1>5. \A note \in notes : note.key \in IncludedKeys  BY <1>1, <1>2
<1> QED  BY <1>1, <1>3, <1>4, <1>5, IdleKnown DEF Origins, SentCoins

LEMMA BeginningOrigins ==
  ASSUME TypeOK, Owned, Origins, NEW c \in Callers, NEW op \in Ops,
         PrepareDeposit(c, op) \/ PrepareSpend(c, op) \/ Execute(c, op)
  PROVE  Origins'
<1> USE DEF chainVars
<1>1. UNCHANGED <<storage, sent, landed, failed, notes, nullifiers>> /\ Known(storage)
  BY DEF PrepareDeposit, PrepareSpend, Execute, Origins
<1>2. CASE PrepareDeposit(c, op)
  <2>1. PICK amount \in Amounts, fee \in RequiredFees :
          SetOp(op, [phase    |-> "prepared",
                     kind     |-> "deposit",
                     amount   |-> amount,
                     consumed |-> {},
                     outputs  |-> {Record(Own(op), amount - fee, amount - fee)}])
    BY <1>2 DEF PrepareDeposit
  <2> DEFINE o == [phase    |-> "prepared",
                   kind     |-> "deposit",
                   amount   |-> amount,
                   consumed |-> {},
                   outputs  |-> {Record(Own(op), amount - fee, amount - fee)}]
  <2>2. Traced(op, o)
    <3>1. KeysOf(o.outputs) = {Own(op)}  BY DEF KeysOf, Record
    <3>2. o.consumed = {} /\ o.phase = "prepared"  OBVIOUS
    <3> HIDE DEF o
    <3> QED  BY <3>1, <3>2, KnownParts DEF Traced
  <2>3. op \notin sent \cup landed \cup failed  BY <1>2 DEF PrepareDeposit, Owned, SentStarted
  <2>4. SetOp(op, o)  BY <2>1
  <2> HIDE DEF o
  <2>5. /\ \A p \in Ops : operations'[p] = operations[p] \/ Traced(p, operations'[p])
        /\ SentCoins'
    BY <1>1, <2>2, <2>3, <2>4, UnsentTraced
  <2>6. UNCHANGED callers  BY <1>2 DEF PrepareDeposit
  <2> QED  BY <1>1, <2>5, <2>6, OriginsKeep
<1>3. CASE PrepareSpend(c, op)
  <2>1. PICK kind \in {"transfer", "withdraw"}, amount \in Amounts :
          SetOp(op, [AbsentOperation EXCEPT !.phase = "preparing", !.kind = kind,
                                            !.amount = amount])
    BY <1>3 DEF PrepareSpend
  <2> DEFINE o == [AbsentOperation EXCEPT !.phase = "preparing", !.kind = kind,
                                          !.amount = amount]
             w == [Idle EXCEPT !.pc = "list", !.op = op]
  <2>2. Traced(op, o)  BY KnownParts DEF Traced, KeysOf, AbsentOperation
  <2>3. op \notin sent \cup landed \cup failed  BY <1>3 DEF PrepareSpend, Owned, SentStarted
  <2>4. SetOp(op, o) /\ Step(c, w)  BY <1>3, <2>1 DEF PrepareSpend
  <2>5. KnownCall(w)  BY KnownParts DEF Idle, KnownCall
  <2> HIDE DEF o, w
  <2>6. /\ \A p \in Ops : operations'[p] = operations[p] \/ Traced(p, operations'[p])
        /\ SentCoins'
    BY <1>1, <2>2, <2>3, <2>4, UnsentTraced
  <2>7. \A d \in Callers : callers'[d] = callers[d] \/ KnownCall(callers'[d])
    BY <2>4, <2>5, StepEffect
  <2> QED  BY <1>1, <2>6, <2>7, OriginsKeep
<1>4. CASE Execute(c, op)
  <2> DEFINE w == [Idle EXCEPT !.pc = "submit", !.op = op]
  <2>1. SetPhase(op, "started") /\ Step(c, w)  BY <1>4 DEF Execute
  <2>2. KnownCall(w)  BY KnownParts DEF Idle, KnownCall
  <2> HIDE DEF w
  <2>3. /\ \A p \in Ops : operations'[p] = operations[p] \/ Traced(p, operations'[p])
        /\ SentCoins'
    BY <1>1, <2>1, PhaseTraced
  <2>4. \A d \in Callers : callers'[d] = callers[d] \/ KnownCall(callers'[d])
    BY <2>1, <2>2, StepEffect
  <2> QED  BY <1>1, <2>3, <2>4, OriginsKeep
<1> QED  BY <1>2, <1>3, <1>4

LEMMA PreparingOrigins ==
  ASSUME TypeOK, Owned, Origins, NEW c \in Callers,
         \/ ListRecords(c) \/ CheckNullifier(c) \/ Select(c) \/ AssertAvailable(c)
  PROVE  Origins'
<1> USE DEF chainVars
<1> DEFINE v == callers[c]
<1>0. /\ v \in CallerStates /\ v.op \in Ops /\ OpOf(c) \in Operations
      /\ Known(v.todo) /\ Known(v.list) /\ Known(storage)
      /\ Traced(v.op, OpOf(c)) /\ SentCoins
  BY CallerFields DEF Origins, KnownCall, OpOf
<1>1. UNCHANGED <<storage, sent, landed, failed, notes, nullifiers>>
  BY DEF ListRecords, CheckNullifier, Select, AssertAvailable
<1>2. v.op \notin sent \cup landed \cup failed /\ OpOf(c).phase = "preparing"
  <2>1. Preparing(c)
    BY DEF ListRecords, CheckNullifier, Select, AssertAvailable, At, Preparing
  <2> QED  BY <2>1 DEF Owned, Preparers, SentStarted, OpOf
<1>3. ASSUME NEW w, Step(c, w), KnownCall(w), UNCHANGED operations
      PROVE  Origins'
  <2>1. \A d \in Callers : callers'[d] = callers[d] \/ KnownCall(callers'[d])
    BY <1>3, StepEffect
  <2>2. SentCoins'  BY <1>0, <1>1, <1>3 DEF SentCoins
  <2> QED  BY <1>0, <1>1, <1>3, <2>1, <2>2, OriginsKeep
\* What is prepared consumes what the call had found.
<1>4. ASSUME NEW picked, Step(c, Idle), Known(picked),
             SetOp(v.op, [OpOf(c) EXCEPT !.phase = "prepared", !.consumed = picked])
      PROVE  Origins'
  <2> DEFINE o == [OpOf(c) EXCEPT !.phase = "prepared", !.consumed = picked]
  <2>1. /\ o.consumed = picked /\ o.outputs = OpOf(c).outputs /\ o.kind = OpOf(c).kind
        /\ o.phase = "prepared"
    BY <1>0 DEF Operations
  <2>2. SetOp(v.op, o)  BY <1>4
  <2> HIDE DEF o
  <2>3. Traced(v.op, o)  BY <1>0, <1>2, <1>4, <2>1 DEF Traced
  <2>4. /\ \A p \in Ops : operations'[p] = operations[p] \/ Traced(p, operations'[p])
        /\ SentCoins'
    BY <1>0, <1>1, <1>2, <2>2, <2>3, UnsentTraced
  <2>5. \A d \in Callers : callers'[d] = callers[d] \/ KnownCall(callers'[d])
    BY <1>4, StepEffect, IdleKnown
  <2> QED  BY <1>0, <1>1, <2>4, <2>5, OriginsKeep
<1>5. CASE ListRecords(c)
  <2> DEFINE w == [v EXCEPT !.pc = "check", !.todo = Available(storage)]
  <2>1. w.todo = Available(storage) /\ w.list = v.list
    BY <1>0 DEF CallerStates
  <2>2. Available(storage) \subseteq storage  BY DEF Available, Unconsumed
  <2>3. KnownCall(w)
    <3> HIDE DEF w
    <3> QED  BY <1>0, <2>1, <2>2, KnownParts DEF KnownCall
  <2>4. Step(c, w) /\ UNCHANGED operations  BY <1>5 DEF ListRecords
  <2> HIDE DEF w
  <2> QED  BY <1>3, <2>3, <2>4
<1>6. CASE CheckNullifier(c)
  <2>1. PICK rec \in v.todo : \E pc \in {v.pc, "select"} :
          Step(c, [v EXCEPT !.pc = pc, !.todo = @ \ {rec},
                            !.list = IF HasCoin(rec) /\ rec.key \in nullifiers
                                       THEN @ ELSE @ \cup {rec}])
    BY <1>6 DEF CheckNullifier, Largest
  <2>10. PICK pc \in {v.pc, "select"} :
          Step(c, [v EXCEPT !.pc = pc, !.todo = @ \ {rec},
                            !.list = IF HasCoin(rec) /\ rec.key \in nullifiers
                                       THEN @ ELSE @ \cup {rec}])
    BY <2>1
  <2> DEFINE w == [v EXCEPT !.pc = pc, !.todo = @ \ {rec},
                            !.list = IF HasCoin(rec) /\ rec.key \in nullifiers
                                       THEN @ ELSE @ \cup {rec}]
  <2>2. w.todo = v.todo \ {rec} /\ w.list \in {v.list, v.list \cup {rec}}
    BY <1>0 DEF CallerStates
  <2>3. Known({rec}) /\ Known(v.todo \ {rec})
    <3>1. {rec} \subseteq v.todo /\ v.todo \ {rec} \subseteq v.todo  OBVIOUS
    <3>2. Known(v.todo)  BY <1>0
    <3> HIDE DEF v
    <3>3. Known({rec})  BY <3>1, <3>2, KnownParts
    <3>4. Known(v.todo \ {rec})  BY <3>1, <3>2, KnownParts
    <3> QED  BY <3>3, <3>4
  <2>4. Known(v.list \cup {rec})  BY <1>0, <2>3, KnownParts
  <2>5. Step(c, w) /\ UNCHANGED operations  BY <1>6, <2>10 DEF CheckNullifier
  <2> HIDE DEF w
  <2>6. KnownCall(w)  BY <1>0, <2>2, <2>3, <2>4 DEF KnownCall
  <2> QED  BY <1>3, <2>5, <2>6
<1>7. CASE Select(c)
  <2>1. PICK picked \in Picks(v.list, SpendAmountCoveringProtocolFee(OpOf(c).amount)) :
          \/ /\ Step(c, [v EXCEPT !.pc = "assert", !.todo = picked, !.list = {}])
             /\ UNCHANGED operations
          \/ /\ SetOp(v.op, [OpOf(c) EXCEPT !.phase = "prepared", !.consumed = picked])
             /\ Step(c, Idle)
    BY <1>7 DEF Select
  <2>2. Known(picked)
    <3>1. picked \subseteq v.list  BY PicksType
    <3>2. Known(v.list)  BY <1>0
    <3> HIDE DEF v
    <3> QED  BY <3>1, <3>2, KnownParts
  <2> DEFINE w == [v EXCEPT !.pc = "assert", !.todo = picked, !.list = {}]
  <2>3. w.todo = picked /\ w.list = {}
    BY <1>0 DEF CallerStates
  <2>4. Step(c, w) /\ UNCHANGED operations => Origins'
    <3> HIDE DEF w
    <3>1. KnownCall(w)  BY <2>2, <2>3, KnownParts DEF KnownCall
    <3> QED  BY <1>3, <3>1
  <2> QED  BY <1>4, <2>1, <2>2, <2>4
<1>8. CASE AssertAvailable(c)  BY <1>0, <1>4, <1>8 DEF AssertAvailable
<1> QED  BY <1>5, <1>6, <1>7, <1>8

\* The outputs of a proof are of its operation.
LEMMA ProvenKeys ==
  ASSUME TypeOK, NEW op \in Ops, NEW fee \in Nat,
         Total(operations[op].consumed) >= operations[op].amount + fee
  PROVE  KeysOf(ProvenOutputs(op, fee)) \subseteq {Own(op), Recipient(op)} \cup ({"pending"} \X Nat)
<1> DEFINE o       == operations[op]
           planned == Total(o.consumed) - o.amount
           change  == planned - fee
<1>1. o \in Operations  BY DEF TypeOK
<1>2. o.amount \in Nat /\ Total(o.consumed) \in Nat
  BY <1>1, TotalType DEF Operations
<1>3. planned \in Nat  BY <1>2
<1>4. PendingKey(planned) \in {"pending"} \X Nat  BY <1>3 DEF PendingKey
<1> HIDE DEF planned, change
<1>5. /\ Record(Recipient(op), o.amount, o.amount).key = Recipient(op)
      /\ Record(PendingKey(planned), planned, planned).key = PendingKey(planned)
      /\ Record(Own(op), planned, change).key = Own(op)
  BY DEF Record
<1>6. ProvenOutputs(op, fee) \subseteq {Record(Recipient(op), o.amount, o.amount),
                                       Record(PendingKey(planned), planned, planned),
                                       Record(Own(op), planned, change)}
  BY Zenon DEF ProvenOutputs, planned, change
<1> QED  BY <1>4, <1>5, <1>6 DEF KeysOf

LEMMA ExecutingOrigins ==
  ASSUME TypeOK, Owned, Follows, Origins, NEW c \in Callers,
         \/ Submit(c) \/ Confirmed(c) \/ SaveOutputs(c) \/ MarkRead(c)
         \/ MarkWrite(c) \/ Throw(c)
  PROVE  Origins'
<1> USE DEF chainVars
<1> DEFINE v == callers[c]
<1>0. /\ v \in CallerStates /\ v.op \in Ops /\ OpOf(c) \in Operations
      /\ storage \in SUBSET Records /\ v.list \in SUBSET Records
      /\ OpOf(c).outputs \in SUBSET Records /\ OpOf(c).consumed \in SUBSET Records
      /\ Known(v.todo) /\ Known(v.list) /\ Known(storage)
      /\ Traced(v.op, OpOf(c)) /\ SentCoins
  BY CallerFields DEF Origins, KnownCall, OpOf, TypeOK, Operations
<1>1. UNCHANGED <<landed, failed, notes, nullifiers>>
  BY DEF Submit, Confirmed, SaveOutputs, MarkRead, MarkWrite, Throw
<1>2. ASSUME NEW pc, Goto(c, pc)
      PROVE  \A d \in Callers : callers'[d] = callers[d] \/ KnownCall(callers'[d])
  BY <1>0, <1>2, GotoEffect DEF KnownCall
<1>3. ASSUME Step(c, Idle)
      PROVE  \A d \in Callers : callers'[d] = callers[d] \/ KnownCall(callers'[d])
  BY <1>3, StepEffect, IdleKnown
<1>4. CASE Submit(c)
  <2>1. v.op \notin sent \cup landed \cup failed  BY <1>4 DEF Submit, Owned, Unsent
  <2>2. sent' = sent \cup {v.op} /\ Goto(c, "await") /\ UNCHANGED storage
    BY <1>4 DEF Submit
  <2>3. sent \cup landed \cup failed \subseteq Ops \ {v.op}  BY <2>1 DEF TypeOK
  <2>4. CASE OpOf(c).kind = "deposit" /\ UNCHANGED operations
    <3>1. OpOf(c).consumed = {}  BY <1>0, <2>4 DEF Traced
    <3>2. SentCoins'
      BY <1>0, <1>1, <2>2, <2>4, <3>1 DEF SentCoins, KeysOf, OpOf
    <3> QED  BY <1>0, <1>1, <1>2, <2>2, <2>4, <3>2, OriginsKeep
  <2>5. CASE OpOf(c).kind # "deposit" /\ Prove(v.op)
    <3>1. PICK fee \in RequiredFees :
            /\ Total(operations[v.op].consumed) >= operations[v.op].amount + fee
            /\ SetOp(v.op, [operations[v.op] EXCEPT !.outputs = ProvenOutputs(v.op, fee)])
      BY <2>5 DEF Prove
    <3>2. fee \in Nat  BY SpendingAssumption
    <3> DEFINE o == [operations[v.op] EXCEPT !.outputs = ProvenOutputs(v.op, fee)]
    <3>3. /\ o.consumed = OpOf(c).consumed /\ o.outputs = ProvenOutputs(v.op, fee)
          /\ o.kind = OpOf(c).kind /\ o.phase = OpOf(c).phase
      BY <1>0 DEF Operations, OpOf
    <3>4. SetOp(v.op, o)  BY <3>1
    <3> HIDE DEF o
    <3>5. Traced(v.op, o)
      BY <1>0, <3>1, <3>2, <3>3, ProvenKeys DEF Traced
    <3>6. operations'[v.op] = o /\ \A p \in Ops \ {v.op} : operations'[p] = operations[p]
      BY <1>0, <3>4, SetOpEffect
    <3>7. KeysOf(o.consumed) \subseteq Notes
      BY <2>5, <3>3 DEF Prove, FoundInTree, KeysOf, HasCoin, OpOf
    <3>8. SentCoins'
      BY <1>0, <1>1, <2>2, <2>3, <3>6, <3>7 DEF SentCoins
    <3>9. \A p \in Ops : operations'[p] = operations[p] \/ Traced(p, operations'[p])
      BY <3>5, <3>6
    <3>10. \A d \in Callers : callers'[d] = callers[d] \/ KnownCall(callers'[d])
      BY <1>2, <2>2
    <3>11. Known(storage')  BY <1>0, <2>2
    <3> QED  BY <1>1, <3>8, <3>9, <3>10, <3>11, OriginsKeep
  <2> QED  BY <1>4, <2>4, <2>5 DEF Submit
<1>5. CASE Confirmed(c)
  <2>1. UNCHANGED <<storage, operations, sent>>  BY <1>5 DEF Confirmed
  <2>2. SentCoins'  BY <1>0, <1>1, <2>1 DEF SentCoins
  <2>3. PICK pc : Goto(c, pc)  BY <1>5 DEF Confirmed
  <2> QED  BY <1>0, <1>1, <1>2, <2>1, <2>2, <2>3, OriginsKeep
<1>6. CASE SaveOutputs(c)
  <2>1. v.op \in landed \cup failed  BY <1>6, CommitFacts DEF SaveOutputs, At, Committing
  <2>2. Known(OpOf(c).outputs)
    <3>1. {Own(v.op), Recipient(v.op)} \subseteq IncludedKeys  BY <2>1, KeysApart
    <3>2. KeysOf(OpOf(c).outputs) \subseteq IncludedKeys \cup ({"pending"} \X Nat)
      BY <1>0, <3>1 DEF Traced
    <3> QED  BY <3>2, KnownParts
  <2>3. Known(storage')  BY <1>0, <1>6, <2>2, KnownParts DEF SaveOutputs
  <2>4. UNCHANGED sent  BY <1>6 DEF SaveOutputs
  <2>5. CASE Goto(c, "mark_read") /\ UNCHANGED operations
    <3>1. SentCoins'  BY <1>0, <1>1, <2>4, <2>5 DEF SentCoins
    <3>2. \A d \in Callers : callers'[d] = callers[d] \/ KnownCall(callers'[d])
      BY <1>2, <2>5
    <3> QED  BY <1>1, <2>3, <2>5, <3>1, <3>2, OriginsKeep
  <2>6. CASE Return(c)
    <3>1. SetPhase(v.op, "returned") /\ Step(c, Idle)  BY <2>6 DEF Return
    <3>2. /\ \A p \in Ops : operations'[p] = operations[p] \/ Traced(p, operations'[p])
          /\ SentCoins'
      BY <1>0, <1>1, <2>1, <2>4, <3>1, PhaseTraced
    <3>3. \A d \in Callers : callers'[d] = callers[d] \/ KnownCall(callers'[d])
      BY <1>3, <3>1
    <3> QED  BY <1>1, <2>3, <3>2, <3>3, OriginsKeep
  <2> QED  BY <1>6, <2>5, <2>6 DEF SaveOutputs
<1>7. CASE MarkRead(c)
  <2> DEFINE w == [v EXCEPT !.pc = "mark_write", !.list = storage]
  <2>1. Step(c, w) /\ UNCHANGED <<storage, operations, sent>>  BY <1>7 DEF MarkRead
  <2>2. w.todo = v.todo /\ w.list = storage  BY <1>0 DEF CallerStates
  <2> HIDE DEF w
  <2>3. \A d \in Callers : callers'[d] = callers[d] \/ KnownCall(callers'[d])
    BY <1>0, <2>1, <2>2, StepEffect DEF KnownCall
  <2>4. SentCoins'  BY <1>0, <1>1, <2>1 DEF SentCoins
  <2> QED  BY <1>0, <1>1, <2>1, <2>3, <2>4, OriginsKeep
<1>8. CASE MarkWrite(c)
  <2>1. v.op \in landed \cup failed  BY <1>8, CommitFacts DEF MarkWrite, At, Committing
  <2>2. /\ storage' = MarkSpent(v.list, OpOf(c).consumed)
        /\ SetPhase(v.op, "returned") /\ Step(c, Idle) /\ UNCHANGED sent
    BY <1>8 DEF MarkWrite, Return
  <2>3. Known(storage')
    BY <1>0, <2>2, KeysWritten DEF Known
  <2>4. /\ \A p \in Ops : operations'[p] = operations[p] \/ Traced(p, operations'[p])
        /\ SentCoins'
    BY <1>0, <1>1, <2>1, <2>2, PhaseTraced
  <2>5. \A d \in Callers : callers'[d] = callers[d] \/ KnownCall(callers'[d])
    BY <1>3, <2>2
  <2> QED  BY <1>1, <2>3, <2>4, <2>5, OriginsKeep
<1>9. CASE Throw(c)
  <2>1. Step(c, Idle) /\ UNCHANGED <<storage, sent>>  BY <1>9 DEF Throw
  <2>2. /\ \A p \in Ops : operations'[p] = operations[p] \/ Traced(p, operations'[p])
        /\ SentCoins'
    <3>1. CASE UNCHANGED operations
      BY <1>0, <1>1, <2>1, <3>1 DEF SentCoins
    <3>2. CASE SetPhase(v.op, "thrown")
      BY <1>0, <1>1, <2>1, <3>2, PhaseTraced
    <3>3. CASE OpOf(c).phase = "preparing" /\ SetOp(v.op, AbsentOperation)
      <4>1. v.op \notin sent \cup landed \cup failed  BY <3>3 DEF Owned, SentStarted, OpOf
      <4>2. Traced(v.op, AbsentOperation)
        BY KnownParts DEF Traced, AbsentOperation, KeysOf
      <4> QED  BY <1>0, <1>1, <2>1, <3>3, <4>1, <4>2, UnsentTraced
    <3> QED  BY <1>9, <3>1, <3>2, <3>3 DEF Throw
  <2>3. \A d \in Callers : callers'[d] = callers[d] \/ KnownCall(callers'[d])
    BY <1>3, <2>1
  <2> QED  BY <1>0, <1>1, <2>1, <2>2, <2>3, OriginsKeep
<1> QED  BY <1>4, <1>5, <1>6, <1>7, <1>8, <1>9

\* A transaction that lands makes its outputs known, and spends known notes;
\* the outputs of one that fails are known to its call.
LEMMA PoolOrigins ==
  ASSUME TypeOK, Origins, NEW op \in Ops, Land(op) \/ Fail(op)
  PROVE  Origins'
<1>1. /\ (landed \cup failed)' = landed \cup failed \cup {op} /\ op \in sent
      /\ sent' = sent \ {op}
      /\ nullifiers' \subseteq nullifiers \cup KeysOf(operations[op].consumed)
      /\ notes' \subseteq notes \cup NotesOf(operations[op].outputs)
      /\ UNCHANGED <<storage, operations, callers>>
  BY DEF Land, Fail
<1>2. IncludedKeys \subseteq IncludedKeys'  BY <1>1 DEF IncludedKeys
<1>3. {Own(op), Recipient(op)} \subseteq IncludedKeys'
  BY <1>1 DEF IncludedKeys, Own, Recipient
<1>4. Traced(op, operations[op])  BY DEF Origins
<1>5. nullifiers' \subseteq IncludedKeys'
  <2>1. KeysOf(operations[op].consumed) \subseteq IncludedKeys
    BY <1>1, <1>4 DEF Traced, Known, Origins, SentCoins
  <2> QED  BY <1>1, <1>2, <2>1 DEF Origins
<1>6. \A note \in notes' : note.key \in IncludedKeys'
  <2> SUFFICES ASSUME NEW rec \in operations[op].outputs, HasCoin(rec)
               PROVE  rec.key \in IncludedKeys'
    BY <1>1, <1>2 DEF Origins, NotesOf
  <2>1. rec.key \in {Own(op), Recipient(op)} \cup ({"pending"} \X Nat)
    BY <1>4 DEF Traced, KeysOf
  <2>2. rec.key \notin {"pending"} \X Nat  BY KeysApart DEF HasCoin
  <2> QED  BY <1>3, <2>1, <2>2
<1>7. (\A p \in Ops : Traced(p, operations[p]))'
  BY <1>1, <1>2 DEF Origins, Traced, Known
<1>8. Known(storage)' /\ (\A c \in Callers : KnownCall(callers[c]))'
  BY <1>1, <1>2 DEF Origins, KnownCall, Known
<1>9. SentCoins'  BY <1>1 DEF Origins, SentCoins
<1> QED  BY <1>5, <1>6, <1>7, <1>8, <1>9 DEF Origins

LEMMA EnvironmentOrigins ==
  ASSUME TypeOK, Origins,
         \/ \E c \in Callers : Receive(c) \/ Upsert(c) \/ Prune(c)
         \/ Reload
  PROVE  Origins'
<1> USE DEF chainVars
<1>1. /\ Known(storage) /\ SentCoins
      /\ UNCHANGED <<landed, failed, notes, nullifiers>> /\ sent' \subseteq sent
  BY DEF Origins, Receive, Upsert, Prune, Reload
<1>2. ASSUME NEW c \in Callers, Receive(c) PROVE Origins'
  <2>1. PICK note \in notes :
          Step(c, [Idle EXCEPT !.pc = "upsert",
                               !.todo = {Record(note.key, note.value, note.value)},
                               !.list = storage])
    BY <1>2 DEF Receive
  <2> DEFINE w == [Idle EXCEPT !.pc = "upsert",
                               !.todo = {Record(note.key, note.value, note.value)},
                               !.list = storage]
  <2>2. KeysOf(w.todo) = {note.key} /\ w.list = storage
    BY DEF Idle, KeysOf, Record
  <2>3. Step(c, w) /\ UNCHANGED <<storage, operations, sent>>  BY <1>2, <2>1 DEF Receive
  <2> HIDE DEF w
  <2>4. KnownCall(w)  BY <1>1, <2>2 DEF KnownCall, Known, Origins
  <2>5. \A d \in Callers : callers'[d] = callers[d] \/ KnownCall(callers'[d])
    BY <2>3, <2>4, StepEffect
  <2>6. SentCoins'  BY <1>1, <2>3 DEF SentCoins
  <2> QED  BY <1>1, <2>3, <2>5, <2>6, OriginsKeep
<1>3. ASSUME NEW c \in Callers, Upsert(c) PROVE Origins'
  <2>1. Known(callers[c].todo)  BY DEF Origins, KnownCall
  <2>2. Known(storage')
    <3>1. Known(Put(storage, callers[c].todo))  BY <1>1, <2>1, KnownParts
    <3>2. storage' = storage \/ storage' = Put(storage, callers[c].todo)
      BY <1>3 DEF Upsert
    <3> QED  BY <1>1, <3>1, <3>2
  <2>3. Step(c, Idle) /\ UNCHANGED <<operations, sent>>  BY <1>3 DEF Upsert
  <2>4. \A d \in Callers : callers'[d] = callers[d] \/ KnownCall(callers'[d])
    BY <2>3, StepEffect, IdleKnown
  <2>5. SentCoins'  BY <1>1, <2>3 DEF SentCoins
  <2> QED  BY <1>1, <2>2, <2>3, <2>4, <2>5, OriginsKeep
<1>4. ASSUME NEW c \in Callers, Prune(c) PROVE Origins'
  <2>1. storage' \subseteq storage /\ UNCHANGED <<operations, callers, sent>>
    BY <1>4 DEF Prune, Unconsumed
  <2>2. Known(storage')  BY <1>1, <2>1, KnownParts
  <2>3. SentCoins'  BY <1>1, <2>1 DEF SentCoins
  <2> QED  BY <1>1, <2>1, <2>2, <2>3, OriginsKeep
<1>5. CASE Reload
  <2>1. \A d \in Callers : KnownCall(callers'[d])  BY <1>5, IdleKnown DEF Reload
  <2>2. ASSUME NEW op \in Ops
        PROVE  /\ Traced(op, operations'[op])
               /\ operations'[op].consumed = operations[op].consumed \/ operations'[op].consumed = {}
    <3>1. operations[op] \in Operations /\ Traced(op, operations[op])  BY DEF TypeOK, Origins
    <3>2. operations'[op] \in {AbsentOperation, [operations[op] EXCEPT !.phase = "lost"],
                               operations[op]}
      BY <1>5 DEF Reload
    <3>3. Traced(op, AbsentOperation) /\ AbsentOperation.consumed = {}
      BY KnownParts DEF Traced, AbsentOperation, KeysOf
    <3> DEFINE o == [operations[op] EXCEPT !.phase = "lost"]
    <3>4. /\ o.consumed = operations[op].consumed /\ o.outputs = operations[op].outputs
          /\ o.kind = operations[op].kind /\ o.phase = "lost"
      BY <3>1 DEF Operations
    <3>5. Traced(op, o)
      <4> HIDE DEF o
      <4> QED  BY <3>1, <3>4 DEF Traced
    <3> QED  BY <3>1, <3>2, <3>3, <3>4, <3>5
  <2>3. SentCoins'
    <3>1. sent \cup landed \cup failed \subseteq Ops  BY DEF TypeOK
    <3>2. KeysOf({}) = {}  BY DEF KeysOf
    <3> QED  BY <1>1, <2>2, <3>1, <3>2 DEF SentCoins
  <2>4. UNCHANGED storage  BY <1>5 DEF Reload
  <2> QED  BY <1>1, <2>1, <2>2, <2>3, <2>4, OriginsKeep
<1> QED  BY <1>2, <1>3, <1>4, <1>5

LEMMA NextOrigins ==
  ASSUME TypeOK, Owned, Follows, Origins, [Next]_vars
  PROVE  Origins'
<1>1. CASE UNCHANGED vars
  <2>1. SentCoins' /\ Known(storage')
    BY <1>1 DEF vars, chainVars, Origins, SentCoins
  <2> QED  BY <1>1, <2>1, OriginsKeep DEF vars, chainVars
<1>2. CASE Next
  BY <1>2, BeginningOrigins, PreparingOrigins, ExecutingOrigins, PoolOrigins,
     EnvironmentOrigins DEF Next, Continue
<1> QED  BY <1>1, <1>2

---------------------------------------------------------------------------
\* A host that makes one call at a time.

\* A transaction has one outcome.
OneOutcome == sent \cap (landed \cup failed) = {} /\ landed \cap failed = {}

Alone == \A c, d \in Callers : ~At(c, "idle") /\ ~At(d, "idle") => c = d

OutputsKept(op) ==
    KeysOf({rec \in operations[op].outputs : HasCoin(rec)})
      \subseteq KeysOf(storage) \cup SpentOrFailed

Gone(op) == KeysOf(operations[op].consumed) \cap KeysOf(Unconsumed(storage)) = {}

\* What CoordinatedCommit says of such a host.
Committed ==
    /\ \A op \in landed : operations[op].phase = "returned" => OutputsKept(op) /\ Gone(op)
    /\ InitialNotes \subseteq KeysOf(storage) \cup SpentOrFailed

\* What the one call has in hand: the outputs it will save were consumed by
\* nobody, the list it will write is the stored one and has its outputs, and
\* the record it will upsert was not consumed by an operation that landed and
\* returned.
Hand(c) ==
    /\ callers[c].pc \in {"submit", "await", "save"} =>
         \A p \in Ops : {Own(callers[c].op), Recipient(callers[c].op)}
                          \cap KeysOf(operations[p].consumed) = {}
    /\ At(c, "mark_write") => callers[c].list = storage
    /\ callers[c].pc \in {"mark_read", "mark_write"} => OutputsKept(callers[c].op)
    /\ At(c, "upsert") =>
         \A p \in landed : operations[p].phase = "returned" =>
           KeysOf(callers[c].todo) \cap KeysOf(operations[p].consumed) = {}

InHand == \A c \in Callers : Hand(c)

InTurn == Alone /\ InHand /\ Committed

\* What an operation that landed consumed is spent in the pool.
LEMMA LandedConsumed ==
  ASSUME TypeOK, Follows, Origins, NEW op \in landed
  PROVE  /\ KeysOf(operations[op].consumed) \subseteq nullifiers
         /\ KeysOf(operations[op].consumed) \subseteq Notes
<1>1. KeysOf(operations[op].consumed) \subseteq nullifiers
  BY DEF Follows, LandedSpent
<1>2. nullifiers \subseteq IncludedKeys  BY DEF Origins
<1>3. IncludedKeys \subseteq Notes  BY DEF IncludedKeys, Notes, TypeOK
<1> QED  BY <1>1, <1>2, <1>3

\* The call that goes on, or the one that begins, is the only one.
LEMMA OneHand ==
  ASSUME Alone, NEW c \in Callers,
         ~At(c, "idle") \/ \A d \in Callers : At(d, "idle"),
         \A d \in Callers \ {c} : callers'[d] = callers[d],
         Hand(c)'
  PROVE  Alone' /\ InHand'
<1>1. \A d \in Callers \ {c} : callers[d].pc = "idle"  BY DEF Alone, At
<1>2. \A d \in Callers \ {c} : callers'[d].pc = "idle"  BY <1>1
<1>3. Alone'  BY <1>2 DEF Alone, At
<1>4. \A d \in Callers \ {c} : Hand(d)'  BY <1>2 DEF Hand, At
<1> QED  BY <1>3, <1>4 DEF InHand

LEMMA NothingInHand ==
  ASSUME NEW c \in Callers,
         callers'[c].pc \in {"idle", "list", "check", "select", "assert"}
  PROVE  Hand(c)'
BY DEF Hand, At

LEMMA CommittedKeeps ==
  ASSUME Committed,
         KeysOf(storage) \cup SpentOrFailed \subseteq KeysOf(storage') \cup SpentOrFailed',
         \A op \in landed' : operations'[op].phase = "returned" =>
           /\ Gone(op)'
           /\ \/ OutputsKept(op)'
              \/ /\ op \in landed
                 /\ operations[op].phase = "returned"
                 /\ operations'[op].outputs = operations[op].outputs
  PROVE  Committed'
<1>1. ASSUME NEW op \in landed', operations'[op].phase = "returned"
      PROVE  OutputsKept(op)' /\ Gone(op)'
  <2>1. CASE OutputsKept(op)'  BY <1>1, <2>1
  <2>2. CASE /\ op \in landed
             /\ operations[op].phase = "returned"
             /\ operations'[op].outputs = operations[op].outputs
    <3>1. OutputsKept(op)  BY <2>2 DEF Committed
    <3> QED  BY <1>1, <2>2, <3>1 DEF OutputsKept
  <2> QED  BY <1>1, <2>1, <2>2
<1>2. (InitialNotes \subseteq KeysOf(storage) \cup SpentOrFailed)'
  BY DEF Committed
<1> QED  BY <1>1, <1>2 DEF Committed

\* Nothing is written, and no operation that returned lands.
LEMMA CommittedStays ==
  ASSUME Committed, UNCHANGED storage, SpentOrFailed \subseteq SpentOrFailed',
         \A op \in landed' : operations'[op].phase = "returned" =>
           op \in landed /\ operations'[op] = operations[op]
  PROVE  Committed'
<1>1. ASSUME NEW op \in landed', operations'[op].phase = "returned"
      PROVE  /\ Gone(op)'
             /\ op \in landed
             /\ operations[op].phase = "returned"
             /\ operations'[op].outputs = operations[op].outputs
  BY <1>1 DEF Committed, Gone
<1> QED  BY <1>1, CommittedKeeps

LEMMA InitInTurn == Init => InTurn
<1> SUFFICES ASSUME Init PROVE InTurn  OBVIOUS
<1>1. /\ \A c \in Callers : callers[c].pc = "idle"
      /\ \A op \in Ops : operations[op].phase = "absent"
      /\ storage = {Record(n, InitialValue[n], InitialValue[n]) : n \in InitialNotes}
  BY IdleForm DEF Init, AbsentOperation
<1>2. landed = {}  BY DEF Init
<1>3. InitialNotes \subseteq KeysOf(storage)
  <2>1. \A n \in InitialNotes : Record(n, InitialValue[n], InitialValue[n]).key = n
    BY DEF Record
  <2>2. \A n \in InitialNotes : Record(n, InitialValue[n], InitialValue[n]) \in storage
    BY <1>1
  <2> QED  BY <2>1, <2>2 DEF KeysOf
<1> QED  BY <1>1, <1>3, <1>2 DEF InTurn, Alone, InHand, Hand, At, Committed

LEMMA BeginningInTurn ==
  ASSUME TypeOK, Owned, Follows, Origins, InTurn, coordinated,
         SpentOrFailed \subseteq SpentOrFailed', NEW c \in Callers,
         (\E op \in Ops : PrepareDeposit(c, op) \/ PrepareSpend(c, op) \/ Execute(c, op))
           \/ Receive(c)
  PROVE  InTurn'
<1> USE DEF chainVars
<1>1. /\ UNCHANGED <<storage, landed>> /\ landed \subseteq Ops
      /\ \A d \in Callers : At(d, "idle")
      /\ Alone /\ InHand /\ Committed
  BY DEF PrepareDeposit, PrepareSpend, Execute, Receive, MayCall, InTurn, TypeOK
<1>2. ASSUME NEW op \in Ops, PrepareDeposit(c, op) PROVE InTurn'
  <2>1. PICK o : SetOp(op, o) /\ o.phase = "prepared"
    BY <1>2 DEF PrepareDeposit
  <2>2. \A p \in landed : operations'[p].phase = "returned" => operations'[p] = operations[p]
    BY <1>1, <2>1, SetOpEffect
  <2>3. Committed'  BY <1>1, <2>2, CommittedStays
  <2>4. UNCHANGED callers  BY <1>2 DEF PrepareDeposit
  <2>5. callers'[c].pc = "idle"  BY <1>1, <2>4 DEF At
  <2>6. Hand(c)'  BY <2>5, NothingInHand
  <2>7. \A d \in Callers \ {c} : callers'[d] = callers[d]  BY <2>4
  <2> QED  BY <1>1, <2>3, <2>6, <2>7, OneHand DEF InTurn
<1>3. ASSUME NEW op \in Ops, PrepareSpend(c, op) PROVE InTurn'
  <2>1. PICK o : SetOp(op, o) /\ o.phase = "preparing"
    <3>1. PICK kind \in {"transfer", "withdraw"}, amount \in Amounts :
            SetOp(op, [AbsentOperation EXCEPT !.phase = "preparing", !.kind = kind,
                                              !.amount = amount])
      BY <1>3 DEF PrepareSpend
    <3>2. [AbsentOperation EXCEPT !.phase = "preparing", !.kind = kind,
                                  !.amount = amount].phase = "preparing"
      BY DEF AbsentOperation
    <3> QED  BY <3>1, <3>2
  <2>2. \A p \in landed : operations'[p].phase = "returned" => operations'[p] = operations[p]
    BY <1>1, <2>1, SetOpEffect
  <2>3. Committed'  BY <1>1, <2>2, CommittedStays
  <2> DEFINE w == [Idle EXCEPT !.pc = "list", !.op = op]
  <2>4. Step(c, w)  BY <1>3 DEF PrepareSpend
  <2>5. w.pc = "list"  BY DEF Idle
  <2> HIDE DEF w
  <2>6. callers'[c] = w /\ \A d \in Callers \ {c} : callers'[d] = callers[d]
    BY <2>4, StepEffect
  <2>7. callers'[c].pc = "list"  BY <2>5, <2>6
  <2>8. Hand(c)'  BY <2>7, NothingInHand
  <2> QED  BY <1>1, <2>3, <2>6, <2>8, OneHand DEF InTurn
<1>4. ASSUME NEW op \in Ops, Execute(c, op) PROVE InTurn'
  <2>1. SetPhase(op, "started") /\ operations[op].phase = "prepared"
    BY <1>4 DEF Execute
  <2>2. /\ operations'[op].phase = "started"
        /\ operations'[op].consumed = operations[op].consumed
        /\ \A p \in Ops \ {op} : operations'[p] = operations[p]
    BY <2>1, SetPhaseEffect
  <2>3. Committed'
    <3>1. \A p \in landed : operations'[p].phase = "returned" => operations'[p] = operations[p]
      BY <1>1, <2>2
    <3> QED  BY <1>1, <3>1, CommittedStays
  <2> DEFINE w == [Idle EXCEPT !.pc = "submit", !.op = op]
  <2>4. Step(c, w)  BY <1>4 DEF Execute
  <2>5. w.pc = "submit" /\ w.op = op  BY DEF Idle
  <2> HIDE DEF w
  <2>6. callers'[c] = w /\ \A d \in Callers \ {c} : callers'[d] = callers[d]
    BY <2>4, StepEffect
  <2>7. callers'[c].pc = "submit" /\ callers'[c].op = op  BY <2>5, <2>6
  <2>8. \A p \in Ops : {Own(op), Recipient(op)} \cap KeysOf(operations'[p].consumed) = {}
    <3>1. op \notin landed \cup failed  BY <2>1 DEF Owned, SentStarted
    <3>2. {Own(op), Recipient(op)} \subseteq Notes
      BY KeysApart
    <3>3. {Own(op), Recipient(op)} \cap IncludedKeys = {}
      BY <3>1, KeysApart
    <3>4. \A p \in Ops : KeysOf(operations[p].consumed) \cap Notes \subseteq IncludedKeys
      BY DEF Origins, Traced, Known
    <3>5. \A p \in Ops : operations'[p].consumed = operations[p].consumed
      BY <2>2
    <3> QED  BY <3>2, <3>3, <3>4, <3>5
  <2>9. Hand(c)'  BY <2>7, <2>8 DEF Hand, At
  <2> QED  BY <1>1, <2>3, <2>6, <2>9, OneHand DEF InTurn
<1>5. CASE Receive(c)
  <2>1. PICK note \in notes :
          /\ note.key \notin nullifiers
          /\ Step(c, [Idle EXCEPT !.pc = "upsert",
                                  !.todo = {Record(note.key, note.value, note.value)},
                                  !.list = storage])
    BY <1>5 DEF Receive
  <2> DEFINE w == [Idle EXCEPT !.pc = "upsert",
                               !.todo = {Record(note.key, note.value, note.value)},
                               !.list = storage]
  <2>2. w.pc = "upsert" /\ KeysOf(w.todo) = {note.key}
    BY DEF Idle, KeysOf, Record
  <2>3. Step(c, w) /\ UNCHANGED operations  BY <1>5, <2>1 DEF Receive
  <2> HIDE DEF w
  <2>4. callers'[c] = w /\ \A d \in Callers \ {c} : callers'[d] = callers[d]
    BY <2>3, StepEffect
  <2>5. callers'[c].pc = "upsert" /\ KeysOf(callers'[c].todo) = {note.key}
    BY <2>2, <2>4
  <2>6. \A p \in landed :
          KeysOf(callers'[c].todo) \cap KeysOf(operations'[p].consumed) = {}
    BY <2>1, <2>3, <2>5, LandedConsumed
  <2>7. Hand(c)'  BY <1>1, <2>5, <2>6 DEF Hand, At
  <2>8. Committed'  BY <1>1, <2>3, CommittedStays
  <2> QED  BY <1>1, <2>4, <2>7, <2>8, OneHand DEF InTurn
<1> QED  BY <1>2, <1>3, <1>4, <1>5

LEMMA PreparingInTurn ==
  ASSUME TypeOK, InTurn,
         SpentOrFailed \subseteq SpentOrFailed', NEW c \in Callers,
         \/ ListRecords(c) \/ CheckNullifier(c) \/ Select(c) \/ AssertAvailable(c)
  PROVE  InTurn'
<1> USE DEF chainVars
<1>0. callers[c] \in CallerStates /\ callers[c].op \in Ops /\ OpOf(c) \in Operations
  BY CallerFields
<1>1. /\ UNCHANGED <<storage, landed>> /\ landed \subseteq Ops
      /\ ~At(c, "idle")
      /\ Alone /\ InHand /\ Committed
  BY DEF ListRecords, CheckNullifier, Select, AssertAvailable, At, InTurn, TypeOK
<1>2. ASSUME NEW w, Step(c, w), w.pc \in {"idle", "list", "check", "select", "assert"},
             \A p \in landed : operations'[p].phase = "returned" => operations'[p] = operations[p]
      PROVE  InTurn'
  <2>1. callers'[c] = w /\ \A d \in Callers \ {c} : callers'[d] = callers[d]
    BY <1>2, StepEffect
  <2>2. callers'[c].pc \in {"idle", "list", "check", "select", "assert"}
    BY <1>2, <2>1
  <2>3. Hand(c)'  BY <2>2, NothingInHand
  <2>4. Committed'  BY <1>1, <1>2, CommittedStays
  <2> QED  BY <1>1, <2>1, <2>3, <2>4, OneHand DEF InTurn
<1>3. ASSUME NEW picked, Step(c, Idle),
             SetOp(callers[c].op, [OpOf(c) EXCEPT !.phase = "prepared", !.consumed = picked])
      PROVE  InTurn'
  <2> DEFINE o == [OpOf(c) EXCEPT !.phase = "prepared", !.consumed = picked]
  <2>1. o.phase = "prepared"  BY <1>0 DEF Operations
  <2>2. SetOp(callers[c].op, o)  BY <1>3
  <2> HIDE DEF o
  <2>3. \A p \in landed : operations'[p].phase = "returned" => operations'[p] = operations[p]
    BY <1>0, <1>1, <2>1, <2>2, SetOpEffect
  <2>4. Idle.pc \in {"idle", "list", "check", "select", "assert"}  BY IdleForm
  <2> QED  BY <1>2, <1>3, <2>3, <2>4
<1>4. CASE ListRecords(c)
  <2> DEFINE w == [callers[c] EXCEPT !.pc = "check", !.todo = Available(storage)]
  <2>1. Step(c, w) /\ UNCHANGED operations  BY <1>4 DEF ListRecords
  <2>2. w.pc = "check"  BY <1>0 DEF CallerStates
  <2> HIDE DEF w
  <2> QED  BY <1>2, <2>1, <2>2
<1>5. CASE CheckNullifier(c)
  <2>1. PICK rec \in Largest(callers[c].todo) :
          Step(c, [callers[c] EXCEPT
                     !.pc   = IF callers[c].todo = {rec} THEN "select" ELSE @,
                     !.todo = @ \ {rec},
                     !.list = IF HasCoin(rec) /\ rec.key \in nullifiers
                                THEN @ ELSE @ \cup {rec}])
    BY <1>5 DEF CheckNullifier
  <2> DEFINE w == [callers[c] EXCEPT
                     !.pc   = IF callers[c].todo = {rec} THEN "select" ELSE @,
                     !.todo = @ \ {rec},
                     !.list = IF HasCoin(rec) /\ rec.key \in nullifiers
                                THEN @ ELSE @ \cup {rec}]
  <2>2. callers[c].pc = "check" /\ UNCHANGED operations
    BY <1>5 DEF CheckNullifier, At
  <2>3. w.pc \in {"check", "select"}  BY <1>0, <2>2 DEF CallerStates
  <2>4. Step(c, w)  BY <2>1
  <2> HIDE DEF w
  <2> QED  BY <1>2, <2>2, <2>3, <2>4
<1>6. CASE Select(c)
  <2>1. PICK picked :
          \/ /\ Step(c, [callers[c] EXCEPT !.pc = "assert", !.todo = picked, !.list = {}])
             /\ UNCHANGED operations
          \/ /\ SetOp(callers[c].op,
                      [OpOf(c) EXCEPT !.phase = "prepared", !.consumed = picked])
             /\ Step(c, Idle)
    BY <1>6 DEF Select
  <2> DEFINE w == [callers[c] EXCEPT !.pc = "assert", !.todo = picked, !.list = {}]
  <2>2. w.pc = "assert"  BY <1>0 DEF CallerStates
  <2>3. Step(c, w) /\ UNCHANGED operations => InTurn'
    <3> HIDE DEF w
    <3> QED  BY <1>2, <2>2
  <2> QED  BY <1>3, <2>1, <2>3
<1>7. CASE AssertAvailable(c)  BY <1>3, <1>7 DEF AssertAvailable
<1> QED  BY <1>4, <1>5, <1>6, <1>7

LEMMA ExecutingInTurn ==
  ASSUME TypeOK, Owned, Follows, Origins, InTurn,
         SpentOrFailed \subseteq SpentOrFailed', NEW c \in Callers,
         \/ Submit(c) \/ Confirmed(c) \/ SaveOutputs(c) \/ MarkRead(c)
         \/ MarkWrite(c) \/ Throw(c)
  PROVE  InTurn'
<1> USE DEF chainVars
<1> DEFINE op == callers[c].op
<1>0. /\ callers[c] \in CallerStates /\ op \in Ops /\ OpOf(c) \in Operations
      /\ OpOf(c) = operations[op]
      /\ storage \in SUBSET Records
      /\ OpOf(c).outputs \in SUBSET Records /\ OpOf(c).consumed \in SUBSET Records
  BY CallerFields DEF OpOf, TypeOK, Operations
<1>1. /\ UNCHANGED landed /\ landed \subseteq Ops
      /\ ~At(c, "idle")
      /\ Alone /\ Hand(c) /\ Committed
  BY DEF Submit, Confirmed, SaveOutputs, MarkRead, MarkWrite, Throw, At, InTurn, InHand,
         TypeOK
<1>2. ASSUME Step(c, Idle), Committed' PROVE InTurn'
  <2>1. callers'[c] = Idle /\ \A d \in Callers \ {c} : callers'[d] = callers[d]
    BY <1>2, StepEffect
  <2>2. callers'[c].pc \in {"idle", "list", "check", "select", "assert"}
    BY <2>1, IdleForm
  <2>3. Hand(c)'  BY <2>2, NothingInHand
  <2> QED  BY <1>1, <1>2, <2>1, <2>3, OneHand DEF InTurn
<1>3. ASSUME Hand(c)', Committed', \A d \in Callers \ {c} : callers'[d] = callers[d]
      PROVE  InTurn'
  BY <1>1, <1>3, OneHand DEF InTurn
<1>4. CASE Submit(c)
  <2>1. Goto(c, "await") /\ UNCHANGED storage /\ At(c, "submit")  BY <1>4 DEF Submit
  <2>2. /\ \A p \in Ops \ {op} : operations'[p] = operations[p]
        /\ operations'[op].consumed = operations[op].consumed
        /\ operations'[op].phase = operations[op].phase
    <3>1. ASSUME NEW outputs, SetOp(op, [operations[op] EXCEPT !.outputs = outputs])
          PROVE  /\ \A p \in Ops \ {op} : operations'[p] = operations[p]
                 /\ operations'[op].consumed = operations[op].consumed
                 /\ operations'[op].phase = operations[op].phase
      BY <1>0, <3>1, SetOpEffect DEF Operations
    <3>2. \/ UNCHANGED operations
          \/ \E fee : SetOp(op, [operations[op] EXCEPT !.outputs = ProvenOutputs(op, fee)])
      BY <1>4 DEF Submit, Prove
    <3> QED  BY <3>1, <3>2
  <2>3. operations[op].phase = "started"
    BY <2>1 DEF Owned, Executors, Executing, At, OpOf
  <2>4. \A p \in landed : operations'[p].phase = "returned" => operations'[p] = operations[p]
    BY <1>1, <2>2, <2>3
  <2>5. Committed'  BY <1>1, <2>1, <2>4, CommittedStays
  <2>6. /\ callers'[c].pc = "await" /\ callers'[c].op = op
        /\ \A d \in Callers \ {c} : callers'[d] = callers[d]
    BY <2>1, GotoEffect
  <2>7. \A p \in Ops : operations'[p].consumed = operations[p].consumed
    BY <2>2
  <2>8. \A p \in Ops : {Own(op), Recipient(op)} \cap KeysOf(operations[p].consumed) = {}
    BY <1>1, <2>1 DEF Hand, At
  <2>9. \A p \in Ops : {Own(op), Recipient(op)} \cap KeysOf(operations'[p].consumed) = {}
    BY <2>7, <2>8
  <2>10. Hand(c)'  BY <2>6, <2>9 DEF Hand, At
  <2> QED  BY <1>3, <2>5, <2>6, <2>10
<1>5. CASE Confirmed(c)
  <2>1. UNCHANGED <<storage, operations>> /\ At(c, "await")  BY <1>5 DEF Confirmed
  <2>2. Committed'  BY <1>1, <2>1, CommittedStays
  <2>3. PICK pc \in {"save", "mark_read"} :
          Goto(c, pc) /\ (pc = "mark_read" => operations[op].outputs = {})
    BY <1>5 DEF Confirmed, OpOf
  <2>4. /\ callers'[c].pc = pc /\ callers'[c].op = op
        /\ \A d \in Callers \ {c} : callers'[d] = callers[d]
    BY <2>3, GotoEffect
  <2>5. CASE pc = "save"
    <3>1. \A p \in Ops : {Own(op), Recipient(op)} \cap KeysOf(operations[p].consumed) = {}
      BY <1>1, <2>1 DEF Hand, At
    <3>2. Hand(c)'  BY <2>1, <2>4, <2>5, <3>1 DEF Hand, At
    <3> QED  BY <1>3, <2>2, <2>4, <3>2
  <2>6. CASE pc = "mark_read"
    <3>1. operations'[op].outputs = {}  BY <2>1, <2>3, <2>6
    <3>2. OutputsKept(op)'  BY <3>1, <2>4 DEF OutputsKept, KeysOf
    <3>3. Hand(c)'  BY <2>4, <2>6, <3>2 DEF Hand, At
    <3> QED  BY <1>3, <2>2, <2>4, <3>3
  <2> QED  BY <2>5, <2>6
<1>6. CASE SaveOutputs(c)
  <2>1. /\ At(c, "save")
        /\ storage' = Put(storage, OpOf(c).outputs)
    BY <1>6 DEF SaveOutputs
  <2>2. /\ KeysOf(storage') = KeysOf(storage) \cup KeysOf(OpOf(c).outputs)
        /\ KeysOf(Unconsumed(storage'))
             \subseteq KeysOf(Unconsumed(storage)) \cup KeysOf(OpOf(c).outputs)
    BY <1>0, <2>1, KeysWritten
  <2>3. KeysOf(OpOf(c).outputs) \subseteq {Own(op), Recipient(op)} \cup ({"pending"} \X Nat)
    BY <1>0 DEF Origins, Traced
  <2>4. ASSUME NEW p \in landed, operations[p].phase = "returned"
        PROVE  KeysOf(operations[p].consumed) \cap KeysOf(Unconsumed(storage')) = {}
    <3>1. {Own(op), Recipient(op)} \cap KeysOf(operations[p].consumed) = {}
      BY <1>1, <2>1 DEF Hand, At
    <3>2. KeysOf(operations[p].consumed) \subseteq Notes
      BY LandedConsumed
    <3>3. Notes \cap ({"pending"} \X Nat) = {}  BY KeysApart
    <3>4. KeysOf(operations[p].consumed) \cap KeysOf(Unconsumed(storage)) = {}
      BY <1>1, <2>4 DEF Committed, Gone
    <3> QED  BY <2>2, <2>3, <3>1, <3>2, <3>3, <3>4
  <2>5. KeysOf({rec \in operations[op].outputs : HasCoin(rec)}) \subseteq KeysOf(storage')
    BY <1>0, <2>2 DEF KeysOf
  <2>6. KeysOf(storage) \cup SpentOrFailed \subseteq KeysOf(storage') \cup SpentOrFailed'
    BY <1>1, <2>2
  <2>7. CASE Goto(c, "mark_read") /\ UNCHANGED operations
    <3>1. Committed'
      <4>1. \A p \in landed : operations'[p].phase = "returned" =>
              Gone(p)' /\ operations[p].phase = "returned"
                /\ operations'[p].outputs = operations[p].outputs
        BY <2>4, <2>7 DEF Gone
      <4> QED  BY <1>1, <2>6, <4>1, CommittedKeeps
    <3>2. /\ callers'[c].pc = "mark_read" /\ callers'[c].op = op
          /\ \A d \in Callers \ {c} : callers'[d] = callers[d]
      BY <2>7, GotoEffect
    <3>3. OutputsKept(op)'  BY <2>5, <2>7, <3>2 DEF OutputsKept
    <3>4. Hand(c)'  BY <3>2, <3>3 DEF Hand, At
    <3> QED  BY <1>3, <3>1, <3>2, <3>4
  <2>8. CASE OpOf(c).consumed = {} /\ Return(c)
    <3>1. SetPhase(op, "returned") /\ Step(c, Idle)  BY <2>8 DEF Return
    <3>2. /\ operations'[op].outputs = operations[op].outputs
          /\ operations'[op].consumed = {}
          /\ \A p \in Ops \ {op} : operations'[p] = operations[p]
      BY <1>0, <2>8, <3>1, SetPhaseEffect
    <3> HIDE DEF op
    <3>3. ASSUME NEW p \in landed, operations'[p].phase = "returned"
          PROVE  /\ Gone(p)'
                 /\ \/ OutputsKept(p)'
                    \/ /\ operations[p].phase = "returned"
                       /\ operations'[p].outputs = operations[p].outputs
      <4>1. CASE p = op
        <5>1. KeysOf(operations'[p].consumed) = {}  BY <3>2, <4>1 DEF KeysOf
        <5>2. KeysOf({rec \in operations'[p].outputs : HasCoin(rec)}) \subseteq KeysOf(storage')
          BY <2>5, <3>2, <4>1
        <5> QED  BY <5>1, <5>2 DEF Gone, OutputsKept
      <4>2. CASE p # op
        <5>1. operations'[p] = operations[p]  BY <1>1, <3>2, <4>2
        <5>2. KeysOf(operations'[p].consumed) \cap KeysOf(Unconsumed(storage')) = {}
          BY <2>4, <3>3, <5>1
        <5> QED  BY <3>3, <5>1, <5>2 DEF Gone
      <4> QED  BY <4>1, <4>2
    <3>4. Committed'  BY <1>1, <2>6, <3>3, CommittedKeeps
    <3> QED  BY <1>2, <3>1, <3>4
  <2> QED  BY <1>6, <2>7, <2>8 DEF SaveOutputs
<1>7. CASE MarkRead(c)
  <2> DEFINE w == [callers[c] EXCEPT !.pc = "mark_write", !.list = storage]
  <2>1. Step(c, w) /\ UNCHANGED <<storage, operations>> /\ At(c, "mark_read")
    BY <1>7 DEF MarkRead
  <2>2. w.pc = "mark_write" /\ w.op = op /\ w.list = storage
    BY <1>0 DEF CallerStates
  <2> HIDE DEF w
  <2>3. callers'[c] = w /\ \A d \in Callers \ {c} : callers'[d] = callers[d]
    BY <2>1, StepEffect
  <2>4. callers'[c].pc = "mark_write" /\ callers'[c].op = op /\ callers'[c].list = storage'
    BY <2>1, <2>2, <2>3
  <2>5. OutputsKept(op)  BY <1>1, <2>1 DEF Hand, At
  <2>6. OutputsKept(op)'  BY <1>1, <2>1, <2>4, <2>5 DEF OutputsKept
  <2>7. Hand(c)'  BY <2>4, <2>6 DEF Hand, At
  <2>8. Committed'  BY <1>1, <2>1, CommittedStays
  <2> QED  BY <1>3, <2>3, <2>7, <2>8
<1>8. CASE MarkWrite(c)
  <2>1. /\ At(c, "mark_write")
        /\ storage' = MarkSpent(callers[c].list, OpOf(c).consumed)
        /\ SetPhase(op, "returned") /\ Step(c, Idle)
    BY <1>8 DEF MarkWrite, Return
  <2>2. callers[c].list = storage /\ OutputsKept(op)  BY <1>1, <2>1 DEF Hand, At
  <2>3. /\ KeysOf(storage') = KeysOf(storage)
        /\ KeysOf(Unconsumed(storage'))
             = KeysOf(Unconsumed(storage)) \ KeysOf(OpOf(c).consumed)
    BY <1>0, <2>1, <2>2, KeysWritten
  <2>4. /\ operations'[op].outputs = operations[op].outputs
        /\ operations'[op].consumed = operations[op].consumed
        /\ \A p \in Ops \ {op} : operations'[p] = operations[p]
    BY <1>0, <2>1, SetPhaseEffect
  <2> HIDE DEF op
  <2>5. ASSUME NEW p \in landed, operations'[p].phase = "returned"
        PROVE  /\ Gone(p)'
               /\ \/ OutputsKept(p)'
                  \/ /\ operations[p].phase = "returned"
                     /\ operations'[p].outputs = operations[p].outputs
    <3>1. CASE p = op
      <4>1. KeysOf(operations'[p].consumed) \cap KeysOf(Unconsumed(storage')) = {}
        BY <1>0, <2>3, <2>4, <3>1
      <4>2. KeysOf({rec \in operations'[p].outputs : HasCoin(rec)})
              \subseteq KeysOf(storage') \cup SpentOrFailed'
        BY <1>1, <2>2, <2>3, <2>4, <3>1 DEF OutputsKept
      <4> QED  BY <4>1, <4>2 DEF Gone, OutputsKept
    <3>2. CASE p # op
      <4>1. operations'[p] = operations[p]  BY <1>1, <2>4, <3>2
      <4>2. Gone(p)  BY <1>1, <2>5, <4>1 DEF Committed
      <4>3. Gone(p)'  BY <2>3, <4>1, <4>2 DEF Gone
      <4> QED  BY <2>5, <4>1, <4>3
    <3> QED  BY <3>1, <3>2
  <2>6. KeysOf(storage) \cup SpentOrFailed \subseteq KeysOf(storage') \cup SpentOrFailed'
    BY <1>1, <2>3
  <2>7. Committed'  BY <1>1, <2>5, <2>6, CommittedKeeps
  <2> QED  BY <1>2, <2>1, <2>7
<1>9. CASE Throw(c)
  <2>1. Step(c, Idle) /\ UNCHANGED storage  BY <1>9 DEF Throw
  <2>2. \A p \in landed : operations'[p].phase = "returned" => operations'[p] = operations[p]
    <3>1. CASE UNCHANGED operations  BY <3>1
    <3>2. CASE SetPhase(op, "thrown")  BY <1>0, <1>1, <3>2, SetPhaseEffect
    <3>3. CASE SetOp(op, AbsentOperation)
      <4>1. AbsentOperation.phase = "absent"  BY DEF AbsentOperation
      <4> QED  BY <1>0, <1>1, <3>3, <4>1, SetOpEffect
    <3> QED  BY <1>9, <3>1, <3>2, <3>3 DEF Throw
  <2>3. Committed'  BY <1>1, <2>1, <2>2, CommittedStays
  <2> QED  BY <1>2, <2>1, <2>3
<1> QED  BY <1>4, <1>5, <1>6, <1>7, <1>8, <1>9

LEMMA EnvironmentInTurn ==
  ASSUME TypeOK, Follows, Origins, OneOutcome, InTurn, coordinated,
         SpentOrFailed \subseteq SpentOrFailed',
         \/ \E c \in Callers : Upsert(c) \/ Prune(c)
         \/ \E op \in Ops : Land(op) \/ Fail(op)
         \/ Reload
  PROVE  InTurn'
<1> USE DEF chainVars
<1>1. /\ Alone /\ InHand /\ Committed
      /\ AheadOnlyByFailed(storage) /\ storage \in SUBSET Records
  BY DEF InTurn, Follows, AheadOnlyByFailedCalls, TypeOK
<1>2. ASSUME NEW c \in Callers, Upsert(c) PROVE InTurn'
  <2>1. /\ At(c, "upsert") /\ Step(c, Idle)
        /\ UNCHANGED <<operations, landed>>
        /\ storage' = storage \/ storage' = Put(storage, callers[c].todo)
    BY <1>2 DEF Upsert
  <2>2. callers[c].todo \in SUBSET Records  BY CallerFields
  <2>3. /\ KeysOf(storage) \subseteq KeysOf(storage')
        /\ KeysOf(Unconsumed(storage'))
             \subseteq KeysOf(Unconsumed(storage)) \cup KeysOf(callers[c].todo)
    BY <1>1, <2>1, <2>2, KeysWritten
  <2>4. ASSUME NEW p \in landed, operations[p].phase = "returned"
        PROVE  KeysOf(operations[p].consumed) \cap KeysOf(Unconsumed(storage')) = {}
    <3>1. KeysOf(callers[c].todo) \cap KeysOf(operations[p].consumed) = {}
      BY <1>1, <2>1, <2>4 DEF InHand, Hand
    <3>2. KeysOf(operations[p].consumed) \cap KeysOf(Unconsumed(storage)) = {}
      BY <1>1, <2>4 DEF Committed, Gone
    <3> QED  BY <2>3, <3>1, <3>2
  <2>5. \A p \in landed : operations'[p].phase = "returned" =>
          Gone(p)' /\ operations[p].phase = "returned"
            /\ operations'[p].outputs = operations[p].outputs
    BY <2>1, <2>4 DEF Gone
  <2>6. Committed'  BY <1>1, <2>1, <2>3, <2>5, CommittedKeeps
  <2>7. callers'[c] = Idle /\ \A d \in Callers \ {c} : callers'[d] = callers[d]
    BY <2>1, StepEffect
  <2>8. callers'[c].pc \in {"idle", "list", "check", "select", "assert"}
    BY <2>7, IdleForm
  <2>9. Hand(c)'  BY <2>8, NothingInHand
  <2>10. ~At(c, "idle")  BY <2>1 DEF At
  <2> QED  BY <1>1, <2>6, <2>7, <2>9, <2>10, OneHand DEF InTurn
<1>3. ASSUME NEW c \in Callers, Prune(c) PROVE InTurn'
  <2>1. /\ storage' = Unconsumed(storage)
        /\ UNCHANGED <<operations, callers, landed>>
        /\ \A d \in Callers : At(d, "idle")
    BY <1>3 DEF Prune, MayCall
  <2>2. Unconsumed(storage') = storage'  BY <2>1 DEF Unconsumed
  <2>3. KeysOf(storage) \subseteq KeysOf(storage') \cup SpentOrFailed
    BY <1>1, <2>1 DEF KeysOf, Unconsumed, AheadOnlyByFailed
  <2>4. \A p \in landed : operations'[p].phase = "returned" =>
          Gone(p)' /\ operations[p].phase = "returned"
            /\ operations'[p].outputs = operations[p].outputs
    BY <1>1, <2>1, <2>2 DEF Gone, Committed
  <2>5. Committed'  BY <1>1, <2>1, <2>3, <2>4, CommittedKeeps
  <2>6. callers'[c].pc \in {"idle", "list", "check", "select", "assert"}
    BY <2>1 DEF At
  <2>7. Hand(c)'  BY <2>6, NothingInHand
  <2> QED  BY <1>1, <2>1, <2>5, <2>7, OneHand DEF InTurn
<1>4. ASSUME NEW op \in Ops, Land(op) \/ Fail(op) PROVE InTurn'
  <2>1. /\ UNCHANGED <<storage, operations, callers>>
        /\ op \in sent /\ landed' \subseteq landed \cup {op}
    BY <1>4 DEF Land, Fail
  <2>2. operations[op].phase # "returned"
    BY <2>1 DEF Origins, Traced, OneOutcome
  <2>3. \A p \in landed' : operations[p].phase = "returned" => p \in landed
    BY <2>1, <2>2
  <2>4. Committed'  BY <1>1, <2>1, <2>3, CommittedStays
  <2>5. \A p \in Ops : OutputsKept(p) => OutputsKept(p)'
    BY <2>1 DEF OutputsKept
  <2>6. ASSUME NEW c \in Callers PROVE Hand(c)'
    <3>1. Hand(c) /\ callers[c].op \in Ops  BY <1>1, CallerFields DEF InHand
    <3>2. OutputsKept(callers[c].op) => OutputsKept(callers[c].op)'
      BY <2>1, <2>5, <3>1
    <3> QED  BY <2>1, <2>3, <3>1, <3>2 DEF Hand, At
  <2>7. Alone'  BY <1>1, <2>1 DEF Alone, At
  <2> QED  BY <2>4, <2>6, <2>7 DEF InTurn, InHand
<1>5. CASE Reload
  <2>1. \A c \in Callers : callers'[c].pc = "idle"  BY <1>5, IdleForm DEF Reload
  <2>2. UNCHANGED <<storage, landed>> /\ landed \subseteq Ops  BY <1>5 DEF Reload, TypeOK
  <2>3. ASSUME NEW op \in Ops, operations'[op].phase = "returned"
        PROVE  operations'[op] = operations[op]
    <3>1. operations[op] \in Operations  BY DEF TypeOK
    <3>2. [operations[op] EXCEPT !.phase = "lost"].phase = "lost"  BY <3>1 DEF Operations
    <3>3. AbsentOperation.phase = "absent"  BY DEF AbsentOperation
    <3>4. operations'[op] \in {AbsentOperation, [operations[op] EXCEPT !.phase = "lost"],
                               operations[op]}
      BY <1>5 DEF Reload
    <3> QED  BY <2>3, <3>2, <3>3, <3>4
  <2>4. Committed'  BY <1>1, <2>2, <2>3, CommittedStays
  <2> QED  BY <2>1, <2>4 DEF InTurn, Alone, InHand, Hand, At
<1> QED  BY <1>2, <1>3, <1>4, <1>5

\* What is spent or was consumed by a call that failed stays so.
LEMMA SpentGrows ==
  ASSUME TypeOK, Owned, [Next]_vars
  PROVE  SpentOrFailed \subseteq SpentOrFailed'
<1>1. \A op \in failed : operations'[op].consumed = operations[op].consumed
  <2> SUFFICES ASSUME NEW op \in failed
               PROVE  operations'[op].consumed = operations[op].consumed
    OBVIOUS
  <2>0. /\ op \in Ops /\ operations[op] \in Operations
        /\ operations[op].phase \in {"started", "returned", "thrown", "lost"}
    BY DEF TypeOK, Owned, SentStarted
  <2>1. ASSUME NEW p \in Ops, NEW o, SetOp(p, o), p # op \/ o.consumed = operations[op].consumed
        PROVE  operations'[op].consumed = operations[op].consumed
    BY <2>0, <2>1, SetOpEffect
  <2>2. ASSUME NEW p \in Ops, NEW phase, SetPhase(p, phase)
        PROVE  operations'[op].consumed = operations[op].consumed
    BY <2>0, <2>2, SetPhaseEffect
  <2>3. ASSUME NEW c \in Callers, NEW p \in Ops, PrepareDeposit(c, p) \/ PrepareSpend(c, p)
        PROVE  operations'[op].consumed = operations[op].consumed
    BY <2>0, <2>1, <2>3 DEF PrepareDeposit, PrepareSpend
  <2>4. ASSUME NEW c \in Callers, Select(c) \/ AssertAvailable(c)
        PROVE  operations'[op].consumed = operations[op].consumed
    <3>1. callers[c].op # op /\ callers[c].op \in Ops
      BY <2>0, <2>4, CallerFields
         DEF Select, AssertAvailable, At, Owned, Preparers, Preparing, OpOf
    <3> QED  BY <2>1, <2>4, <3>1 DEF Select, AssertAvailable
  <2>5. ASSUME NEW c \in Callers, Submit(c)
        PROVE  operations'[op].consumed = operations[op].consumed
    <3>1. callers[c].op # op /\ callers[c].op \in Ops
      BY <2>5, CallerFields DEF Submit, Owned, Unsent
    <3> QED  BY <2>1, <2>5, <3>1 DEF Submit, Prove
  <2>6. ASSUME NEW c \in Callers, SaveOutputs(c) \/ MarkWrite(c) \/ Throw(c)
        PROVE  operations'[op].consumed = operations[op].consumed
    <3>1. callers[c].op \in Ops  BY CallerFields
    <3>2. CASE UNCHANGED operations  BY <3>2
    <3>3. CASE \E phase : SetPhase(callers[c].op, phase)  BY <2>2, <3>1, <3>3
    <3>4. CASE OpOf(c).phase = "preparing" /\ SetOp(callers[c].op, AbsentOperation)
      BY <2>0, <2>1, <3>1, <3>4 DEF OpOf
    <3> QED  BY <2>6, <3>2, <3>3, <3>4 DEF SaveOutputs, MarkWrite, Throw, Return
  <2>7. CASE Reload
    <3>1. operations'[op] = [operations[op] EXCEPT !.phase = "lost"]
             \/ operations'[op] = operations[op]
      BY <2>0, <2>7 DEF Reload
    <3> QED  BY <2>0, <3>1 DEF Operations
  <2>8. ASSUME NEW c \in Callers, NEW p \in Ops, Execute(c, p)
        PROVE  operations'[op].consumed = operations[op].consumed
    BY <2>2, <2>8 DEF Execute
  <2>9. CASE UNCHANGED operations  BY <2>9
  <2> QED
    BY <2>3, <2>4, <2>5, <2>6, <2>7, <2>8, <2>9
       DEF Next, Continue, vars, ListRecords, CheckNullifier, Confirmed, MarkRead,
           Receive, Upsert, Prune, Land, Fail
<1>2. nullifiers \subseteq nullifiers' /\ failed \subseteq failed'
  BY DEF Next, Continue, vars, chainVars, PrepareDeposit, PrepareSpend, ListRecords,
     CheckNullifier, Select, AssertAvailable, Execute, Submit, Confirmed, SaveOutputs,
     MarkRead, MarkWrite, Throw, Land, Fail, Receive, Upsert, Prune, Reload
<1> QED  BY <1>1, <1>2 DEF SpentOrFailed

LEMMA NextOneOutcome ==
  ASSUME TypeOK, Owned, OneOutcome, [Next]_vars
  PROVE  OneOutcome'
<1>1. ASSUME NEW c \in Callers, Submit(c) PROVE OneOutcome'
  BY <1>1 DEF Submit, Owned, Unsent, OneOutcome
<1>2. ASSUME NEW op \in Ops, Land(op) \/ Fail(op) PROVE OneOutcome'
  BY <1>2 DEF Land, Fail, OneOutcome
<1>3. CASE UNCHANGED <<sent, landed, failed>>  BY <1>3 DEF OneOutcome
<1> QED
  BY <1>1, <1>2, <1>3
     DEF Next, Continue, vars, chainVars, PrepareDeposit, PrepareSpend, ListRecords,
         CheckNullifier, Select, AssertAvailable, Execute, Confirmed, SaveOutputs,
         MarkRead, MarkWrite, Throw, Receive, Upsert, Prune, Reload

LEMMA NextInTurn ==
  ASSUME TypeOK, Owned, Follows, Origins, OneOutcome, coordinated => InTurn,
         [Next]_vars
  PROVE  coordinated' => InTurn'
<1>1. coordinated' = coordinated
  BY DEF Next, Continue, vars, PrepareDeposit, PrepareSpend, ListRecords, CheckNullifier,
     Select, AssertAvailable, Execute, Submit, Confirmed, SaveOutputs, MarkRead, MarkWrite,
     Throw, Land, Fail, Receive, Upsert, Prune, Reload
<1> SUFFICES ASSUME coordinated PROVE InTurn'  BY <1>1
<1>2. InTurn /\ SpentOrFailed \subseteq SpentOrFailed'  BY SpentGrows
<1>3. CASE UNCHANGED vars
  <2>1. Alone' /\ InHand'
    BY <1>2, <1>3 DEF vars, chainVars, InTurn, Alone, InHand, Hand, At, OutputsKept
  <2>2. Committed'  BY <1>2, <1>3, CommittedStays DEF vars, chainVars, InTurn
  <2> QED  BY <2>1, <2>2 DEF InTurn
<1>4. CASE Next
  BY <1>2, <1>4, BeginningInTurn, PreparingInTurn, ExecutingInTurn, EnvironmentInTurn
     DEF Next, Continue
<1> QED  BY <1>3, <1>4

\* When the host makes one call at a time, an operation that landed and returned
\* has left its mark in the storage, whatever lands, fails, throws or is lost in a
\* reload: its coins are stored, nothing it consumed can be selected again, and no
\* initial note is forgotten, but for what is spent in the pool or was consumed by
\* a call that failed in its ledger (commitStorageChanges, over savePrivateRecords
\* and markPrivateRecordsUsed).
THEOREM CoordinatedCommits == Spec => []CoordinatedCommit
<1> DEFINE Inv == IInv /\ Origins /\ OneOutcome /\ (coordinated => InTurn)
<1>1. Init => Inv
  BY InitTypeOK, InitOwned, InitFollows, InitOrigins, InitInTurn
     DEF IInv, Init, OneOutcome
<1>2. Inv /\ [Next]_vars /\ TypeOK' => Inv'
  BY NextOwned, NextFollows, NextOrigins, NextOneOutcome, NextInTurn DEF IInv
<1>3. Inv => CoordinatedCommit
  BY DEF CoordinatedCommit, InTurn, Committed, OutputsKept, Gone
<1> QED  BY <1>1, <1>2, <1>3, SpendingTypeCorrect, PTL DEF Spec

---------------------------------------------------------------------------
\* SelectionCovers with what it rests on: the lists of records are finite.
FiniteLists ==
    /\ IsFiniteSet(storage)
    /\ \A c \in Callers : IsFiniteSet(callers[c].todo) /\ IsFiniteSet(callers[c].list)
    /\ \A op \in Ops : IsFiniteSet(operations[op].outputs)

\* Among finitely many records one is the largest.
LEMMA LargestExists ==
  ASSUME NEW recs, IsFiniteSet(recs), recs # {}, \A rec \in recs : rec.value \in Nat
  PROVE  Largest(recs) # {}
<1> DEFINE Without == {S \in SUBSET recs : S # {} /\ Largest(S) = {}}
           Order   == StrictSubsetOrdering(recs)
<1> SUFFICES ASSUME recs \in Without PROVE FALSE  OBVIOUS
<1>1. IsWellFoundedOn(Order, SUBSET recs)
  BY FS_StrictSubsetOrderingWellFounded, FS_FiniteSubsetsOfFinite
<1>2. Without \subseteq SUBSET recs /\ Without # {}  OBVIOUS
<1> HIDE DEF Order
<1>3. PICK S \in Without : \A R \in Without : <<R, S>> \notin Order
  <2> HIDE DEF Without
  <2> QED  BY <1>1, <1>2, WFMin
<1>4. PICK a \in S : TRUE  BY <1>3
<1> DEFINE R == S \ {a}
<1>5. <<R, S>> \in Order  BY <1>3, <1>4 DEF Order, StrictSubsetOrdering
<1>6. R \notin Without  BY <1>3, <1>5
<1>7. \A rec \in S : rec.value \in Nat  BY <1>3
<1>8. CASE R = {}
  <2>1. S = {a}  BY <1>4, <1>8
  <2>2. a \in Largest(S)  BY <1>7, <2>1 DEF Largest
  <2> QED  BY <1>3, <2>2
<1>9. CASE R # {}
  <2>1. Largest(R) # {}  BY <1>3, <1>6, <1>9
  <2>2. PICK b \in R : \A rec \in R : rec.value <= b.value  BY <2>1 DEF Largest
  <2>3. \A rec \in S : rec = a \/ rec \in R  OBVIOUS
  <2>4. CASE a.value <= b.value
    <3>1. b \in Largest(S)  BY <2>2, <2>3, <2>4 DEF Largest
    <3> QED  BY <1>3, <3>1
  <2>5. CASE b.value <= a.value
    <3>1. \A rec \in R : rec.value <= a.value  BY <1>4, <1>7, <2>2, <2>5
    <3>2. a \in Largest(S)  BY <1>4, <1>7, <2>3, <3>1 DEF Largest
    <3> QED  BY <1>3, <3>2
  <2> QED  BY <1>4, <1>7, <2>2, <2>4, <2>5
<1> QED  BY <1>8, <1>9

\* A selection of one record or of two sums to their values.
LEMMA TotalOfOne ==
  ASSUME NEW a, a.value \in Nat
  PROVE  Total({a}) = a.value
<1>1. (CHOOSE rec \in {a} : TRUE) = a  OBVIOUS
<1> QED  BY <1>1 DEF Total

LEMMA TotalOfTwo ==
  ASSUME NEW a, NEW b, a # b, a.value \in Nat, b.value \in Nat
  PROVE  Total({a, b}) = a.value + b.value
<1> DEFINE x == CHOOSE rec \in {a, b} : TRUE
           y == CHOOSE rec \in {a, b} \ {x} : TRUE
<1>1. x \in {a, b}  OBVIOUS
<1> HIDE DEF x
<1>2. y \in {a, b} \ {x}  BY <1>1
<1> HIDE DEF y
<1>3. Total({a, b}) = x.value + y.value
  <2>1. {a, b} # {} /\ {a, b} # {x}  OBVIOUS
  <2> QED  BY <2>1 DEF Total, x, y
<1> QED  BY <1>1, <1>2, <1>3

\* Looking at the two largest is enough.
LEMMA PicksCover ==
  ASSUME NEW list, IsFiniteSet(list), \A rec \in list : rec.value \in Nat, NEW needed \in Nat
  PROVE  /\ \A picked \in Picks(list, needed) : picked \subseteq list /\ Total(picked) >= needed
         /\ Picks(list, needed) = {} => \A a, b \in list : Total({a, b}) < needed
<1>1. \A a \in Largest(list) : a \in list /\ \A rec \in list : rec.value <= a.value
  BY DEF Largest
<1>2. ASSUME NEW picked \in Picks(list, needed)
      PROVE  picked \subseteq list /\ Total(picked) >= needed
  <2>1. \/ \E a \in Largest(list) : a.value >= needed /\ picked = {a}
        \/ \E a \in Largest(list) : \E b \in Largest(list \ {a}) :
              a.value + b.value >= needed /\ picked = {a, b}
    BY <1>2 DEF Picks
  <2>2. ASSUME NEW a \in Largest(list), a.value >= needed, picked = {a}
        PROVE  picked \subseteq list /\ Total(picked) >= needed
    BY <1>1, <2>2, TotalOfOne
  <2>3. ASSUME NEW a \in Largest(list), NEW b \in Largest(list \ {a}),
               a.value + b.value >= needed, picked = {a, b}
        PROVE  picked \subseteq list /\ Total(picked) >= needed
    <3>1. a \in list /\ b \in list /\ b # a  BY <1>1 DEF Largest
    <3>2. Total({a, b}) = a.value + b.value  BY <3>1, TotalOfTwo
    <3> QED  BY <2>3, <3>1, <3>2
  <2> QED  BY <2>1, <2>2, <2>3
<1>3. ASSUME Picks(list, needed) = {}, NEW a \in list, NEW b \in list
      PROVE  Total({a, b}) < needed
  <2>1. PICK x \in Largest(list) : TRUE  BY LargestExists
  <2>2. x \in list /\ a.value <= x.value /\ b.value <= x.value  BY <1>1
  <2>3. x.value < needed
    <3> SUFFICES ASSUME x.value >= needed PROVE FALSE  BY <2>2
    <3>1. {x} \in Picks(list, needed)  BY DEF Picks
    <3> QED  BY <1>3, <3>1
  <2>4. CASE a = b
    <3>1. Total({a, b}) = a.value  BY <2>4, TotalOfOne
    <3> QED  BY <2>2, <2>3, <3>1
  <2>5. CASE a # b
    <3>1. list \ {x} # {}  BY <2>5
    <3>2. IsFiniteSet(list \ {x})  BY FS_RemoveElement
    <3>3. PICK y \in Largest(list \ {x}) : TRUE  BY <3>1, <3>2, LargestExists
    <3>4. y \in list /\ \A rec \in list \ {x} : rec.value <= y.value  BY <3>3 DEF Largest
    <3>5. x.value + y.value < needed
      <4> SUFFICES ASSUME x.value + y.value >= needed PROVE FALSE  BY <2>2, <3>4
      <4>1. {x, y} \in Picks(list, needed)  BY <2>3, <3>3 DEF Picks
      <4> QED  BY <1>3, <4>1
    <3>6. a.value + b.value <= x.value + y.value
      <4>1. a # x \/ b # x  BY <2>5
      <4>2. a # x => a.value <= y.value  BY <3>4
      <4>3. b # x => b.value <= y.value  BY <3>4
      <4>4. a.value \in Nat /\ b.value \in Nat /\ x.value \in Nat /\ y.value \in Nat
        BY <2>2, <3>4
      <4> QED  BY <2>2, <4>1, <4>2, <4>3, <4>4
    <3>7. Total({a, b}) = a.value + b.value  BY <2>5, TotalOfTwo
    <3>8. a.value \in Nat /\ b.value \in Nat /\ x.value \in Nat /\ y.value \in Nat
      BY <2>2, <3>4
    <3> QED  BY <3>5, <3>6, <3>7, <3>8
  <2> QED  BY <2>4, <2>5
<1> QED  BY <1>2, <1>3

---------------------------------------------------------------------------
\* Lists stay finite.

\* What is made of each record of a finite list is finite.
LEMMA WrittenIsFinite ==
  ASSUME NEW list, IsFiniteSet(list), NEW recs
  PROVE  /\ IsFiniteSet(recs) => IsFiniteSet(Put(list, recs))
         /\ IsFiniteSet(MarkSpent(list, recs))
         /\ IsFiniteSet(Unconsumed(list))
         /\ IsFiniteSet(Available(list))
<1>1. /\ {rec \in list : rec.key \notin KeysOf(recs)} \in SUBSET list
      /\ Unconsumed(list) \in SUBSET list
      /\ Available(list) \in SUBSET list
  BY DEF Unconsumed, Available
<1>2. /\ IsFiniteSet({rec \in list : rec.key \notin KeysOf(recs)})
      /\ IsFiniteSet(Unconsumed(list)) /\ IsFiniteSet(Available(list))
  BY <1>1, FS_Subset
<1>3. IsFiniteSet(recs) => IsFiniteSet(Put(list, recs))  BY <1>2, FS_Union DEF Put
<1>4. IsFiniteSet(MarkSpent(list, recs))
  <2> DEFINE marked == [rec \in list |-> [rec EXCEPT !.consumed = @ \/ rec.key \in KeysOf(recs)]]
  <2>1. marked \in Surjection(list, MarkSpent(list, recs))
    BY DEF MarkSpent, Surjection
  <2> QED  BY <2>1, FS_Surjection
<1> QED  BY <1>2, <1>3, <1>4

LEMMA FewIsFinite ==
  /\ IsFiniteSet({})
  /\ \A a : IsFiniteSet({a})
  /\ \A a, b : IsFiniteSet({a, b})
<1>1. IsFiniteSet({}) /\ \A a : IsFiniteSet({a})  BY FS_EmptySet, FS_Singleton
<1> SUFFICES ASSUME NEW a, NEW b PROVE IsFiniteSet({a, b})  BY <1>1
<1>2. IsFiniteSet({a} \cup {b})  BY <1>1, FS_Union
<1>3. {a} \cup {b} = {a, b}  OBVIOUS
<1> QED  BY <1>2, <1>3

LEMMA ProvenIsFinite ==
  ASSUME NEW op, NEW fee
  PROVE  IsFiniteSet(ProvenOutputs(op, fee))
<1>1. \E A, B : /\ ProvenOutputs(op, fee) = A \cup B
                /\ A = {} \/ \E a : A = {a}
                /\ B = {} \/ \E b : B = {b}
  BY DEF ProvenOutputs
<1>2. PICK A, B : /\ ProvenOutputs(op, fee) = A \cup B
                  /\ A = {} \/ \E a : A = {a}
                  /\ B = {} \/ \E b : B = {b}
  BY <1>1
<1>3. IsFiniteSet(A) /\ IsFiniteSet(B)  BY <1>2, FewIsFinite
<1>4. IsFiniteSet(A \cup B)  BY <1>3, FS_Union
<1> QED  BY <1>2, <1>4

\* One caller steps, at most, and one operation.
LEMMA FiniteKeep ==
  ASSUME TypeOK, FiniteLists, IsFiniteSet(storage'),
         \/ callers' = callers
         \/ \E c \in Callers : \E w :
               Step(c, w) /\ IsFiniteSet(w.todo) /\ IsFiniteSet(w.list),
         \/ operations' = operations
         \/ \E op \in Ops : \E o : SetOp(op, o) /\ IsFiniteSet(o.outputs)
  PROVE  FiniteLists'
<1>1. ASSUME NEW c \in Callers
      PROVE  IsFiniteSet(callers'[c].todo) /\ IsFiniteSet(callers'[c].list)
  <2>1. IsFiniteSet(callers[c].todo) /\ IsFiniteSet(callers[c].list)  BY DEF FiniteLists
  <2>2. ASSUME NEW d \in Callers, NEW w, Step(d, w), IsFiniteSet(w.todo), IsFiniteSet(w.list)
        PROVE  IsFiniteSet(callers'[c].todo) /\ IsFiniteSet(callers'[c].list)
    <3>1. callers'[c] = w \/ callers'[c] = callers[c]  BY <2>2, StepEffect
    <3> QED  BY <2>1, <2>2, <3>1
  <2> QED  BY <2>1, <2>2
<1>2. ASSUME NEW op \in Ops
      PROVE  IsFiniteSet(operations'[op].outputs)
  <2>1. IsFiniteSet(operations[op].outputs)  BY DEF FiniteLists
  <2>2. ASSUME NEW p \in Ops, NEW o, SetOp(p, o), IsFiniteSet(o.outputs)
        PROVE  IsFiniteSet(operations'[op].outputs)
    <3>1. operations'[op] = o \/ operations'[op] = operations[op]  BY <2>2, SetOpEffect
    <3> QED  BY <2>1, <2>2, <3>1
  <2> QED  BY <2>1, <2>2
<1> QED  BY <1>1, <1>2 DEF FiniteLists

\* A phase changes, and a caller goes on or ends.
LEMMA FiniteParts ==
  ASSUME TypeOK, FiniteLists, NEW c \in Callers
  PROVE  /\ IsFiniteSet(storage)
         /\ IsFiniteSet(callers[c].todo) /\ IsFiniteSet(callers[c].list)
         /\ \A pc : Goto(c, pc) =>
               \E w : Step(c, w) /\ IsFiniteSet(w.todo) /\ IsFiniteSet(w.list)
         /\ Step(c, Idle) => \E w : Step(c, w) /\ IsFiniteSet(w.todo) /\ IsFiniteSet(w.list)
         /\ \A op \in Ops : \A phase : SetPhase(op, phase) =>
               \E o : SetOp(op, o) /\ IsFiniteSet(o.outputs)
<1>1. /\ IsFiniteSet(storage)
      /\ IsFiniteSet(callers[c].todo) /\ IsFiniteSet(callers[c].list)
  BY DEF FiniteLists
<1>2. ASSUME NEW pc, Goto(c, pc)
      PROVE  \E w : Step(c, w) /\ IsFiniteSet(w.todo) /\ IsFiniteSet(w.list)
  <2> DEFINE w == [callers[c] EXCEPT !.pc = pc]
  <2>1. w.todo = callers[c].todo /\ w.list = callers[c].list
    BY DEF TypeOK, CallerStates
  <2>2. Step(c, w)  BY <1>2 DEF Goto
  <2> HIDE DEF w
  <2> QED  BY <1>1, <2>1, <2>2
<1>3. Step(c, Idle) => \E w : Step(c, w) /\ IsFiniteSet(w.todo) /\ IsFiniteSet(w.list)
  BY IdleForm, FewIsFinite
<1>4. ASSUME NEW op \in Ops, NEW phase, SetPhase(op, phase)
      PROVE  \E o : SetOp(op, o) /\ IsFiniteSet(o.outputs)
  <2> DEFINE o == [operations[op] EXCEPT !.phase = phase]
  <2>1. o.outputs = operations[op].outputs  BY DEF TypeOK, Operations
  <2>2. SetOp(op, o)  BY <1>4 DEF SetPhase
  <2> HIDE DEF o
  <2> QED  BY <2>1, <2>2 DEF FiniteLists
<1> QED  BY <1>1, <1>2, <1>3, <1>4

LEMMA InitFinite == Init => FiniteLists
<1> SUFFICES ASSUME Init PROVE FiniteLists  OBVIOUS
<1>1. IsFiniteSet(storage)
  <2> DEFINE stored == [n \in InitialNotes |-> Record(n, InitialValue[n], InitialValue[n])]
  <2>1. stored \in Surjection(InitialNotes, storage)  BY DEF Init, Surjection
  <2> QED  BY <2>1, SpendingAssumption, FS_Surjection
<1>2. \A c \in Callers : callers[c].todo = {} /\ callers[c].list = {}
  BY IdleForm DEF Init
<1>3. \A op \in Ops : operations[op].outputs = {}  BY DEF Init, AbsentOperation
<1> QED  BY <1>1, <1>2, <1>3, FewIsFinite DEF FiniteLists

LEMMA PreparingFinite ==
  ASSUME TypeOK, FiniteLists, NEW c \in Callers, NEW op \in Ops,
         \/ PrepareDeposit(c, op) \/ PrepareSpend(c, op) \/ Execute(c, op)
         \/ ListRecords(c) \/ CheckNullifier(c) \/ Select(c) \/ AssertAvailable(c)
  PROVE  FiniteLists'
<1> DEFINE Steps == \E w : Step(c, w) /\ IsFiniteSet(w.todo) /\ IsFiniteSet(w.list)
<1>0. /\ callers[c] \in CallerStates /\ callers[c].op \in Ops /\ OpOf(c) \in Operations
      /\ IsFiniteSet(callers[c].todo) /\ IsFiniteSet(callers[c].list) /\ IsFiniteSet(storage)
      /\ Step(c, Idle) => Steps
  BY CallerFields, FiniteParts
<1>1. storage' = storage
  BY DEF PrepareDeposit, PrepareSpend, Execute, ListRecords, CheckNullifier, Select,
         AssertAvailable
<1>2. CASE PrepareDeposit(c, op)
  <2>1. PICK amount, fee :
          SetOp(op, [phase    |-> "prepared",
                     kind     |-> "deposit",
                     amount   |-> amount,
                     consumed |-> {},
                     outputs  |-> {Record(Own(op), amount - fee, amount - fee)}])
    BY <1>2 DEF PrepareDeposit
  <2>2. \E o : SetOp(op, o) /\ IsFiniteSet(o.outputs)  BY <2>1, FewIsFinite
  <2>3. callers' = callers  BY <1>2 DEF PrepareDeposit
  <2> QED  BY <1>0, <1>1, <2>2, <2>3, FiniteKeep
<1>3. CASE PrepareSpend(c, op)
  <2>1. PICK kind, amount :
          SetOp(op, [AbsentOperation EXCEPT !.phase = "preparing", !.kind = kind,
                                            !.amount = amount])
    BY <1>3 DEF PrepareSpend
  <2>2. [AbsentOperation EXCEPT !.phase = "preparing", !.kind = kind,
                                !.amount = amount].outputs = {}
    BY DEF AbsentOperation
  <2>3. \E o : SetOp(op, o) /\ IsFiniteSet(o.outputs)  BY <2>1, <2>2, FewIsFinite
  <2> DEFINE w == [Idle EXCEPT !.pc = "list", !.op = op]
  <2>4. w.todo = {} /\ w.list = {}  BY DEF Idle
  <2>5. Step(c, w)  BY <1>3 DEF PrepareSpend
  <2> HIDE DEF w
  <2>6. Steps  BY <2>4, <2>5, FewIsFinite
  <2> QED  BY <1>0, <1>1, <2>3, <2>6, FiniteKeep
<1>4. CASE Execute(c, op)
  <2>1. \E o : SetOp(op, o) /\ IsFiniteSet(o.outputs)  BY <1>4, FiniteParts DEF Execute
  <2> DEFINE w == [Idle EXCEPT !.pc = "submit", !.op = op]
  <2>2. w.todo = {} /\ w.list = {}  BY DEF Idle
  <2>3. Step(c, w)  BY <1>4 DEF Execute
  <2> HIDE DEF w
  <2>4. Steps  BY <2>2, <2>3, FewIsFinite
  <2> QED  BY <1>0, <1>1, <2>1, <2>4, FiniteKeep
<1>5. CASE ListRecords(c)
  <2> DEFINE w == [callers[c] EXCEPT !.pc = "check", !.todo = Available(storage)]
  <2>1. w.todo = Available(storage) /\ w.list = callers[c].list
    BY <1>0 DEF CallerStates
  <2>2. Step(c, w) /\ operations' = operations  BY <1>5 DEF ListRecords
  <2> HIDE DEF w
  <2>3. IsFiniteSet(Available(storage))  BY <1>0, WrittenIsFinite
  <2>4. Steps  BY <1>0, <2>1, <2>2, <2>3
  <2> QED  BY <1>0, <1>1, <2>2, <2>4, FiniteKeep
<1>6. CASE CheckNullifier(c)
  <2>1. PICK rec, pc, list :
           /\ list \in {callers[c].list, callers[c].list \cup {rec}}
           /\ Step(c, [callers[c] EXCEPT !.pc = pc, !.todo = callers[c].todo \ {rec}, !.list = list])
    <3>1. PICK rec \in Largest(callers[c].todo) :
             Step(c, [callers[c] EXCEPT
                        !.pc   = IF callers[c].todo = {rec} THEN "select" ELSE callers[c].pc,
                        !.todo = callers[c].todo \ {rec},
                        !.list = IF HasCoin(rec) /\ rec.key \in nullifiers
                                   THEN callers[c].list ELSE callers[c].list \cup {rec}])
      BY <1>6 DEF CheckNullifier
    <3> DEFINE pc   == IF callers[c].todo = {rec} THEN "select" ELSE callers[c].pc
               list == IF HasCoin(rec) /\ rec.key \in nullifiers
                         THEN callers[c].list ELSE callers[c].list \cup {rec}
    <3>2. list \in {callers[c].list, callers[c].list \cup {rec}}  OBVIOUS
    <3>3. Step(c, [callers[c] EXCEPT !.pc = pc, !.todo = callers[c].todo \ {rec}, !.list = list])
      BY <3>1
    <3> HIDE DEF pc, list
    <3> QED  BY <3>2, <3>3
  <2> DEFINE w == [callers[c] EXCEPT !.pc = pc, !.todo = callers[c].todo \ {rec}, !.list = list]
  <2>2. w.todo = callers[c].todo \ {rec} /\ w.list = list
    BY <1>0 DEF CallerStates
  <2>3. Step(c, w) /\ operations' = operations  BY <1>6, <2>1 DEF CheckNullifier
  <2> HIDE DEF w
  <2>4. IsFiniteSet(callers[c].todo \ {rec})  BY <1>0, FS_RemoveElement
  <2>5. IsFiniteSet(list)  BY <1>0, <2>1, FS_AddElement
  <2>6. Steps  BY <2>2, <2>3, <2>4, <2>5
  <2> QED  BY <1>0, <1>1, <2>3, <2>6, FiniteKeep
<1>7. CASE Select(c)
  <2>1. PICK picked \in Picks(callers[c].list, SpendAmountCoveringProtocolFee(OpOf(c).amount)) :
           \/ /\ Step(c, [callers[c] EXCEPT !.pc = "assert", !.todo = picked, !.list = {}])
              /\ operations' = operations
           \/ /\ SetOp(callers[c].op, [OpOf(c) EXCEPT !.phase = "prepared", !.consumed = picked])
              /\ Step(c, Idle)
    BY <1>7 DEF Select
  <2>2. (\E a : picked = {a}) \/ \E a, b : picked = {a, b}  BY DEF Picks
  <2>3. IsFiniteSet(picked)  BY <2>2, FewIsFinite
  <2>4. CASE /\ Step(c, [callers[c] EXCEPT !.pc = "assert", !.todo = picked, !.list = {}])
             /\ operations' = operations
    <3> DEFINE w == [callers[c] EXCEPT !.pc = "assert", !.todo = picked, !.list = {}]
    <3>1. w.todo = picked /\ w.list = {}  BY <1>0 DEF CallerStates
    <3>2. Step(c, w)  BY <2>4
    <3> HIDE DEF w
    <3>3. Steps  BY <2>3, <3>1, <3>2, FewIsFinite
    <3> QED  BY <1>0, <1>1, <2>4, <3>3, FiniteKeep
  <2>5. CASE /\ SetOp(callers[c].op, [OpOf(c) EXCEPT !.phase = "prepared", !.consumed = picked])
             /\ Step(c, Idle)
    <3> DEFINE o == [OpOf(c) EXCEPT !.phase = "prepared", !.consumed = picked]
    <3>1. o.outputs = operations[callers[c].op].outputs  BY <1>0 DEF OpOf, Operations
    <3>2. SetOp(callers[c].op, o)  BY <2>5
    <3> HIDE DEF o
    <3>3. IsFiniteSet(o.outputs)  BY <1>0, <3>1 DEF FiniteLists
    <3> QED  BY <1>0, <1>1, <2>5, <3>2, <3>3, FiniteKeep
  <2> QED  BY <2>1, <2>4, <2>5
<1>8. CASE AssertAvailable(c)
  <2> DEFINE o == [OpOf(c) EXCEPT !.phase = "prepared", !.consumed = callers[c].todo]
  <2>1. o.outputs = operations[callers[c].op].outputs  BY <1>0 DEF OpOf, Operations
  <2>2. SetOp(callers[c].op, o) /\ Step(c, Idle)  BY <1>8 DEF AssertAvailable
  <2> HIDE DEF o
  <2>3. IsFiniteSet(o.outputs)  BY <1>0, <2>1 DEF FiniteLists
  <2> QED  BY <1>0, <1>1, <2>2, <2>3, FiniteKeep
<1> QED  BY <1>2, <1>3, <1>4, <1>5, <1>6, <1>7, <1>8

LEMMA ExecutingFinite ==
  ASSUME TypeOK, FiniteLists, NEW c \in Callers,
         \/ Submit(c) \/ Confirmed(c) \/ SaveOutputs(c) \/ MarkRead(c) \/ MarkWrite(c)
         \/ Throw(c) \/ Upsert(c) \/ Receive(c) \/ Prune(c)
  PROVE  FiniteLists'
<1> DEFINE Steps == \E w : Step(c, w) /\ IsFiniteSet(w.todo) /\ IsFiniteSet(w.list)
           Sets  == \E op \in Ops : \E o : SetOp(op, o) /\ IsFiniteSet(o.outputs)
<1>0. /\ callers[c] \in CallerStates /\ callers[c].op \in Ops
      /\ IsFiniteSet(callers[c].todo) /\ IsFiniteSet(callers[c].list) /\ IsFiniteSet(storage)
      /\ Step(c, Idle) => Steps
      /\ \A pc : Goto(c, pc) => Steps
      /\ \A phase : SetPhase(callers[c].op, phase) => Sets
  BY CallerFields, FiniteParts
<1>1. IsFiniteSet(OpOf(c).outputs)  BY <1>0 DEF FiniteLists, OpOf
<1>2. Return(c) => Steps /\ Sets  BY <1>0 DEF Return
<1>3. CASE Submit(c)
  <2>1. storage' = storage /\ Steps  BY <1>0, <1>3 DEF Submit
  <2>2. operations' = operations \/ Prove(callers[c].op)  BY <1>3 DEF Submit
  <2>3. ASSUME Prove(callers[c].op)
        PROVE  Sets
    <3> DEFINE op == callers[c].op
    <3>1. PICK fee : SetOp(op, [operations[op] EXCEPT !.outputs = ProvenOutputs(op, fee)])
      BY <2>3 DEF Prove
    <3> DEFINE o == [operations[op] EXCEPT !.outputs = ProvenOutputs(op, fee)]
    <3>2. o.outputs = ProvenOutputs(op, fee)  BY <1>0 DEF TypeOK, Operations
    <3>3. SetOp(op, o)  BY <3>1
    <3> HIDE DEF o
    <3>4. IsFiniteSet(o.outputs)  BY <3>2, ProvenIsFinite
    <3> QED  BY <1>0, <3>3, <3>4
  <2> QED  BY <1>0, <2>1, <2>2, <2>3, FiniteKeep
<1>4. CASE Confirmed(c)
  <2>1. storage' = storage /\ operations' = operations /\ Steps  BY <1>0, <1>4 DEF Confirmed
  <2> QED  BY <1>0, <2>1, FiniteKeep
<1>5. CASE SaveOutputs(c)
  <2>1. storage' = Put(storage, OpOf(c).outputs)  BY <1>5 DEF SaveOutputs
  <2>2. Steps /\ (operations' = operations \/ Sets)  BY <1>0, <1>2, <1>5 DEF SaveOutputs
  <2>3. IsFiniteSet(storage')  BY <1>0, <1>1, <2>1, WrittenIsFinite
  <2> QED  BY <2>2, <2>3, FiniteKeep
<1>6. CASE MarkRead(c)
  <2> DEFINE w == [callers[c] EXCEPT !.pc = "mark_write", !.list = storage]
  <2>1. w.todo = callers[c].todo /\ w.list = storage  BY <1>0 DEF CallerStates
  <2>2. Step(c, w) /\ operations' = operations /\ storage' = storage  BY <1>6 DEF MarkRead
  <2> HIDE DEF w
  <2>3. Steps  BY <1>0, <2>1, <2>2
  <2> QED  BY <1>0, <2>2, <2>3, FiniteKeep
<1>7. CASE MarkWrite(c)
  <2>1. storage' = MarkSpent(callers[c].list, OpOf(c).consumed)  BY <1>7 DEF MarkWrite
  <2>2. Steps /\ Sets  BY <1>2, <1>7 DEF MarkWrite
  <2>3. IsFiniteSet(storage')  BY <1>0, <2>1, WrittenIsFinite
  <2> QED  BY <2>2, <2>3, FiniteKeep
<1>8. CASE Throw(c)
  <2>1. storage' = storage /\ Steps  BY <1>0, <1>8 DEF Throw
  <2>2. IsFiniteSet(AbsentOperation.outputs)  BY FewIsFinite DEF AbsentOperation
  <2>3. operations' = operations \/ Sets  BY <1>0, <1>8, <2>2 DEF Throw
  <2> QED  BY <1>0, <2>1, <2>3, FiniteKeep
<1>9. CASE Upsert(c)
  <2>1. /\ storage' = storage \/ storage' = Put(storage, callers[c].todo)
        /\ operations' = operations /\ Steps
    BY <1>0, <1>9 DEF Upsert
  <2>2. IsFiniteSet(storage')  BY <1>0, <2>1, WrittenIsFinite
  <2> QED  BY <2>1, <2>2, FiniteKeep
<1>10. CASE Receive(c)
  <2>1. PICK rec : Step(c, [Idle EXCEPT !.pc = "upsert", !.todo = {rec}, !.list = storage])
    BY <1>10 DEF Receive
  <2> DEFINE w == [Idle EXCEPT !.pc = "upsert", !.todo = {rec}, !.list = storage]
  <2>2. w.todo = {rec} /\ w.list = storage  BY DEF Idle
  <2>3. Step(c, w)  BY <2>1
  <2> HIDE DEF w
  <2>4. Steps  BY <1>0, <2>2, <2>3, FewIsFinite
  <2>5. storage' = storage /\ operations' = operations  BY <1>10 DEF Receive
  <2> QED  BY <1>0, <2>4, <2>5, FiniteKeep
<1>11. CASE Prune(c)
  <2>1. storage' = Unconsumed(storage) /\ operations' = operations /\ callers' = callers
    BY <1>11 DEF Prune
  <2>2. IsFiniteSet(storage')  BY <1>0, <2>1, WrittenIsFinite
  <2> QED  BY <2>1, <2>2, FiniteKeep
<1> QED  BY <1>3, <1>4, <1>5, <1>6, <1>7, <1>8, <1>9, <1>10, <1>11

LEMMA ReloadFinite ==
  ASSUME TypeOK, FiniteLists, Reload
  PROVE  FiniteLists'
<1>1. IsFiniteSet(storage')  BY DEF Reload, FiniteLists
<1>2. \A c \in Callers : callers'[c].todo = {} /\ callers'[c].list = {}
  BY IdleForm DEF Reload
<1>3. ASSUME NEW op \in Ops
      PROVE  IsFiniteSet(operations'[op].outputs)
  <2>1. operations'[op].outputs \in {{}, operations[op].outputs}
    BY DEF Reload, TypeOK, Operations, AbsentOperation
  <2> QED  BY <2>1, FewIsFinite DEF FiniteLists
<1> QED  BY <1>1, <1>2, <1>3, FewIsFinite DEF FiniteLists

LEMMA NextFinite == TypeOK /\ FiniteLists /\ [Next]_vars => FiniteLists'
<1> SUFFICES ASSUME TypeOK, FiniteLists, [Next]_vars PROVE FiniteLists'  OBVIOUS
<1>1. CASE UNCHANGED <<storage, callers, operations>>  BY <1>1 DEF FiniteLists
<1>2. CASE UNCHANGED vars  BY <1>1, <1>2 DEF vars
<1>3. CASE \E op \in Ops : Land(op) \/ Fail(op)  BY <1>1, <1>3 DEF Land, Fail
<1>4. ASSUME NEW c \in Callers, Continue(c)
      PROVE  FiniteLists'
  BY <1>4, PreparingFinite, ExecutingFinite, SpendingAssumption DEF Continue
<1>5. CASE Next
  BY <1>3, <1>4, <1>5, PreparingFinite, ExecutingFinite, ReloadFinite DEF Next
<1> QED  BY <1>2, <1>5

\* Whatever the stored amounts and the amount of the intent, the records that are
\* selected cover the amount and the estimated fee, and a selection that is refused
\* could not be made of any record or pair of records, although only the two
\* largest are looked at (pickRecordsForSpendAmount).
THEOREM SelectionsCover == Spec => []SelectionCovers
<1>1. Init => FiniteLists  BY InitFinite
<1>2. TypeOK /\ FiniteLists /\ [Next]_vars => FiniteLists'  BY NextFinite
<1>3. TypeOK /\ FiniteLists => SelectionCovers
  <2> SUFFICES ASSUME TypeOK, FiniteLists, NEW c \in Callers, At(c, "select")
               PROVE  LET needed == SpendAmountCoveringProtocolFee(OpOf(c).amount)
                          list   == callers[c].list
                          picks  == Picks(list, needed)
                      IN  /\ \A picked \in picks :
                                picked \subseteq list /\ Total(picked) >= needed
                          /\ picks = {} => \A a, b \in list : Total({a, b}) < needed
    BY DEF SelectionCovers
  <2> DEFINE needed == SpendAmountCoveringProtocolFee(OpOf(c).amount)
  <2>1. callers[c].list \subseteq Records /\ OpOf(c) \in Operations  BY CallerFields
  <2>2. \A rec \in callers[c].list : rec.value \in Nat  BY <2>1 DEF Records
  <2>3. OpOf(c).amount \in Nat  BY <2>1 DEF Operations
  <2>4. needed \in Nat
    <3> HIDE DEF OpOf
    <3> QED  BY <2>3 DEF SpendAmountCoveringProtocolFee
  <2>5. IsFiniteSet(callers[c].list)  BY DEF FiniteLists
  <2> HIDE DEF needed
  <2> QED  BY <2>2, <2>4, <2>5, PicksCover DEF needed
<1> QED  BY <1>1, <1>2, <1>3, SpendingTypeCorrect, PTL DEF Spec
=============================================================================
