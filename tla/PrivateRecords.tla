--------------------------- MODULE PrivateRecords ---------------------------
(***************************************************************************)
(* The private records of one wallet and one asset, and the choice of the  *)
(* records a transfer or a withdrawal consumes.                            *)
(*                                                                         *)
(* The list is modelled as it is read: normalizePrivateRecords keeps one   *)
(* record per commitment, the later one of two whose id is the commitment, *)
(* so a pushed record takes the place of a stored one with its key.  A     *)
(* record of a note of the pool has the commitment as its key.  A record   *)
(* whose output got no coin keeps the id it was planned with, which is     *)
(* made of its amount.                                                     *)
(***************************************************************************)
EXTENDS Integers, FiniteSets

CONSTANTS
    Ops,            \* the operations the wallet prepares
    InitialNotes    \* the notes the wallet has to begin with

---------------------------------------------------------------------------
\* Records.

\* The outputs of an operation: to the recipient, and to the wallet itself
\* (the change of a spend, the note of a deposit).
Recipient(op) == <<"recipient", op>>
Own(op)       == <<"own", op>>

Notes == InitialNotes \cup ({"recipient", "own"} \X Ops)

PendingKey(amount) == <<"pending", amount>>

Keys == Notes \cup ({"pending"} \X Nat)

\* value is the value of the coin, what readRecordSpendAmount returns.
Records == [key : Keys, amount : Nat, value : Nat, consumed : BOOLEAN]

Record(key, amount, value) ==
    [key |-> key, amount |-> amount, value |-> value, consumed |-> FALSE]

HasCoin(rec) == rec.key \in Notes

\* The records filed under the wallet's private address.
IsOwn(rec) == rec.key \notin {"recipient"} \X Ops

KeysOf(recs) == {rec.key : rec \in recs}

\* The notes a list of records stands for.
NotesOf(recs) ==
    {[key |-> rec.key, value |-> rec.value] : rec \in {r \in recs : HasCoin(r)}}

\* savePrivateRecords, and the write of upsertPrivateRecords.
Put(list, recs) == {rec \in list : rec.key \notin KeysOf(recs)} \cup recs

\* Mutant of MarkSpent: keeps the records it was given and no other.
MarkSpentOnly(list, recs) ==
    {[rec EXCEPT !.consumed = TRUE] : rec \in {r \in list : r.key \in KeysOf(recs)}}

\* applyPrivateRecordsStatus for the status "spent".
MarkSpent(list, recs) ==
    {[rec EXCEPT !.consumed = @ \/ rec.key \in KeysOf(recs)] : rec \in list}

\* pruneConsumedPrivateRecords.
Unconsumed(list) == {rec \in list : ~rec.consumed}

\* listPrivateRecords for the wallet's private address.
Available(list) == {rec \in Unconsumed(list) : IsOwn(rec)}

---------------------------------------------------------------------------
\* Selection.

\* The amount and one hundredth of it, rounded up; of a positive amount.
SpendAmountCoveringProtocolFee(amount) == amount + (amount + 99) \div 100

\* The records the order of compareRecordsForSpendSelection can put first:
\* equal values are ordered by their ids, which are hashes.
Largest(recs) == {rec \in recs : \A other \in recs : other.value <= rec.value}

\* Mutant of Picks: a selection must exceed the amount.
PicksMore(recs, amount) ==
    {{a} : a \in {rec \in Largest(recs) : rec.value > amount}}
    \cup UNION {{{a, b} : b \in {rec \in Largest(recs \ {a}) :
                                     a.value + rec.value > amount}}
                   : a \in {rec \in Largest(recs) : rec.value <= amount}}

\* The selections pickRecordsForSpendAmount can return: the largest record,
\* or the two largest when the first does not reach the amount; none when
\* two do not reach it.
Picks(recs, amount) ==
    {{a} : a \in {rec \in Largest(recs) : rec.value >= amount}}
    \cup UNION {{{a, b} : b \in {rec \in Largest(recs \ {a}) :
                                     a.value + rec.value >= amount}}
                   : a \in {rec \in Largest(recs) : rec.value < amount}}

\* sumRecordAmounts of a selection, which has one record or two.
Total(recs) ==
    IF recs = {} THEN 0
    ELSE LET a == CHOOSE rec \in recs : TRUE
         IN  a.value + (IF recs = {a} THEN 0
                        ELSE (CHOOSE rec \in recs \ {a} : TRUE).value)

=============================================================================
