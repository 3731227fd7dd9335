----------------------------- MODULE StateTree -----------------------------
(***************************************************************************)
(* The state tree every adapter keeps, and the operations of a state       *)
(* bridge call on it (packages/core/src/state).                            *)
(*                                                                         *)
(* A tree maps the path of each container it has to the entries of that    *)
(* container, a function of their keys; a path it does not have is a       *)
(* container nobody has written yet.  An absent key reads as undefined,    *)
(* which is the empty option.                                              *)
(***************************************************************************)
EXTENDS Naturals, Sequences

\* A container without entries, and a tree without containers.
NoEntries == [k \in {} |-> {}]
EmptyTree == [path \in {} |-> NoEntries]

\* resolveJsonPathParent and ensureRecordAtPath of a write: what is missing on
\* the way is created.
EnsureRecord(tree, path) ==
    [q \in DOMAIN tree \cup {path} |-> IF q \in DOMAIN tree THEN tree[q] ELSE NoEntries]

\* The operations a call may list.
RecordSet(path, key, value) == [op |-> "recordSet", path |-> path, key |-> key, value |-> value]
RecordDelete(path, key) == [op |-> "recordDelete", path |-> path, key |-> key]
PrimitiveSet(path, value) == [op |-> "primitiveSet", path |-> path, value |-> value]

\* applyRecordSet: record[key] = value.
WithEntry(record, key, value) ==
    [k \in DOMAIN record \cup {key} |-> IF k = key THEN value ELSE record[k]]

\* applyRecordDelete: delete record[key].
WithoutEntry(record, key) == [k \in DOMAIN record \ {key} |-> record[k]]

\* applyStateOperation of a write; setJsonPathValue replaces what was at the path.
ApplyOperation(tree, operation) ==
    LET draft == EnsureRecord(tree, operation.path)
    IN CASE operation.op = "recordSet" ->
              [draft EXCEPT ![operation.path] = WithEntry(@, operation.key, operation.value)]
         [] operation.op = "recordDelete" ->
              [draft EXCEPT ![operation.path] = WithoutEntry(@, operation.key)]
         [] operation.op = "primitiveSet" ->
              [draft EXCEPT ![operation.path] = operation.value]

\* applyStateOperations of a write: all of them, on a draft that then replaces
\* the tree.
ApplyWrite(tree, operations) ==
    LET draft[n \in 0..Len(operations)] ==
            IF n = 0 THEN tree ELSE ApplyOperation(draft[n - 1], operations[n])
    IN draft[Len(operations)]

\* applyRecordGet of a read, which creates nothing: it throws when the container
\* is missing, and gives undefined for a missing key.
ReadThrows(tree, path) == path \notin DOMAIN tree
ReadRecord(tree, path, key) ==
    IF key \in DOMAIN tree[path] THEN {tree[path][key]} ELSE {}

\* getJsonPathValue: a missing path is undefined.
ReadPrimitive(tree, path) == IF path \in DOMAIN tree THEN tree[path] ELSE NoEntries
=============================================================================
