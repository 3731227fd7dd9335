------------------------ MODULE WalletBranches_proof ------------------------
(***************************************************************************)
(* The registry cache and the wallet's own branches of the state tree,     *)
(* whatever the number of owners, addresses, assets, deliveries, calls and *)
(* writes.  A write is a list of operations on one draft; what it leaves   *)
(* is said of reads, which is all that a call sees of the tree.            *)
(***************************************************************************)
EXTENDS WalletState, SequenceTheorems, TLAPS

---------------------------------------------------------------------------
\* Writes of up to three operations: the longest the modelled services make.

\* A tuple that is written in two parts.
LEMMA OneAndTwo ==
  ASSUME NEW a, NEW b, NEW c
  PROVE  <<a>> \o <<b, c>> = <<a, b, c>>
<1> DEFINE S == {a, b, c}
           s == <<a>>
           t == <<b, c>>
           u == <<a, b, c>>
<1>1. /\ s \in Seq(S) /\ Len(s) = 1 /\ s[1] = a
      /\ t \in Seq(S) /\ Len(t) = 2 /\ t[1] = b /\ t[2] = c
      /\ u \in Seq(S) /\ Len(u) = 3 /\ u[1] = a /\ u[2] = b /\ u[3] = c
  OBVIOUS
<1> HIDE DEF S, s, t, u
<1>2. /\ s \o t \in Seq(S) /\ Len(s \o t) = 3
      /\ \A i \in 1..3 : (s \o t)[i] = IF i <= 1 THEN s[i] ELSE t[i - 1]
  <2>1. /\ s \o t \in Seq(S) /\ Len(s \o t) = Len(s) + Len(t)
        /\ \A i \in 1 .. Len(s) + Len(t) :
              (s \o t)[i] = IF i <= Len(s) THEN s[i] ELSE t[i - Len(s)]
    BY <1>1, ConcatProperties
  <2>2. Len(s) + Len(t) = 3  BY <1>1
  <2> QED  BY <1>1, <2>1, <2>2
<1>3. (s \o t)[1] = a /\ (s \o t)[2] = b /\ (s \o t)[3] = c
  BY <1>1, <1>2
<1>4. \A i \in 1..3 : (s \o t)[i] = u[i]
  <2> SUFFICES ASSUME NEW i \in 1..3
               PROVE  (s \o t)[i] = u[i]
    OBVIOUS
  <2>1. i = 1 \/ i = 2 \/ i = 3  OBVIOUS
  <2> QED  BY <1>1, <1>3, <2>1
<1>5. s \o t = u  BY <1>1, <1>2, <1>4, SeqEqual
<1> QED  BY <1>5 DEF s, t, u

LEMMA OneAndOne ==
  ASSUME NEW a, NEW b
  PROVE  <<a>> \o <<b>> = <<a, b>>
<1> DEFINE S == {a, b}
           s == <<a>>
           t == <<b>>
           u == <<a, b>>
<1>1. /\ s \in Seq(S) /\ Len(s) = 1 /\ s[1] = a
      /\ t \in Seq(S) /\ Len(t) = 1 /\ t[1] = b
      /\ u \in Seq(S) /\ Len(u) = 2 /\ u[1] = a /\ u[2] = b
  OBVIOUS
<1> HIDE DEF S, s, t, u
<1>2. /\ s \o t \in Seq(S) /\ Len(s \o t) = 2
      /\ \A i \in 1..2 : (s \o t)[i] = IF i <= 1 THEN s[i] ELSE t[i - 1]
  BY <1>1, ConcatProperties
<1>3. (s \o t)[1] = a /\ (s \o t)[2] = b
  BY <1>1, <1>2
<1>4. \A i \in 1..2 : (s \o t)[i] = u[i]
  <2> SUFFICES ASSUME NEW i \in 1..2
               PROVE  (s \o t)[i] = u[i]
    OBVIOUS
  <2>1. i = 1 \/ i = 2  OBVIOUS
  <2> QED  BY <1>1, <1>3, <2>1
<1>5. s \o t = u  BY <1>1, <1>2, <1>4, SeqEqual
<1> QED  BY <1>5 DEF s, t, u
\* The drafts of a write of at most three operations, one after another.
LEMMA DraftsOfAWrite ==
  ASSUME NEW tree, NEW operations, Len(operations) \in 0..3
  PROVE  \E draft : /\ draft[0] = tree
                    /\ \A n \in 1..Len(operations) :
                          draft[n] = ApplyOperation(draft[n - 1], operations[n])
                    /\ ApplyWrite(tree, operations) = draft[Len(operations)]
<1> DEFINE k == Len(operations)
           Def(f, n) == IF n = 0 THEN tree ELSE ApplyOperation(f[n - 1], operations[n])
           t1 == ApplyOperation(tree, operations[1])
           t2 == ApplyOperation(t1, operations[2])
           t3 == ApplyOperation(t2, operations[3])
           value(n) == IF n = 0 THEN tree ELSE IF n = 1 THEN t1 ELSE IF n = 2 THEN t2 ELSE t3
           drafts == [n \in 0..k |-> value(n)]
<1>1. ASSUME NEW n \in 0..k
      PROVE  value(n) = Def(drafts, n)
  <2>1. CASE n = 0  BY <2>1
  <2>2. CASE n = 1
    <3>1. drafts[n - 1] = tree  BY <2>2
    <3> QED  BY <2>2, <3>1
  <2>3. CASE n = 2
    <3>1. drafts[n - 1] = t1  BY <2>3
    <3> QED  BY <2>3, <3>1
  <2>4. CASE n = 3
    <3>1. drafts[n - 1] = t2  BY <2>4
    <3> QED  BY <2>4, <3>1
  <2> QED  BY <2>1, <2>2, <2>3, <2>4
<1>2. drafts = [n \in 0..k |-> Def(drafts, n)]
  BY <1>1
<1> HIDE DEF Def, drafts
<1>3. \E f : f = [n \in 0..k |-> Def(f, n)]  BY <1>2
<1> DEFINE draft == CHOOSE f : f = [n \in 0..k |-> Def(f, n)]
<1>4. draft = [n \in 0..k |-> Def(draft, n)]  BY <1>3
<1>5. ApplyWrite(tree, operations) = draft[k]  BY DEF ApplyWrite, Def
<1> HIDE DEF draft
<1>6. draft[0] = tree /\ \A n \in 1..k : draft[n] = ApplyOperation(draft[n - 1], operations[n])
  BY <1>4 DEF Def
<1> QED  BY <1>5, <1>6

LEMMA WriteOfOne ==
  ASSUME NEW tree, NEW a
  PROVE  ApplyWrite(tree, <<a>>)
           = ApplyOperation(tree, a)
<1> DEFINE operations == <<a>>
<1>1. Len(operations) = 1 /\ operations[1] = a
  OBVIOUS
<1> HIDE DEF operations
<1>2. PICK draft : /\ draft[0] = tree
                   /\ \A n \in 1..Len(operations) :
                         draft[n] = ApplyOperation(draft[n - 1], operations[n])
                   /\ ApplyWrite(tree, operations) = draft[Len(operations)]
  <2>1. Len(operations) \in 0..3  BY <1>1
  <2> QED  BY <2>1, DraftsOfAWrite
<1>3. draft[1] = ApplyOperation(draft[0], a)  BY <1>1, <1>2
<1> QED  BY <1>1, <1>2, <1>3 DEF operations

LEMMA WriteOfTwo ==
  ASSUME NEW tree, NEW a, NEW b
  PROVE  ApplyWrite(tree, <<a, b>>)
           = ApplyOperation(ApplyOperation(tree, a), b)
<1> DEFINE operations == <<a, b>>
<1>1. Len(operations) = 2 /\ operations[1] = a /\ operations[2] = b
  OBVIOUS
<1> HIDE DEF operations
<1>2. PICK draft : /\ draft[0] = tree
                   /\ \A n \in 1..Len(operations) :
                         draft[n] = ApplyOperation(draft[n - 1], operations[n])
                   /\ ApplyWrite(tree, operations) = draft[Len(operations)]
  <2>1. Len(operations) \in 0..3  BY <1>1
  <2> QED  BY <2>1, DraftsOfAWrite
<1>3. draft[1] = ApplyOperation(draft[0], a)  BY <1>1, <1>2
<1>4. draft[2] = ApplyOperation(draft[1], b)  BY <1>1, <1>2
<1> QED  BY <1>1, <1>2, <1>3, <1>4 DEF operations

LEMMA WriteOfThree ==
  ASSUME NEW tree, NEW a, NEW b, NEW c
  PROVE  ApplyWrite(tree, <<a, b, c>>)
           = ApplyOperation(ApplyOperation(ApplyOperation(tree, a), b), c)
<1> DEFINE operations == <<a, b, c>>
<1>1. Len(operations) = 3 /\ operations[1] = a /\ operations[2] = b /\ operations[3] = c
  OBVIOUS
<1> HIDE DEF operations
<1>2. PICK draft : /\ draft[0] = tree
                   /\ \A n \in 1..Len(operations) :
                         draft[n] = ApplyOperation(draft[n - 1], operations[n])
                   /\ ApplyWrite(tree, operations) = draft[Len(operations)]
  <2>1. Len(operations) \in 0..3  BY <1>1
  <2> QED  BY <2>1, DraftsOfAWrite
<1>3. draft[1] = ApplyOperation(draft[0], a)  BY <1>1, <1>2
<1>4. draft[2] = ApplyOperation(draft[1], b)  BY <1>1, <1>2
<1>5. draft[3] = ApplyOperation(draft[2], c)  BY <1>1, <1>2
<1> QED  BY <1>1, <1>2, <1>3, <1>4, <1>5 DEF operations

---------------------------------------------------------------------------
\* Reads of a tree, when a missing container is as an absent key.
Read(tree, path, key) ==
  IF path \in DOMAIN tree /\ key \in DOMAIN tree[path] THEN {tree[path][key]} ELSE {}

\* A write of one key changes what is read at that key only.
LEMMA ReadAfterSet ==
  ASSUME NEW tree, NEW path, NEW key, NEW value, NEW q, NEW k
  PROVE  Read(ApplyOperation(tree, RecordSet(path, key, value)), q, k)
           = IF q = path /\ k = key THEN {value} ELSE Read(tree, q, k)
<1> DEFINE next == ApplyOperation(tree, RecordSet(path, key, value))
           old  == IF path \in DOMAIN tree THEN tree[path] ELSE NoEntries
<1>1. /\ DOMAIN next = DOMAIN tree \cup {path}
      /\ next[path] = WithEntry(old, key, value)
      /\ \A p \in DOMAIN tree : p # path => next[p] = tree[p]
  BY DEF ApplyOperation, RecordSet, EnsureRecord
<1>2. /\ DOMAIN WithEntry(old, key, value) = DOMAIN old \cup {key}
      /\ WithEntry(old, key, value)[key] = value
      /\ \A j \in DOMAIN old : j # key => WithEntry(old, key, value)[j] = old[j]
  BY DEF WithEntry
<1>3. path \notin DOMAIN tree => DOMAIN old = {}
  BY DEF NoEntries
<1>4. path \in DOMAIN tree => old = tree[path]  OBVIOUS
<1> HIDE DEF next, old
<1>5. CASE q = path
  <2>1. Read(next, q, k) = IF k \in DOMAIN old \cup {key}
                             THEN {WithEntry(old, key, value)[k]} ELSE {}
    BY <1>1, <1>2, <1>5 DEF Read
  <2>2. CASE k = key  BY <1>2, <1>5, <2>1, <2>2 DEF next
  <2>3. CASE k # key
    <3>1. Read(next, q, k) = IF k \in DOMAIN old THEN {old[k]} ELSE {}
      BY <1>2, <2>1, <2>3
    <3> QED  BY <1>3, <1>4, <1>5, <2>3, <3>1 DEF Read, next
  <2> QED  BY <2>2, <2>3 DEF next
<1>6. CASE q # path
  <2>1. Read(next, q, k) = Read(tree, q, k)  BY <1>1, <1>6 DEF Read
  <2> QED  BY <1>6, <2>1 DEF next
<1> QED  BY <1>5, <1>6

LEMMA ReadAfterDelete ==
  ASSUME NEW tree, NEW path, NEW key, NEW q, NEW k
  PROVE  Read(ApplyOperation(tree, RecordDelete(path, key)), q, k)
           = IF q = path /\ k = key THEN {} ELSE Read(tree, q, k)
<1> DEFINE next == ApplyOperation(tree, RecordDelete(path, key))
           old  == IF path \in DOMAIN tree THEN tree[path] ELSE NoEntries
<1>1. /\ DOMAIN next = DOMAIN tree \cup {path}
      /\ next[path] = WithoutEntry(old, key)
      /\ \A p \in DOMAIN tree : p # path => next[p] = tree[p]
  BY DEF ApplyOperation, RecordDelete, EnsureRecord
<1>2. /\ DOMAIN WithoutEntry(old, key) = DOMAIN old \ {key}
      /\ \A j \in DOMAIN old \ {key} : WithoutEntry(old, key)[j] = old[j]
  BY DEF WithoutEntry
<1>3. path \notin DOMAIN tree => DOMAIN old = {}
  BY DEF NoEntries
<1>4. path \in DOMAIN tree => old = tree[path]  OBVIOUS
<1> HIDE DEF next, old
<1>5. CASE q = path
  <2>1. Read(next, q, k) = IF k \in DOMAIN old \ {key} THEN {old[k]} ELSE {}
    BY <1>1, <1>2, <1>5 DEF Read
  <2>2. CASE k = key  BY <1>5, <2>1, <2>2 DEF next
  <2>3. CASE k # key  BY <1>3, <1>4, <1>5, <2>1, <2>3 DEF Read, next
  <2> QED  BY <2>2, <2>3
<1>6. CASE q # path
  <2>1. Read(next, q, k) = Read(tree, q, k)  BY <1>1, <1>6 DEF Read
  <2> QED  BY <1>6, <2>1 DEF next
<1> QED  BY <1>5, <1>6

---------------------------------------------------------------------------
\* The registry: the inductive invariant.

Addressed == {{}} \cup {{a} : a \in PrivateAddresses}

\* What the chain has of an owner it had at some time.
ChainTypes ==
  /\ onChain \in [Owners -> Addressed]
  /\ everOnChain = [o \in Owners |-> everOnChain[o]]
  /\ \A o \in Owners : onChain[o] \subseteq everOnChain[o]
  /\ registrations \subseteq Owners \X PrivateAddresses
  /\ registryCalls = [c \in RegistryCalls |-> registryCalls[c]]

\* The flag of a registered owner, and of one that is not.
Yes == TRUE
No == FALSE

LEMMA YesOrNo == Yes # No /\ {Yes} # {No} /\ {} # {Yes}
BY DEF Yes, No

\* What the containers of a tree say of an owner: a lookup and the older containers
\* agree, and an address with the flag set was registered at some time.
Story(lookup, flag, address, ever) ==
  /\ \A l \in lookup :
       \/ l.status = "registered" /\ flag = {Yes} /\ l.address = address /\ address # {}
       \/ l.status = "unregistered" /\ flag = {No}
  /\ flag \in {{}, {Yes}, {No}}
  /\ flag = {Yes} => address \subseteq ever

TellsOneStory(tree) ==
  \A o : Story(Read(tree, "lookups", o), Read(tree, "registeredAddresses", o),
               Read(tree, "privateAddresses", o), everOnChain[o])

\* A suspended call of an owner: what it knows of the chain, of the flag it read
\* unless a write overtook it, and what it answers.
Answers(call, ever) ==
  \A r \in call.result :
     /\ (r.how = "address" /\ ~call.overtaken) => r.address # {} /\ r.address \subseteq ever
     /\ r.how = "escrow" => ~call.registeredAtStart

SavesWhatItRead(call, ever) ==
  call.at = "saving" =>
     \E address \in Addressed :
        /\ call.lookup = {Lookup(address)} /\ address \subseteq ever
        /\ address = {} => ~call.registeredAtStart

RegistryCallFits(o, call, tree) ==
  /\ DOMAIN call = DOMAIN NoCall
  /\ call.owner = {o}
  /\ call.registeredAtStart => onChain[o] # {}
  /\ SavesWhatItRead(call, everOnChain[o])
  /\ (call.at = "address" /\ ~call.overtaken) => call.flag = Read(tree, "registeredAddresses", o)
  /\ Answers(call, everOnChain[o])

CallsFit ==
  \A c \in RegistryCalls : \/ registryCalls[c] = NoCall
                           \/ \E o \in Owners : RegistryCallFits(o, registryCalls[c], registryTree)

RegistryInv == ChainTypes /\ TellsOneStory(registryTree) /\ CallsFit

---------------------------------------------------------------------------
\* Writes.

\* The three records of an owner, in either order the services write them: the
\* containers of other owners are left alone.
LEMMA ThreeRecords ==
  ASSUME NEW tree, NEW o, NEW lookup, NEW flag, NEW a, NEW operations,
         \/ operations = <<RecordSet("lookups", o, lookup), RecordSet("privateAddresses", o, a),
                          RecordSet("registeredAddresses", o, flag)>>
         \/ operations = <<RecordSet("privateAddresses", o, a),
                          RecordSet("registeredAddresses", o, flag),
                          RecordSet("lookups", o, lookup)>>,
         NEW next, next = ApplyWrite(tree, operations)
  PROVE  /\ Read(next, "lookups", o) = {lookup}
         /\ Read(next, "registeredAddresses", o) = {flag}
         /\ Read(next, "privateAddresses", o) = {a}
         /\ \A q, k : k # o => Read(next, q, k) = Read(tree, q, k)
<1> DEFINE L == RecordSet("lookups", o, lookup)
           P == RecordSet("privateAddresses", o, a)
           R == RecordSet("registeredAddresses", o, flag)
<1>1. \A t, q, k : Read(ApplyOperation(t, L), q, k)
                      = IF q = "lookups" /\ k = o THEN {lookup} ELSE Read(t, q, k)
  BY ReadAfterSet
<1>2. \A t, q, k : Read(ApplyOperation(t, P), q, k)
                      = IF q = "privateAddresses" /\ k = o THEN {a} ELSE Read(t, q, k)
  BY ReadAfterSet
<1>3. \A t, q, k : Read(ApplyOperation(t, R), q, k)
                      = IF q = "registeredAddresses" /\ k = o THEN {flag} ELSE Read(t, q, k)
  BY ReadAfterSet
<1>4. operations = <<L, P, R>> \/ operations = <<P, R, L>>
  OBVIOUS
<1> HIDE DEF L, P, R
<1>5. \/ next = ApplyOperation(ApplyOperation(ApplyOperation(tree, L), P), R)
      \/ next = ApplyOperation(ApplyOperation(ApplyOperation(tree, P), R), L)
  BY <1>4, WriteOfThree
<1> QED  BY <1>1, <1>2, <1>3, <1>5

LEMMA TwoRecords ==
  ASSUME NEW tree, NEW o, NEW lookup, NEW flag, NEW next,
         next = ApplyWrite(tree, <<RecordSet("lookups", o, lookup),
                                   RecordSet("registeredAddresses", o, flag)>>)
  PROVE  /\ Read(next, "lookups", o) = {lookup}
         /\ Read(next, "registeredAddresses", o) = {flag}
         /\ \A q, k : k # o => Read(next, q, k) = Read(tree, q, k)
<1> DEFINE L == RecordSet("lookups", o, lookup)
           R == RecordSet("registeredAddresses", o, flag)
<1>1. \A t, q, k : Read(ApplyOperation(t, L), q, k)
                      = IF q = "lookups" /\ k = o THEN {lookup} ELSE Read(t, q, k)
  BY ReadAfterSet
<1>2. \A t, q, k : Read(ApplyOperation(t, R), q, k)
                      = IF q = "registeredAddresses" /\ k = o THEN {flag} ELSE Read(t, q, k)
  BY ReadAfterSet
<1>3. next = ApplyWrite(tree, <<L, R>>)
  OBVIOUS
<1> HIDE DEF L, R
<1>4. next = ApplyOperation(ApplyOperation(tree, L), R)
  BY <1>3, WriteOfTwo
<1> DEFINE first == ApplyOperation(tree, L)
<1>5. \A q, k : Read(first, q, k) = IF q = "lookups" /\ k = o THEN {lookup} ELSE Read(tree, q, k)
  BY <1>1
<1>6. \A q, k : Read(next, q, k)
                   = IF q = "registeredAddresses" /\ k = o THEN {flag} ELSE Read(first, q, k)
  BY <1>2, <1>4
<1> HIDE DEF first
<1> QED  BY <1>5, <1>6

LEMMA NoRecords ==
  ASSUME NEW tree, NEW o, NEW next, next = ApplyWrite(tree, InvalidateRegistryLookup(o))
  PROVE  /\ Read(next, "lookups", o) = {}
         /\ Read(next, "registeredAddresses", o) = {}
         /\ \A q, k : k # o => Read(next, q, k) = Read(tree, q, k)
<1> DEFINE L == RecordDelete("lookups", o)
           P == RecordDelete("privateAddresses", o)
           R == RecordDelete("registeredAddresses", o)
<1>1. \A t, q, k : Read(ApplyOperation(t, L), q, k)
                      = IF q = "lookups" /\ k = o THEN {} ELSE Read(t, q, k)
  BY ReadAfterDelete
<1>2. \A t, q, k : Read(ApplyOperation(t, P), q, k)
                      = IF q = "privateAddresses" /\ k = o THEN {} ELSE Read(t, q, k)
  BY ReadAfterDelete
<1>3. \A t, q, k : Read(ApplyOperation(t, R), q, k)
                      = IF q = "registeredAddresses" /\ k = o THEN {} ELSE Read(t, q, k)
  BY ReadAfterDelete
<1>4. InvalidateRegistryLookup(o) = <<L, P, R>>
  BY DEF InvalidateRegistryLookup
<1> HIDE DEF L, P, R
<1>5. next = ApplyOperation(ApplyOperation(ApplyOperation(tree, L), P), R)
  BY <1>4, WriteOfThree
<1> QED  BY <1>1, <1>2, <1>3, <1>5

\* What the services write, one operation after another.
LEMMA SavedOperations ==
  ASSUME NEW o, NEW a
  PROVE  /\ \A lookup :
               /\ (lookup.status = "registered" /\ lookup.address = {a})
                     => SaveRegistryLookup(o, lookup)
                          = <<RecordSet("lookups", o, lookup),
                              RecordSet("privateAddresses", o, a),
                              RecordSet("registeredAddresses", o, Yes)>>
               /\ lookup.address = {}
                     => SaveRegistryLookup(o, lookup)
                          = <<RecordSet("lookups", o, lookup),
                              RecordSet("registeredAddresses", o, No)>>
         /\ SaveRegisteredPrivateAddress(o, a, TRUE)
              = <<RecordSet("privateAddresses", o, a), RecordSet("registeredAddresses", o, Yes),
                  RecordSet("lookups", o, Lookup({a}))>>
         /\ SaveRegisteredPrivateAddress(o, a, FALSE)
              = <<RecordSet("privateAddresses", o, a), RecordSet("registeredAddresses", o, No),
                  RecordSet("lookups", o, Lookup({}))>>
<1>1. ASSUME NEW lookup, lookup.status = "registered", lookup.address = {a}
      PROVE  SaveRegistryLookup(o, lookup)
               = <<RecordSet("lookups", o, lookup), RecordSet("privateAddresses", o, a),
                   RecordSet("registeredAddresses", o, Yes)>>
  <2>1. /\ lookup.address # {}
        /\ (CHOOSE x \in lookup.address : TRUE) = a
    BY <1>1
  <2>2. SaveRegistryLookup(o, lookup)
          = <<RecordSet("lookups", o, lookup)>> \o
            <<RecordSet("privateAddresses", o, a), RecordSet("registeredAddresses", o, Yes)>>
    BY <1>1, <2>1, Zenon DEF SaveRegistryLookup, Yes
  <2> QED  BY <2>2, OneAndTwo
<1>2. ASSUME NEW lookup, lookup.address = {}
      PROVE  SaveRegistryLookup(o, lookup)
               = <<RecordSet("lookups", o, lookup), RecordSet("registeredAddresses", o, No)>>
  <2>1. SaveRegistryLookup(o, lookup)
          = <<RecordSet("lookups", o, lookup)>> \o <<RecordSet("registeredAddresses", o, No)>>
    BY <1>2, Zenon DEF SaveRegistryLookup, No
  <2> QED  BY <2>1, OneAndOne
<1>3. /\ SaveRegisteredPrivateAddress(o, a, TRUE)
           = <<RecordSet("privateAddresses", o, a), RecordSet("registeredAddresses", o, Yes),
               RecordSet("lookups", o, Lookup({a}))>>
      /\ SaveRegisteredPrivateAddress(o, a, FALSE)
           = <<RecordSet("privateAddresses", o, a), RecordSet("registeredAddresses", o, No),
               RecordSet("lookups", o, Lookup({}))>>
  BY Zenon DEF SaveRegisteredPrivateAddress, Yes, No
<1> QED  BY <1>1, <1>2, <1>3, Zenon

\* What the services write keeps the story of each owner.
LEMMA ThreeRecordsStory ==
  ASSUME NEW tree, TellsOneStory(tree), NEW o, NEW lookup, NEW flag, NEW a, NEW operations,
         \/ operations = <<RecordSet("lookups", o, lookup), RecordSet("privateAddresses", o, a),
                          RecordSet("registeredAddresses", o, flag)>>
         \/ operations = <<RecordSet("privateAddresses", o, a),
                          RecordSet("registeredAddresses", o, flag),
                          RecordSet("lookups", o, lookup)>>,
         \/ /\ lookup.status = "registered" /\ flag = Yes
            /\ lookup.address = {a} /\ a \in everOnChain[o]
         \/ lookup.status = "unregistered" /\ flag = No,
         NEW next, next = ApplyWrite(tree, operations)
  PROVE  TellsOneStory(next)
<1>1. /\ Read(next, "lookups", o) = {lookup}
      /\ Read(next, "registeredAddresses", o) = {flag}
      /\ Read(next, "privateAddresses", o) = {a}
      /\ \A q, k : k # o => Read(next, q, k) = Read(tree, q, k)
  BY ThreeRecords
<1> SUFFICES ASSUME NEW k
             PROVE  Story(Read(next, "lookups", k), Read(next, "registeredAddresses", k),
                          Read(next, "privateAddresses", k), everOnChain[k])
  BY DEF TellsOneStory
<1>2. CASE k # o  BY <1>1, <1>2 DEF TellsOneStory
<1>3. CASE k = o /\ flag = No /\ lookup.status = "unregistered"
  BY <1>1, <1>3, YesOrNo DEF Story
<1>4. CASE k = o /\ flag = Yes /\ lookup.status = "registered" /\ lookup.address = {a}
  BY <1>1, <1>4, YesOrNo DEF Story
<1> QED  BY <1>2, <1>3, <1>4, YesOrNo

LEMMA RegisteredStory ==
  ASSUME NEW tree, TellsOneStory(tree), NEW o, NEW a, a \in everOnChain[o], NEW operations,
         \/ operations = SaveRegistryLookup(o, Lookup({a}))
         \/ operations = SaveRegisteredPrivateAddress(o, a, TRUE),
         NEW next, next = ApplyWrite(tree, operations)
  PROVE  TellsOneStory(next)
<1> DEFINE lookup == Lookup({a})
<1>1. lookup.address = {a} /\ lookup.status = "registered"
  BY DEF Lookup
<1>2. \/ operations = <<RecordSet("lookups", o, lookup), RecordSet("privateAddresses", o, a),
                        RecordSet("registeredAddresses", o, Yes)>>
      \/ operations = <<RecordSet("privateAddresses", o, a),
                        RecordSet("registeredAddresses", o, Yes),
                        RecordSet("lookups", o, lookup)>>
  BY <1>1, SavedOperations, Zenon
<1> QED  BY <1>1, <1>2, ThreeRecordsStory, Zenon

LEMMA UnregisteredStory ==
  ASSUME NEW tree, TellsOneStory(tree), NEW o, NEW operations,
         \/ operations = SaveRegistryLookup(o, Lookup({}))
         \/ \E a : operations = SaveRegisteredPrivateAddress(o, a, FALSE),
         NEW next, next = ApplyWrite(tree, operations)
  PROVE  TellsOneStory(next)
<1> DEFINE lookup == Lookup({})
<1>1. lookup.address = {} /\ lookup.status = "unregistered"
  BY DEF Lookup
<1>2. \/ operations = <<RecordSet("lookups", o, lookup), RecordSet("registeredAddresses", o, No)>>
      \/ \E a : operations = <<RecordSet("privateAddresses", o, a),
                               RecordSet("registeredAddresses", o, No),
                               RecordSet("lookups", o, lookup)>>
  BY <1>1, SavedOperations, Zenon
<1> HIDE DEF lookup
<1>3. CASE operations = <<RecordSet("lookups", o, lookup),
                          RecordSet("registeredAddresses", o, No)>>
  <2>1. /\ Read(next, "lookups", o) = {lookup}
        /\ Read(next, "registeredAddresses", o) = {No}
        /\ \A q, k : k # o => Read(next, q, k) = Read(tree, q, k)
    BY <1>3, TwoRecords
  <2> QED  BY <1>1, <2>1, YesOrNo DEF TellsOneStory, Story
<1>4. CASE \E a : operations = <<RecordSet("privateAddresses", o, a),
                               RecordSet("registeredAddresses", o, No),
                               RecordSet("lookups", o, lookup)>>
  BY <1>1, <1>4, ThreeRecordsStory, Zenon
<1> QED  BY <1>2, <1>3, <1>4

LEMMA NoStory ==
  ASSUME NEW tree, TellsOneStory(tree), NEW o,
         NEW next, next = ApplyWrite(tree, InvalidateRegistryLookup(o))
  PROVE  TellsOneStory(next)
<1>1. /\ Read(next, "lookups", o) = {}
      /\ Read(next, "registeredAddresses", o) = {}
      /\ \A q, k : k # o => Read(next, q, k) = Read(tree, q, k)
  BY NoRecords
<1> QED  BY <1>1, YesOrNo DEF TellsOneStory, Story

---------------------------------------------------------------------------
\* Steps of calls.

LEMMA OwnerOfCall ==
  ASSUME NEW c \in RegistryCalls, NEW o \in Owners, registryCalls[c].owner = {o}
  PROVE  Owner(c) = o
BY DEF Owner

LEMMA CaughtReadIsRead ==
  ASSUME NEW path, NEW o
  PROVE  CaughtRead(path, o) = Read(registryTree, path, o)
BY DEF CaughtRead, ReadThrows, ReadRecord, Read

\* A suspended call is the call of an owner.
LEMMA StandingCallFits ==
  ASSUME RegistryInv, NEW c \in RegistryCalls, NEW at, at # "idle", Standing(c, at)
  PROVE  \E o \in Owners : /\ RegistryCallFits(o, registryCalls[c], registryTree)
                           /\ Owner(c) = o
<1>1. registryCalls[c] # NoCall  BY DEF Standing, NoCall
<1>2. PICK o \in Owners : RegistryCallFits(o, registryCalls[c], registryTree)
  BY <1>1 DEF RegistryInv, CallsFit
<1>3. Owner(c) = o  BY <1>2, OwnerOfCall DEF RegistryCallFits
<1> QED  BY <1>2, <1>3

\* A step that reads.
LEMMA ReadStepKeeps ==
  ASSUME RegistryInv, NEW c \in RegistryCalls, NEW new, Steps(c, new),
         UNCHANGED <<chainSideVars, registryTree>>,
         new = NoCall \/ \E o \in Owners : RegistryCallFits(o, new, registryTree)
  PROVE  RegistryInv'
<1>1. /\ registryCalls' = [registryCalls EXCEPT ![c] = new]
      /\ registryCalls'[c] = new
      /\ \A d \in RegistryCalls : d # c => registryCalls'[d] = registryCalls[d]
      /\ UNCHANGED <<accounts, onChain, everOnChain, registrations, registryTree>>
  BY DEF Steps, RegistryInv, ChainTypes, chainSideVars
<1>2. ChainTypes'  BY <1>1 DEF RegistryInv, ChainTypes
<1>3. TellsOneStory(registryTree)'  BY <1>1 DEF RegistryInv, TellsOneStory
<1>4. CallsFit'
  <2> SUFFICES ASSUME NEW d \in RegistryCalls
               PROVE  \/ registryCalls'[d] = NoCall
                      \/ \E o \in Owners : RegistryCallFits(o, registryCalls'[d], registryTree)
    BY <1>1 DEF CallsFit, RegistryCallFits
  <2> QED  BY <1>1 DEF RegistryInv, CallsFit
<1> QED  BY <1>2, <1>3, <1>4 DEF RegistryInv

\* A step that writes: what the others hold is marked.
LEMMA WriteStepKeeps ==
  ASSUME RegistryInv, NEW c, NEW new, NEW operations, Writes(operations, c, new),
         UNCHANGED chainSideVars,
         TellsOneStory(ApplyWrite(registryTree, operations)),
         new = NoCall \/ \E o \in Owners : /\ RegistryCallFits(o, new, registryTree)
                                           /\ new.at # "address"
  PROVE  RegistryInv'
<1>1. /\ registryTree' = ApplyWrite(registryTree, operations)
      /\ registryCalls' = [d \in RegistryCalls |-> registryCalls'[d]]
      /\ \A d \in RegistryCalls :
            registryCalls'[d] = IF d = c THEN new
                                ELSE IF registryCalls[d].at \in {"flag", "address"}
                                  THEN [registryCalls[d] EXCEPT !.overtaken = TRUE]
                                  ELSE registryCalls[d]
      /\ UNCHANGED <<accounts, onChain, everOnChain, registrations>>
  BY DEF Writes, chainSideVars
<1>2. ChainTypes'  BY <1>1 DEF RegistryInv, ChainTypes
<1>3. TellsOneStory(registryTree)'  BY <1>1 DEF TellsOneStory
<1>4. CallsFit'
  <2> SUFFICES ASSUME NEW d \in RegistryCalls
               PROVE  \/ registryCalls'[d] = NoCall
                      \/ \E o \in Owners : RegistryCallFits(o, registryCalls'[d], registryTree')
    BY <1>1 DEF CallsFit, RegistryCallFits
  <2>1. CASE d = c  BY <1>1, <2>1 DEF RegistryCallFits
  <2>2. CASE d # c /\ registryCalls[d].at \in {"flag", "address"}
    <3>1. registryCalls'[d] = [registryCalls[d] EXCEPT !.overtaken = TRUE]
      BY <1>1, <2>2
    <3>2. registryCalls[d] # NoCall  BY <2>2 DEF NoCall
    <3>3. PICK o \in Owners : RegistryCallFits(o, registryCalls[d], registryTree)
      BY <3>2 DEF RegistryInv, CallsFit
    <3> DEFINE old == registryCalls[d]
               now == [old EXCEPT !.overtaken = TRUE]
    <3>4. /\ DOMAIN now = DOMAIN NoCall /\ now.owner = old.owner /\ now.at = old.at
          /\ now.registeredAtStart = old.registeredAtStart /\ now.lookup = old.lookup
          /\ now.result = old.result /\ now.overtaken
      BY <3>3 DEF RegistryCallFits, NoCall
    <3> HIDE DEF now
    <3>5. RegistryCallFits(o, now, registryTree')
      BY <2>2, <3>3, <3>4 DEF RegistryCallFits, SavesWhatItRead, Answers
    <3> QED  BY <3>1, <3>5 DEF now
  <2>3. CASE d # c /\ registryCalls[d].at \notin {"flag", "address"}
    <3>1. registryCalls'[d] = registryCalls[d]  BY <1>1, <2>3
    <3> QED  BY <2>3, <3>1 DEF RegistryInv, CallsFit, RegistryCallFits
  <2> QED  BY <2>1, <2>2, <2>3
<1> QED  BY <1>2, <1>3, <1>4 DEF RegistryInv

\* The registry on the chain only ever adds to what an owner had there.
LEMMA RegistersKeeps ==
  ASSUME RegistryInv, NEW o \in Owners, NEW a \in PrivateAddresses, Registers(o, a),
         registrations' \subseteq registrations, UNCHANGED <<registryTree, registryCalls>>
  PROVE  RegistryInv'
<1>1. /\ onChain' = [onChain EXCEPT ![o] = {a}]
      /\ everOnChain' = [everOnChain EXCEPT ![o] = @ \cup {a}]
  BY DEF Registers
<1>2. ChainTypes'
  BY <1>1 DEF RegistryInv, ChainTypes, Addressed
<1>3. \A x : everOnChain[x] \subseteq everOnChain'[x]
  BY <1>1 DEF RegistryInv, ChainTypes
<1>4. \A x \in Owners : onChain[x] # {} => onChain'[x] # {}
  BY <1>1 DEF RegistryInv, ChainTypes
<1>5. TellsOneStory(registryTree)'
  <2> SUFFICES ASSUME NEW k
               PROVE  Story(Read(registryTree, "lookups", k),
                            Read(registryTree, "registeredAddresses", k),
                            Read(registryTree, "privateAddresses", k), everOnChain'[k])
    BY DEF TellsOneStory
  <2>1. Story(Read(registryTree, "lookups", k), Read(registryTree, "registeredAddresses", k),
              Read(registryTree, "privateAddresses", k), everOnChain[k])
    BY DEF RegistryInv, TellsOneStory
  <2> QED  BY <1>3, <2>1 DEF Story
<1>6. CallsFit'
  <2> SUFFICES ASSUME NEW c \in RegistryCalls, registryCalls[c] # NoCall
               PROVE  (\E x \in Owners : RegistryCallFits(x, registryCalls[c], registryTree))'
    BY DEF CallsFit
  <2>1. PICK x \in Owners : RegistryCallFits(x, registryCalls[c], registryTree)
    BY DEF RegistryInv, CallsFit
  <2>2. everOnChain[x] \subseteq everOnChain'[x] /\ (onChain[x] # {} => onChain'[x] # {})
    BY <1>3, <1>4
  <2>3. RegistryCallFits(x, registryCalls[c], registryTree)'
    BY <2>1, <2>2 DEF RegistryCallFits, SavesWhatItRead, Answers
  <2> QED  BY <2>3
<1> QED  BY <1>2, <1>5, <1>6 DEF RegistryInv

LEMMA ChainStepKeeps ==
  ASSUME RegistryInv,
         \/ \E o \in Owners, a \in PrivateAddresses :
               RegisterElsewhere(o, a) \/ RegisterPrivateAddress(o, a)
         \/ RegistrationLands
  PROVE  RegistryInv'
<1>1. CASE \E o \in Owners, a \in PrivateAddresses : RegisterElsewhere(o, a)
  BY <1>1, RegistersKeeps DEF RegisterElsewhere
<1>2. ASSUME NEW o \in Owners, NEW a \in PrivateAddresses, RegisterPrivateAddress(o, a)
      PROVE  RegistryInv'
  <2>1. registrations' \subseteq Owners \X PrivateAddresses
    BY <1>2 DEF RegisterPrivateAddress, RegistryInv, ChainTypes
  <2> QED  BY <1>2, <2>1 DEF RegisterPrivateAddress, RegistryInv, ChainTypes, TellsOneStory,
                             CallsFit, RegistryCallFits
<1>3. CASE RegistrationLands
  <2>1. PICK r \in registrations : registrations' = registrations \ {r} /\ Registers(r[1], r[2])
    BY <1>3 DEF RegistrationLands
  <2>2. r[1] \in Owners /\ r[2] \in PrivateAddresses
    BY DEF RegistryInv, ChainTypes
  <2>3. UNCHANGED <<registryTree, registryCalls>> /\ registrations' \subseteq registrations
    BY <1>3, <2>1 DEF RegistrationLands
  <2> QED  BY <2>1, <2>2, <2>3, RegistersKeeps
<1> QED  BY <1>1, <1>2, <1>3

\* A call begins.
LEMMA BeginsKeeps ==
  ASSUME RegistryInv, NEW c \in RegistryCalls, NEW o \in Owners, NEW kind, NEW at,
         at \notin {"saving", "address"}, Begins(c, o, kind, at),
         UNCHANGED <<chainSideVars, registryTree>>
  PROVE  RegistryInv'
<1> DEFINE new == [NoCall EXCEPT !.at = at, !.kind = kind, !.owner = {o},
                                 !.registeredAtStart = onChain[o] # {}]
<1>1. Steps(c, new)  BY DEF Begins
<1>2. RegistryCallFits(o, new, registryTree)
  BY DEF RegistryCallFits, NoCall, SavesWhatItRead, Answers
<1> HIDE DEF new
<1> QED  BY <1>1, <1>2, ReadStepKeeps

\* The read of the chain.
LEMMA ReadChainKeeps ==
  ASSUME RegistryInv, NEW c \in RegistryCalls, ReadChain(c)
  PROVE  RegistryInv'
<1>1. PICK o \in Owners : RegistryCallFits(o, registryCalls[c], registryTree) /\ Owner(c) = o
  BY StandingCallFits DEF ReadChain
<1> DEFINE call == registryCalls[c]
           new  == [call EXCEPT !.at = "saving", !.lookup = {Lookup(onChain[o])}]
<1>2. Steps(c, NoCall) \/ Steps(c, new)
  BY <1>1 DEF ReadChain, LookupFromChain
<1>3. /\ DOMAIN new = DOMAIN NoCall /\ new.owner = call.owner /\ new.at = "saving"
      /\ new.lookup = {Lookup(onChain[o])}
      /\ new.registeredAtStart = call.registeredAtStart
      /\ new.result = call.result /\ new.overtaken = call.overtaken
  BY <1>1 DEF RegistryCallFits, NoCall
<1> HIDE DEF new
<1>4. onChain[o] \in Addressed /\ onChain[o] \subseteq everOnChain[o]
  BY DEF RegistryInv, ChainTypes
<1>5. RegistryCallFits(o, new, registryTree)
  BY <1>1, <1>3, <1>4 DEF RegistryCallFits, SavesWhatItRead, Answers
<1>6. UNCHANGED <<chainSideVars, registryTree>>
  BY DEF ReadChain
<1> QED  BY <1>2, <1>5, <1>6, ReadStepKeeps

\* saveLookup.
LEMMA SaveLookupKeeps ==
  ASSUME RegistryInv, NEW c \in RegistryCalls, SaveLookup(c)
  PROVE  RegistryInv'
<1>1. PICK o \in Owners : RegistryCallFits(o, registryCalls[c], registryTree) /\ Owner(c) = o
  BY StandingCallFits DEF SaveLookup
<1> DEFINE call == registryCalls[c]
<1>2. PICK address \in Addressed :
         /\ call.lookup = {Lookup(address)} /\ address \subseteq everOnChain[o]
         /\ address = {} => ~call.registeredAtStart
  BY <1>1 DEF SaveLookup, Standing, RegistryCallFits, SavesWhatItRead
<1> DEFINE lookup == Lookup(address)
           answer == IF call.kind = "check" THEN {} ELSE {ResolvedFromChain(o, lookup)}
           new    == [call EXCEPT !.at = "done", !.result = answer]
<1>3. Writes(SaveRegistryLookup(o, lookup), c, new)
  BY <1>1, <1>2 DEF SaveLookup
<1>4. /\ DOMAIN new = DOMAIN NoCall /\ new.owner = call.owner /\ new.at = "done"
      /\ new.registeredAtStart = call.registeredAtStart
      /\ new.result = answer /\ new.overtaken = call.overtaken
  BY <1>1 DEF RegistryCallFits, NoCall
<1>5. \A r \in answer : /\ r.how = "address" => r.address # {} /\ r.address \subseteq everOnChain[o]
                        /\ r.how = "escrow" => ~call.registeredAtStart
  BY <1>2 DEF ResolvedFromChain, Result, Lookup
<1> HIDE DEF new, answer
<1>6. RegistryCallFits(o, new, registryTree)
  BY <1>1, <1>4, <1>5 DEF RegistryCallFits, SavesWhatItRead, Answers
<1>7. TellsOneStory(ApplyWrite(registryTree, SaveRegistryLookup(o, lookup)))
  <2>1. TellsOneStory(registryTree)  BY DEF RegistryInv
  <2>2. CASE address = {}
    BY <2>1, <2>2, UnregisteredStory
  <2>3. CASE address # {}
    <3>1. PICK a : address = {a} /\ a \in everOnChain[o]
      BY <1>2, <2>3 DEF Addressed
    <3> QED  BY <2>1, <3>1, RegisteredStory
  <2> QED  BY <2>2, <2>3
<1> HIDE DEF lookup
<1>8. UNCHANGED chainSideVars  BY DEF SaveLookup
<1> QED  BY <1>3, <1>4, <1>6, <1>7, <1>8, WriteStepKeeps

---------------------------------------------------------------------------
\* The reads of the cache.

\* A call that is done, with an answer that may be given; one that goes on.
LEMMA DoneFits ==
  ASSUME NEW o \in Owners, NEW call, NEW tree, RegistryCallFits(o, call, tree), NEW answer,
         \A r \in answer :
            /\ r.how # "escrow"
            /\ (r.how = "address" /\ ~call.overtaken)
                  => r.address # {} /\ r.address \subseteq everOnChain[o]
  PROVE  RegistryCallFits(o, [call EXCEPT !.at = "done", !.result = answer], tree)
<1> DEFINE new == [call EXCEPT !.at = "done", !.result = answer]
<1>1. /\ DOMAIN new = DOMAIN NoCall /\ new.owner = call.owner /\ new.at = "done"
      /\ new.registeredAtStart = call.registeredAtStart
      /\ new.result = answer /\ new.overtaken = call.overtaken
  BY DEF RegistryCallFits, NoCall
<1> HIDE DEF new
<1>2. RegistryCallFits(o, new, tree)
  BY <1>1 DEF RegistryCallFits, SavesWhatItRead, Answers
<1> QED  BY <1>2 DEF new

LEMMA GoesOnFits ==
  ASSUME NEW o \in Owners, NEW call, NEW tree, RegistryCallFits(o, call, tree),
         NEW at, at \notin {"saving", "address"}
  PROVE  RegistryCallFits(o, [call EXCEPT !.at = at], tree)
<1> DEFINE new == [call EXCEPT !.at = at]
<1>1. /\ DOMAIN new = DOMAIN NoCall /\ new.owner = call.owner /\ new.at = at
      /\ new.registeredAtStart = call.registeredAtStart
      /\ new.result = call.result /\ new.overtaken = call.overtaken
  BY DEF RegistryCallFits, NoCall
<1> HIDE DEF new
<1>2. RegistryCallFits(o, new, tree)
  BY <1>1 DEF RegistryCallFits, SavesWhatItRead, Answers
<1> QED  BY <1>2 DEF new

\* What the caller of readRegistryLookup does with a lookup whose address the
\* owner did register, or with none.
LEMMA AnsweredFits ==
  ASSUME NEW c, NEW o \in Owners, NEW call, NEW tree, NEW lookup,
         RegistryCallFits(o, call, tree),
         lookup # {} => \E l : /\ lookup = {l} /\ l.status \in {"registered", "unregistered"}
                               /\ (l.status = "registered" /\ ~call.overtaken)
                                     => l.address \subseteq everOnChain[o]
  PROVE  RegistryCallFits(o, Answered(c, call, lookup), tree)
<1> DEFINE new == Answered(c, call, lookup)
           addressed == \E l \in lookup : l.status = "registered" /\ l.address # {}
           cached    == \E l \in lookup : l.address # {}
           addresses == {Result("address", l.address) : l \in lookup}
           older     == {Result("cached", l.address) : l \in lookup}
           statuses  == {Result(l.status, {}) : l \in lookup}
<1> SUFFICES RegistryCallFits(o, new, tree)
  OBVIOUS
<1>1. \/ new = [call EXCEPT !.at = "done", !.result = addresses] /\ addressed
      \/ new = [call EXCEPT !.at = "reading chain"]
      \/ new = [call EXCEPT !.at = "done", !.result = older]
      \/ new = [call EXCEPT !.at = "rereading"]
      \/ new = [call EXCEPT !.at = "done", !.result = statuses]
  BY Zenon DEF Answered
<1>2. \A l \in lookup : /\ l.status \in {"registered", "unregistered"}
                        /\ \A k \in lookup : k = l
                        /\ (l.status = "registered" /\ ~call.overtaken)
                              => l.address \subseteq everOnChain[o]
  <2> SUFFICES ASSUME lookup # {}
               PROVE  <1>2
    OBVIOUS
  <2>1. PICK l : /\ lookup = {l} /\ l.status \in {"registered", "unregistered"}
                 /\ (l.status = "registered" /\ ~call.overtaken)
                       => l.address \subseteq everOnChain[o]
    OBVIOUS
  <2> QED  BY <2>1
<1>3. addressed => \A r \in addresses :
         /\ r.how # "escrow"
         /\ ~call.overtaken => r.address # {} /\ r.address \subseteq everOnChain[o]
  <2> SUFFICES ASSUME NEW l \in lookup, l.status = "registered", l.address # {},
                      NEW r \in addresses
               PROVE  /\ r.how # "escrow"
                      /\ ~call.overtaken => r.address # {} /\ r.address \subseteq everOnChain[o]
    OBVIOUS
  <2>1. r = Result("address", l.address)
    BY <1>2
  <2> QED  BY <1>2, <2>1 DEF Result
<1>4. /\ \A r \in older : r.how = "cached"
      /\ \A r \in statuses : r.how \in {"registered", "unregistered"}
  <2>1. \A x, y : Result(x, y).how = x
    BY DEF Result
  <2> QED  BY <1>2, <2>1
<1> HIDE DEF new, addressed, addresses, older, statuses
<1>5. CASE new = [call EXCEPT !.at = "done", !.result = addresses] /\ addressed
  <2>1. RegistryCallFits(o, [call EXCEPT !.at = "done", !.result = addresses], tree)
    BY <1>3, <1>5, DoneFits
  <2> QED  BY <1>5, <2>1
<1>6. CASE new = [call EXCEPT !.at = "done", !.result = older]
  <2>1. RegistryCallFits(o, [call EXCEPT !.at = "done", !.result = older], tree)
    BY <1>4, DoneFits
  <2> QED  BY <1>6, <2>1
<1>7. CASE new = [call EXCEPT !.at = "done", !.result = statuses]
  <2>1. RegistryCallFits(o, [call EXCEPT !.at = "done", !.result = statuses], tree)
    BY <1>4, DoneFits
  <2> QED  BY <1>7, <2>1
<1>8. CASE new = [call EXCEPT !.at = "reading chain"] \/ new = [call EXCEPT !.at = "rereading"]
  <2>1. /\ RegistryCallFits(o, [call EXCEPT !.at = "reading chain"], tree)
        /\ RegistryCallFits(o, [call EXCEPT !.at = "rereading"], tree)
    BY GoesOnFits
  <2> QED  BY <1>8, <2>1
<1> QED  BY <1>1, <1>5, <1>6, <1>7, <1>8

LEMMA ReadLookupKeeps ==
  ASSUME RegistryInv, NEW c \in RegistryCalls, ReadLookup(c)
  PROVE  RegistryInv'
<1>1. PICK o \in Owners : RegistryCallFits(o, registryCalls[c], registryTree) /\ Owner(c) = o
  BY StandingCallFits DEF ReadLookup
<1> DEFINE call   == registryCalls[c]
           lookup == Read(registryTree, "lookups", o)
           next   == [call EXCEPT !.at = "flag"]
           new    == IF lookup # {} THEN Answered(c, call, lookup) ELSE next
<1>2. Steps(c, new)
  BY <1>1, CaughtReadIsRead DEF ReadLookup
<1>3. lookup # {} => \E l : /\ lookup = {l} /\ l.status \in {"registered", "unregistered"}
                            /\ l.status = "registered" => l.address \subseteq everOnChain[o]
  <2>1. Story(lookup, Read(registryTree, "registeredAddresses", o),
              Read(registryTree, "privateAddresses", o), everOnChain[o])
    BY DEF RegistryInv, TellsOneStory
  <2>2. lookup # {} => \E l : lookup = {l}
    BY DEF Read
  <2> HIDE DEF lookup
  <2> QED  BY <2>1, <2>2 DEF Story
<1>4. RegistryCallFits(o, next, registryTree)
  <2>1. /\ DOMAIN next = DOMAIN NoCall /\ next.owner = call.owner /\ next.at = "flag"
        /\ next.registeredAtStart = call.registeredAtStart
        /\ next.result = call.result /\ next.overtaken = call.overtaken
    BY <1>1 DEF RegistryCallFits, NoCall
  <2> HIDE DEF next
  <2> QED  BY <1>1, <2>1 DEF RegistryCallFits, SavesWhatItRead, Answers
<1> HIDE DEF lookup, next
<1>5. lookup # {} => RegistryCallFits(o, Answered(c, call, lookup), registryTree)
  BY <1>1, <1>3, AnsweredFits
<1>6. UNCHANGED <<chainSideVars, registryTree>>
  BY DEF ReadLookup
<1> QED  BY <1>2, <1>4, <1>5, <1>6, ReadStepKeeps

LEMMA ReadFlagKeeps ==
  ASSUME RegistryInv, NEW c \in RegistryCalls, ReadFlag(c)
  PROVE  RegistryInv'
<1>1. PICK o \in Owners : RegistryCallFits(o, registryCalls[c], registryTree) /\ Owner(c) = o
  BY StandingCallFits DEF ReadFlag
<1> DEFINE call == registryCalls[c]
           flag == Read(registryTree, "registeredAddresses", o)
           new  == [call EXCEPT !.at = "address", !.flag = flag]
<1>2. Steps(c, new)
  BY <1>1, CaughtReadIsRead DEF ReadFlag
<1>3. /\ DOMAIN new = DOMAIN NoCall /\ new.owner = call.owner /\ new.at = "address"
      /\ new.flag = flag
      /\ new.registeredAtStart = call.registeredAtStart
      /\ new.result = call.result /\ new.overtaken = call.overtaken
  BY <1>1 DEF RegistryCallFits, NoCall
<1> HIDE DEF new
<1>4. RegistryCallFits(o, new, registryTree)
  BY <1>1, <1>3 DEF RegistryCallFits, SavesWhatItRead, Answers
<1>5. UNCHANGED <<chainSideVars, registryTree>>
  BY DEF ReadFlag
<1> QED  BY <1>2, <1>4, <1>5, ReadStepKeeps

\* The lookup that is put together of the two older containers.
LEMMA LegacyLookupIs ==
  ASSUME NEW flag, NEW address, LegacyLookup(flag, address) # {}
  PROVE  \E l : /\ LegacyLookup(flag, address) = {l} /\ l.address = address
                /\ l.status \in {"registered", "unregistered"}
                /\ l.status = "registered" => flag = {Yes}
<1> DEFINE known == flag = {Yes}
           l     == [status |-> IF known THEN "registered" ELSE "unregistered", address |-> address]
<1>1. LegacyLookup(flag, address) = {l}
  BY Zenon DEF LegacyLookup, Yes
<1>2. /\ l.address = address /\ l.status \in {"registered", "unregistered"}
      /\ l.status = "registered" => known
  BY SMT
<1> HIDE DEF l
<1> QED  BY <1>1, <1>2

LEMMA ReadAddressKeeps ==
  ASSUME RegistryInv, NEW c \in RegistryCalls, ReadAddress(c)
  PROVE  RegistryInv'
<1>1. PICK o \in Owners : RegistryCallFits(o, registryCalls[c], registryTree) /\ Owner(c) = o
  BY StandingCallFits DEF ReadAddress
<1> DEFINE call    == registryCalls[c]
           address == Read(registryTree, "privateAddresses", o)
           lookup  == LegacyLookup(call.flag, address)
           new     == Answered(c, call, lookup)
<1>2. Steps(c, new) /\ call.at = "address"
  BY <1>1, CaughtReadIsRead DEF ReadAddress, Standing
<1>3. ~call.overtaken /\ call.flag = {Yes} => address \subseteq everOnChain[o]
  <2>1. Story(Read(registryTree, "lookups", o), Read(registryTree, "registeredAddresses", o),
              address, everOnChain[o])
    BY DEF RegistryInv, TellsOneStory
  <2>2. ~call.overtaken => call.flag = Read(registryTree, "registeredAddresses", o)
    BY <1>1, <1>2 DEF RegistryCallFits
  <2> QED  BY <2>1, <2>2 DEF Story
<1> HIDE DEF address
<1>4. lookup # {} => \E l : /\ lookup = {l} /\ l.status \in {"registered", "unregistered"}
                            /\ (l.status = "registered" /\ ~call.overtaken)
                                  => l.address \subseteq everOnChain[o]
  BY <1>3, LegacyLookupIs
<1> HIDE DEF lookup
<1>5. RegistryCallFits(o, new, registryTree)
  BY <1>1, <1>4, AnsweredFits
<1>6. UNCHANGED <<chainSideVars, registryTree>>
  BY DEF ReadAddress
<1> QED  BY <1>2, <1>5, <1>6, ReadStepKeeps

LEMMA RereadAddressKeeps ==
  ASSUME RegistryInv, NEW c \in RegistryCalls, RereadAddress(c)
  PROVE  RegistryInv'
<1>1. PICK o \in Owners : RegistryCallFits(o, registryCalls[c], registryTree) /\ Owner(c) = o
  BY StandingCallFits DEF RereadAddress
<1> DEFINE call   == registryCalls[c]
           answer == IF ReadThrows(registryTree, "privateAddresses")
                       THEN {Result("throws", {})}
                       ELSE {Result("cached", ReadRecord(registryTree, "privateAddresses", Owner(c)))}
           new    == [call EXCEPT !.at = "done", !.result = answer]
<1>2. Steps(c, new)
  BY DEF RereadAddress
<1>3. \A r \in answer : r.how \in {"throws", "cached"}
  BY DEF Result
<1> HIDE DEF answer
<1>4. /\ DOMAIN new = DOMAIN NoCall /\ new.owner = call.owner /\ new.at = "done"
      /\ new.registeredAtStart = call.registeredAtStart
      /\ new.result = answer /\ new.overtaken = call.overtaken
  BY <1>1 DEF RegistryCallFits, NoCall
<1> HIDE DEF new
<1>5. RegistryCallFits(o, new, registryTree)
  BY <1>1, <1>3, <1>4 DEF RegistryCallFits, SavesWhatItRead, Answers
<1>6. UNCHANGED <<chainSideVars, registryTree>>
  BY DEF RereadAddress
<1> QED  BY <1>2, <1>5, <1>6, ReadStepKeeps

LEMMA ReturnsKeeps ==
  ASSUME RegistryInv, NEW c \in RegistryCalls, Returns(c)
  PROVE  RegistryInv'
BY ReadStepKeeps DEF Returns

\* The writes of the host.
LEMMA HostWritesKeeps ==
  ASSUME RegistryInv, NEW o \in Owners, HostWrites(o)
  PROVE  RegistryInv'
<1>1. PICK operations :
         /\ \/ \E a \in everOnChain[o] : operations = SaveRegisteredPrivateAddress(o, a, TRUE)
            \/ \E a \in PrivateAddresses : operations = SaveRegisteredPrivateAddress(o, a, FALSE)
            \/ operations = InvalidateRegistryLookup(o)
         /\ Writes(operations, "host", NoCall)
  BY Zenon DEF HostWrites
<1> DEFINE next == ApplyWrite(registryTree, operations)
<1>2. TellsOneStory(registryTree)  BY DEF RegistryInv
<1>3. CASE \E a \in everOnChain[o] : operations = SaveRegisteredPrivateAddress(o, a, TRUE)
  <2>1. TellsOneStory(next)  BY <1>2, <1>3, RegisteredStory, Zenon
  <2> QED  BY <1>1, <2>1, WriteStepKeeps DEF HostWrites
<1>4. CASE \E a \in PrivateAddresses : operations = SaveRegisteredPrivateAddress(o, a, FALSE)
  <2>1. TellsOneStory(next)  BY <1>2, <1>4, UnregisteredStory, Zenon
  <2> QED  BY <1>1, <2>1, WriteStepKeeps DEF HostWrites
<1>5. CASE operations = InvalidateRegistryLookup(o)
  <2>1. TellsOneStory(next)  BY <1>2, <1>5, NoStory
  <2> QED  BY <1>1, <2>1, WriteStepKeeps DEF HostWrites
<1> QED  BY <1>1, <1>3, <1>4, <1>5

---------------------------------------------------------------------------
\* The trees a wallet starts from.

LEMMA FirstTreesTellOneStory ==
  ASSUME RegistryInit
  PROVE  TellsOneStory(registryTree)
<1>1. \A q, k : Read(EmptyTree, q, k) = {}
  BY DEF Read, EmptyTree
<1>2. \/ registryTree = EmptyTree
      \/ \E o \in Owners : onChain[o] # {} /\ registryTree = LegacyTree(o, Yes, onChain[o])
      \/ \E o \in Owners : registryTree = LegacyTree(o, No, {})
  BY Zenon DEF RegistryInit, Yes, No
<1>3. CASE registryTree = EmptyTree
  BY <1>1, <1>3, YesOrNo DEF TellsOneStory, Story
<1>4. ASSUME NEW o \in Owners, onChain[o] # {}, registryTree = LegacyTree(o, Yes, onChain[o])
      PROVE  TellsOneStory(registryTree)
  <2>1. PICK a : onChain[o] = {a}
    BY <1>4 DEF RegistryInit
  <2> DEFINE flag == Yes
             R == RecordSet("registeredAddresses", o, flag)
             P == RecordSet("privateAddresses", o, a)
  <2>2. registryTree = ApplyWrite(EmptyTree, <<R, P>>)
    <3>1. LegacyTree(o, flag, {a}) = ApplyWrite(EmptyTree, <<R>> \o <<P>>)
      <4>1. (CHOOSE x \in {a} : TRUE) = a  OBVIOUS
      <4>2. {a} # {}  OBVIOUS
      <4> QED  BY <4>1, <4>2, Zenon DEF LegacyTree
    <3> HIDE DEF R, P
    <3> QED  BY <1>4, <2>1, <3>1, OneAndOne DEF flag
  <2>3. \A t, q, k : Read(ApplyOperation(t, R), q, k)
                       = IF q = "registeredAddresses" /\ k = o THEN {flag} ELSE Read(t, q, k)
    BY ReadAfterSet
  <2>4. \A t, q, k : Read(ApplyOperation(t, P), q, k)
                       = IF q = "privateAddresses" /\ k = o THEN {a} ELSE Read(t, q, k)
    BY ReadAfterSet
  <2> HIDE DEF R, P
  <2>5. registryTree = ApplyOperation(ApplyOperation(EmptyTree, R), P)
    BY <2>2, WriteOfTwo
  <2>6. a \in everOnChain[o]
    BY <2>1 DEF RegistryInit
  <2> QED  BY <1>1, <2>3, <2>4, <2>5, <2>6 DEF TellsOneStory, Story, flag
<1>5. ASSUME NEW o \in Owners, registryTree = LegacyTree(o, No, {})
      PROVE  TellsOneStory(registryTree)
  <2> DEFINE flag == No
             R == RecordSet("registeredAddresses", o, flag)
  <2>1. registryTree = ApplyWrite(EmptyTree, <<R>>)
    <3>1. LegacyTree(o, flag, {}) = ApplyWrite(EmptyTree, <<R>> \o <<>>)
      BY DEF LegacyTree
    <3>2. <<R>> \in Seq({R})  OBVIOUS
    <3> HIDE DEF R
    <3>3. <<R>> \o <<>> = <<R>>
      BY <3>2, ConcatEmptySeq
    <3> QED  BY <1>5, <3>1, <3>3 DEF flag
  <2>2. \A t, q, k : Read(ApplyOperation(t, R), q, k)
                       = IF q = "registeredAddresses" /\ k = o THEN {flag} ELSE Read(t, q, k)
    BY ReadAfterSet
  <2> HIDE DEF R
  <2>3. registryTree = ApplyOperation(EmptyTree, R)
    BY <2>1, WriteOfOne
  <2> QED  BY <1>1, <2>2, <2>3, YesOrNo DEF TellsOneStory, Story, flag
<1> QED  BY <1>2, <1>3, <1>4, <1>5

LEMMA RegistryInvInit == RegistryInit => RegistryInv
<1> SUFFICES ASSUME RegistryInit
             PROVE  RegistryInv
  OBVIOUS
<1>1. ChainTypes
  BY DEF RegistryInit, ChainTypes, Addressed
<1>2. CallsFit
  BY DEF RegistryInit, CallsFit
<1> QED  BY <1>1, <1>2, FirstTreesTellOneStory DEF RegistryInv

LEMMA RegistryStepKeeps == RegistryInv /\ [RegistryNext]_registryVars => RegistryInv'
<1> SUFFICES ASSUME RegistryInv, [RegistryNext]_registryVars
             PROVE  RegistryInv'
  OBVIOUS
<1>1. CASE \/ \E o \in Owners, a \in PrivateAddresses :
                RegisterElsewhere(o, a) \/ RegisterPrivateAddress(o, a)
           \/ RegistrationLands
  BY <1>1, ChainStepKeeps
<1>2. CASE \E o \in Owners : HostWrites(o)
  BY <1>2, HostWritesKeeps
<1>3. CASE \E c \in RegistryCalls, o \in Owners :
              \/ CheckRegistrationStatus(c, o)
              \/ \E kind \in ReaderKinds : ReadRegistryLookup(c, o, kind)
  BY <1>3, BeginsKeeps DEF CheckRegistrationStatus, ReadRegistryLookup
<1>4. ASSUME NEW c \in RegistryCalls,
             \/ ReadChain(c) \/ SaveLookup(c) \/ ReadLookup(c) \/ ReadFlag(c)
             \/ ReadAddress(c) \/ RereadAddress(c) \/ Returns(c)
      PROVE  RegistryInv'
  BY <1>4, ReadChainKeeps, SaveLookupKeeps, ReadLookupKeeps, ReadFlagKeeps, ReadAddressKeeps,
     RereadAddressKeeps, ReturnsKeeps
<1>5. CASE UNCHANGED registryVars
  BY <1>5 DEF registryVars, chainSideVars, RegistryInv, ChainTypes, TellsOneStory, CallsFit,
              RegistryCallFits
<1> QED  BY <1>1, <1>2, <1>3, <1>4, <1>5 DEF RegistryNext

---------------------------------------------------------------------------
\* What the invariant says of the containers and of the answers.

LEMMA StoryIsAgreement == RegistryInv => RegistryContainersAgree
<1> SUFFICES ASSUME RegistryInv, "lookups" \in DOMAIN registryTree,
                    NEW o \in DOMAIN registryTree["lookups"]
             PROVE  LET lookup == registryTree["lookups"][o]
                    IN /\ CaughtRead("registeredAddresses", o) = {lookup.status = "registered"}
                       /\ lookup.status = "registered"
                            => CaughtRead("privateAddresses", o) = lookup.address
  BY DEF RegistryContainersAgree
<1> DEFINE lookup == registryTree["lookups"][o]
           flag   == Read(registryTree, "registeredAddresses", o)
           known  == lookup.status = "registered"
<1>1. lookup \in Read(registryTree, "lookups", o)
  BY DEF Read
<1>2. \/ /\ lookup.status = "registered" /\ flag = {Yes}
         /\ lookup.address = Read(registryTree, "privateAddresses", o)
      \/ lookup.status = "unregistered" /\ flag = {No}
  BY <1>1 DEF RegistryInv, TellsOneStory, Story
<1> HIDE DEF lookup, flag
<1>3. \/ known = Yes /\ flag = {Yes}
      \/ known = No /\ flag = {No}
  BY <1>2 DEF Yes, No
<1>4. flag = {known}
  BY <1>3, Zenon
<1>5. CaughtRead("registeredAddresses", o) = {known}
  BY <1>4, CaughtReadIsRead DEF flag
<1>6. known => CaughtRead("privateAddresses", o) = lookup.address
  BY <1>2, CaughtReadIsRead
<1> QED  BY <1>5, <1>6, Zenon DEF lookup

LEMMA AnswersAreSound == RegistryInv => ResolvedWasRegistered /\ EscrowOnlyIfUnregistered
<1> SUFFICES ASSUME RegistryInv, NEW c \in RegistryCalls, NEW r \in registryCalls[c].result
             PROVE  /\ (r.how = "address" /\ ~registryCalls[c].overtaken)
                         => r.address # {} /\ r.address \subseteq everOnChain[Owner(c)]
                    /\ r.how = "escrow" => ~registryCalls[c].registeredAtStart
  BY DEF ResolvedWasRegistered, EscrowOnlyIfUnregistered
<1>1. registryCalls[c] # NoCall
  BY DEF NoCall
<1>2. PICK o \in Owners : RegistryCallFits(o, registryCalls[c], registryTree)
  BY <1>1 DEF RegistryInv, CallsFit
<1>3. Owner(c) = o
  BY <1>2, OwnerOfCall DEF RegistryCallFits
<1> QED  BY <1>2, <1>3 DEF RegistryCallFits, Answers

\* The three containers of the registry cache tell one story of each owner that
\* has a lookup (lookup.ts): whatever calls save, invalidate and read at the same
\* time, the writes of an owner are seen together.
THEOREM RegistryAgrees == RegistrySpec => []RegistryContainersAgree
<1> QED  BY RegistryInvInit, RegistryStepKeeps, StoryIsAgreement, PTL DEF RegistrySpec

\* A transfer resolves to an address its recipient did register at some time
\* (network.ts: resolveTransferRecipientWithEnvironment), if no write overtook
\* its reads of the older containers.
THEOREM TransferFindsARegisteredAddress == RegistrySpec => []ResolvedWasRegistered
<1> QED  BY RegistryInvInit, RegistryStepKeeps, AnswersAreSound, PTL DEF RegistrySpec

\* An escrow is made for a recipient only when the chain, and not the cache, said
\* that it is not registered, and it was not when the call began.
THEOREM EscrowIsTheLastResort == RegistrySpec => []EscrowOnlyIfUnregistered
<1> QED  BY RegistryInvInit, RegistryStepKeeps, AnswersAreSound, PTL DEF RegistrySpec

\* The same of the whole wallet state: the Merkle caches and the store leave the
\* registry's branch alone.
THEOREM WalletRegistry ==
  WalletStateSpec => [](RegistryContainersAgree /\ ResolvedWasRegistered /\ EscrowOnlyIfUnregistered)
<1>1. WalletStateInit => RegistryInit  BY DEF WalletStateInit
<1>2. [WalletStateNext]_walletStateVars => [RegistryNext]_registryVars
  BY DEF WalletStateNext, walletStateVars
<1> QED  BY <1>1, <1>2, RegistryAgrees, TransferFindsARegisteredAddress, EscrowIsTheLastResort,
            PTL DEF WalletStateSpec, RegistrySpec

---------------------------------------------------------------------------
\* The wallet's own branches: the inductive invariant.

\* A snapshot that lists an asset once: replaceAssets (catalog.ts:37) lists what
\* it is given, twice if it is there twice.
HydratedOnce == \A j, k \in DOMAIN HydratedAssets : HydratedAssets[j] = HydratedAssets[k] => j = k

\* A function of its domain.
IsMap(f) == f = [x \in DOMAIN f |-> f[x]]

\* A catalog lists each asset once, under its own id.
CatalogFits(catalog) ==
  /\ catalog.listOrder \in Seq(Assets)
  /\ \A j, k \in DOMAIN catalog.listOrder : catalog.listOrder[j] = catalog.listOrder[k] => j = k
  /\ {catalog.listOrder[j] : j \in DOMAIN catalog.listOrder} = DOMAIN catalog.byId
  /\ IsMap(catalog.byId)
  /\ \A id \in DOMAIN catalog.byId : catalog.byId[id].id = id

DeliveriesOf(tree) == ReadPrimitive(tree, "deliveries")

HasRecord(tree, nonce) == Read(tree, "addressRecords", OwnerNonceKey(nonce)) = {nonce}

\* A branch, what its writes meant, and the containers a stale write reached.
AssetsFit(tree, wanted, late) ==
  HydratedOnce =>
    /\ CatalogFits(AssetsCatalog(tree))
    /\ "assets" \notin late => AssetsCatalog(tree).byId = wanted.assets

DeliveriesFit(tree, wanted, late) ==
  /\ IsMap(DeliveriesOf(tree))
  /\ "deliveries" \notin late => DeliveriesOf(tree) = wanted.deliveries

DefaultsFit(tree, late) ==
  "defaultNonces" \notin late => \A o : \A n \in Read(tree, "defaultNonces", o) : HasRecord(tree, n)

BranchFits(tree, wanted, late) ==
  /\ DOMAIN wanted = {"assets", "deliveries"}
  /\ AssetsFit(tree, wanted, late) /\ DeliveriesFit(tree, wanted, late) /\ DefaultsFit(tree, late)

\* A suspended call that is not behind holds what the tree has, or left its mark there.
MergingFits(call, tree) ==
  /\ call.on = "assets"
  /\ \A asset \in call.asset : asset.id \in Assets
  /\ HydratedOnce => \A catalog \in call.catalog :
        CatalogFits(catalog) /\ (~call.behind => catalog = AssetsCatalog(tree))

MarkingFits(call, tree) ==
  /\ call.on = "deliveries"
  /\ ~call.behind => \A id \in call.delivery, delivery \in call.match :
        id \in DOMAIN DeliveriesOf(tree) /\ delivery = DeliveriesOf(tree)[id]

HydratingFits(call, tree) ==
  /\ call.on = "tree" /\ call.step \in 1..Len(HydrationWrites)
  /\ ~call.behind => \A j \in 1 .. call.step - 1 : \A n :
        HydrationWrites[j] = SaveRecord(n) => HasRecord(tree, n)

StoreCallFits(call, tree) ==
  /\ DOMAIN call = DOMAIN IdleStoreCall
  /\ call.at = "merging" => MergingFits(call, tree)
  /\ call.at = "marking" => MarkingFits(call, tree)
  /\ call.at = "hydrating" => HydratingFits(call, tree)

StoreInv ==
  /\ BranchFits(walletTree, ideal, lapped)
  /\ \A s \in saved : BranchFits(s.tree, s.ideal, s.lapped)
  /\ storeCalls = [c \in StoreCalls |-> storeCalls[c]]
  /\ \A c \in StoreCalls : StoreCallFits(storeCalls[c], walletTree)

---------------------------------------------------------------------------
\* Containers that a write leaves alone.

Same(tree, next, path) ==
  /\ path \in DOMAIN next <=> path \in DOMAIN tree
  /\ path \in DOMAIN tree => next[path] = tree[path]

RecordsKept(tree, next) == \A n : HasRecord(tree, n) => HasRecord(next, n)

LEMMA OneOperation ==
  ASSUME NEW tree, NEW next, NEW operation, next = ApplyWrite(tree, <<operation>>),
         \/ \E p, k, v : operation = RecordSet(p, k, v)
         \/ \E p, k : operation = RecordDelete(p, k)
         \/ \E p, v : operation = PrimitiveSet(p, v)
  PROVE  /\ next = ApplyOperation(tree, operation)
         /\ Paths(<<operation>>) = {operation.path}
         /\ \A q : q # operation.path => Same(tree, next, q)
<1>1. next = ApplyOperation(tree, operation)
  BY WriteOfOne
<1>2. Paths(<<operation>>) = {operation.path}
  BY DEF Paths
<1>3. ASSUME NEW p, NEW k, NEW v, operation = RecordSet(p, k, v)
      PROVE  \A q : q # operation.path => Same(tree, next, q)
  BY <1>1, <1>3 DEF ApplyOperation, RecordSet, EnsureRecord, Same
<1>4. ASSUME NEW p, NEW k, operation = RecordDelete(p, k)
      PROVE  \A q : q # operation.path => Same(tree, next, q)
  BY <1>1, <1>4 DEF ApplyOperation, RecordDelete, EnsureRecord, Same
<1>5. ASSUME NEW p, NEW v, operation = PrimitiveSet(p, v)
      PROVE  \A q : q # operation.path => Same(tree, next, q)
  BY <1>1, <1>5 DEF ApplyOperation, PrimitiveSet, EnsureRecord, Same
<1> QED  BY <1>1, <1>2, <1>3, <1>4, <1>5

LEMMA SameReads ==
  ASSUME NEW tree, NEW next
  PROVE  /\ \A q : Same(tree, next, q) => \A k : Read(next, q, k) = Read(tree, q, k)
         /\ Same(tree, next, "assets") => AssetsCatalog(next) = AssetsCatalog(tree)
         /\ Same(tree, next, "deliveries") => DeliveriesOf(next) = DeliveriesOf(tree)
         /\ Same(tree, next, "addressRecords") => RecordsKept(tree, next)
<1>1. \A q : Same(tree, next, q) => \A k : Read(next, q, k) = Read(tree, q, k)
  BY DEF Same, Read
<1>2. Same(tree, next, "assets") => AssetsCatalog(next) = AssetsCatalog(tree)
  BY DEF Same, AssetsCatalog
<1>3. Same(tree, next, "deliveries") => DeliveriesOf(next) = DeliveriesOf(tree)
  BY DEF Same, DeliveriesOf, ReadPrimitive
<1>4. Same(tree, next, "addressRecords") => RecordsKept(tree, next)
  BY <1>1 DEF RecordsKept, HasRecord
<1> QED  BY <1>1, <1>2, <1>3, <1>4

\* A part of a branch that no write reached still fits.
LEMMA PartsKept ==
  ASSUME NEW tree, NEW next, NEW wanted, NEW asked, NEW late, NEW later, late \subseteq later
  PROVE  /\ (AssetsFit(tree, wanted, late) /\ Same(tree, next, "assets") /\ asked.assets = wanted.assets)
              => AssetsFit(next, asked, later)
         /\ (/\ DeliveriesFit(tree, wanted, late) /\ Same(tree, next, "deliveries")
             /\ asked.deliveries = wanted.deliveries)
              => DeliveriesFit(next, asked, later)
         /\ (DefaultsFit(tree, late) /\ Same(tree, next, "defaultNonces") /\ RecordsKept(tree, next))
              => DefaultsFit(next, later)
<1>1. (AssetsFit(tree, wanted, late) /\ Same(tree, next, "assets") /\ asked.assets = wanted.assets)
        => AssetsFit(next, asked, later)
  BY SameReads DEF AssetsFit
<1>2. (/\ DeliveriesFit(tree, wanted, late) /\ Same(tree, next, "deliveries")
       /\ asked.deliveries = wanted.deliveries)
        => DeliveriesFit(next, asked, later)
  BY SameReads DEF DeliveriesFit
<1>3. (DefaultsFit(tree, late) /\ Same(tree, next, "defaultNonces") /\ RecordsKept(tree, next))
        => DefaultsFit(next, later)
  <2> SUFFICES ASSUME DefaultsFit(tree, late), Same(tree, next, "defaultNonces"),
                      RecordsKept(tree, next), "defaultNonces" \notin later,
                      NEW o, NEW n \in Read(next, "defaultNonces", o)
               PROVE  HasRecord(next, n)
    BY DEF DefaultsFit
  <2>1. n \in Read(tree, "defaultNonces", o)
    BY SameReads
  <2>2. HasRecord(tree, n)
    BY <2>1 DEF DefaultsFit
  <2> QED  BY <2>2 DEF RecordsKept
<1> QED  BY <1>1, <1>2, <1>3

\* What each service writes.
LEMMA SavedRecord ==
  ASSUME NEW tree, NEW next, NEW m, next = ApplyWrite(tree, SaveRecord(m))
  PROVE  /\ Paths(SaveRecord(m)) = {"addressRecords"}
         /\ \A q : q # "addressRecords" => Same(tree, next, q)
         /\ RecordsKept(tree, next) /\ HasRecord(next, m)
<1> DEFINE op == RecordSet("addressRecords", OwnerNonceKey(m), m)
<1>1. SaveRecord(m) = <<op>> /\ op.path = "addressRecords"
  BY DEF SaveRecord, RecordSet
<1>2. \E p, k, v : op = RecordSet(p, k, v)
  OBVIOUS
<1>3. \A q, k : Read(ApplyOperation(tree, op), q, k)
                  = IF q = "addressRecords" /\ k = OwnerNonceKey(m) THEN {m} ELSE Read(tree, q, k)
  BY ReadAfterSet
<1> HIDE DEF op
<1>4. /\ next = ApplyOperation(tree, op)
      /\ Paths(<<op>>) = {op.path}
      /\ \A q : q # op.path => Same(tree, next, q)
  BY <1>1, <1>2, OneOperation
<1>5. \A n : OwnerNonceKey(n) = OwnerNonceKey(m) => n = m
  BY DEF OwnerNonceKey
<1>6. RecordsKept(tree, next) /\ HasRecord(next, m)
  BY <1>3, <1>4, <1>5 DEF RecordsKept, HasRecord
<1> QED  BY <1>1, <1>4, <1>6

LEMMA WroteScalar ==
  ASSUME NEW tree, NEW next, NEW m, NEW operations,
         operations = SaveScalar(m) \/ operations = DeleteScalar(m),
         next = ApplyWrite(tree, operations)
  PROVE  /\ Paths(operations) = {"addressScalars"}
         /\ \A q : q # "addressScalars" => Same(tree, next, q)
<1>1. PICK op : /\ operations = <<op>> /\ op.path = "addressScalars"
                /\ \/ \E p, k, v : op = RecordSet(p, k, v)
                   \/ \E p, k : op = RecordDelete(p, k)
  BY DEF SaveScalar, DeleteScalar, RecordSet, RecordDelete
<1>2. /\ Paths(<<op>>) = {op.path}
      /\ \A q : q # op.path => Same(tree, next, q)
  BY <1>1, OneOperation
<1> QED  BY <1>1, <1>2

LEMMA WroteDefault ==
  ASSUME NEW tree, NEW next, NEW m, next = ApplyWrite(tree, SetDefaultNonce(m))
  PROVE  /\ Paths(SetDefaultNonce(m)) = {"defaultNonces"}
         /\ \A q : q # "defaultNonces" => Same(tree, next, q)
         /\ \A o : Read(next, "defaultNonces", o) \subseteq Read(tree, "defaultNonces", o) \cup {m}
<1> DEFINE key == <<Owner1>>
           op  == RecordSet("defaultNonces", key, m)
<1>1. SetDefaultNonce(m) = <<op>> /\ op.path = "defaultNonces"
  BY DEF SetDefaultNonce, RecordSet
<1> HIDE DEF key
<1>2. \E p, k, v : op = RecordSet(p, k, v)
  OBVIOUS
<1>3. \A q, k : Read(ApplyOperation(tree, op), q, k)
                  = IF q = "defaultNonces" /\ k = key THEN {m} ELSE Read(tree, q, k)
  BY ReadAfterSet
<1> HIDE DEF op
<1>4. /\ next = ApplyOperation(tree, op)
      /\ Paths(<<op>>) = {op.path}
      /\ \A q : q # op.path => Same(tree, next, q)
  BY <1>1, <1>2, OneOperation
<1> QED  BY <1>1, <1>3, <1>4

LEMMA WroteDelivery ==
  ASSUME NEW tree, NEW next, NEW id, NEW delivery, next = ApplyWrite(tree, UpsertDelivery(id, delivery))
  PROVE  /\ Paths(UpsertDelivery(id, delivery)) = {"deliveries"}
         /\ \A q : q # "deliveries" => Same(tree, next, q)
         /\ DeliveriesOf(next) = WithEntry(DeliveriesOf(tree), id, delivery)
<1> DEFINE op == RecordSet("deliveries", id, delivery)
<1>1. UpsertDelivery(id, delivery) = <<op>> /\ op.path = "deliveries"
  BY DEF UpsertDelivery, RecordSet
<1>2. \E p, k, v : op = RecordSet(p, k, v)
  OBVIOUS
<1>3. /\ DOMAIN ApplyOperation(tree, op) = DOMAIN tree \cup {"deliveries"}
      /\ ApplyOperation(tree, op)["deliveries"] = WithEntry(DeliveriesOf(tree), id, delivery)
  BY DEF ApplyOperation, RecordSet, EnsureRecord, DeliveriesOf, ReadPrimitive
<1> HIDE DEF op
<1>4. /\ next = ApplyOperation(tree, op)
      /\ Paths(<<op>>) = {op.path}
      /\ \A q : q # op.path => Same(tree, next, q)
  BY <1>1, <1>2, OneOperation
<1>5. DeliveriesOf(next) = next["deliveries"]
  BY <1>3, <1>4 DEF DeliveriesOf, ReadPrimitive
<1> QED  BY <1>1, <1>3, <1>4, <1>5

CatalogOf(list) == [byId |-> ById(list), listOrder |-> [j \in DOMAIN list |-> list[j].id]]

LEMMA WroteAssets ==
  ASSUME NEW tree, NEW next, NEW list, next = ApplyWrite(tree, ReplaceAssets(list))
  PROVE  /\ Paths(ReplaceAssets(list)) = {"assets"}
         /\ \A q : q # "assets" => Same(tree, next, q)
         /\ AssetsCatalog(next) = CatalogOf(list)
<1> DEFINE op == PrimitiveSet("assets", CatalogOf(list))
<1>1. ReplaceAssets(list) = <<op>> /\ op.path = "assets"
  BY DEF ReplaceAssets, PrimitiveSet, CatalogOf
<1>2. \E p, v : op = PrimitiveSet(p, v)
  OBVIOUS
<1>3. /\ DOMAIN ApplyOperation(tree, op) = DOMAIN tree \cup {"assets"}
      /\ ApplyOperation(tree, op)["assets"] = CatalogOf(list)
  BY DEF ApplyOperation, PrimitiveSet, EnsureRecord
<1> HIDE DEF op
<1>4. /\ next = ApplyOperation(tree, op)
      /\ Paths(<<op>>) = {op.path}
      /\ \A q : q # op.path => Same(tree, next, q)
  BY <1>1, <1>2, OneOperation
<1>5. AssetsCatalog(next) = next["assets"]
  BY <1>3, <1>4 DEF AssetsCatalog
<1> QED  BY <1>1, <1>3, <1>4, <1>5

---------------------------------------------------------------------------
\* The catalog that a list of assets makes.

LEMMA CatalogOfList ==
  ASSUME NEW n \in Nat, NEW list, DOMAIN list = 1..n,
         \A j \in 1..n : list[j].id \in Assets,
         \A j, k \in 1..n : list[j].id = list[k].id => j = k
  PROVE  /\ CatalogFits(CatalogOf(list))
         /\ \A id : id \in DOMAIN ById(list) <=> \E j \in 1..n : list[j].id = id
         /\ IsMap(ById(list))
         /\ \A j \in 1..n : ById(list)[list[j].id] = list[j]
<1> DEFINE ids   == {list[j].id : j \in 1..n}
           order == [j \in 1..n |-> list[j].id]
           byId  == ById(list)
<1>1. /\ DOMAIN byId = ids
      /\ IsMap(byId)
  BY DEF ById, IsMap
<1>2. \A j \in 1..n : byId[list[j].id] = list[j]
  <2> SUFFICES ASSUME NEW j \in 1..n
               PROVE  byId[list[j].id] = list[j]
    OBVIOUS
  <2> DEFINE id      == list[j].id
             Last(i) == /\ list[i].id = id
                        /\ \A k \in 1..n : list[k].id = id => k <= i
  <2>1. byId[id] = list[CHOOSE i \in 1..n : Last(i)]
    BY DEF ById
  <2>2. Last(j)
    OBVIOUS
  <2>3. \A i \in 1..n : Last(i) => i = j
    OBVIOUS
  <2> HIDE DEF Last
  <2>4. (CHOOSE i \in 1..n : Last(i)) = j
    BY <2>2, <2>3
  <2> QED  BY <2>1, <2>4
<1>3. order \in Seq(Assets) /\ DOMAIN order = 1..n
  OBVIOUS
<1>4. \A j \in 1..n : order[j] = list[j].id
  OBVIOUS
<1>5. CatalogOf(list).listOrder = order /\ CatalogOf(list).byId = byId
  BY DEF CatalogOf
<1> HIDE DEF order, byId, ids
<1>6. {order[j] : j \in 1..n} = DOMAIN byId
  BY <1>1, <1>4 DEF ids
<1>7. \A id \in DOMAIN byId : byId[id].id = id
  BY <1>1, <1>2 DEF ids
<1>8. CatalogFits(CatalogOf(list))
  BY <1>1, <1>3, <1>4, <1>5, <1>6, <1>7 DEF CatalogFits
<1> QED  BY <1>1, <1>2, <1>8 DEF ids, byId

\* upsertAssets keeps every asset of the catalog it read, and the new one once.
LEMMA MergedCatalog ==
  ASSUME NEW catalog, CatalogFits(catalog), NEW asset, asset.id \in Assets,
         NEW list, list = MergedAssets(catalog, asset)
  PROVE  /\ CatalogFits(CatalogOf(list))
         /\ ById(list) = WithEntry(catalog.byId, asset.id, asset)
<1> DEFINE old   == catalog.listOrder
           known == \E j \in DOMAIN old : old[j] = asset.id
           order == IF known THEN old ELSE Append(old, asset.id)
           byId  == catalog.byId
<1>1. /\ old \in Seq(Assets) /\ DOMAIN old = 1..Len(old) /\ Len(old) \in Nat
      /\ \A j, k \in DOMAIN old : old[j] = old[k] => j = k
      /\ {old[j] : j \in DOMAIN old} = DOMAIN byId
      /\ \A id \in DOMAIN byId : byId[id].id = id
  BY DEF CatalogFits
<1>2. list = [j \in DOMAIN order |-> IF order[j] = asset.id THEN asset ELSE byId[order[j]]]
  BY DEF MergedAssets
<1>3. \E n \in Nat : /\ DOMAIN order = 1..n
                     /\ \A j \in 1..n : order[j] \in Assets
                     /\ \A j, k \in 1..n : order[j] = order[k] => j = k
                     /\ \A id : (\E j \in 1..n : order[j] = id) <=> id \in DOMAIN byId \cup {asset.id}
  <2>1. CASE known
    <3>1. \A j \in 1..Len(old) : old[j] \in Assets
      BY <1>1
    <3>2. \A id : (\E j \in 1..Len(old) : old[j] = id) <=> id \in DOMAIN byId
      BY <1>1
    <3>3. asset.id \in DOMAIN byId
      BY <1>1, <2>1
    <3>4. order = old
      BY <2>1
    <3> HIDE DEF order, known, old, byId
    <3>5. \A id : (\E j \in 1..Len(old) : order[j] = id) <=> id \in DOMAIN byId \cup {asset.id}
      BY <3>2, <3>3, <3>4
    <3> QED  BY <1>1, <3>1, <3>4, <3>5
  <2>2. CASE ~known
    <3> DEFINE n == Len(old) + 1
    <3>1. /\ order = Append(old, asset.id) /\ n \in Nat /\ DOMAIN order = 1..n
          /\ \A j \in 1..Len(old) : order[j] = old[j]
          /\ order[n] = asset.id
      BY <1>1, <2>2
    <3> HIDE DEF order
    <3>2. \A j \in 1..n : j \in 1..Len(old) \/ j = n
      BY <1>1
    <3>3. \A j \in 1..n : order[j] \in Assets
      BY <1>1, <3>1, <3>2
    <3>4. \A j, k \in 1..n : order[j] = order[k] => j = k
      BY <1>1, <2>2, <3>1, <3>2
    <3>5. \A id : (\E j \in 1..n : order[j] = id) <=> id \in DOMAIN byId \cup {asset.id}
      <4> SUFFICES ASSUME NEW id
                   PROVE  (\E j \in 1..n : order[j] = id) <=> id \in DOMAIN byId \cup {asset.id}
        OBVIOUS
      <4>1. id \in DOMAIN byId <=> \E j \in 1..Len(old) : old[j] = id
        BY <1>1
      <4>2. n \in 1..n /\ \A j \in 1..Len(old) : j \in 1..n
        BY <1>1
      <4> QED  BY <3>1, <3>2, <4>1, <4>2
    <3> QED  BY <3>1, <3>3, <3>4, <3>5
  <2> QED  BY <2>1, <2>2
<1>4. PICK n \in Nat : /\ DOMAIN order = 1..n
                       /\ \A j \in 1..n : order[j] \in Assets
                       /\ \A j, k \in 1..n : order[j] = order[k] => j = k
                       /\ \A id : (\E j \in 1..n : order[j] = id)
                                    <=> id \in DOMAIN byId \cup {asset.id}
  BY <1>3
<1> HIDE DEF order, known, old, byId
<1>5. DOMAIN list = 1..n
  BY <1>2, <1>4
<1>6. \A j \in 1..n : /\ list[j] = IF order[j] = asset.id THEN asset ELSE byId[order[j]]
                      /\ list[j].id = order[j]
  BY <1>1, <1>2, <1>4
<1>7. /\ CatalogFits(CatalogOf(list))
      /\ \A id : id \in DOMAIN ById(list) <=> \E j \in 1..n : list[j].id = id
      /\ IsMap(ById(list))
      /\ \A j \in 1..n : ById(list)[list[j].id] = list[j]
  <2>1. /\ \A j \in 1..n : list[j].id \in Assets
        /\ \A j, k \in 1..n : list[j].id = list[k].id => j = k
    BY <1>4, <1>6
  <2> QED  BY <1>5, <2>1, CatalogOfList
<1> DEFINE with == WithEntry(byId, asset.id, asset)
<1>8. /\ DOMAIN with = DOMAIN byId \cup {asset.id}
      /\ \A id \in DOMAIN with : with[id] = IF id = asset.id THEN asset ELSE byId[id]
      /\ IsMap(with)
  BY DEF WithEntry, IsMap
<1> HIDE DEF with
<1>9. DOMAIN ById(list) = DOMAIN with
  <2>1. \A id : id \in DOMAIN ById(list) <=> \E j \in 1..n : order[j] = id
    BY <1>6, <1>7
  <2>2. \A id : id \in DOMAIN ById(list) <=> id \in DOMAIN with
    BY <1>4, <1>8, <2>1
  <2> QED  BY <2>2
<1>10. \A id \in DOMAIN with : ById(list)[id] = with[id]
  <2> SUFFICES ASSUME NEW id \in DOMAIN with
               PROVE  ById(list)[id] = with[id]
    OBVIOUS
  <2>1. PICK j \in 1..n : order[j] = id
    BY <1>4, <1>8
  <2> QED  BY <1>6, <1>7, <1>8, <2>1
<1>11. ById(list) = with
  BY <1>7, <1>8, <1>9, <1>10 DEF IsMap
<1> QED  BY <1>7, <1>11 DEF with, byId

---------------------------------------------------------------------------
\* Steps of the bridge.

LEMMA IdleStoreCallFits == \A tree : StoreCallFits(IdleStoreCall, tree)
BY DEF StoreCallFits, IdleStoreCall

\* A step that writes nothing.
LEMMA CallStepKeeps ==
  ASSUME StoreInv, NEW c \in StoreCalls, NEW new, StoreSteps(c, new),
         UNCHANGED <<walletTree, saved, historyVars>>, StoreCallFits(new, walletTree)
  PROVE  StoreInv'
<1>1. /\ storeCalls' = [storeCalls EXCEPT ![c] = new]
      /\ storeCalls'[c] = new
      /\ \A d \in StoreCalls : d # c => storeCalls'[d] = storeCalls[d]
      /\ UNCHANGED <<walletTree, saved, ideal, lapped>>
  BY DEF StoreSteps, StoreInv, historyVars
<1> QED  BY <1>1 DEF StoreInv

\* A step that writes one container: the calls that read it fall behind.
LEMMA BridgeStepKeeps ==
  ASSUME StoreInv, NEW c, NEW new, NEW operations, BridgeWrite(operations, c, new),
         NEW path, path # "tree", Paths(operations) = {path},
         \A q : q # path => Same(walletTree, walletTree', q),
         RecordsKept(walletTree, walletTree'),
         StoreCallFits(new, walletTree'),
         BranchFits(walletTree', ideal', lapped'), saved' = saved
  PROVE  StoreInv'
<1>1. /\ storeCalls' = [d \in StoreCalls |-> storeCalls'[d]]
      /\ \A d \in StoreCalls :
            storeCalls'[d] = IF d = c THEN new
                             ELSE [storeCalls[d] EXCEPT !.behind = @ \/ storeCalls[d].on = path]
  BY DEF BridgeWrite
<1>2. ASSUME NEW d \in StoreCalls
      PROVE  StoreCallFits(storeCalls'[d], walletTree')
  <2>1. CASE d = c  BY <1>1, <2>1
  <2>2. CASE d # c
    <3> DEFINE old == storeCalls[d]
               now == [old EXCEPT !.behind = @ \/ old.on = path]
    <3>1. storeCalls'[d] = now
      BY <1>1, <2>2
    <3>2. StoreCallFits(old, walletTree)
      BY DEF StoreInv
    <3>3. /\ DOMAIN now = DOMAIN IdleStoreCall
          /\ now.at = old.at /\ now.on = old.on /\ now.catalog = old.catalog
          /\ now.asset = old.asset /\ now.match = old.match /\ now.delivery = old.delivery
          /\ now.step = old.step
          /\ ~now.behind => ~old.behind /\ old.on # path
      BY <3>2 DEF StoreCallFits, IdleStoreCall
    <3> HIDE DEF now, old
    <3>4. old.at = "merging" => MergingFits(now, walletTree')
      <4>1. (old.at = "merging" /\ ~now.behind) => AssetsCatalog(walletTree') = AssetsCatalog(walletTree)
        BY <3>2, <3>3, SameReads DEF StoreCallFits, MergingFits
      <4> QED  BY <3>2, <3>3, <4>1 DEF StoreCallFits, MergingFits
    <3>5. old.at = "marking" => MarkingFits(now, walletTree')
      <4>1. (old.at = "marking" /\ ~now.behind) => DeliveriesOf(walletTree') = DeliveriesOf(walletTree)
        BY <3>2, <3>3, SameReads DEF StoreCallFits, MarkingFits
      <4> QED  BY <3>2, <3>3, <4>1 DEF StoreCallFits, MarkingFits
    <3>6. old.at = "hydrating" => HydratingFits(now, walletTree')
      BY <3>2, <3>3 DEF StoreCallFits, HydratingFits, RecordsKept
    <3> QED  BY <3>1, <3>3, <3>4, <3>5, <3>6 DEF StoreCallFits
  <2> QED  BY <2>1, <2>2
<1> QED  BY <1>1, <1>2 DEF StoreInv

---------------------------------------------------------------------------
\* The writes of a hydration, in their order.

\* The default nonce is written after the record of its address.
LEMMA HydrationSteps ==
  /\ Len(HydrationWrites) \in Nat \ {0}
  /\ \A i \in 1..Len(HydrationWrites) :
        \/ HydrationWrites[i] = ReplaceAssets(HydratedList)
        \/ \E m : HydrationWrites[i] = SaveRecord(m)
        \/ \E m : HydrationWrites[i] = SaveScalar(m)
        \/ \E m : /\ HydrationWrites[i] = SetDefaultNonce(m)
                  /\ \E j \in 1 .. i - 1 : HydrationWrites[j] = SaveRecord(m)
<1> DEFINE N    == HydratedNonces
           n    == Len(N)
           last == N[n]
           X    == {SaveRecord(m) : m \in Nonces} \cup {SaveScalar(m) : m \in Nonces}
                     \cup {SetDefaultNonce(last), ReplaceAssets(HydratedList)}
           A    == IF HydratedAssets = <<>> THEN <<>> ELSE <<ReplaceAssets(HydratedList)>>
           R    == [j \in DOMAIN N |-> SaveRecord(N[j])]
           S    == [j \in DOMAIN N |-> SaveScalar(N[j])]
           D    == <<SetDefaultNonce(last)>>
           RS   == R \o S
           B    == RS \o D
           H    == A \o B
           a    == Len(A)
<1>1. /\ N \in Seq(Nonces) /\ n \in Nat /\ n >= 1 /\ DOMAIN N = 1..n
      /\ \A j \in 1..n : N[j] \in Nonces
  <2>1. N \in Seq(Nonces) /\ N # <<>>
    BY StoreAssumption
  <2> QED  BY <2>1
<1>2. HydrationWrites = H
  BY DEF HydrationWrites, HydratedAddresses
<1>3. /\ A \in Seq(X) /\ a \in {0, 1} /\ \A i \in 1..a : A[i] = ReplaceAssets(HydratedList)
      /\ D \in Seq(X) /\ Len(D) = 1 /\ D[1] = SetDefaultNonce(last)
  <2>1. SetDefaultNonce(last) \in X /\ ReplaceAssets(HydratedList) \in X
    OBVIOUS
  <2> HIDE DEF X, last
  <2>2. D \in Seq(X) /\ Len(D) = 1 /\ D[1] = SetDefaultNonce(last)
    BY <2>1
  <2>3. CASE HydratedAssets = <<>>
    <3>1. A = <<>>  BY <2>3
    <3> HIDE DEF A
    <3> QED  BY <2>2, <3>1
  <2>4. CASE HydratedAssets # <<>>
    <3>1. A = <<ReplaceAssets(HydratedList)>>  BY <2>4
    <3> HIDE DEF A
    <3> QED  BY <2>1, <2>2, <3>1
  <2> QED  BY <2>3, <2>4
<1>4. /\ R \in Seq(X) /\ Len(R) = n /\ \A j \in 1..n : R[j] = SaveRecord(N[j])
      /\ S \in Seq(X) /\ Len(S) = n /\ \A j \in 1..n : S[j] = SaveScalar(N[j])
  BY <1>1
<1> HIDE DEF X, A, R, S, D, N, n, last
<1>5. /\ RS \in Seq(X) /\ Len(RS) = n + n
      /\ \A i \in 1 .. n + n : RS[i] = IF i <= n THEN R[i] ELSE S[i - n]
  <2>1. /\ RS \in Seq(X) /\ Len(RS) = Len(R) + Len(S)
        /\ \A i \in 1 .. Len(R) + Len(S) : RS[i] = IF i <= Len(R) THEN R[i] ELSE S[i - Len(R)]
    BY <1>4, ConcatProperties
  <2> QED  BY <1>4, <2>1
<1> HIDE DEF RS
<1>6. /\ B \in Seq(X) /\ Len(B) = n + n + 1
      /\ \A i \in 1 .. n + n + 1 : B[i] = IF i <= n + n THEN RS[i] ELSE D[i - (n + n)]
  <2>1. /\ B \in Seq(X) /\ Len(B) = Len(RS) + Len(D)
        /\ \A i \in 1 .. Len(RS) + Len(D) : B[i] = IF i <= Len(RS) THEN RS[i] ELSE D[i - Len(RS)]
    BY <1>3, <1>5, ConcatProperties
  <2> QED  BY <1>1, <1>3, <1>5, <2>1
<1> HIDE DEF B
<1>7. /\ H \in Seq(X) /\ Len(H) = a + (n + n + 1)
      /\ \A i \in 1 .. a + (n + n + 1) : H[i] = IF i <= a THEN A[i] ELSE B[i - a]
  <2>1. /\ H \in Seq(X) /\ Len(H) = Len(A) + Len(B)
        /\ \A i \in 1 .. Len(A) + Len(B) : H[i] = IF i <= Len(A) THEN A[i] ELSE B[i - Len(A)]
    BY <1>3, <1>6, ConcatProperties
  <2> QED  BY <1>1, <1>3, <1>6, <2>1
<1> HIDE DEF H, a
<1>8. a \in Nat
  BY <1>3
<1>9. \A k \in 1..n : a + k \in 1..Len(H) /\ H[a + k] = SaveRecord(N[k])
  <2> SUFFICES ASSUME NEW k \in 1..n
               PROVE  a + k \in 1..Len(H) /\ H[a + k] = SaveRecord(N[k])
    OBVIOUS
  <2>1. a + k \in 1 .. a + (n + n + 1) /\ ~(a + k <= a) /\ (a + k) - a = k
    BY <1>1, <1>8
  <2>2. H[a + k] = B[k]
    BY <1>7, <2>1
  <2>3. k \in 1 .. n + n + 1 /\ k <= n + n /\ k \in 1 .. n + n /\ k <= n
    BY <1>1
  <2>4. B[k] = R[k]
    BY <1>5, <1>6, <2>3
  <2> QED  BY <1>4, <1>7, <2>1, <2>2, <2>4
<1>10. ASSUME NEW i \in 1..Len(H)
       PROVE  \/ H[i] = ReplaceAssets(HydratedList)
              \/ \E m : H[i] = SaveRecord(m)
              \/ \E m : H[i] = SaveScalar(m)
              \/ \E m : H[i] = SetDefaultNonce(m) /\ \E j \in 1 .. i - 1 : H[j] = SaveRecord(m)
  <2>1. i \in 1 .. a + (n + n + 1)
    BY <1>7
  <2>2. CASE i <= a
    <3>1. i \in 1..a  BY <1>8, <2>1, <2>2
    <3> QED  BY <1>3, <1>7, <2>1, <2>2, <3>1
  <2>3. CASE ~(i <= a)
    <3> DEFINE k == i - a
    <3>1. k \in 1 .. n + n + 1 /\ H[i] = B[k] /\ i = a + k
      BY <1>1, <1>7, <1>8, <2>1, <2>3
    <3> HIDE DEF k
    <3>2. CASE k <= n
      <4>1. k \in 1..n  BY <1>1, <3>1, <3>2
      <4> QED  BY <1>9, <3>1, <4>1
    <3>3. CASE ~(k <= n) /\ k <= n + n
      <4>1. k \in 1 .. n + n /\ k - n \in 1..n  BY <1>1, <3>1, <3>3
      <4>2. B[k] = S[k - n]  BY <1>5, <1>6, <3>1, <3>3, <4>1
      <4>3. B[k] = SaveScalar(N[k - n])  BY <1>4, <4>1, <4>2
      <4> QED  BY <3>1, <4>3
    <3>4. CASE ~(k <= n + n)
      <4>1. k - (n + n) = 1 /\ k = n + n + 1  BY <1>1, <3>1, <3>4
      <4>2. B[k] = SetDefaultNonce(last)  BY <1>3, <1>6, <3>1, <3>4, <4>1
      <4>3. n \in 1..n /\ a + n \in 1 .. i - 1  BY <1>1, <1>8, <3>1, <4>1
      <4>4. H[a + n] = SaveRecord(last)  BY <1>9, <4>3 DEF last
      <4> QED  BY <3>1, <4>2, <4>3, <4>4
    <3> QED  BY <3>2, <3>3, <3>4
  <2> QED  BY <2>2, <2>3
<1>11. Len(H) \in Nat \ {0}
  BY <1>1, <1>7, <1>8
<1> QED  BY <1>2, <1>10, <1>11

---------------------------------------------------------------------------
\* The actions, one after another.

\* What every write of the bridge has in common.
LEMMA BridgeWriteIs ==
  ASSUME NEW operations, NEW c, NEW new, BridgeWrite(operations, c, new)
  PROVE  /\ walletTree' = ApplyWrite(walletTree, operations)
         /\ lapped \subseteq lapped'
         /\ (c \in StoreCalls /\ storeCalls[c].behind) => Paths(operations) \subseteq lapped'
BY DEF BridgeWrite

\* A hydration or a replacement by the host.
LEMMA ReplacementKeeps ==
  ASSUME StoreInv, NEW c, NEW new, NEW list, BridgeWrite(ReplaceAssets(list), c, new),
         HydratedOnce => CatalogFits(CatalogOf(list)), ideal' = IdealAssets(list),
         StoreCallFits(new, walletTree'), saved' = saved
  PROVE  StoreInv'
<1>1. /\ walletTree' = ApplyWrite(walletTree, ReplaceAssets(list)) /\ lapped \subseteq lapped'
  BY BridgeWriteIs
<1>2. /\ Paths(ReplaceAssets(list)) = {"assets"}
      /\ \A q : q # "assets" => Same(walletTree, walletTree', q)
      /\ AssetsCatalog(walletTree') = CatalogOf(list)
  BY <1>1, WroteAssets
<1>3. BranchFits(walletTree, ideal, lapped)
  BY DEF StoreInv
<1>4. /\ DOMAIN ideal' = {"assets", "deliveries"}
      /\ ideal'.assets = ById(list) /\ ideal'.deliveries = ideal.deliveries
  BY <1>3 DEF IdealAssets, BranchFits
<1>5. AssetsFit(walletTree', ideal', lapped')
  BY <1>2, <1>4 DEF AssetsFit, CatalogOf
<1>6. RecordsKept(walletTree, walletTree')
  BY <1>2, SameReads
<1>7. BranchFits(walletTree', ideal', lapped')
  BY <1>1, <1>2, <1>3, <1>4, <1>5, <1>6, PartsKept DEF BranchFits
<1> QED  BY <1>2, <1>6, <1>7, BridgeStepKeeps

LEMMA HostReplacesAssetsKeeps ==
  ASSUME StoreInv, HostReplacesAssets
  PROVE  StoreInv'
<1>1. PICK ids : /\ ids \in {<<>>} \cup {<<a>> : a \in Assets}
                 /\ LET list == [j \in DOMAIN ids |-> [id |-> ids[j], by |-> storeUse']]
                    IN /\ BridgeWrite(ReplaceAssets(list), "host", IdleStoreCall)
                       /\ ideal' = IdealAssets(list)
  BY DEF HostReplacesAssets
<1> DEFINE list == [j \in DOMAIN ids |-> [id |-> ids[j], by |-> storeUse']]
<1>2. PICK n \in {0, 1} : DOMAIN ids = 1..n /\ \A j \in 1..n : ids[j] \in Assets
  BY <1>1
<1>3. DOMAIN list = 1..n /\ \A j \in 1..n : list[j].id = ids[j]
  BY <1>2
<1>4. BridgeWrite(ReplaceAssets(list), "host", IdleStoreCall) /\ ideal' = IdealAssets(list)
  BY <1>1
<1> HIDE DEF list
<1>5. CatalogFits(CatalogOf(list))
  <2>1. n \in Nat /\ \A j \in 1..n : list[j].id \in Assets
    BY <1>2, <1>3
  <2>2. \A j, k \in 1..n : list[j].id = list[k].id => j = k
    BY <1>2
  <2> QED  BY <1>3, <2>1, <2>2, CatalogOfList
<1>6. saved' = saved
  BY DEF HostReplacesAssets
<1> QED  BY <1>4, <1>5, <1>6, IdleStoreCallFits, ReplacementKeeps

LEMMA UpsertAssetsKeeps ==
  ASSUME StoreInv, NEW c \in StoreCalls, NEW id \in Assets, UpsertAssets(c, id)
  PROVE  StoreInv'
<1> DEFINE catalog == AssetsCatalog(SeenTree)
           asset   == [id |-> id, by |-> storeUse']
           late    == ~adapter.bound
           new     == [IdleStoreCall EXCEPT !.at = "merging", !.on = "assets", !.catalog = {catalog},
                                            !.asset = {asset}, !.behind = late]
<1>1. StoreSteps(c, new) /\ UNCHANGED <<walletTree, saved, historyVars>>
  BY DEF UpsertAssets
<1>2. ASSUME HydratedOnce
      PROVE  CatalogFits(catalog) /\ (~late => catalog = AssetsCatalog(walletTree))
  <2>1. CatalogFits(AssetsCatalog(walletTree))
    BY <1>2 DEF StoreInv, BranchFits, AssetsFit
  <2>2. CASE adapter.bound
    BY <2>1, <2>2 DEF SeenTree
  <2>3. CASE ~adapter.bound
    <3>1. catalog = [byId |-> NoEntries, listOrder |-> <<>>]
      BY <2>3 DEF SeenTree, AssetsCatalog, EmptyTree
    <3>2. <<>> \in Seq(Assets) /\ DOMAIN <<>> = {} /\ DOMAIN NoEntries = {} /\ IsMap(NoEntries)
      BY DEF NoEntries, IsMap
    <3> QED  BY <2>3, <3>1, <3>2 DEF CatalogFits
  <2> QED  BY <2>2, <2>3
<1>3. asset.id \in Assets
  OBVIOUS
<1> HIDE DEF catalog, asset, late
<1>4. /\ DOMAIN new = DOMAIN IdleStoreCall /\ new.at = "merging" /\ new.on = "assets"
      /\ new.catalog = {catalog} /\ new.asset = {asset} /\ (new.behind <=> late)
  BY DEF IdleStoreCall, late
<1> HIDE DEF new
<1>5. StoreCallFits(new, walletTree)
  BY <1>2, <1>3, <1>4 DEF StoreCallFits, MergingFits
<1> QED  BY <1>1, <1>5, CallStepKeeps

LEMMA WriteAssetsKeeps ==
  ASSUME StoreInv, NEW c \in StoreCalls, WriteAssets(c)
  PROVE  StoreInv'
<1> DEFINE call == storeCalls[c]
<1>1. PICK catalog \in call.catalog, asset \in call.asset :
         /\ BridgeWrite(ReplaceAssets(MergedAssets(catalog, asset)), c, IdleStoreCall)
         /\ ideal' = [ideal EXCEPT !.assets = WithEntry(@, asset.id, asset)]
  BY DEF WriteAssets
<1>2. MergingFits(call, walletTree)
  BY DEF StoreInv, StoreCallFits, WriteAssets
<1> DEFINE list == MergedAssets(catalog, asset)
<1> HIDE DEF list
<1>3. ASSUME HydratedOnce
      PROVE  /\ CatalogFits(CatalogOf(list))
             /\ ById(list) = WithEntry(catalog.byId, asset.id, asset)
  BY <1>2, <1>3, MergedCatalog DEF MergingFits, list
<1>4. /\ walletTree' = ApplyWrite(walletTree, ReplaceAssets(list)) /\ lapped \subseteq lapped'
      /\ call.behind => Paths(ReplaceAssets(list)) \subseteq lapped'
  BY <1>1, BridgeWriteIs DEF list
<1>5. /\ Paths(ReplaceAssets(list)) = {"assets"}
      /\ \A q : q # "assets" => Same(walletTree, walletTree', q)
      /\ AssetsCatalog(walletTree') = CatalogOf(list)
  BY <1>4, WroteAssets
<1>6. BranchFits(walletTree, ideal, lapped)
  BY DEF StoreInv
<1>7. /\ DOMAIN ideal' = {"assets", "deliveries"}
      /\ ideal'.assets = WithEntry(ideal.assets, asset.id, asset)
      /\ ideal'.deliveries = ideal.deliveries
  BY <1>1, <1>6 DEF BranchFits
<1>8. AssetsFit(walletTree', ideal', lapped')
  <2>1. HydratedOnce /\ "assets" \notin lapped' => catalog.byId = ideal.assets
    BY <1>2, <1>4, <1>5, <1>6 DEF MergingFits, BranchFits, AssetsFit
  <2>2. CatalogOf(list).byId = ById(list)
    BY DEF CatalogOf
  <2> QED  BY <1>3, <1>5, <1>7, <2>1, <2>2 DEF AssetsFit
<1>9. RecordsKept(walletTree, walletTree')
  BY <1>5, SameReads
<1>10. BranchFits(walletTree', ideal', lapped')
  BY <1>4, <1>5, <1>6, <1>7, <1>8, <1>9, PartsKept DEF BranchFits
<1>11. BridgeWrite(ReplaceAssets(list), c, IdleStoreCall) /\ saved' = saved
  BY <1>1 DEF WriteAssets, list
<1> QED  BY <1>5, <1>9, <1>10, <1>11, IdleStoreCallFits, BridgeStepKeeps

\* A delivery is written, by the host or by a mark.
LEMMA DeliveryWriteKeeps ==
  ASSUME StoreInv, NEW c, NEW id, NEW delivery,
         BridgeWrite(UpsertDelivery(id, delivery), c, IdleStoreCall), saved' = saved,
         DOMAIN ideal' = {"assets", "deliveries"}, ideal'.assets = ideal.assets,
         "deliveries" \notin lapped'
           => ideal'.deliveries = WithEntry(DeliveriesOf(walletTree), id, delivery)
  PROVE  StoreInv'
<1> DEFINE operations == UpsertDelivery(id, delivery)
<1>1. walletTree' = ApplyWrite(walletTree, operations) /\ lapped \subseteq lapped'
  BY BridgeWriteIs
<1>2. /\ Paths(operations) = {"deliveries"}
      /\ \A q : q # "deliveries" => Same(walletTree, walletTree', q)
      /\ DeliveriesOf(walletTree') = WithEntry(DeliveriesOf(walletTree), id, delivery)
  BY <1>1, WroteDelivery
<1>3. BranchFits(walletTree, ideal, lapped)
  BY DEF StoreInv
<1>4. DeliveriesFit(walletTree', ideal', lapped')
  <2>1. \A f, k, v : IsMap(WithEntry(f, k, v))
    BY DEF IsMap, WithEntry
  <2> QED  BY <1>2, <2>1 DEF DeliveriesFit
<1>5. RecordsKept(walletTree, walletTree')
  BY <1>2, SameReads
<1>6. BranchFits(walletTree', ideal', lapped')
  BY <1>1, <1>2, <1>3, <1>4, <1>5, PartsKept DEF BranchFits
<1> HIDE DEF operations
<1>7. BridgeWrite(operations, c, IdleStoreCall)
  BY DEF operations
<1> QED  BY <1>2, <1>5, <1>6, <1>7, IdleStoreCallFits, BridgeStepKeeps

LEMMA HostUpsertsDeliveryKeeps ==
  ASSUME StoreInv, NEW id, HostUpsertsDelivery(id)
  PROVE  StoreInv'
<1> DEFINE delivery == [processed |-> FALSE, by |-> storeUse']
<1>1. /\ BridgeWrite(UpsertDelivery(id, delivery), "host", IdleStoreCall) /\ saved' = saved
      /\ ideal' = [ideal EXCEPT !.deliveries = WithEntry(@, id, delivery)]
  BY DEF HostUpsertsDelivery
<1> HIDE DEF delivery
<1>2. BranchFits(walletTree, ideal, lapped) /\ lapped \subseteq lapped'
  BY <1>1, BridgeWriteIs DEF StoreInv
<1>3. /\ DOMAIN ideal' = {"assets", "deliveries"} /\ ideal'.assets = ideal.assets
      /\ ideal'.deliveries = WithEntry(ideal.deliveries, id, delivery)
  BY <1>1, <1>2 DEF BranchFits
<1>4. "deliveries" \notin lapped' => ideal.deliveries = DeliveriesOf(walletTree)
  BY <1>2 DEF BranchFits, DeliveriesFit
<1> QED  BY <1>1, <1>3, <1>4, DeliveryWriteKeeps

LEMMA MarkDeliveryProcessedKeeps ==
  ASSUME StoreInv, NEW c \in StoreCalls, NEW id, MarkDeliveryProcessed(c, id)
  PROVE  StoreInv'
<1> DEFINE seen  == ReadPrimitive(SeenTree, "deliveries")
           match == ReadRecord([deliveries |-> seen], "deliveries", id)
           new   == [IdleStoreCall EXCEPT !.at = "marking", !.on = "deliveries",
                                          !.match = match, !.delivery = {id}]
<1>1. /\ StoreSteps(c, IdleStoreCall) \/ (match # {} /\ StoreSteps(c, new))
      /\ UNCHANGED <<walletTree, saved, historyVars>>
  BY DEF MarkDeliveryProcessed
<1>2. match = IF id \in DOMAIN seen THEN {seen[id]} ELSE {}
  BY DEF ReadRecord
<1>3. match # {} => seen = DeliveriesOf(walletTree)
  <2>1. CASE adapter.bound
    BY <2>1 DEF SeenTree, DeliveriesOf
  <2>2. CASE ~adapter.bound
    <3>1. DOMAIN seen = {}
      BY <2>2 DEF SeenTree, ReadPrimitive, EmptyTree, NoEntries
    <3> QED  BY <1>2, <3>1
  <2> QED  BY <2>1, <2>2
<1> HIDE DEF seen, match
<1>4. /\ DOMAIN new = DOMAIN IdleStoreCall /\ new.at = "marking" /\ new.on = "deliveries"
      /\ new.match = match /\ new.delivery = {id}
  BY DEF IdleStoreCall
<1> HIDE DEF new
<1>5. match # {} => StoreCallFits(new, walletTree)
  BY <1>2, <1>3, <1>4 DEF StoreCallFits, MarkingFits
<1> QED  BY <1>1, <1>5, IdleStoreCallFits, CallStepKeeps

LEMMA WriteProcessedKeeps ==
  ASSUME StoreInv, NEW c \in StoreCalls, WriteProcessed(c)
  PROVE  StoreInv'
<1> DEFINE call == storeCalls[c]
<1>1. PICK read \in call.match, id \in call.delivery :
         /\ BridgeWrite(UpsertDelivery(id, [read EXCEPT !.processed = TRUE]), c, IdleStoreCall)
         /\ ideal' = [ideal EXCEPT !.deliveries =
                         IF id \in DOMAIN @ THEN [@ EXCEPT ![id].processed = TRUE] ELSE @]
  BY DEF WriteProcessed
<1> DEFINE delivery == [read EXCEPT !.processed = TRUE]
           old      == ideal.deliveries
           marked   == IF id \in DOMAIN old THEN [old EXCEPT ![id].processed = TRUE] ELSE old
<1>2. MarkingFits(call, walletTree)
  BY DEF StoreInv, StoreCallFits, WriteProcessed
<1>3. /\ BranchFits(walletTree, ideal, lapped) /\ lapped \subseteq lapped'
      /\ call.behind => "deliveries" \in lapped'
  <2> HIDE DEF delivery
  <2>1. /\ lapped \subseteq lapped'
        /\ call.behind => Paths(UpsertDelivery(id, delivery)) \subseteq lapped'
    BY <1>1, BridgeWriteIs DEF delivery
  <2>2. Paths(UpsertDelivery(id, delivery)) = {"deliveries"}
    BY WroteDelivery
  <2> QED  BY <2>1, <2>2 DEF StoreInv
<1>4. /\ DOMAIN ideal' = {"assets", "deliveries"} /\ ideal'.assets = ideal.assets
      /\ ideal'.deliveries = marked
  BY <1>1, <1>3 DEF BranchFits
<1>5. "deliveries" \notin lapped' => marked = WithEntry(DeliveriesOf(walletTree), id, delivery)
  <2> SUFFICES ASSUME "deliveries" \notin lapped'
               PROVE  marked = WithEntry(DeliveriesOf(walletTree), id, delivery)
    OBVIOUS
  <2>1. old = DeliveriesOf(walletTree) /\ IsMap(old)
    BY <1>3 DEF BranchFits, DeliveriesFit
  <2>2. id \in DOMAIN old /\ read = old[id]
    BY <1>2, <1>3, <2>1 DEF MarkingFits
  <2>3. marked = [old EXCEPT ![id] = delivery]
    BY <2>2
  <2> HIDE DEF marked, old, delivery
  <2>4. [old EXCEPT ![id] = delivery] = WithEntry(old, id, delivery)
    BY <2>1, <2>2 DEF WithEntry, IsMap
  <2> QED  BY <2>1, <2>3, <2>4
<1>6. saved' = saved
  BY DEF WriteProcessed
<1> HIDE DEF marked, delivery
<1>7. BridgeWrite(UpsertDelivery(id, delivery), c, IdleStoreCall)
  BY <1>1 DEF delivery
<1> QED  BY <1>4, <1>5, <1>6, <1>7, DeliveryWriteKeeps

\* A record is saved, a scalar is saved or deleted, a default is set, by the host
\* or by a hydration.
LEMMA RecordWriteKeeps ==
  ASSUME StoreInv, NEW c, NEW new, NEW m, BridgeWrite(SaveRecord(m), c, new),
         UNCHANGED <<saved, ideal>>, StoreCallFits(new, walletTree')
  PROVE  StoreInv'
<1>1. walletTree' = ApplyWrite(walletTree, SaveRecord(m)) /\ lapped \subseteq lapped'
  BY BridgeWriteIs
<1>2. /\ Paths(SaveRecord(m)) = {"addressRecords"}
      /\ \A q : q # "addressRecords" => Same(walletTree, walletTree', q)
      /\ RecordsKept(walletTree, walletTree')
  BY <1>1, SavedRecord
<1>3. BranchFits(walletTree', ideal', lapped')
  BY <1>1, <1>2, PartsKept DEF StoreInv, BranchFits
<1> QED  BY <1>2, <1>3, BridgeStepKeeps

LEMMA ScalarWriteKeeps ==
  ASSUME StoreInv, NEW c, NEW new, NEW m, NEW operations, BridgeWrite(operations, c, new),
         operations = SaveScalar(m) \/ operations = DeleteScalar(m),
         UNCHANGED <<saved, ideal>>, StoreCallFits(new, walletTree')
  PROVE  StoreInv'
<1>1. walletTree' = ApplyWrite(walletTree, operations) /\ lapped \subseteq lapped'
  BY BridgeWriteIs
<1>2. /\ Paths(operations) = {"addressScalars"}
      /\ \A q : q # "addressScalars" => Same(walletTree, walletTree', q)
  BY <1>1, WroteScalar
<1>3. RecordsKept(walletTree, walletTree')
  BY <1>2, SameReads
<1>4. BranchFits(walletTree', ideal', lapped')
  BY <1>1, <1>2, <1>3, PartsKept DEF StoreInv, BranchFits
<1> QED  BY <1>2, <1>3, <1>4, BridgeStepKeeps

LEMMA DefaultWriteKeeps ==
  ASSUME StoreInv, NEW c, NEW new, NEW m, BridgeWrite(SetDefaultNonce(m), c, new),
         UNCHANGED <<saved, ideal>>, StoreCallFits(new, walletTree'),
         "defaultNonces" \notin lapped' => HasRecord(walletTree, m)
  PROVE  StoreInv'
<1>1. walletTree' = ApplyWrite(walletTree, SetDefaultNonce(m)) /\ lapped \subseteq lapped'
  BY BridgeWriteIs
<1>2. /\ Paths(SetDefaultNonce(m)) = {"defaultNonces"}
      /\ \A q : q # "defaultNonces" => Same(walletTree, walletTree', q)
      /\ \A o : Read(walletTree', "defaultNonces", o)
                  \subseteq Read(walletTree, "defaultNonces", o) \cup {m}
  BY <1>1, WroteDefault
<1>3. RecordsKept(walletTree, walletTree')
  BY <1>2, SameReads
<1>4. BranchFits(walletTree, ideal, lapped)
  BY DEF StoreInv
<1>5. DefaultsFit(walletTree', lapped')
  <2> SUFFICES ASSUME "defaultNonces" \notin lapped',
                      NEW o, NEW n \in Read(walletTree', "defaultNonces", o)
               PROVE  HasRecord(walletTree', n)
    BY DEF DefaultsFit
  <2>1. HasRecord(walletTree, n)
    BY <1>1, <1>2, <1>4 DEF BranchFits, DefaultsFit
  <2> QED  BY <1>3, <2>1 DEF RecordsKept
<1>6. BranchFits(walletTree', ideal', lapped')
  BY <1>1, <1>2, <1>4, <1>5, PartsKept DEF BranchFits
<1> QED  BY <1>2, <1>3, <1>6, BridgeStepKeeps

LEMMA HostWritesAddressKeeps ==
  ASSUME StoreInv, NEW nonce \in Nonces, HostWritesAddress(nonce)
  PROVE  StoreInv'
<1>1. PICK operations :
         /\ operations \in {SaveRecord(nonce), SaveScalar(nonce), DeleteScalar(nonce)}
                           \cup {SetDefaultNonce(n) : n \in {nonce} \cap Records(SeenTree, nonce)}
         /\ BridgeWrite(operations, "host", IdleStoreCall)
  BY DEF HostWritesAddress
<1>2. UNCHANGED <<saved, ideal>> /\ StoreCallFits(IdleStoreCall, walletTree')
  BY IdleStoreCallFits DEF HostWritesAddress
<1>3. CASE operations = SaveRecord(nonce)
  BY <1>1, <1>2, <1>3, RecordWriteKeeps
<1>4. CASE operations = SaveScalar(nonce) \/ operations = DeleteScalar(nonce)
  BY <1>1, <1>2, <1>4, ScalarWriteKeeps
<1>5. CASE operations = SetDefaultNonce(nonce) /\ nonce \in Records(SeenTree, nonce)
  <2>1. SeenTree = walletTree
    BY <1>1 DEF BridgeWrite, SeenTree
  <2>2. nonce # "throws"
    BY StoreAssumption
  <2>3. HasRecord(walletTree, nonce)
    BY <1>5, <2>1, <2>2 DEF Records, ReadThrows, ReadRecord, HasRecord, Read
  <2> QED  BY <1>1, <1>2, <1>5, <2>3, DefaultWriteKeeps
<1> QED  BY <1>1, <1>3, <1>4, <1>5

---------------------------------------------------------------------------
\* The hydration.

LEMMA HydratedCatalogFits ==
  ASSUME HydratedOnce
  PROVE  CatalogFits(CatalogOf(HydratedList))
<1> DEFINE n == Len(HydratedAssets)
<1>1. /\ n \in Nat /\ DOMAIN HydratedAssets = 1..n
      /\ \A j \in 1..n : HydratedAssets[j] \in Assets
  BY StoreAssumption
<1>2. DOMAIN HydratedList = 1..n /\ \A j \in 1..n : HydratedList[j].id = HydratedAssets[j]
  BY <1>1 DEF HydratedList
<1> HIDE DEF n
<1>3. \A j, k \in 1..n : HydratedList[j].id = HydratedList[k].id => j = k
  BY <1>1, <1>2 DEF HydratedOnce
<1>4. \A j \in 1..n : HydratedList[j].id \in Assets
  BY <1>1, <1>2
<1> QED  BY <1>1, <1>2, <1>3, <1>4, CatalogOfList

LEMMA HydrateKeeps ==
  ASSUME StoreInv, NEW c \in StoreCalls, Hydrate(c)
  PROVE  StoreInv'
<1> DEFINE new == [IdleStoreCall EXCEPT !.at = "hydrating", !.on = "tree", !.step = 1]
<1>1. StoreSteps(c, new) /\ UNCHANGED <<walletTree, saved, historyVars>>
  BY DEF Hydrate
<1>2. /\ DOMAIN new = DOMAIN IdleStoreCall /\ new.at = "hydrating" /\ new.on = "tree"
      /\ new.step = 1
  BY DEF IdleStoreCall
<1> HIDE DEF new
<1>3. 1 \in 1..Len(HydrationWrites)
  BY HydrationSteps
<1>4. StoreCallFits(new, walletTree)
  BY <1>2, <1>3 DEF StoreCallFits, HydratingFits
<1> QED  BY <1>1, <1>4, CallStepKeeps

\* After a write of a hydration the call has left the marks of its steps so far.
LEMMA HydratingStepFits ==
  ASSUME NEW call, NEW tree, NEW next, call.at = "hydrating", StoreCallFits(call, tree),
         next = ApplyWrite(tree, HydrationWrites[call.step]), RecordsKept(tree, next),
         NEW new, new = IF call.step = Len(HydrationWrites) THEN IdleStoreCall
                        ELSE [call EXCEPT !.step = @ + 1]
  PROVE  StoreCallFits(new, next)
<1>1. CASE call.step = Len(HydrationWrites)
  BY <1>1, IdleStoreCallFits
<1>2. CASE call.step # Len(HydrationWrites)
  <2>1. new = [call EXCEPT !.step = @ + 1]
    BY <1>2
  <2>2. /\ DOMAIN new = DOMAIN IdleStoreCall /\ new.at = "hydrating" /\ new.on = call.on
        /\ new.step = call.step + 1 /\ (new.behind <=> call.behind)
    BY <2>1 DEF StoreCallFits, IdleStoreCall
  <2>3. HydratingFits(call, tree) /\ Len(HydrationWrites) \in Nat
    BY HydrationSteps DEF StoreCallFits
  <2>4. call.step \in Nat /\ new.step \in 1..Len(HydrationWrites)
    BY <1>2, <2>2, <2>3 DEF HydratingFits
  <2>5. ASSUME ~call.behind, NEW j \in 1 .. new.step - 1, NEW n, HydrationWrites[j] = SaveRecord(n)
        PROVE  HasRecord(next, n)
    <3>1. j \in 1 .. call.step - 1 \/ j = call.step
      BY <2>2, <2>4
    <3>2. CASE j \in 1 .. call.step - 1
      BY <2>3, <2>5, <3>2 DEF HydratingFits, RecordsKept
    <3>3. CASE j = call.step
      BY <2>5, <3>3, SavedRecord
    <3> QED  BY <3>1, <3>2, <3>3
  <2>6. HydratingFits(new, next)
    BY <2>2, <2>3, <2>4, <2>5 DEF HydratingFits
  <2> QED  BY <2>2, <2>6 DEF StoreCallFits
<1> QED  BY <1>1, <1>2

LEMMA HydrateNextKeeps ==
  ASSUME StoreInv, NEW c \in StoreCalls, HydrateNext(c)
  PROVE  StoreInv'
<1> DEFINE call       == storeCalls[c]
           operations == HydrationWrites[call.step]
           new        == IF call.step = Len(HydrationWrites) THEN IdleStoreCall
                         ELSE [call EXCEPT !.step = @ + 1]
<1>1. /\ call.at = "hydrating" /\ BridgeWrite(operations, c, new) /\ saved' = saved
      /\ ideal' = IF "assets" \in Paths(operations) THEN IdealAssets(HydratedList) ELSE ideal
  BY DEF HydrateNext
<1>2. StoreCallFits(call, walletTree) /\ HydratingFits(call, walletTree)
  BY <1>1 DEF StoreInv, StoreCallFits
<1> HIDE DEF new
<1>3. /\ walletTree' = ApplyWrite(walletTree, operations) /\ lapped \subseteq lapped'
      /\ call.behind => Paths(operations) \subseteq lapped'
  BY <1>1, BridgeWriteIs
<1>4. RecordsKept(walletTree, walletTree') => StoreCallFits(new, walletTree')
  BY <1>1, <1>2, <1>3, HydratingStepFits DEF new
<1>5. \/ operations = ReplaceAssets(HydratedList)
      \/ \E m : operations = SaveRecord(m)
      \/ \E m : operations = SaveScalar(m)
      \/ \E m : /\ operations = SetDefaultNonce(m)
                /\ \E j \in 1 .. call.step - 1 : HydrationWrites[j] = SaveRecord(m)
  BY <1>2, HydrationSteps DEF HydratingFits
<1> HIDE DEF operations
<1>6. CASE operations = ReplaceAssets(HydratedList)
  <2>1. /\ Paths(operations) = {"assets"}
        /\ \A q : q # "assets" => Same(walletTree, walletTree', q)
    BY <1>3, <1>6, WroteAssets
  <2>2. StoreCallFits(new, walletTree')
    BY <1>4, <2>1, SameReads
  <2>3. ideal' = IdealAssets(HydratedList)
    BY <1>1, <2>1
  <2> QED  BY <1>1, <1>6, <2>2, <2>3, HydratedCatalogFits, ReplacementKeeps
<1>7. ASSUME NEW m, operations = SaveRecord(m)
      PROVE  StoreInv'
  <2>1. Paths(operations) = {"addressRecords"} /\ RecordsKept(walletTree, walletTree')
    BY <1>3, <1>7, SavedRecord
  <2>2. StoreCallFits(new, walletTree') /\ ideal' = ideal
    BY <1>1, <1>4, <2>1
  <2> QED  BY <1>1, <1>7, <2>2, RecordWriteKeeps
<1>8. ASSUME NEW m, operations = SaveScalar(m)
      PROVE  StoreInv'
  <2>1. /\ Paths(operations) = {"addressScalars"}
        /\ \A q : q # "addressScalars" => Same(walletTree, walletTree', q)
    BY <1>3, <1>8, WroteScalar
  <2>2. StoreCallFits(new, walletTree') /\ ideal' = ideal
    BY <1>1, <1>4, <2>1, SameReads
  <2> QED  BY <1>1, <1>8, <2>2, ScalarWriteKeeps
<1>9. ASSUME NEW m, operations = SetDefaultNonce(m),
             NEW j \in 1 .. call.step - 1, HydrationWrites[j] = SaveRecord(m)
      PROVE  StoreInv'
  <2>1. /\ Paths(operations) = {"defaultNonces"}
        /\ \A q : q # "defaultNonces" => Same(walletTree, walletTree', q)
    BY <1>3, <1>9, WroteDefault
  <2>2. StoreCallFits(new, walletTree') /\ ideal' = ideal
    BY <1>1, <1>4, <2>1, SameReads
  <2>3. "defaultNonces" \notin lapped' => HasRecord(walletTree, m)
    BY <1>2, <1>3, <1>9, <2>1 DEF HydratingFits
  <2> QED  BY <1>1, <1>9, <2>2, <2>3, DefaultWriteKeeps
<1> QED  BY <1>5, <1>6, <1>7, <1>8, <1>9

---------------------------------------------------------------------------
\* The adapters.

LEMMA EmptyBranchFits ==
  BranchFits(EmptyTree, [assets |-> NoEntries, deliveries |-> NoEntries], {})
<1> DEFINE wanted == [assets |-> NoEntries, deliveries |-> NoEntries]
<1>1. /\ DOMAIN wanted = {"assets", "deliveries"}
      /\ wanted.assets = NoEntries /\ wanted.deliveries = NoEntries
  OBVIOUS
<1> HIDE DEF wanted
<1>2. DOMAIN NoEntries = {} /\ IsMap(NoEntries)
  BY DEF NoEntries, IsMap
<1>3. AssetsCatalog(EmptyTree) = [byId |-> NoEntries, listOrder |-> <<>>]
  BY DEF AssetsCatalog, EmptyTree
<1>4. AssetsCatalog(EmptyTree).byId = NoEntries /\ AssetsCatalog(EmptyTree).listOrder = <<>>
  BY <1>3
<1>5. <<>> \in Seq(Assets) /\ DOMAIN <<>> = {}
  OBVIOUS
<1>6. CatalogFits(AssetsCatalog(EmptyTree))
  BY <1>2, <1>4, <1>5 DEF CatalogFits
<1>7. DeliveriesOf(EmptyTree) = NoEntries
  BY DEF DeliveriesOf, ReadPrimitive, EmptyTree
<1>8. \A o : Read(EmptyTree, "defaultNonces", o) = {}
  BY DEF Read, EmptyTree
<1> QED  BY <1>1, <1>2, <1>4, <1>6, <1>7, <1>8 DEF BranchFits, AssetsFit, DeliveriesFit, DefaultsFit

LEMMA PersistKeeps ==
  ASSUME StoreInv, Persist
  PROVE  StoreInv'
<1> DEFINE branch == [tree |-> walletTree, ideal |-> ideal, lapped |-> lapped]
<1>1. saved' = {branch} /\ UNCHANGED <<walletTree, storeCalls, ideal, lapped>>
  BY DEF Persist, historyVars
<1>2. branch.tree = walletTree /\ branch.ideal = ideal /\ branch.lapped = lapped
  OBVIOUS
<1> HIDE DEF branch
<1> QED  BY <1>1, <1>2 DEF StoreInv

LEMMA RestartKeeps ==
  ASSUME StoreInv, Restart
  PROVE  StoreInv'
<1>1. /\ walletTree' = EmptyTree /\ lapped' = {} /\ saved' = saved
      /\ ideal' = [assets |-> NoEntries, deliveries |-> NoEntries]
      /\ storeCalls' = [c \in StoreCalls |-> IdleStoreCall]
  BY DEF Restart
<1>2. /\ storeCalls' = [c \in StoreCalls |-> storeCalls'[c]]
      /\ \A c \in StoreCalls : storeCalls'[c] = IdleStoreCall
  BY <1>1
<1> QED  BY <1>1, <1>2, EmptyBranchFits, IdleStoreCallFits DEF StoreInv

\* A call that is behind fits any tree.
LEMMA BehindFits ==
  ASSUME NEW call, NEW new, NEW tree, NEW next, StoreCallFits(call, tree),
         DOMAIN new = DOMAIN call, \A f \in DOMAIN call \ {"behind"} : new[f] = call[f],
         call.on # "none" => new.behind
  PROVE  StoreCallFits(new, next)
<1>1. DOMAIN call = {"at", "on", "behind", "catalog", "asset", "match", "delivery", "step"}
  BY DEF StoreCallFits, IdleStoreCall
<1>2. /\ new.at = call.at /\ new.on = call.on /\ new.catalog = call.catalog
      /\ new.asset = call.asset /\ new.step = call.step
  BY <1>1
<1>3. new.at = "merging" => MergingFits(new, next)
  BY <1>2 DEF StoreCallFits, MergingFits
<1>4. new.at = "marking" => MarkingFits(new, next)
  BY <1>2 DEF StoreCallFits, MarkingFits
<1>5. new.at = "hydrating" => HydratingFits(new, next)
  BY <1>2 DEF StoreCallFits, HydratingFits
<1> QED  BY <1>3, <1>4, <1>5 DEF StoreCallFits

LEMMA HydrateBranchKeeps ==
  ASSUME StoreInv, HydrateBranch
  PROVE  StoreInv'
<1>1. PICK s \in saved : walletTree' = s.tree /\ ideal' = s.ideal /\ lapped' = s.lapped
  BY DEF HydrateBranch
<1>2. storeCalls' = AllBehind /\ saved' = saved
  BY DEF HydrateBranch
<1>3. storeCalls' = [c \in StoreCalls |-> storeCalls'[c]]
  BY <1>2 DEF AllBehind
<1>4. ASSUME NEW c \in StoreCalls
      PROVE  StoreCallFits(storeCalls'[c], walletTree')
  <2> DEFINE call == storeCalls[c]
             late == call.on # "none"
             new  == [call EXCEPT !.behind = late]
  <2>1. storeCalls'[c] = new
    BY <1>2 DEF AllBehind
  <2>2. StoreCallFits(call, walletTree)
    BY DEF StoreInv
  <2>3. "behind" \in DOMAIN call
    BY <2>2 DEF StoreCallFits, IdleStoreCall
  <2> HIDE DEF late
  <2>4. /\ DOMAIN new = DOMAIN call /\ (new.behind <=> late)
        /\ \A f \in DOMAIN call \ {"behind"} : new[f] = call[f]
    BY <2>3
  <2>5. call.on # "none" => new.behind
    BY <2>4 DEF late
  <2> HIDE DEF new, call
  <2> QED  BY <2>1, <2>2, <2>4, <2>5, BehindFits
<1> QED  BY <1>1, <1>2, <1>3, <1>4 DEF StoreInv

---------------------------------------------------------------------------
\* Every step of the store.

LEMMA StoreInvInit == StoreInit => StoreInv
<1> SUFFICES ASSUME StoreInit
             PROVE  StoreInv
  OBVIOUS
<1>1. /\ walletTree = EmptyTree /\ lapped = {} /\ saved = {}
      /\ ideal = [assets |-> NoEntries, deliveries |-> NoEntries]
      /\ storeCalls = [c \in StoreCalls |-> IdleStoreCall]
  BY DEF StoreInit
<1>2. /\ storeCalls = [c \in StoreCalls |-> storeCalls[c]]
      /\ \A c \in StoreCalls : storeCalls[c] = IdleStoreCall
  BY <1>1
<1> QED  BY <1>1, <1>2, EmptyBranchFits, IdleStoreCallFits DEF StoreInv

LEMMA StoreStepKeeps == StoreInv /\ [StoreNext]_storeVars => StoreInv'
<1> SUFFICES ASSUME StoreInv, [StoreNext]_storeVars
             PROVE  StoreInv'
  OBVIOUS
<1>1. CASE BindStore
  BY <1>1 DEF BindStore, historyVars, StoreInv
<1>2. CASE Persist \/ Restart \/ HydrateBranch
  BY <1>2, PersistKeeps, RestartKeeps, HydrateBranchKeeps
<1>3. CASE HostReplacesAssets
  BY <1>3, HostReplacesAssetsKeeps
<1>4. CASE \E id \in Deliveries : HostUpsertsDelivery(id)
  BY <1>4, HostUpsertsDeliveryKeeps
<1>5. CASE \E nonce \in Nonces : HostWritesAddress(nonce)
  BY <1>5, HostWritesAddressKeeps
<1>6. ASSUME NEW c \in StoreCalls,
             \/ \E id \in Assets : UpsertAssets(c, id)
             \/ \E id \in Deliveries : MarkDeliveryProcessed(c, id)
             \/ Hydrate(c)
             \/ WriteAssets(c) \/ WriteProcessed(c) \/ HydrateNext(c)
      PROVE  StoreInv'
  BY <1>6, UpsertAssetsKeeps, MarkDeliveryProcessedKeeps, HydrateKeeps, WriteAssetsKeeps,
     WriteProcessedKeeps, HydrateNextKeeps
<1>7. ASSUME NEW c \in StoreCalls, StoreCallFails(c)
      PROVE  StoreInv'
  BY <1>7, CallStepKeeps, IdleStoreCallFits DEF StoreCallFails
<1>8. CASE UNCHANGED storeVars
  BY <1>8 DEF storeVars, historyVars, StoreInv
<1> QED  BY <1>1, <1>2, <1>3, <1>4, <1>5, <1>6, <1>7, <1>8 DEF StoreNext

---------------------------------------------------------------------------
\* What the invariant says of the branches.

LEMMA InvWritesKept == ASSUME HydratedOnce PROVE StoreInv => WritesKept
<1> SUFFICES ASSUME StoreInv
             PROVE  WritesKept
  OBVIOUS
<1>1. AssetsFit(walletTree, ideal, lapped) /\ DeliveriesFit(walletTree, ideal, lapped)
  BY DEF StoreInv, BranchFits
<1>2. CatalogKeepsAssets
  BY <1>1 DEF AssetsFit, CatalogFits, CatalogKeepsAssets
<1>3. DeliveriesKept
  BY <1>1 DEF DeliveriesFit, DeliveriesOf, DeliveriesKept
<1> QED  BY <1>2, <1>3 DEF WritesKept

LEMMA InvDefaultIsKnown == StoreInv => DefaultNonceHasRecord
<1> SUFFICES ASSUME StoreInv, "defaultNonces" \in DOMAIN walletTree, "defaultNonces" \notin lapped,
                    NEW owner \in DOMAIN walletTree["defaultNonces"]
             PROVE  LET nonce == walletTree["defaultNonces"][owner]
                    IN /\ Records(walletTree, nonce) = {nonce}
                       /\ \A kind \in {"root", "branch"} :
                             (kind = "branch" \/ adapter.path = "privacySdkState") =>
                                /\ SnapshotRecord(Snapshot(kind), nonce) = {nonce}
                                /\ nonce \in SnapshotRecords(Snapshot(kind))
  BY DEF DefaultNonceHasRecord
<1> DEFINE nonce == walletTree["defaultNonces"][owner]
<1>1. nonce \in Read(walletTree, "defaultNonces", owner)
  BY DEF Read
<1>2. HasRecord(walletTree, nonce)
  BY <1>1 DEF StoreInv, BranchFits, DefaultsFit
<1> HIDE DEF nonce
<1>3. /\ "addressRecords" \in DOMAIN walletTree
      /\ OwnerNonceKey(nonce) \in DOMAIN walletTree["addressRecords"]
      /\ walletTree["addressRecords"][OwnerNonceKey(nonce)] = nonce
  BY <1>2 DEF HasRecord, Read
<1>4. /\ ~ReadThrows(walletTree, "addressRecords")
      /\ ReadRecord(walletTree, "addressRecords", OwnerNonceKey(nonce)) = {nonce}
  BY <1>3 DEF ReadThrows, ReadRecord
<1>5. Records(walletTree, nonce) = {nonce}
  BY <1>4 DEF Records
<1>6. ASSUME NEW kind \in {"root", "branch"}, kind = "branch" \/ adapter.path = "privacySdkState"
      PROVE  /\ SnapshotRecord(Snapshot(kind), nonce) = {nonce}
             /\ nonce \in SnapshotRecords(Snapshot(kind))
  <2> DEFINE snapshot == Snapshot(kind)
  <2>1. ResolveSdkSnapshot(snapshot) = walletTree
    BY <1>6 DEF ResolveSdkSnapshot, Snapshot
  <2> HIDE DEF snapshot
  <2>2. SnapshotRecord(snapshot, nonce) = {nonce}
    BY <1>4, <2>1 DEF SnapshotRecord
  <2>3. OwnerNonceKey(nonce)[1] = Owner1 /\ OwnerNonceKey(nonce)[2] = nonce
    BY DEF OwnerNonceKey
  <2>4. nonce \in SnapshotRecords(snapshot)
    BY <1>3, <1>4, <2>1, <2>2, <2>3 DEF SnapshotRecords
  <2> QED  BY <2>2, <2>4 DEF snapshot
<1> QED  BY <1>5, <1>6 DEF nonce

\* The default nonce of an owner is that of an address the wallet has a record of
\* (hydrate-state.ts:28), whatever is hydrated, restarted and written meanwhile.
THEOREM DefaultIsKnown == StoreSpec => []DefaultNonceHasRecord
<1> QED  BY StoreInvInit, StoreStepKeeps, InvDefaultIsKnown, PTL DEF StoreSpec

\* No asset and no delivery that a call wrote is lost or brought back, unless a
\* call wrote what it had read before another write (upsert-methods.ts:22), for
\* a hydration that lists an asset once.
THEOREM WritesAreKept ==
  ASSUME HydratedOnce
  PROVE  StoreSpec => []WritesKept
<1> QED  BY StoreInvInit, StoreStepKeeps, InvWritesKept, PTL DEF StoreSpec

\* The same of the whole wallet state.
THEOREM WalletBranches ==
  ASSUME HydratedOnce
  PROVE  WalletStateSpec => [](DefaultNonceHasRecord /\ WritesKept)
<1>1. WalletStateInit => StoreInit  BY DEF WalletStateInit
<1>2. [WalletStateNext]_walletStateVars => [StoreNext]_storeVars
  BY DEF WalletStateNext, walletStateVars
<1> QED  BY <1>1, <1>2, DefaultIsKnown, WritesAreKept, PTL DEF WalletStateSpec, StoreSpec
=============================================================================
