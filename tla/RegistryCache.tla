--------------------------- MODULE RegistryCache ---------------------------
(***************************************************************************)
(* Whose private address a transfer is sent to: the registry on the chain, *)
(* the three containers the wallet caches it in, and the calls that read   *)
(* and write both (packages/stellar/src/client/network.ts,                 *)
(* contracts/registry, state/service/registry, state/schemas/registry).    *)
(*                                                                         *)
(* A call is one chain of awaits; an action is the code between two of     *)
(* them.  An option is a set of at most one element.                       *)
(***************************************************************************)
EXTENDS StateTree, Naturals, FiniteSets

CONSTANTS
    Owners,             \* Stellar addresses
    PrivateAddresses,   \* stpl1 addresses
    RegistryCalls,      \* the calls that can be under way together
    MaxRegistrations,   \* bound: registrations on the chain
    MaxRegistryCalls    \* bound: calls that are started, and writes of the host

ASSUME RegistryAssumption ==
    /\ MaxRegistrations \in Nat
    /\ MaxRegistryCalls \in Nat

VARIABLES
    accounts,           \* the owners that are accounts (G-addresses): a contract is not
    onChain,            \* the private address each owner has registered, if any
    everOnChain,        \* history: the addresses each owner ever had there
    registrations,      \* registrations sent and not included yet
    registryTree,       \* the $.registry branch of the state tree
    registryCalls,      \* the suspended calls
    registryUse         \* use of the bounds: registrations, calls

chainSideVars == <<accounts, onChain, everOnChain, registrations>>
registryVars == <<chainSideVars, registryTree, registryCalls, registryUse>>

---------------------------------------------------------------------------
\* Lookups: a status and an optional private address.

Lookup(address) ==
    [status |-> IF address = {} THEN "unregistered" ELSE "registered", address |-> address]

\* readRegistryLookupFromChain, parseRegistryLookupRecord, recordToLookupResult.
LookupFromChain(owner) == Lookup(onChain[owner])

\* normalizeRegistryLookupFromLegacy, of a flag and an address that may be undefined.
LegacyLookup(flag, address) ==
    IF flag = {} /\ address = {} THEN {}
    ELSE {[status |-> IF flag = {TRUE} THEN "registered" ELSE "unregistered", address |-> address]}

\* Mutant of SaveRegistryLookup: the older containers are left alone when the
\* owner is not registered.
SaveRegisteredOnly(owner, lookup) ==
    <<RecordSet("lookups", owner, lookup)>> \o
    IF lookup.status = "registered" /\ lookup.address # {}
      THEN <<RecordSet("privateAddresses", owner, CHOOSE a \in lookup.address : TRUE),
             RecordSet("registeredAddresses", owner, TRUE)>>
      ELSE <<>>

\* saveRegistryLookupSchema.
SaveRegistryLookup(owner, lookup) ==
    <<RecordSet("lookups", owner, lookup)>> \o
    IF lookup.status = "registered" /\ lookup.address # {}
      THEN <<RecordSet("privateAddresses", owner, CHOOSE a \in lookup.address : TRUE),
             RecordSet("registeredAddresses", owner, TRUE)>>
      ELSE <<RecordSet("registeredAddresses", owner, FALSE)>>

\* Mutant of SaveRegisteredPrivateAddress: the lookup ignores the flag.
SaveAnyPrivateAddress(owner, address, flag) ==
    <<RecordSet("privateAddresses", owner, address),
      RecordSet("registeredAddresses", owner, flag),
      RecordSet("lookups", owner, Lookup({address}))>>

\* saveRegisteredPrivateAddressSchema.
SaveRegisteredPrivateAddress(owner, address, flag) ==
    <<RecordSet("privateAddresses", owner, address),
      RecordSet("registeredAddresses", owner, flag),
      RecordSet("lookups", owner, Lookup(IF flag THEN {address} ELSE {}))>>

\* invalidateRegistryLookupSchema, invalidateRegisteredAddressSchema.
InvalidateRegistryLookup(owner) ==
    <<RecordDelete("lookups", owner), RecordDelete("privateAddresses", owner),
      RecordDelete("registeredAddresses", owner)>>

---------------------------------------------------------------------------
\* Calls.  "overtaken": a write came between the first read and the last one.

NoCall == [at |-> "idle", kind |-> "none", owner |-> {}, registeredAtStart |-> FALSE,
           flag |-> {}, lookup |-> {}, overtaken |-> FALSE, result |-> {}]

Result(how, address) == [how |-> how, address |-> address]

Standing(c, at) == registryCalls[c].at = at

Owner(c) == CHOOSE o \in Owners : registryCalls[c].owner = {o}

Steps(c, call) == registryCalls' = [registryCalls EXCEPT ![c] = call]

Counts == registryUse.calls < MaxRegistryCalls
          /\ registryUse' = [registryUse EXCEPT !.calls = @ + 1]

Begins(c, owner, kind, at) ==
    /\ registryCalls[c] = NoCall
    /\ Counts
    /\ Steps(c, [NoCall EXCEPT !.at = at, !.kind = kind, !.owner = {owner},
                               !.registeredAtStart = onChain[owner] # {}])

\* A write, which overtakes the other calls that have read.
Writes(operations, c, call) ==
    /\ registryTree' = ApplyWrite(registryTree, operations)
    /\ registryCalls' = [d \in RegistryCalls |->
           IF d = c THEN call
           ELSE IF registryCalls[d].at \in {"flag", "address"}
             THEN [registryCalls[d] EXCEPT !.overtaken = TRUE]
             ELSE registryCalls[d]]

\* What a caught read gives: a missing container is as an absent key.
CaughtRead(path, owner) ==
    IF ReadThrows(registryTree, path) THEN {} ELSE ReadRecord(registryTree, path, owner)

---------------------------------------------------------------------------
\* The chain.

\* Anyone registers a private address, or replaces the one there is.
Registers(owner, address) ==
    /\ onChain' = [onChain EXCEPT ![owner] = {address}]
    /\ everOnChain' = [everOnChain EXCEPT ![owner] = @ \cup {address}]

RegisterElsewhere(owner, address) ==
    /\ registryUse.registrations < MaxRegistrations
    /\ registryUse' = [registryUse EXCEPT !.registrations = @ + 1]
    /\ Registers(owner, address)
    /\ UNCHANGED <<accounts, registrations, registryTree, registryCalls>>

\* registerPrivateAddressWithEnvironment: sent, "pending", and nothing cached.
RegisterPrivateAddress(owner, address) ==
    /\ registryUse.registrations < MaxRegistrations
    /\ registryUse' = [registryUse EXCEPT !.registrations = @ + 1]
    /\ registrations' = registrations \cup {<<owner, address>>}
    /\ UNCHANGED <<accounts, onChain, everOnChain, registryTree, registryCalls>>

RegistrationLands ==
    /\ \E r \in registrations :
          /\ registrations' = registrations \ {r}
          /\ Registers(r[1], r[2])
    /\ UNCHANGED <<accounts, registryTree, registryCalls, registryUse>>

---------------------------------------------------------------------------
\* checkRegistrationStatusWithEnvironment.

CheckRegistrationStatus(c, owner) ==
    /\ Begins(c, owner, "check", "reading chain")
    /\ UNCHANGED <<chainSideVars, registryTree>>

\* The read of the chain, of a check or of a transfer the cache did not answer.
ReadChain(c) ==
    /\ Standing(c, "reading chain")
    /\ \/ Steps(c, NoCall)      \* the RPC request fails
       \/ Steps(c, [registryCalls[c] EXCEPT !.at = "saving", !.lookup = {LookupFromChain(Owner(c))}])
    /\ UNCHANGED <<chainSideVars, registryTree, registryUse>>

\* resolveTransferRecipientFromChain, with the lookup that was just saved.
ResolvedFromChain(owner, lookup) ==
    IF lookup.address # {} THEN Result("address", lookup.address)
    ELSE IF owner \in accounts THEN Result("escrow", {})
    ELSE Result("throws", {})

\* saveLookup, and what the call returns.
SaveLookup(c) ==
    /\ Standing(c, "saving")
    /\ LET call == registryCalls[c]
       IN \E lookup \in call.lookup :
             Writes(SaveRegistryLookup(Owner(c), lookup), c,
                    [call EXCEPT !.at = "done",
                        !.result = IF call.kind = "check" THEN {}
                                   ELSE {ResolvedFromChain(Owner(c), lookup)}])
    /\ UNCHANGED <<chainSideVars, registryUse>>

---------------------------------------------------------------------------
\* readRegistryLookup: three reads, one after another.  It is called for a
\* transfer (resolveTransferRecipientWithEnvironment), for an address
\* (getCachedPrivateAddress) and for a status (isStellarAddressRegistered).

ReaderKinds == {"transfer", "cached", "status"}

\* Mutant of Answered: a cached lookup is believed whatever its status.
AnsweredFromCache(c, call, lookup) ==
    IF call.kind = "transfer"
      THEN IF lookup # {}
             THEN [call EXCEPT !.at = "done",
                       !.result = {ResolvedFromChain(Owner(c), l) : l \in lookup}]
             ELSE [call EXCEPT !.at = "reading chain"]
    ELSE IF call.kind = "cached"
      THEN IF \E l \in lookup : l.address # {}
             THEN [call EXCEPT !.at = "done", !.result = {Result("cached", l.address) : l \in lookup}]
             ELSE [call EXCEPT !.at = "rereading"]
    ELSE [call EXCEPT !.at = "done", !.result = {Result(l.status, {}) : l \in lookup}]

\* What the caller does with the lookup.
Answered(c, call, lookup) ==
    IF call.kind = "transfer"
      THEN IF \E l \in lookup : l.status = "registered" /\ l.address # {}
             THEN [call EXCEPT !.at = "done",
                       !.result = {Result("address", l.address) : l \in lookup}]
             ELSE [call EXCEPT !.at = "reading chain"]
    ELSE IF call.kind = "cached"
      THEN IF \E l \in lookup : l.address # {}
             THEN [call EXCEPT !.at = "done", !.result = {Result("cached", l.address) : l \in lookup}]
             ELSE [call EXCEPT !.at = "rereading"]
    ELSE [call EXCEPT !.at = "done", !.result = {Result(l.status, {}) : l \in lookup}]

\* The lookup itself; without one the two older containers are read.
ReadRegistryLookup(c, owner, kind) ==
    /\ Begins(c, owner, kind, "lookup")
    /\ UNCHANGED <<chainSideVars, registryTree>>

ReadLookup(c) ==
    /\ Standing(c, "lookup")
    /\ LET lookup == CaughtRead("lookups", Owner(c))
       IN Steps(c, IF lookup # {} THEN Answered(c, registryCalls[c], lookup)
                                  ELSE [registryCalls[c] EXCEPT !.at = "flag"])
    /\ UNCHANGED <<chainSideVars, registryTree, registryUse>>

ReadFlag(c) ==
    /\ Standing(c, "flag")
    /\ Steps(c, [registryCalls[c] EXCEPT !.at = "address",
                     !.flag = CaughtRead("registeredAddresses", Owner(c))])
    /\ UNCHANGED <<chainSideVars, registryTree, registryUse>>

ReadAddress(c) ==
    /\ Standing(c, "address")
    /\ LET address == CaughtRead("privateAddresses", Owner(c))
       IN Steps(c, Answered(c, registryCalls[c], LegacyLookup(registryCalls[c].flag, address)))
    /\ UNCHANGED <<chainSideVars, registryTree, registryUse>>

\* The last read of readCachedPrivateAddress is not caught.
RereadAddress(c) ==
    /\ Standing(c, "rereading")
    /\ Steps(c, [registryCalls[c] EXCEPT !.at = "done",
           !.result = IF ReadThrows(registryTree, "privateAddresses")
                        THEN {Result("throws", {})}
                        ELSE {Result("cached", ReadRecord(registryTree, "privateAddresses", Owner(c)))}])
    /\ UNCHANGED <<chainSideVars, registryTree, registryUse>>

Returns(c) ==
    /\ Standing(c, "done")
    /\ Steps(c, NoCall)
    /\ UNCHANGED <<chainSideVars, registryTree, registryUse>>

---------------------------------------------------------------------------
\* Writes of the host: an address it read from the chain, an address of its own
\* that is not registered, or an invalidation.
HostWrites(owner) ==
    /\ Counts
    /\ \E operations \in
             {SaveRegisteredPrivateAddress(owner, a, TRUE) : a \in everOnChain[owner]}
             \cup {SaveRegisteredPrivateAddress(owner, a, FALSE) : a \in PrivateAddresses}
             \cup {InvalidateRegistryLookup(owner)} :
          Writes(operations, "host", NoCall)
    /\ UNCHANGED chainSideVars

---------------------------------------------------------------------------
\* A tree nobody wrote to, and one of a version that had no lookups: the
\* address of an owner it knew as registered, or a flag alone.
LegacyTree(owner, flag, address) ==
    ApplyWrite(EmptyTree,
        <<RecordSet("registeredAddresses", owner, flag)>> \o
        (IF address = {} THEN <<>>
         ELSE <<RecordSet("privateAddresses", owner, CHOOSE a \in address : TRUE)>>))

RegistryInit ==
    /\ accounts \in SUBSET Owners
    /\ onChain \in [Owners -> {{}} \cup {{a} : a \in PrivateAddresses}]
    /\ everOnChain = onChain
    /\ registrations = {}
    /\ registryTree \in {EmptyTree}
          \cup {LegacyTree(o, TRUE, onChain[o]) : o \in {x \in Owners : onChain[x] # {}}}
          \cup {LegacyTree(o, FALSE, {}) : o \in Owners}
    /\ registryCalls = [c \in RegistryCalls |-> NoCall]
    /\ registryUse = [registrations |-> 0, calls |-> 0]

RegistryNext ==
    \/ \E owner \in Owners, address \in PrivateAddresses :
          RegisterElsewhere(owner, address) \/ RegisterPrivateAddress(owner, address)
    \/ RegistrationLands
    \/ \E owner \in Owners : HostWrites(owner)
    \/ \E c \in RegistryCalls, owner \in Owners :
          \/ CheckRegistrationStatus(c, owner)
          \/ \E kind \in ReaderKinds : ReadRegistryLookup(c, owner, kind)
    \/ \E c \in RegistryCalls :
          \/ ReadChain(c) \/ SaveLookup(c) \/ ReadLookup(c) \/ ReadFlag(c)
          \/ ReadAddress(c) \/ RereadAddress(c) \/ Returns(c)

RegistrySpec == RegistryInit /\ [][RegistryNext]_registryVars

---------------------------------------------------------------------------
\* Properties.

\* The three containers tell one story of each owner that has a lookup: the
\* writes of lookup.ts are made together or not at all.
RegistryContainersAgree ==
    "lookups" \in DOMAIN registryTree =>
       \A owner \in DOMAIN registryTree["lookups"] :
          LET lookup == registryTree["lookups"][owner]
          IN /\ CaughtRead("registeredAddresses", owner)
                  = {lookup.status = "registered"}
             /\ lookup.status = "registered" =>
                   CaughtRead("privateAddresses", owner) = lookup.address

\* A transfer is sent to a private address its recipient did register at some
\* time, although the cache is trusted as it is (network.ts:76) and lags behind;
\* a call whose reads of the older containers a write overtook is left out.
ResolvedWasRegistered ==
    \A c \in RegistryCalls : \A r \in registryCalls[c].result :
       (r.how = "address" /\ ~registryCalls[c].overtaken)
          => r.address # {} /\ r.address \subseteq everOnChain[Owner(c)]

\* An escrow is only made for a recipient that was not registered when the call
\* began, whatever the cache says of it: a negative lookup is never trusted.
EscrowOnlyIfUnregistered ==
    \A c \in RegistryCalls : \A r \in registryCalls[c].result :
       r.how = "escrow" => ~registryCalls[c].registeredAtStart
=============================================================================
