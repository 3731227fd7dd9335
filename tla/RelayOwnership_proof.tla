------------------------ MODULE RelayOwnership_proof ------------------------
(***************************************************************************)
(* A completion is run by one caller, and whoever joined it is not left    *)
(* waiting for nobody, for any number of callers.                          *)
(*                                                                         *)
(* InFlightOwned does not mention inFlight, which is what a caller looks   *)
(* at before it joins or runs a completion.  Owned says in addition that   *)
(* inFlight holds the keys of the running completions and no other.        *)
(***************************************************************************)
EXTENDS RelayRuntime_proof

Runs(w)   == w.pc \in {"effects", "effect_save"}
Awaits(w) == w.pc = "joined"
Quiet(w)  == ~Runs(w) /\ ~Awaits(w)
Key(w)    == <<w.op, w.tx>>

Registered == \A c \in Callers : Runs(callers[c]) => Key(callers[c]) \in inFlight

OneRunner == \A c, d \in Callers :
    Runs(callers[c]) /\ Runs(callers[d]) /\ Key(callers[c]) = Key(callers[d]) => c = d

SomeRunner == \A key \in inFlight :
    \E c \in Callers : Runs(callers[c]) /\ Key(callers[c]) = key

AwaitsRegistered == \A d \in Callers : Awaits(callers[d]) => Key(callers[d]) \in inFlight

Owned == Registered /\ OneRunner /\ SomeRunner /\ AwaitsRegistered

\* The invariant implies the property the runs check.
LEMMA OwnedSuffices == Owned => InFlightOwned
BY DEF Owned, Registered, OneRunner, SomeRunner, AwaitsRegistered, InFlightOwned,
       Completing, Joined, SuccessKey, At, Runs, Awaits, Key

---------------------------------------------------------------------------
\* Callers that neither run nor await a completion.

\* A caller with nothing outstanding, or about to poll, is in no completion.
LEMMA QuietFresh ==
    ASSUME NEW w, NEW attempt
    PROVE  Quiet(Idle) /\ Quiet(Polling(w, attempt))
<1>1. Idle.pc = "idle" /\ Polling(w, attempt).pc = "poll_read"
  BY IdleType DEF Idle, Polling, CallerStates
<1>2. QED
  BY <1>1 DEF Quiet, Runs, Awaits

\* Nor is one whose poll returned.
LEMMA QuietReturned ==
    ASSUME NEW w, NEW rec
    PROVE  Quiet(Returned(w, rec))
<1>1. Quiet([Idle EXCEPT !.pc = "resume_next", !.flow = "resume", !.todo = w.todo])
  BY IdleType DEF Quiet, Runs, Awaits, CallerStates
<1>2. Quiet([Idle EXCEPT !.pc = "timeout_save", !.flow = "await", !.op = w.op, !.rec = rec])
  BY IdleType DEF Quiet, Runs, Awaits, CallerStates
<1>3. QED
  BY <1>1, <1>2, QuietFresh DEF Returned

\* A caller that goes to another await of the same flow.
LEMMA GotoFields ==
    ASSUME TypeOK, NEW c \in Callers, NEW pc
    PROVE  LET w == [callers[c] EXCEPT !.pc = pc]
           IN  w.pc = pc /\ Key(w) = Key(callers[c])
BY CallerType DEF CallerStates, Key

---------------------------------------------------------------------------
\* The three ways in which the callers change.

\* One caller moves without starting or ending a completion.
LEMMA OwnedMove ==
    ASSUME TypeOK, Owned, NEW c \in Callers, NEW w, Step(c, w), UNCHANGED inFlight,
           Runs(w) <=> Runs(callers[c]),
           Runs(w) => Key(w) = Key(callers[c]),
           Awaits(w) => Key(w) \in inFlight
    PROVE  Owned'
<1>1. \A d \in Callers : callers'[d] = IF d = c THEN w ELSE callers[d]
  BY DEF Step, TypeOK
<1>2. \A d \in Callers :
        /\ Runs(callers'[d]) <=> Runs(callers[d])
        /\ Runs(callers[d]) => Key(callers'[d]) = Key(callers[d])
        /\ Awaits(callers'[d]) => Key(callers'[d]) \in inFlight
  BY <1>1 DEF Owned, AwaitsRegistered
<1>3. Registered' /\ OneRunner' /\ AwaitsRegistered'
  BY <1>2 DEF Owned, Registered, OneRunner, AwaitsRegistered
<1>4. SomeRunner'
  BY <1>2 DEF Owned, SomeRunner
<1>5. QED
  BY <1>3, <1>4 DEF Owned

\* One caller starts a completion that is not in flight.
LEMMA OwnedStart ==
    ASSUME TypeOK, Owned, NEW c \in Callers, NEW w, Step(c, w),
           Runs(w), ~Awaits(w), Key(w) = Key(callers[c]),
           ~Runs(callers[c]), Key(w) \notin inFlight,
           inFlight' = inFlight \cup {Key(w)}
    PROVE  Owned'
<1>1. \A d \in Callers : callers'[d] = IF d = c THEN w ELSE callers[d]
  BY DEF Step, TypeOK
<1>2. Registered' /\ AwaitsRegistered'
  BY <1>1 DEF Owned, Registered, AwaitsRegistered
<1>3. OneRunner'
  BY <1>1 DEF Owned, Registered, OneRunner
<1>4. SomeRunner'
  <2> SUFFICES ASSUME NEW key \in inFlight'
               PROVE  \E d \in Callers : Runs(callers'[d]) /\ Key(callers'[d]) = key
    BY DEF SomeRunner
  <2>1. CASE key = Key(w)
    BY <1>1, <2>1
  <2>2. CASE key \in inFlight
    <3>1. PICK d \in Callers : Runs(callers[d]) /\ Key(callers[d]) = key
      BY <2>2 DEF Owned, SomeRunner
    <3>2. callers'[d] = callers[d]
      BY <1>1, <3>1
    <3>3. QED
      BY <3>1, <3>2
  <2>3. QED
    BY <2>1, <2>2
<1>5. QED
  BY <1>2, <1>3, <1>4 DEF Owned

\* A completion ends: its key leaves inFlight, and its runner and whoever
\* joined it become quiet.
LEMMA OwnedEnd ==
    ASSUME Owned, NEW c \in Callers, Runs(callers[c]),
           inFlight' = inFlight \ {Key(callers[c])},
           \A d \in Callers :
             IF d = c \/ (Awaits(callers[d]) /\ Key(callers[d]) = Key(callers[c]))
               THEN Quiet(callers'[d])
               ELSE callers'[d] = callers[d]
    PROVE  Owned'
<1>1. \A d \in Callers : Quiet(callers'[d]) \/ callers'[d] = callers[d]
  OBVIOUS
<1>2. \A d \in Callers : Runs(callers'[d]) => /\ d # c
                                             /\ callers'[d] = callers[d]
                                             /\ Key(callers[d]) # Key(callers[c])
  BY <1>1 DEF Owned, OneRunner, Quiet
<1>3. \A d \in Callers : Awaits(callers'[d]) => /\ callers'[d] = callers[d]
                                               /\ Key(callers[d]) # Key(callers[c])
  BY <1>1 DEF Quiet
<1>4. Registered' /\ OneRunner' /\ AwaitsRegistered'
  BY <1>2, <1>3 DEF Owned, Registered, OneRunner, AwaitsRegistered
<1>5. SomeRunner'
  <2> SUFFICES ASSUME NEW key \in inFlight'
               PROVE  \E d \in Callers : Runs(callers'[d]) /\ Key(callers'[d]) = key
    BY DEF SomeRunner
  <2>1. PICK d \in Callers : Runs(callers[d]) /\ Key(callers[d]) = key
    BY DEF Owned, SomeRunner
  <2>2. d # c /\ ~Awaits(callers[d])
    BY <2>1 DEF Runs, Awaits
  <2>3. QED
    BY <2>1, <2>2
<1>6. QED
  BY <1>4, <1>5 DEF Owned

\* One caller that runs no completion becomes quiet.
LEMMA OwnedQuiet ==
    ASSUME TypeOK, Owned, NEW c \in Callers, NEW w, Step(c, w), UNCHANGED inFlight,
           ~Runs(callers[c]), Quiet(w)
    PROVE  Owned'
BY OwnedMove DEF Quiet

\* The await of a caller rejects.
LEMMA OwnedThrow ==
    ASSUME TypeOK, Owned, NEW c \in Callers, Throw(c)
    PROVE  Owned'
<1>1. Completing(c) <=> Runs(callers[c])
  BY DEF Completing, Runs
<1>2. \A d \in Callers : Joined(d, c) <=> Awaits(callers[d]) /\ Key(callers[d]) = Key(callers[c])
  BY DEF Joined, At, SuccessKey, Awaits, Key
<1>3. CASE Completing(c)
  <2>1. inFlight' = inFlight \ {Key(callers[c])}
    BY <1>3 DEF Throw, SuccessKey, Key
  <2>2. \A d \in Callers :
          IF d = c \/ (Awaits(callers[d]) /\ Key(callers[d]) = Key(callers[c]))
            THEN Quiet(callers'[d])
            ELSE callers'[d] = callers[d]
    BY <1>2, <1>3, QuietFresh DEF Throw
  <2>3. QED
    BY <1>1, <1>3, <2>1, <2>2, OwnedEnd
<1>4. CASE ~Completing(c)
  <2>1. Step(c, Idle) /\ UNCHANGED inFlight
    BY <1>4 DEF Throw, Step, TypeOK
  <2>2. QED
    BY <1>1, <1>4, <2>1, QuietFresh, OwnedQuiet
<1>5. QED
  BY <1>3, <1>4

---------------------------------------------------------------------------
\* The invariant holds initially and every step preserves it.

\* No completion is in flight at the start.
LEMMA OwnedInit == Init => Owned
BY QuietFresh DEF Init, Owned, Registered, OneRunner, SomeRunner, AwaitsRegistered, Quiet

\* A call starts, or a caller that runs no completion goes on to an await
\* outside completeSucceededOperation.
LEMMA OwnedOutside ==
    ASSUME TypeOK, Owned, NEW c \in Callers,
           \/ Submit(c) \/ StartResume(c) \/ \E op \in Ops : StartCall(c, op)
           \/ CreateRequest(c) \/ SaveAccepted(c) \/ RelayRefuses(c) \/ LoseAcceptance(c)
           \/ DirectLands(c) \/ CompleteRead(c)
           \/ PollRead(c) \/ PollStatus(c) \/ PollSave(c) \/ SaveTimedOut(c)
           \/ RetryRead(c) \/ RetryAttempt(c) \/ SaveRetried(c)
           \/ FallbackRead(c) \/ Fallback(c) \/ ResumeNext(c)
    PROVE  Owned'
<1> USE DEF hostVars, budgetVars, envVars
<1>q. ASSUME NEW w, Step(c, w), UNCHANGED inFlight, ~Runs(callers[c]), Quiet(w)
      PROVE  Owned'
  BY <1>q, OwnedQuiet
<1>1. CASE Submit(c)
  <2>1. PICK op \in Ops : \/ RefuseEscrow(c, op)
                          \/ SubmitDirectPath(c, op)
                          \/ SubmitRelayPath(c, op)
    BY <1>1 DEF Submit
  <2>2. ~Runs(callers[c])
    BY <2>1 DEF RefuseEscrow, SubmitDirectPath, SubmitRelayPath, At, Runs
  <2>3. CASE RefuseEscrow(c, op)
    BY <2>3 DEF RefuseEscrow, Owned, Registered, OneRunner, SomeRunner, AwaitsRegistered
  <2>4. CASE SubmitDirectPath(c, op)
    <3>1. Quiet([Idle EXCEPT !.pc = "direct", !.op = op, !.rec = Prepared])
      BY IdleType DEF Quiet, Runs, Awaits, CallerStates
    <3>2. QED
      BY <1>q, <2>2, <2>4, <3>1 DEF SubmitDirectPath
  <2>5. CASE SubmitRelayPath(c, op)
    <3>1. PICK flow \in {"once", "await"} :
            Step(c, [Idle EXCEPT !.pc = "create", !.flow = flow, !.op = op, !.rec = Prepared])
      BY <2>5 DEF SubmitRelayPath
    <3>2. Quiet([Idle EXCEPT !.pc = "create", !.flow = flow, !.op = op, !.rec = Prepared])
      BY IdleType DEF Quiet, Runs, Awaits, CallerStates
    <3>3. QED
      BY <1>q, <2>2, <2>5, <3>1, <3>2 DEF SubmitRelayPath
  <2>6. QED
    BY <2>1, <2>3, <2>4, <2>5
<1>2. CASE StartResume(c)
  <2>1. Quiet([Idle EXCEPT !.pc = "resume_next", !.flow = "resume", !.todo = Unfinalized])
    BY IdleType DEF Quiet, Runs, Awaits, CallerStates
  <2>2. ~Runs(callers[c])
    BY <1>2 DEF StartResume, At, Runs
  <2>3. QED
    BY <1>q, <1>2, <2>1, <2>2 DEF StartResume
<1>3. ASSUME NEW op \in Ops, StartCall(c, op) PROVE Owned'
  <2>1. PICK pc \in {"poll_read", "retry_read", "fallback_read"}, flow \in {"once", "await"} :
          Step(c, [Idle EXCEPT !.pc = pc, !.flow = flow, !.op = op])
    BY <1>3 DEF StartCall
  <2>2. Quiet([Idle EXCEPT !.pc = pc, !.flow = flow, !.op = op])
    BY IdleType DEF Quiet, Runs, Awaits, CallerStates
  <2>3. ~Runs(callers[c]) /\ UNCHANGED inFlight
    BY <1>3 DEF StartCall, At, Runs
  <2>4. QED
    BY <1>q, <2>1, <2>2, <2>3
<1>4. CASE CreateRequest(c)
  <2>1. Quiet([callers[c] EXCEPT !.pc = "created"])
    BY GotoFields DEF Quiet, Runs, Awaits
  <2>2. QED
    BY <1>q, <1>4, <2>1 DEF CreateRequest, Goto, At, Runs
<1>5. CASE SaveAccepted(c)
  BY <1>q, <1>5, QuietFresh DEF SaveAccepted, At, Runs
<1>6. CASE RelayRefuses(c) \/ LoseAcceptance(c)
  <2>1. ~Runs(callers[c]) /\ UNCHANGED inFlight /\ Step(c, Idle)
    BY <1>6 DEF RelayRefuses, LoseAcceptance, At, Runs
  <2>2. QED
    BY <1>q, <2>1, QuietFresh
<1>7. CASE DirectLands(c)
  <2>1. Quiet([callers[c] EXCEPT !.pc = "complete_read", !.tx = "wallet_tx"])
    BY CallerType DEF Quiet, Runs, Awaits, CallerStates
  <2>2. QED
    BY <1>q, <1>7, <2>1 DEF DirectLands, At, Runs
<1>8. CASE CompleteRead(c)
  <2>1. \A rec : Quiet([callers[c] EXCEPT !.pc = "complete", !.rec = rec])
    BY CallerType DEF Quiet, Runs, Awaits, CallerStates
  <2>2. QED
    BY <1>q, <1>8, <2>1 DEF CompleteRead, At, Runs
<1>9. CASE PollRead(c)
  <2>1. \A rec : Quiet([callers[c] EXCEPT !.pc = "poll_status", !.rec = rec])
    BY CallerType DEF Quiet, Runs, Awaits, CallerStates
  <2>2. QED
    BY <1>q, <1>9, <2>1, QuietFresh, QuietReturned DEF PollRead, At, Runs
<1>10. CASE PollStatus(c)
  <2>1. \A report : Quiet([callers[c] EXCEPT !.pc = "poll_save", !.report = report])
    BY CallerType DEF Quiet, Runs, Awaits, CallerStates
  <2>2. QED
    BY <1>q, <1>10, <2>1 DEF PollStatus, At, Runs
<1>11. CASE PollSave(c)
  <2>1. \A rec, tx : Quiet([callers[c] EXCEPT !.pc = "complete_read", !.rec = rec,
                                             !.tx = tx, !.report = NoReport])
    BY CallerType DEF Quiet, Runs, Awaits, CallerStates
  <2>2. QED
    BY <1>q, <1>11, <2>1, QuietReturned DEF PollSave, At, Runs
<1>12. CASE SaveTimedOut(c)
  BY <1>q, <1>12, QuietFresh DEF SaveTimedOut, At, Runs
<1>13. CASE RetryRead(c) \/ FallbackRead(c)
  <2>1. \A rec : /\ Quiet([callers[c] EXCEPT !.pc = "retry_call", !.rec = rec])
                 /\ Quiet([callers[c] EXCEPT !.pc = "fallback", !.rec = rec])
    BY CallerType DEF Quiet, Runs, Awaits, CallerStates
  <2>2. QED
    BY <1>q, <1>13, <2>1, QuietFresh DEF RetryRead, FallbackRead, At, Runs
<1>14. CASE RetryAttempt(c)
  <2>1. Quiet([callers[c] EXCEPT !.pc = "retry_save"])
    BY GotoFields DEF Quiet, Runs, Awaits
  <2>2. QED
    BY <1>q, <1>14, <2>1, QuietFresh DEF RetryAttempt, Goto, At, Runs
<1>15. CASE SaveRetried(c)
  BY <1>q, <1>15, QuietFresh DEF SaveRetried, At, Runs
<1>16. CASE Fallback(c)
  <2>1. Quiet([callers[c] EXCEPT !.pc = "direct"])
    BY GotoFields DEF Quiet, Runs, Awaits
  <2>2. QED
    BY <1>q, <1>16, <2>1, QuietFresh DEF Fallback, Goto, At, Runs
<1>17. CASE ResumeNext(c)
  BY <1>q, <1>17, QuietFresh DEF ResumeNext, At, Runs
<1>18. QED
  BY <1>1, <1>2, <1>3, <1>4, <1>5, <1>6, <1>7, <1>8, <1>9, <1>10, <1>11, <1>12,
     <1>13, <1>14, <1>15, <1>16, <1>17

\* The steps of a completion: it returns at once, is joined, is started, runs
\* and saves its effects, and ends.
LEMMA OwnedCompletion ==
    ASSUME TypeOK, Owned, NEW c \in Callers,
           \/ Complete(c) \/ RunEffect(c) \/ SaveEffect(c) \/ FinishCompletion(c)
    PROVE  Owned'
<1> USE DEF hostVars, budgetVars, envVars
<1>1. CASE Complete(c)
  <2>1. ~Runs(callers[c])
    BY <1>1 DEF Complete, At, Runs
  <2>2. CASE Step(c, Returned(callers[c], callers[c].rec)) /\ UNCHANGED inFlight
    BY <2>1, <2>2, QuietReturned, OwnedQuiet
  <2>3. CASE SuccessKey(c) \in inFlight /\ Goto(c, "joined") /\ UNCHANGED inFlight
    <3> DEFINE w == [callers[c] EXCEPT !.pc = "joined"]
    <3>1. ~Runs(w) /\ Key(w) = SuccessKey(c)
      BY GotoFields DEF Runs, Key, SuccessKey
    <3>2. Step(c, w)
      BY <2>3 DEF Goto
    <3> HIDE DEF w
    <3>3. QED
      BY <2>1, <2>3, <3>1, <3>2, OwnedMove
  <2>4. CASE /\ SuccessKey(c) \notin inFlight
             /\ inFlight' = inFlight \cup {SuccessKey(c)}
             /\ Goto(c, "effects")
    <3> DEFINE w == [callers[c] EXCEPT !.pc = "effects"]
    <3>1. Runs(w) /\ ~Awaits(w) /\ Key(w) = SuccessKey(c) /\ Key(w) = Key(callers[c])
      BY GotoFields DEF Runs, Awaits, Key, SuccessKey
    <3>2. Step(c, w)
      BY <2>4 DEF Goto
    <3> HIDE DEF w
    <3>3. QED
      BY <2>1, <2>4, <3>1, <3>2, OwnedStart
  <2>5. QED
    BY <1>1, <2>2, <2>3, <2>4 DEF Complete
<1>2. CASE RunEffect(c)
  <2>1. PICK e \in Effects :
          Step(c, [callers[c] EXCEPT !.pc = "effect_save", !.rec.done = @ \cup {e}])
    BY <1>2 DEF RunEffect
  <2> DEFINE w == [callers[c] EXCEPT !.pc = "effect_save", !.rec.done = @ \cup {e}]
  <2>2. Runs(w) /\ ~Awaits(w) /\ Key(w) = Key(callers[c])
    BY CallerType DEF CallerStates, Runs, Awaits, Key
  <2>3. Runs(callers[c]) /\ UNCHANGED inFlight
    BY <1>2 DEF RunEffect, At, Runs
  <2> HIDE DEF w
  <2>4. Step(c, w)
    BY <2>1 DEF w
  <2>5. QED
    BY <2>2, <2>3, <2>4, OwnedMove
<1>3. CASE SaveEffect(c)
  <2> DEFINE w == [callers[c] EXCEPT !.pc = "effects"]
  <2>1. Runs(w) /\ ~Awaits(w) /\ Key(w) = Key(callers[c])
    BY GotoFields DEF Runs, Awaits
  <2>2. Runs(callers[c]) /\ UNCHANGED inFlight /\ Step(c, w)
    BY <1>3 DEF SaveEffect, At, Runs, Goto
  <2> HIDE DEF w
  <2>3. QED
    BY <2>1, <2>2, OwnedMove
<1>4. CASE FinishCompletion(c)
  <2>1. Runs(callers[c])
    BY <1>4 DEF FinishCompletion, At, Runs
  <2>2. inFlight' = inFlight \ {Key(callers[c])}
    BY <1>4 DEF FinishCompletion, SuccessKey, Key
  <2>3. \A d \in Callers : Joined(d, c) <=> Awaits(callers[d]) /\ Key(callers[d]) = Key(callers[c])
    BY DEF Joined, At, SuccessKey, Awaits, Key
  <2>4. \A d \in Callers :
          IF d = c \/ (Awaits(callers[d]) /\ Key(callers[d]) = Key(callers[c]))
            THEN Quiet(callers'[d])
            ELSE callers'[d] = callers[d]
    BY <1>4, <2>3, QuietReturned DEF FinishCompletion
  <2>5. QED
    BY <2>1, <2>2, <2>4, OwnedEnd
<1>5. QED
  BY <1>1, <1>2, <1>3, <1>4

\* A reload forgets the callers together with their completions.
LEMMA OwnedReload ==
    ASSUME Reload
    PROVE  Owned'
BY QuietFresh DEF Reload, Owned, Registered, OneRunner, SomeRunner, AwaitsRegistered, Quiet

\* Every step of the runtime preserves Owned.
LEMMA OwnedStep == TypeOK /\ Owned /\ [Next]_vars => Owned'
<1> SUFFICES ASSUME TypeOK, Owned, [Next]_vars PROVE Owned'
  OBVIOUS
<1>1. ASSUME NEW c \in Callers, Continue(c) PROVE Owned'
  <2>1. DirectRefused(c) => Owned'
    BY OwnedThrow DEF DirectRefused
  <2>2. QED
    BY <1>1, <2>1, OwnedOutside, OwnedCompletion DEF Continue
<1>2. ASSUME NEW c \in Callers,
             \/ Submit(c) \/ StartResume(c) \/ \E op \in Ops : StartCall(c, op)
             \/ LoseAcceptance(c)
      PROVE Owned'
  BY <1>2, OwnedOutside
<1>3. ASSUME NEW c \in Callers, PortFails(c) PROVE Owned'
  BY <1>3, OwnedThrow DEF PortFails
<1>4. CASE Reload
  BY <1>4, OwnedReload
<1>5. ASSUME UNCHANGED <<callers, inFlight>> PROVE Owned'
  BY <1>5 DEF Owned, Registered, OneRunner, SomeRunner, AwaitsRegistered
<1>6. ASSUME NEW op \in Ops, RelayerNext(op) PROVE Owned'
  BY <1>5, <1>6 DEF RelayerNext
<1>7. CASE UNCHANGED vars
  BY <1>5, <1>7 DEF vars
<1>8. QED
  BY <1>1, <1>2, <1>3, <1>4, <1>6, <1>7 DEF Next

\* A completion of an operation by a transaction runs in one caller only, and
\* a caller that joined a completion always has a caller running it.
THEOREM InFlightIsOwned == Spec => []InFlightOwned
BY TypeInit, TypeStep, OwnedInit, OwnedStep, OwnedSuffices, PTL DEF Spec
=============================================================================
