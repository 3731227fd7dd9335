-------------------------- MODULE TransactionPath --------------------------
(***************************************************************************)
(* A pool transaction from the request to the ledger: how it is planned,   *)
(* proved and routed (ProofPlan), and how it is sent and waited for        *)
(* (ChainSubmission).  The second takes from the first a proof and a       *)
(* nonce, which it passes on without reading them, so the two are checked  *)
(* one at a time: a behaviour here is one of either, the other at rest.    *)
(***************************************************************************)
EXTENDS ProofPlan, ChainSubmission

VARIABLE phase      \* "planning" or "submitting"

transactionVars == <<planVars, submissionVars, phase>>

\* The phase that is not looked at starts in one state of its own Init.
PlanAtRest == ~registered /\ intent = CHOOSE i \in Intents : i.kind = "deposit"

SubmissionAtRest == ~environment.registers /\ ~environment.signs /\ chain.configLive = {}

TransactionInit ==
    /\ PlanInit /\ SubmissionInit
    /\ phase \in {"planning", "submitting"}
    /\ phase # "planning" => PlanAtRest
    /\ phase # "submitting" => SubmissionAtRest

TransactionNext ==
    \/ phase = "planning" /\ PlanNext /\ UNCHANGED <<submissionVars, phase>>
    \/ phase = "submitting" /\ SubmissionNext /\ UNCHANGED <<planVars, phase>>

\* The fairness of SubmissionSpec, in the phase it is about.
TransactionSpec ==
    /\ TransactionInit
    /\ [][TransactionNext]_transactionVars
    /\ \A c \in Submissions :
          WF_transactionVars(phase = "submitting" /\ Polls(c) /\ UNCHANGED <<planVars, phase>>)
=============================================================================
