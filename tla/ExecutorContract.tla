-------------------------- MODULE ExecutorContract --------------------------
(***************************************************************************)
(* What ExecutorEngine promises the pipeline: one report for each action,  *)
(* in plan order; none but a skip for what the user rejected; none but a   *)
(* denial for what the gate forbids; a bounded number of attempts at the   *)
(* rest; and a failed verification only where there is a success to        *)
(* verify.  Handlers is shown to implement it, and the executor inside     *)
(* Pipeline to take exactly these steps.                                   *)
(***************************************************************************)
EXTENDS HandlerContract

CONSTANTS
    Plans,          \* the plans an executor is given
    MaxAttempts     \* max_attempts

VARIABLES
    plan,           \* the plan of this execution,
    mode,           \* its mode,
    approved,       \* is_approved,
    rejected,       \* and rejected_action_indexes, from 1
    phase,          \* "idle", in "execute" or in "verify"
    attempt,        \* the attempt at the current action, from 1
    results,        \* ExecutionResult.results
    unverified      \* a verification failed

job == <<plan, mode, approved, rejected>>
vars == <<job, phase, attempt, results, unverified>>

\* The position the executor is at.
Position == Len(results) + 1

Allowed(a) == GateAllows(Canonical(a.id.name), mode, approved)

\* The successes that an independent verifier looks at.
Verifiable ==
    {i \in DOMAIN results : results[i].status = "success" /\ plan[i].id.name \in VerifierNames}

Report(r) == results' = Append(results, r) /\ attempt' = 1

-----------------------------------------------------------------------------
Init ==
    /\ plan = <<>> /\ mode = "safe" /\ approved = FALSE /\ rejected = {}
    /\ phase = "idle"
    /\ attempt = 1
    /\ results = <<>>
    /\ unverified = FALSE

Execute ==
    /\ phase = "idle"
    /\ plan' \in Plans /\ mode' \in Modes /\ approved' \in BOOLEAN
    /\ rejected' \subseteq DOMAIN plan'
    /\ phase' = "execute"
    /\ attempt' = 1 /\ results' = <<>> /\ unverified' = FALSE

SkipRejected ==
    /\ phase = "execute"
    /\ Position \in DOMAIN plan \cap rejected
    /\ Report(Result(plan[Position], "skipped", FALSE, FALSE))
    /\ UNCHANGED <<job, phase, unverified>>

Deny ==
    /\ phase = "execute"
    /\ Position \in DOMAIN plan \ rejected
    /\ ~Allowed(plan[Position])
    /\ Report(Result(plan[Position], "failed", FALSE, FALSE))
    /\ UNCHANGED <<job, phase, unverified>>

\* One attempt of the handler; a transient failure is tried again.
Attempt ==
    /\ phase = "execute"
    /\ Position \in DOMAIN plan \ rejected
    /\ Allowed(plan[Position])
    /\ \E r \in HandlerResults(plan[Position], mode) :
          IF r.retryable /\ attempt < MaxAttempts
          THEN attempt' = attempt + 1 /\ UNCHANGED results
          ELSE Report(r)
    /\ UNCHANGED <<job, phase, unverified>>

EndExecution ==
    /\ phase = "execute"
    /\ Position \notin DOMAIN plan
    /\ phase' = "verify"
    /\ UNCHANGED <<job, attempt, results, unverified>>

Verify ==
    /\ phase = "verify"
    /\ phase' = "idle"
    /\ unverified' \in IF Verifiable = {} THEN {FALSE} ELSE BOOLEAN
    /\ UNCHANGED <<job, attempt, results>>

Next == Execute \/ SkipRejected \/ Deny \/ Attempt \/ EndExecution \/ Verify

Spec == Init /\ [][Next]_vars

=============================================================================
