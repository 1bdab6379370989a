------------------------- MODULE BootstrapOutcomes -------------------------
(***************************************************************************)
(* What one iteration of EnvironmentBootstrapService.run can hand back to  *)
(* the session service: the abstraction of the approval, execution,        *)
(* verification and replanning of one approved action.  SessionService     *)
(* runs on it; Pipeline models that machinery step by step, and its run    *)
(* checks that nothing else can come out.                                  *)
(***************************************************************************)
EXTENDS ActionPolicy

\* An ExecutionEvidence: the action it names and whether it succeeded.
Evidence == [id : ActionIds, ok : BOOLEAN]

Outcome(inv, results, items, unverified, goesOn) ==
    [invoked |-> inv, results |-> results, items |-> items,
     unverified |-> unverified, goesOn |-> goesOn]

\* mutant: the planner emits a name that no table knows
ReplanIdUnknown == Canonical("repair_venv")

\* A replan in REAL mode can only meet SAFE-only remediations; this one stands for
\* the planner's fix_venv, fix_editable and upgrade_python, alone or together: each
\* is denied, and leaves a failed result under a name that no session plans.
ReplanId == Canonical("fix_venv")

\* mutant: a refused plan is reported as done
ClaimedDone(a) == Outcome(FALSE, <<TRUE>>, <<[id |-> a.id, ok |-> TRUE]>>, FALSE, TRUE)

\* The validator refuses the identifier: nothing is appended, and the loop breaks.
IdRefused(a) == Outcome(FALSE, <<>>, <<>>, FALSE, FALSE)

\* Refused before an approval is asked for: one empty failure, and the loop goes on.
ContextRefused(a) == Outcome(FALSE, <<FALSE>>, <<>>, FALSE, TRUE)

\* EnvironmentBootstrapService.run on a one-action plan in REAL mode, approved:
\* what it appends to action_results, and whether the loop goes on.
RealOutcomes(a) ==
    LET it(ok) == <<[id |-> a.id, ok |-> ok]>>
    IN  IF ~RequiresHumanApproval(a.id) THEN {IdRefused(a)}
        ELSE IF ~ActionAccepted(a) THEN {ContextRefused(a)}
        ELSE {Outcome(TRUE, <<TRUE>>, it(TRUE), FALSE, TRUE),    \* verified
              Outcome(TRUE, <<FALSE>>, it(FALSE), FALSE, FALSE), \* handler failed
              Outcome(TRUE, <<TRUE>>, it(TRUE), TRUE, FALSE),    \* not verified
              \* replanned to a plan with no action: an empty success
              Outcome(TRUE, <<TRUE>>, <<>>, FALSE, TRUE),
              \* replanned to an action the gate denies in REAL mode
              Outcome(TRUE, <<FALSE>>, <<[id |-> ReplanId, ok |-> FALSE]>>, FALSE, FALSE)}

=============================================================================
