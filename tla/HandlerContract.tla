--------------------------- MODULE HandlerContract ---------------------------
(***************************************************************************)
(* What an attempt at one action can report to the pipeline: the           *)
(* abstraction of the handlers and of RetryPolicy's reading of their       *)
(* messages.  Pipeline runs on it; Handlers models the handlers command by *)
(* command, and its run checks that nothing else can come out.             *)
(***************************************************************************)
EXTENDS BootstrapOutcomes

\* An ActionResult with the FailureRecord that RetryPolicy makes of it.
ActionResult == [id : ActionIds, status : {"success", "skipped", "failed"},
                 retryable : BOOLEAN, replan : BOOLEAN]

Result(a, status, retryable, replan) ==
    [id |-> a.id, status |-> status, retryable |-> retryable, replan |-> replan]

\* A SAFE handler simulates; a real one succeeds, or fails in a way that
\* RetryPolicy classifies; a failure may carry a replan hint.
HandlerResults(a, m) ==
    IF m = "safe" THEN {Result(a, "skipped", FALSE, FALSE)}
    ELSE IF ~HasHandler(a.id.name, m) THEN {Result(a, "failed", FALSE, TRUE)}
    ELSE {Result(a, "success", FALSE, FALSE)}
         \cup [id : {a.id}, status : {"failed"}, retryable : BOOLEAN, replan : BOOLEAN]

=============================================================================
