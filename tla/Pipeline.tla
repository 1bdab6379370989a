------------------------------ MODULE Pipeline ------------------------------
(***************************************************************************)
(* EnvironmentBootstrapService.run with the PipelineEngine, ExecutorEngine *)
(* and InMemoryApprovalProvider under it: one thread that bootstraps the   *)
(* actions of a plan one at a time.  The environment chooses what the user *)
(* answers, what the real handlers and the verifiers report, and what the  *)
(* planner or the recovery agent proposes after a failure.                 *)
(*                                                                         *)
(* A plan_id is a hash of the plan's contents, so here a plan is its own   *)
(* identifier; a run_id names the position of the bootstrapped action.     *)
(***************************************************************************)
EXTENDS HandlerContract

CONSTANTS
    Plans,          \* what the planner or the session hands to run()
    Candidates,     \* recovery plans the planner or the agent may propose
    RunModes,       \* the execution modes callers use
    Attended,       \* whether callers pass an approval_callback
    Answers,        \* what that callback may return
    PackageOf,      \* the package a context names, "" for none
    MaxAttempts,    \* max_retry_attempts
    MaxReplans      \* max_replans

ASSUME PlansAssumption == Plans \subseteq Seq(Actions) /\ Candidates \subseteq Seq(Actions)
ASSUME CallersAssumption ==
    RunModes \subseteq Modes /\ Attended \subseteq BOOLEAN /\ Answers \subseteq BOOLEAN
ASSUME PackagesAssumption == PackageOf \in [Contexts -> STRING]
ASSUME BoundsAssumption == MaxAttempts \in Nat \ {0} /\ MaxReplans \in Nat

VARIABLES
    mode,           \* execution mode of the bootstrap
    attended,       \* approval_callback is not None
    plan,           \* the plan being bootstrapped
    at,             \* the position the loop is at
    pc,             \* where the thread is
    call,           \* the locals of the current PipelineEngine.run
    store,          \* InMemoryApprovalProvider._store; an approval_id is an index
    collected,      \* action_results: whose iteration added it, and is_success
    evidence,       \* the action results in action_results, as a session copies them
    refused,        \* rejected_actions, by position
    unverified,     \* a verification of last_result failed
    invoked         \* ghost: every call of a real handler

vars == <<mode, attended, plan, at, pc, call, store, collected, evidence, refused,
          unverified, invoked>>
inputs == <<mode, attended, plan>>
outputs == <<collected, evidence, refused, unverified>>

-----------------------------------------------------------------------------
(* Types                                                                   *)

\* `report` is the audit after the loop; `raised` and `unreported` stand for an
\* exception that leaves run() from inside the loop and from that audit.
LoopLeft == {"report", "done", "unreported"}
PCs == {"next", "call", "execute", "verify", "recover", "returned", "raised"} \cup LoopLeft

Request == [id : ActionIds, plan : Seq(Actions), run : Nat,
            status : {"pending", "approved", "rejected"}]

\* `ask` is the call that requests the approval, `resume` the one that follows
\* it, `plain` a call without a provider.
Calls == [phase : {"ask", "resume", "plain"}, current : Seq(Actions), given : Nat,
          rejected : SUBSET Nat, attempt : Nat, results : Seq(ActionResult),
          unverified : BOOLEAN, executed : BOOLEAN, pending : BOOLEAN, replans : Nat]

FreshCall(phase, a, given) ==
    [phase |-> phase, current |-> <<a>>, given |-> given, rejected |-> {}, attempt |-> 1,
     results |-> <<>>, unverified |-> FALSE, executed |-> FALSE, pending |-> FALSE,
     replans |-> 0]

-----------------------------------------------------------------------------
(* The pipeline's decisions                                                *)

\* What the validator tells actions apart by: the package, or else the identifier.
DuplicateKey(a) ==
    LET package == PackageOf[a.context]
    IN  <<ValidatorCanonical(a.id), package,
          IF package = "" THEN a.id ELSE ValidatorCanonical(a.id)>>

\* ExecutionPlanValidator: every action is accepted and none appears twice.
Valid(p) ==
    /\ \A i \in DOMAIN p : ActionAccepted(p[i])
    /\ \A i, j \in DOMAIN p : i # j => DuplicateKey(p[i]) # DuplicateKey(p[j])

HasProvider(c) == c.phase \in {"ask", "resume"}

NeedApproval(p) == {i \in DOMAIN p : RequiresHumanApproval(p[i].id)}

\* pending_approvals maps the bootstrapped action's id to one approval_id, which
\* the first action with that id takes.
Claims(c, p) ==
    {i \in NeedApproval(p) :
        /\ c.given # 0
        /\ p[i].id = plan[at].id
        /\ \A j \in NeedApproval(p) : j < i => p[j].id # plan[at].id}

\* mutant: the request's plan_id is not compared
MatchesIdOnly(r, p, i) == r.id = p[i].id /\ r.run = at

Matches(r, p, i) == r.id = p[i].id /\ r.plan = p /\ r.run = at

\* _approval_gate's rejected_action_indexes ...
RejectedBy(c, p) ==
    IF HasProvider(c)
    THEN {i \in Claims(c, p) : \/ ~Matches(store[c.given], p, i)
                               \/ store[c.given].status = "rejected"}
    ELSE {}

\* ... and the positions it asks for; a claimed request is never still pending,
\* because run() approves it before it passes it on.
AskedBy(c, p) == IF HasProvider(c) THEN NeedApproval(p) \ Claims(c, p) ELSE {}

\* provider.request_approval for each of them, in plan order.
NewRequests(c, p) ==
    LET ask == AskedBy(c, p)
        nth(k) == CHOOSE i \in ask : Cardinality({j \in ask : j <= i}) = k
    IN  [k \in 1..Cardinality(ask) |->
            [id |-> p[nth(k)].id, plan |-> p, run |-> at, status |-> "pending"]]

\* ExecutorEngine._executor_action_id
ExecutorId(a) == Canonical(a.id.name)

IsApproved(c) == mode = "real" /\ HasProvider(c)

Allowed(c, a) == GateAllows(ExecutorId(a), mode, IsApproved(c))

Succeeded(c) == \A i \in DOMAIN c.results : c.results[i].status # "failed"

\* The successful positions an independent verifier looks at.
Verifiable(c) ==
    {i \in DOMAIN c.results : /\ c.results[i].status = "success"
                              /\ c.current[i].id.name \in VerifierNames}

NeedsReplan(c) == c.unverified \/ \E i \in DOMAIN c.results : c.results[i].replan

\* PipelineResult.is_success; is_rejected_approval is never set.
PipelineSuccess(c) == c.executed /\ ~c.pending /\ Succeeded(c) /\ ~c.unverified

-----------------------------------------------------------------------------
Init ==
    /\ mode \in RunModes
    /\ attended \in Attended
    /\ plan \in Plans
    /\ at = 1
    /\ pc = "next"
    /\ call = [FreshCall("plain", [id |-> ReplanId, context |-> CHOOSE x \in Contexts : TRUE], 0)
                 EXCEPT !.current = <<>>]
    /\ store = <<>>
    /\ collected = <<>>
    /\ evidence = <<>>
    /\ refused = {}
    /\ unverified = FALSE
    /\ invoked = {}

\* The loop head: the provider is used for a REAL action that needs approval.
NextAction ==
    /\ pc = "next"
    /\ IF at \in DOMAIN plan
       THEN /\ call' = FreshCall(IF mode = "real" /\ RequiresHumanApproval(plan[at].id)
                                 THEN "ask" ELSE "plain", plan[at], 0)
            /\ pc' = "call"
       ELSE pc' = "report" /\ UNCHANGED call
    /\ UNCHANGED <<inputs, at, store, outputs, invoked>>

\* PipelineEngine.run up to its loop: validate, then the approval gate.
EnterInvalid ==
    /\ pc = "call"
    /\ ~Valid(call.current)
    /\ pc' = "returned"
    /\ UNCHANGED <<inputs, at, call, store, outputs, invoked>>

EnterPending ==
    /\ pc = "call"
    /\ Valid(call.current)
    /\ AskedBy(call, call.current) # {}
    /\ store' = store \o NewRequests(call, call.current)
    /\ call' = [call EXCEPT !.pending = TRUE]
    /\ pc' = "returned"
    /\ UNCHANGED <<inputs, at, outputs, invoked>>

Enter ==
    /\ pc = "call"
    /\ Valid(call.current)
    /\ AskedBy(call, call.current) = {}
    /\ call' = [call EXCEPT !.rejected = RejectedBy(call, call.current), !.executed = TRUE]
    /\ pc' = "execute"
    /\ UNCHANGED <<inputs, at, store, outputs, invoked>>

\* ExecutorEngine.execute: the position it is at.
Position == Len(call.results) + 1

Keep(r) == [call EXCEPT !.results = Append(@, r), !.attempt = 1]

SkipRejected ==
    /\ pc = "execute"
    /\ Position \in DOMAIN call.current
    /\ Position \in call.rejected
    /\ call' = Keep(Result(call.current[Position], "skipped", FALSE, FALSE))
    /\ UNCHANGED <<inputs, at, pc, store, outputs, invoked>>

\* A denial is classified POLICY_DENIED: no retry, no replan.
Deny ==
    /\ pc = "execute"
    /\ Position \in DOMAIN call.current \ call.rejected
    /\ ~Allowed(call, call.current[Position])
    /\ call' = Keep(Result(call.current[Position], "failed", FALSE, FALSE))
    /\ UNCHANGED <<inputs, at, pc, store, outputs, invoked>>

\* One attempt of the handler; a transient failure is retried.
Handle ==
    /\ pc = "execute"
    /\ Position \in DOMAIN call.current \ call.rejected
    /\ Allowed(call, call.current[Position])
    /\ \E r \in HandlerResults(call.current[Position], mode) :
          call' = IF r.retryable /\ call.attempt < MaxAttempts
                  THEN [call EXCEPT !.attempt = @ + 1]
                  ELSE Keep(r)
    /\ invoked' = IF mode = "real"
                  THEN invoked \cup {[run |-> at, plan |-> call.current, pos |-> Position]}
                  ELSE invoked
    /\ UNCHANGED <<inputs, at, pc, store, outputs>>

EndExecution ==
    /\ pc = "execute"
    /\ Position \notin DOMAIN call.current
    /\ pc' = "verify"
    /\ UNCHANGED <<inputs, at, call, store, outputs, invoked>>

\* mutant: one replan too many
MayReplanOnceMore(c) == NeedsReplan(c) /\ c.replans <= MaxReplans

MayReplan(c) == NeedsReplan(c) /\ c.replans < MaxReplans

\* ExecutorEngine.verify, and whether the failures call for another plan.
Verify ==
    /\ pc = "verify"
    /\ \E bad \in IF Verifiable(call) = {} THEN {FALSE} ELSE BOOLEAN :
          call' = [call EXCEPT !.unverified = bad]
    /\ pc' = IF MayReplan(call') THEN "recover" ELSE "returned"
    /\ UNCHANGED <<inputs, at, store, outputs, invoked>>

\* mutant: the replan counter is not incremented
SameCount(n) == n

NextCount(n) == n + 1

\* The recovery plan is invalid: the first execution stands.
RecoverInvalid(p) ==
    /\ pc = "recover"
    /\ ~Valid(p)
    /\ call' = [call EXCEPT !.replans = NextCount(@)]
    /\ pc' = "returned"
    /\ UNCHANGED <<inputs, at, store, outputs, invoked>>

\* It needs approvals: they are requested, and the call ends pending.
RecoverPending(p) ==
    /\ pc = "recover"
    /\ Valid(p)
    /\ AskedBy(call, p) # {}
    /\ store' = store \o NewRequests(call, p)
    /\ call' = [call EXCEPT !.replans = NextCount(@), !.pending = TRUE]
    /\ pc' = "returned"
    /\ UNCHANGED <<inputs, at, outputs, invoked>>

\* It replaces the plan.
Recover(p) ==
    /\ pc = "recover"
    /\ Valid(p)
    /\ AskedBy(call, p) = {}
    /\ call' = [call EXCEPT !.replans = NextCount(@), !.current = p,
                            !.rejected = RejectedBy(call, p), !.results = <<>>,
                            !.unverified = FALSE]
    /\ pc' = "execute"
    /\ UNCHANGED <<inputs, at, store, outputs, invoked>>

-----------------------------------------------------------------------------
(* EnvironmentBootstrapService.run after a call                            *)

Collect(ok, items) ==
    /\ collected' = Append(collected, [run |-> at, ok |-> ok])
    /\ evidence' = evidence \o items

Advance == at' = at + 1 /\ pc' = "next"

\* No approval was asked for: an empty failure is recorded, and the loop goes on.
Blocked ==
    /\ pc = "returned"
    /\ call.phase = "ask"
    /\ ~call.pending
    /\ Collect(FALSE, <<>>)
    /\ unverified' = FALSE
    /\ Advance
    /\ UNCHANGED <<inputs, call, store, refused, invoked>>

\* Without a callback the pending result is returned at once.
Unattended ==
    /\ pc = "returned"
    /\ call.phase = "ask"
    /\ call.pending
    /\ ~attended
    /\ pc' = "report"
    /\ unverified' = FALSE
    /\ UNCHANGED <<inputs, at, call, store, collected, evidence, refused, invoked>>

Refuse ==
    /\ pc = "returned"
    /\ call.phase = "ask"
    /\ call.pending /\ attended
    /\ FALSE \in Answers
    /\ store' = [store EXCEPT ![Len(store)].status = "rejected"]
    /\ refused' = refused \cup {at}
    /\ unverified' = FALSE
    /\ Advance
    /\ UNCHANGED <<inputs, call, collected, evidence, invoked>>

Approve ==
    /\ pc = "returned"
    /\ call.phase = "ask"
    /\ call.pending /\ attended
    /\ TRUE \in Answers
    /\ store' = [store EXCEPT ![Len(store)].status = "approved"]
    /\ call' = FreshCall("resume", plan[at], Len(store))
    /\ pc' = "call"
    /\ UNCHANGED <<inputs, at, outputs, invoked>>

\* mutant: the break is lost
GoesOnAlways(c) == TRUE

GoesOn(c) == PipelineSuccess(c)

\* mutant: a result without an execution is recorded too
RecordsAlways(c) == TRUE

\* mutant: an empty execution result is taken for none
RecordsResults(c) == c.executed /\ c.results # <<>>

Records(c) == c.executed

Items(c) ==
    [i \in DOMAIN c.results |->
        [id |-> c.results[i].id, ok |-> c.results[i].status = "success"]]

\* The result of a resumed or plain call is recorded; a failure ends the loop.
Record ==
    /\ pc = "returned"
    /\ call.phase # "ask"
    /\ IF Records(call) THEN Collect(Succeeded(call), Items(call))
                        ELSE UNCHANGED <<collected, evidence>>
    /\ unverified' = call.unverified
    /\ IF GoesOn(call) THEN Advance ELSE pc' = "report" /\ UNCHANGED at
    /\ UNCHANGED <<inputs, call, store, refused, invoked>>

\* The final audit.
Report ==
    /\ pc = "report"
    /\ pc' = "done"
    /\ UNCHANGED <<inputs, at, call, store, outputs, invoked>>

\* An audit reads pyproject.toml outside the probes' error boundary, and the
\* verifiers have none: either may raise, and nothing above catches it.
Raises ==
    /\ pc \in {"call", "verify", "recover", "report"}
    /\ pc' = IF pc = "report" THEN "unreported" ELSE "raised"
    /\ UNCHANGED <<inputs, at, call, store, outputs, invoked>>

Next ==
    \/ NextAction
    \/ EnterInvalid
    \/ EnterPending
    \/ Enter
    \/ SkipRejected
    \/ Deny
    \/ Handle
    \/ EndExecution
    \/ Verify
    \/ \E p \in Candidates : RecoverInvalid(p) \/ RecoverPending(p) \/ Recover(p)
    \/ Blocked
    \/ Unattended
    \/ Refuse
    \/ Approve
    \/ Record
    \/ Report
    \/ Raises

Spec == Init /\ [][Next]_vars

\* Handlers and verifiers run their commands with a timeout, and the user of an
\* interactive bootstrap answers.
FairSpec == Spec /\ WF_vars(Next)

-----------------------------------------------------------------------------
(* Properties                                                              *)

TypeOK ==
    /\ mode \in Modes
    /\ attended \in BOOLEAN
    /\ plan \in Plans
    /\ at \in 1..Len(plan) + 1
    /\ pc \in PCs
    /\ call \in Calls
    /\ call.given \in 0..Len(store)
    /\ call.attempt \in 1..MaxAttempts
    /\ call.replans \in 0..MaxReplans
    /\ store \in Seq(Request)
    /\ collected \in Seq([run : Nat, ok : BOOLEAN])
    /\ evidence \in Seq(Evidence)
    /\ refused \subseteq DOMAIN plan
    /\ unverified \in BOOLEAN
    /\ invoked \subseteq [run : Nat, plan : Seq(Actions), pos : Nat]

\* Default deny and human consent: a real handler that the policies put under
\* human approval is called only in an iteration whose user approved exactly
\* this action of exactly this plan, recovery plans included.
ConsentBeforeInvocation ==
    \A x \in invoked :
        RequiresHumanApproval(ExecutorId(x.plan[x.pos])) =>
            \E k \in DOMAIN store :
                store[k] = [id |-> x.plan[x.pos].id, plan |-> x.plan, run |-> x.run,
                            status |-> "approved"]

\* A failed action ends the bootstrap: once action_results records a failure of
\* an action whose handlers were called, no later action is touched.
FailureStops ==
    \A k \in DOMAIN collected :
        /\ ~collected[k].ok
        /\ \E x \in invoked : x.run = collected[k].run
        => \A x \in invoked : x.run <= collected[k].run

\* The loop drops nothing: each action it has left behind was refused by the
\* user or has its result in action_results, and never both.
NothingDropped ==
    \A j \in DOMAIN plan : j < at =>
        (j \in refused <=> ~ \E k \in DOMAIN collected : collected[k].run = j)

\* A bootstrap ends, with an answer to each question and fair handlers.
Terminates == <>(pc \in {"done", "raised", "unreported"})

\* What is left of a bootstrap, the slowest hand first: actions, calls for the
\* action, replans of the call, stages of the plan, actions in it, attempts.
Level ==
    CASE pc = "next" -> 5
      [] pc = "report" -> 2
      [] pc = "done" -> 1
      [] pc \in {"raised", "unreported"} -> 0
      [] OTHER -> IF call.phase = "ask" THEN 4 ELSE 3

Stage ==
    CASE pc = "call" -> 4
      [] pc = "execute" -> 3
      [] pc = "verify" -> 2
      [] pc = "recover" -> 1
      [] OTHER -> 0

Remaining ==
    <<Len(plan) + 1 - at, Level, MaxReplans - call.replans, Stage,
      Len(call.current) - Len(call.results), MaxAttempts - call.attempt>>

Earlier(x, y) == \E k \in 1..6 : x[k] < y[k] /\ \A j \in 1..k - 1 : x[j] = y[j]

\* Recovery is bounded: every step of a bootstrap uses up some of what remains, and
\* that is well-founded, whatever the handlers report and whatever plans are proposed.
EveryStepUsesUp == [][Remaining' \in [1..6 -> Nat] /\ Earlier(Remaining', Remaining)]_vars

\* The refinement: what the loop hands back is what BootstrapLoop says.
Loop == INSTANCE BootstrapLoop WITH
    actions <- plan,
    todo <- IF pc \in LoopLeft THEN {} ELSE {j \in DOMAIN plan : at <= j},
    results <- [k \in DOMAIN collected |-> collected[k].ok],
    items <- evidence,
    invoked <- {j \in {x.run : x \in invoked} : j < at \/ pc \in LoopLeft}

\* How a session calls run(): a plan of the plan builder in REAL mode, with a
\* callback that approves what the user approved before.  A recovery plan is empty,
\* a SAFE-only remediation (one stands for several), refused by the validator, or
\* needs an approval of its own: the planner proposes canonical names, and a session
\* plans instances.
SessionCallers ==
    /\ Plans \subseteq Seq(SessionActions)
    /\ RunModes = {"real"} /\ Attended = {TRUE} /\ Answers = {TRUE}
    /\ \A p \in Candidates :
          \/ p = <<>>
          \/ Len(p) = 1 /\ p[1].id = ReplanId
          \/ ~Valid(p)
          \/ \E i \in DOMAIN p : RequiresHumanApproval(p[i].id) /\ p[i].id.subject = Bare

\* For the plans of a session and a callback that approves, every iteration
\* hands back one of the RealOutcomes on which SessionService is built.
ImplementsLoop == Loop!Spec

=============================================================================
