--------------------------- MODULE SessionService ---------------------------
(***************************************************************************)
(* EnvironmentSessionService and RuntimeSessionService: HTTP request       *)
(* threads (Clients) and background bootstrap threads (Workers) that share *)
(* the session objects of InMemorySessionRepository.                       *)
(*                                                                         *)
(* repository.get returns the stored object itself and no lock is held     *)
(* across a handler, so every read or write of a shared attribute is a     *)
(* step of its own; only start_async's check runs under _running_lock.     *)
(* Each step below makes at most one access to an attribute that another   *)
(* thread writes.  Appending an event is merged with the write it follows, *)
(* because no handler reads the timeline back.                             *)
(***************************************************************************)
EXTENDS BootstrapOutcomes

CONSTANTS
    Sessions,       \* session identifiers
    Clients,        \* HTTP request threads (ThreadingHTTPServer)
    Workers,        \* background threads started by start_async
    Plans,          \* what the strategy planner and the plan builder may return
    NoPlan,         \* session.plan is None
    MaxRequests     \* bound: requests issued in a behaviour

ASSUME SessionsAssumption == Sessions # {}
ASSUME ThreadsAssumption == Clients \cap Workers = {}
ASSUME PlansAssumption == Plans \subseteq Seq(SessionActions) /\ NoPlan \notin Plans
ASSUME MaxRequestsAssumption == MaxRequests \in Nat

VARIABLES
    status,         \* session.status, or "absent" before create
    plan,           \* session.plan
    approval,       \* session.approval_states: decision per action id
    stamped,        \* session.completed_at is not None
    running,        \* RuntimeSessionService._running
    timeline,       \* how many events of each kind the session has
    history,        \* session.execution_history, oldest first
    pc,             \* where each thread is in its handler
    sid,            \* the session each thread works on
    request,        \* the decision or mode a client's request carries
    run,            \* the local variables of start() in each worker
    issued,         \* requests issued so far
    granted,        \* ghost: <<s, id>> approved at some time
    late,           \* ghost: <<s, id>> decided about since a run of s last read the decisions
    invoked         \* ghost: <<s, a>> whose real handler was called

session == <<status, plan, approval, stamped, running, timeline, history>>
ghosts == <<granted, late, invoked>>
vars == <<session, pc, sid, request, run, issued, ghosts>>

-----------------------------------------------------------------------------
(* Types                                                                   *)

Threads == Clients \cup Workers

Terminal == {"completed", "failed", "cancelled"}
Statuses == {"absent", "created", "awaiting_approval", "executing"} \cup Terminal

Verdicts == {"approved", "rejected", "skipped"}
Undecided == "none"     \* no entry in approval_states
Marks == Verdicts \cup {Undecided, "pending"}

EventKinds ==
    {"session_created", "intent_parsed", "plan_created", "plan_failed",
     "action_approved", "action_rejected", "action_skipped", "session_cancelled",
     "approval_required", "session_started", "session_completed", "session_failed",
     "nothing_to_run", "worker_raised"}

ClientPCs == {"idle", "intent", "build", "register", "decide", "spawn", "cancel"}
WorkerPCs ==
    {"idle", "begin", "build", "examine", "complete_empty", "require", "snapshot",
     "iterate", "await", "approval_required", "select", "launch", "run", "raise",
     "release"}

Requests == [id : InstanceIds, verdict : Verdicts] \cup [mode : Modes] \cup {<<>>}

\* start()'s locals: the mode; the sets of the approval check; the iterator
\* over approval_states (its keys at the start, those left); the plan it filters
\* and the positions left to run; action_results and the evidence in them; the
\* verification of the last pipeline result.
RunLocals ==
    [mode : Modes, required : SUBSET InstanceIds, keys : SUBSET InstanceIds,
     unread : SUBSET InstanceIds, approved : SUBSET InstanceIds,
     skipped : SUBSET InstanceIds, actions : Seq(SessionActions), todo : SUBSET Nat,
     results : Seq(BOOLEAN), items : Seq(Evidence), unverified : BOOLEAN]

FreshRun(m) ==
    [mode |-> m, required |-> {}, keys |-> {}, unread |-> {}, approved |-> {},
     skipped |-> {}, actions |-> <<>>, todo |-> {}, results |-> <<>>,
     items |-> <<>>, unverified |-> FALSE]

-----------------------------------------------------------------------------
(* Helpers                                                                 *)

IdsOf(p) == {p[i].id : i \in DOMAIN p}

\* The keys of approval_states.
DecidedIds(s) == {id \in InstanceIds : approval[s][id] # Undecided}

Note(s, kind) == timeline' = [timeline EXCEPT ![s][kind] = @ + 1]

Goto(t, label) == pc' = [pc EXCEPT ![t] = label]

CanIssue(c) == pc[c] = "idle" /\ issued < MaxRequests

\* A client thread picks up a request about session s.
Take(c, s) ==
    /\ CanIssue(c)
    /\ issued' = issued + 1
    /\ sid' = [sid EXCEPT ![c] = s]

-----------------------------------------------------------------------------
Init ==
    /\ status = [s \in Sessions |-> "absent"]
    /\ plan = [s \in Sessions |-> NoPlan]
    /\ approval = [s \in Sessions |-> [id \in InstanceIds |-> Undecided]]
    /\ stamped = [s \in Sessions |-> FALSE]
    /\ running = {}
    /\ timeline = [s \in Sessions |-> [k \in EventKinds |-> 0]]
    /\ history = [s \in Sessions |-> <<>>]
    /\ pc = [t \in Threads |-> "idle"]
    /\ sid = [t \in Threads |-> CHOOSE s \in Sessions : TRUE]
    /\ request = [c \in Clients |-> <<>>]
    /\ run = [w \in Workers |-> FreshRun("real")]
    /\ issued = 0
    /\ granted = {}
    /\ late = {}
    /\ invoked = {}

-----------------------------------------------------------------------------
(* Request handlers                                                        *)

\* create: the audit and the reconciliation work on private objects; the
\* session is visible from repository.create on.
Create(c, s) ==
    /\ status[s] = "absent"
    /\ Take(c, s)
    /\ status' = [status EXCEPT ![s] = "created"]
    /\ Note(s, "session_created")
    /\ \/ Goto(c, "intent")             \* a natural-language goal was parsed
       \/ UNCHANGED pc
    /\ UNCHANGED <<plan, approval, stamped, running, history, request, run, ghosts>>

RecordIntent(c) ==
    /\ pc[c] = "intent"
    /\ Note(sid[c], "intent_parsed")
    /\ Goto(c, "idle")
    /\ UNCHANGED <<status, plan, approval, stamped, running, history, sid, request,
                   run, issued, ghosts>>

\* GET .../plan of a session whose plan is None goes on to build one; with a
\* plan in place the request only reads it.
RequestPlan(c, s) ==
    /\ status[s] # "absent"
    /\ plan[s] = NoPlan
    /\ Take(c, s)
    /\ Goto(c, "build")
    /\ UNCHANGED <<session, request, run, ghosts>>

\* mutant: a start that had to plan returns as the plan request does
AfterPlanReturns(t, label) == Goto(t, "idle")

\* A plan request returns; a start goes on.
AfterPlan(t, label) == Goto(t, IF t \in Clients THEN "idle" ELSE label)

\* plan(): the strategy planner may call an LLM, so the result may be any of
\* Plans, and session.plan is assigned whatever it holds by now.
BuildPlan(t) ==
    /\ pc[t] = "build"
    /\ \E p \in Plans : plan' = [plan EXCEPT ![sid[t]] = p]
    /\ Note(sid[t], "plan_created")
    /\ AfterPlan(t, "examine")
    /\ UNCHANGED <<status, approval, stamped, running, history, sid, request, run,
                   issued, ghosts>>

\* A ValueError of the planner or the builder: "blocked", the status is kept.
BuildFails(t) ==
    /\ pc[t] = "build"
    /\ Note(sid[t], "plan_failed")
    /\ AfterPlan(t, "release")
    /\ UNCHANGED <<status, plan, approval, stamped, running, history, sid, request,
                   run, issued, ghosts>>

\* approve, reject and skip: _ensure_action reads the plan, set_approval_state
\* looks for an entry ...
RequestDecision(c, s, id, verdict) ==
    /\ plan[s] # NoPlan
    /\ id \in IdsOf(plan[s])
    /\ Take(c, s)
    /\ request' = [request EXCEPT ![c] = [id |-> id, verdict |-> verdict]]
    /\ Goto(c, IF approval[s][id] = Undecided THEN "register" ELSE "decide")
    /\ UNCHANGED <<session, run, ghosts>>

\* ... inserts a pending one when it found none, even over one inserted since ...
Register(c) ==
    /\ pc[c] = "register"
    /\ approval' = [approval EXCEPT ![sid[c]][request[c].id] = "pending"]
    /\ late' = late \cup {<<sid[c], request[c].id>>}
    /\ Goto(c, "decide")
    /\ UNCHANGED <<status, plan, stamped, running, timeline, history, sid, request, run,
                   issued, granted, invoked>>

\* ... and writes the verdict into it, in any session status.
Decide(c) ==
    /\ pc[c] = "decide"
    /\ LET s == sid[c]
           r == request[c]
       IN  /\ approval' = [approval EXCEPT ![s][r.id] = r.verdict]
           /\ granted' = IF r.verdict = "approved" THEN granted \cup {<<s, r.id>>}
                                                   ELSE granted
           /\ late' = late \cup {<<s, r.id>>}
           /\ Note(s, CASE r.verdict = "approved" -> "action_approved"
                        [] r.verdict = "rejected" -> "action_rejected"
                        [] r.verdict = "skipped" -> "action_skipped")
    /\ request' = [request EXCEPT ![c] = <<>>]
    /\ Goto(c, "idle")
    /\ UNCHANGED <<status, plan, stamped, running, history, sid, run, issued, invoked>>

\* mutant: the membership test is dropped
MayStartTwice(s) == status[s] \notin Terminal \cup {"absent"}

\* mutant: the status test is dropped
MayRestart(s) == status[s] # "absent" /\ s \notin running

MayStart(s) ==
    /\ status[s] \notin Terminal \cup {"absent"}
    /\ s \notin running

\* start_async, under _running_lock: refuse a session that is being run or is
\* terminal, else enter it in _running.
StartAsync(c, s, m) ==
    /\ MayStart(s)
    /\ Take(c, s)
    /\ running' = running \cup {s}
    /\ request' = [request EXCEPT ![c] = [mode |-> m]]
    /\ Goto(c, "spawn")
    /\ UNCHANGED <<status, plan, approval, stamped, timeline, history, run, ghosts>>

\* start_async, after the lock: the worker thread starts.
Spawn(c) ==
    /\ pc[c] = "spawn"
    /\ \E w \in Workers :
          /\ pc[w] = "idle"
          /\ sid' = [sid EXCEPT ![w] = sid[c]]
          /\ run' = [run EXCEPT ![w] = FreshRun(request[c].mode)]
          /\ pc' = [pc EXCEPT ![c] = "idle", ![w] = "begin"]
    /\ request' = [request EXCEPT ![c] = <<>>]
    /\ UNCHANGED <<session, issued, ghosts>>

\* cancel reads the status ...
RequestCancel(c, s) ==
    /\ status[s] \notin Terminal \cup {"absent"}
    /\ Take(c, s)
    /\ Goto(c, "cancel")
    /\ UNCHANGED <<session, request, run, ghosts>>

\* ... and then overwrites it, whatever it is by now.
Cancel(c) ==
    /\ pc[c] = "cancel"
    /\ status' = [status EXCEPT ![sid[c]] = "cancelled"]
    /\ stamped' = [stamped EXCEPT ![sid[c]] = TRUE]
    /\ Note(sid[c], "session_cancelled")
    /\ Goto(c, "idle")
    /\ UNCHANGED <<plan, approval, running, history, sid, request, run, issued, ghosts>>

ClientStep(c) ==
    \/ RecordIntent(c)
    \/ BuildPlan(c)
    \/ BuildFails(c)
    \/ Register(c)
    \/ Decide(c)
    \/ Spawn(c)
    \/ Cancel(c)

-----------------------------------------------------------------------------
(* The worker: _run_worker around start()                                  *)

Locals(w, r) == run' = [run EXCEPT ![w] = r]

\* start(): plan first when there is none.
Begin(w) ==
    /\ pc[w] = "begin"
    /\ Goto(w, IF plan[sid[w]] = NoPlan THEN "build" ELSE "examine")
    /\ UNCHANGED <<session, sid, request, run, issued, ghosts>>

\* An empty plan completes the session; a SAFE start of any other plan reads
\* the local `approved` before it is bound, and raises UnboundLocalError.
Examine(w) ==
    /\ pc[w] = "examine"
    /\ Goto(w, CASE plan[sid[w]] = <<>> -> "complete_empty"
                 [] plan[sid[w]] # <<>> /\ run[w].mode = "safe" -> "raise"
                 [] plan[sid[w]] # <<>> /\ run[w].mode = "real" -> "require")
    /\ UNCHANGED <<session, sid, request, run, issued, ghosts>>

CompleteEmpty(w) ==
    /\ pc[w] = "complete_empty"
    /\ status' = [status EXCEPT ![sid[w]] = "completed"]
    /\ stamped' = [stamped EXCEPT ![sid[w]] = TRUE]
    /\ Goto(w, "release")
    /\ UNCHANGED <<plan, approval, running, timeline, history, sid, request, run,
                   issued, ghosts>>

\* required = {ids of the plan's actions that need approval}
Require(w) ==
    /\ pc[w] = "require"
    /\ LET p == plan[sid[w]]
       IN  Locals(w, [run[w] EXCEPT !.required =
                        {p[i].id : i \in {j \in DOMAIN p : SessionRequiresApproval(p[j])}}])
    /\ Goto(w, "snapshot")
    /\ UNCHANGED <<session, sid, request, issued, ghosts>>

\* states = {... for ... in approval_states.items()}: the iterator is created,
Snapshot(w) ==
    /\ pc[w] = "snapshot"
    /\ Locals(w, [run[w] EXCEPT !.keys = DecidedIds(sid[w]), !.unread = DecidedIds(sid[w])])
    /\ late' = {x \in late : x[1] # sid[w]}
    /\ Goto(w, "iterate")
    /\ UNCHANGED <<session, sid, request, issued, granted, invoked>>

\* mutant: whatever is not rejected is taken for approved
CountsUnlessRejected(verdict) == verdict # "rejected"

CountsAsApproved(verdict) == verdict = "approved"

\* ... reads one decision at a time ...
ReadDecision(w, id) ==
    /\ pc[w] = "iterate"
    /\ DecidedIds(sid[w]) = run[w].keys
    /\ id \in run[w].unread
    /\ LET seen == approval[sid[w]][id]
       IN  Locals(w, [run[w] EXCEPT
                 !.unread = @ \ {id},
                 !.approved = IF CountsAsApproved(seen) THEN @ \cup {id} ELSE @,
                 !.skipped = IF seen \in {"skipped", "rejected"} THEN @ \cup {id} ELSE @])
    /\ UNCHANGED <<session, pc, sid, request, issued, ghosts>>

\* ... and raises RuntimeError when a decision on a new action has arrived.
IterationRaises(w) ==
    /\ pc[w] = "iterate"
    /\ DecidedIds(sid[w]) # run[w].keys
    /\ Goto(w, "raise")
    /\ UNCHANGED <<session, sid, request, run, issued, ghosts>>

\* pending = required - approved - skipped
EndIteration(w) ==
    /\ pc[w] = "iterate"
    /\ DecidedIds(sid[w]) = run[w].keys
    /\ run[w].unread = {}
    /\ Goto(w, IF run[w].required \ (run[w].approved \cup run[w].skipped) # {}
               THEN "await" ELSE "select")
    /\ UNCHANGED <<session, sid, request, run, issued, ghosts>>

\* start() sets AWAITING_APPROVAL and raises; the handler sets it again.
Await(w) ==
    /\ pc[w] = "await"
    /\ status' = [status EXCEPT ![sid[w]] = "awaiting_approval"]
    /\ Goto(w, "approval_required")
    /\ UNCHANGED <<plan, approval, stamped, running, timeline, history, sid, request,
                   run, issued, ghosts>>

ApprovalRequired(w) ==
    /\ pc[w] = "approval_required"
    /\ status' = [status EXCEPT ![sid[w]] = "awaiting_approval"]
    /\ Note(sid[w], "approval_required")
    /\ Goto(w, "release")
    /\ UNCHANGED <<plan, approval, stamped, running, history, sid, request, run,
                   issued, ghosts>>

\* mutant: nothing is filtered out
EligibleAll(p, approved) == DOMAIN p

\* execution_actions: the plan is read once more, and filtered by the snapshot.
Eligible(p, approved) ==
    {i \in DOMAIN p : ~SessionRequiresApproval(p[i]) \/ p[i].id \in approved}

Select(w) ==
    /\ pc[w] = "select"
    /\ LET p == plan[sid[w]]
       IN  Locals(w, [run[w] EXCEPT !.actions = p, !.todo = Eligible(p, run[w].approved)])
    /\ Goto(w, "launch")
    /\ UNCHANGED <<session, sid, request, issued, ghosts>>

\* Nothing eligible completes the session; else it is EXECUTING from here on.
Launch(w) ==
    /\ pc[w] = "launch"
    /\ LET s == sid[w]
       IN  IF run[w].todo = {}
           THEN /\ status' = [status EXCEPT ![s] = "completed"]
                /\ stamped' = [stamped EXCEPT ![s] = TRUE]
                /\ Note(s, "nothing_to_run")
                /\ Goto(w, "release")
           ELSE /\ status' = [status EXCEPT ![s] = "executing"]
                /\ Note(s, "session_started")
                /\ Goto(w, "run")
                /\ UNCHANGED stamped
    /\ UNCHANGED <<plan, approval, running, history, sid, request, run, issued, ghosts>>

\* What start() keeps of outcome o of action i.  `unverified` is overwritten,
\* because only the verification of the last pipeline result is looked at.
Iterate(w, i, o) ==
    /\ Locals(w, [run[w] EXCEPT
           !.todo = IF o.goesOn THEN @ \ {i} ELSE {},
           !.results = @ \o o.results,
           !.items = @ \o o.items,
           !.unverified = o.unverified])
    /\ invoked' = IF o.invoked THEN invoked \cup {<<sid[w], run[w].actions[i]>>} ELSE invoked

\* One iteration of the bootstrap loop, in plan order.
RunAction(w) ==
    /\ pc[w] = "run"
    /\ \E i \in run[w].todo :
          /\ \A j \in run[w].todo : i <= j
          /\ \E o \in RealOutcomes(run[w].actions[i]) : Iterate(w, i, o)
    /\ UNCHANGED <<session, pc, sid, request, issued, granted, late>>

\* An audit or a verifier raises (a broken pyproject.toml, say) before or after
\* the handler of the next action; what the run has collected is lost.
RunRaises(w) ==
    /\ pc[w] = "run"
    /\ \/ UNCHANGED invoked
       \/ \E i \in run[w].todo :
             /\ \A j \in run[w].todo : i <= j
             /\ RequiresHumanApproval(run[w].actions[i].id)
             /\ ActionAccepted(run[w].actions[i])
             /\ invoked' = invoked \cup {<<sid[w], run[w].actions[i]>>}
    /\ Goto(w, "raise")
    /\ UNCHANGED <<session, sid, request, run, issued, granted, late>>

\* mutant: the verification of the last action decides alone
TargetedSuccessIfVerified(r) == r.results # <<>> /\ ~r.unverified

TargetedSuccess(r) ==
    /\ r.results # <<>>
    /\ \A i \in DOMAIN r.results : r.results[i]
    /\ ~r.unverified

\* mutant: only success is written back
FinalStatusLost(success) == IF success THEN "completed" ELSE "executing"

FinalStatus(success) == IF success THEN "completed" ELSE "failed"

\* mutant: a failed run is reported as one that raised
FinalEventRaised(success) == IF success THEN "session_completed" ELSE "worker_raised"

FinalEvent(success) == IF success THEN "session_completed" ELSE "session_failed"

\* Evidence is copied to the session and the status is set unconditionally.
Finish(w) ==
    /\ pc[w] = "run"
    /\ run[w].todo = {}
    /\ LET s == sid[w]
           success == TargetedSuccess(run[w])
       IN  /\ history' = [history EXCEPT ![s] = @ \o run[w].items]
           /\ status' = [status EXCEPT ![s] = FinalStatus(success)]
           /\ stamped' = [stamped EXCEPT ![s] = TRUE]
           /\ Note(s, FinalEvent(success))
    /\ Goto(w, "release")
    /\ UNCHANGED <<plan, approval, running, sid, request, run, issued, ghosts>>

\* except in _run_worker; completed_at is not set.  The event is session_failed
\* in the code; here one that follows no session_started has a kind of its own.
Raise(w) ==
    /\ pc[w] = "raise"
    /\ status' = [status EXCEPT ![sid[w]] = "failed"]
    /\ Note(sid[w], IF run[w].actions = <<>> THEN "worker_raised" ELSE "session_failed")
    /\ Goto(w, "release")
    /\ UNCHANGED <<plan, approval, stamped, running, history, sid, request, run,
                   issued, ghosts>>

\* finally: leave _running, under the lock; the thread and its locals end.
Release(w) ==
    /\ pc[w] = "release"
    /\ running' = running \ {sid[w]}
    /\ Locals(w, FreshRun("real"))
    /\ Goto(w, "idle")
    /\ UNCHANGED <<status, plan, approval, stamped, timeline, history, sid, request,
                   issued, ghosts>>

WorkerStep(w) ==
    \/ Begin(w)
    \/ BuildPlan(w)
    \/ BuildFails(w)
    \/ Examine(w)
    \/ CompleteEmpty(w)
    \/ Require(w)
    \/ Snapshot(w)
    \/ \E id \in InstanceIds : ReadDecision(w, id)
    \/ IterationRaises(w)
    \/ EndIteration(w)
    \/ Await(w)
    \/ ApprovalRequired(w)
    \/ Select(w)
    \/ Launch(w)
    \/ RunAction(w)
    \/ RunRaises(w)
    \/ Finish(w)
    \/ Raise(w)
    \/ Release(w)

-----------------------------------------------------------------------------
RequestStep(c, s) ==
    \/ Create(c, s)
    \/ RequestPlan(c, s)
    \/ \E id \in InstanceIds, v \in Verdicts : RequestDecision(c, s, id, v)
    \/ \E m \in Modes : StartAsync(c, s, m)
    \/ RequestCancel(c, s)

Next ==
    \/ \E c \in Clients, s \in Sessions : RequestStep(c, s)
    \/ \E c \in Clients : ClientStep(c)
    \/ \E w \in Workers : WorkerStep(w)

Spec == Init /\ [][Next]_vars

\* A thread that is inside a handler keeps running: nothing in the handlers
\* waits for another thread except on _running_lock, which is held for a few
\* statements, and the installers are called with a timeout.
Fairness ==
    /\ \A c \in Clients : WF_vars(ClientStep(c))
    /\ \A w \in Workers : WF_vars(WorkerStep(w))

FairSpec == Spec /\ Fairness

-----------------------------------------------------------------------------
(* Properties                                                              *)

TypeOK ==
    /\ status \in [Sessions -> Statuses]
    /\ plan \in [Sessions -> Plans \cup {NoPlan}]
    /\ approval \in [Sessions -> [InstanceIds -> Marks]]
    /\ stamped \in [Sessions -> BOOLEAN]
    /\ running \subseteq Sessions
    /\ timeline \in [Sessions -> [EventKinds -> Nat]]
    /\ history \in [Sessions -> Seq(Evidence)]
    /\ pc \in [Threads -> ClientPCs \cup WorkerPCs]
    /\ \A c \in Clients : pc[c] \in ClientPCs
    /\ \A w \in Workers : pc[w] \in WorkerPCs
    /\ sid \in [Threads -> Sessions]
    /\ request \in [Clients -> Requests]
    /\ run \in [Workers -> RunLocals]
    /\ issued \in 0..MaxRequests
    /\ granted \subseteq Sessions \X InstanceIds
    /\ late \subseteq Sessions \X InstanceIds
    /\ invoked \subseteq Sessions \X SessionActions

\* The threads that hold, or are about to hold, the run of session s.
Runners(s) ==
    {t \in Threads : /\ sid[t] = s
                     /\ \/ t \in Clients /\ pc[t] = "spawn"
                        \/ t \in Workers /\ pc[t] # "idle"}

\* _running and its lock: two starts of a session never run together, and a
\* session is listed as running exactly while a thread runs it or is about to.
OneRunPerSession ==
    \A s \in Sessions :
        /\ s \in running <=> Runners(s) # {}
        /\ \A t, u \in Runners(s) : t = u

\* REAL execution never bypasses human approval: whatever plans are built and
\* swapped meanwhile, a real handler is called only for an action identifier
\* that an approve request named.
OnlyApprovedInvoked == \A x \in invoked : <<x[1], x[2].id>> \in granted

\* A run acts on the user's last word: an action still to be run stands
\* approved, unless a decision about it came after this run read the decisions.
RunFollowsLastWord ==
    \A w \in Workers : pc[w] = "run" =>
        \A i \in run[w].todo :
            LET id == run[w].actions[i].id
            IN  approval[sid[w]][id] = "approved" \/ <<sid[w], id>> \in late

\* The evidence of a session never claims success for an action whose handler
\* was not called for that session.
NoFalseEvidence ==
    \A s \in Sessions : \A i \in DOMAIN history[s] :
        history[s][i].ok =>
            \E x \in invoked : x[1] = s /\ x[2].id = history[s][i].id

Executing(s) ==
    {w \in Workers : /\ sid[w] = s
                     /\ \/ pc[w] = "run"
                        \/ pc[w] = "raise" /\ run[w].actions # <<>>}

\* The timeline accounts for every run: each session_started is closed by one
\* session_completed or session_failed, except that of a run under way, and a
\* run that raises closes its own.
RunsAreClosed ==
    \A s \in Sessions :
        timeline[s]["session_started"] =
            timeline[s]["session_completed"] + timeline[s]["session_failed"]
            + (IF Executing(s) = {} THEN 0 ELSE 1)

\* A session that is terminal, with no run and no cancel under way.
Quiet(s) ==
    /\ status[s] \in Terminal
    /\ Runners(s) = {}
    /\ \A c \in Clients : pc[c] = "cancel" => sid[c] # s

\* No request wakes a quiet session: its status and its evidence are final.
QuietIsForever ==
    [][\A s \in Sessions : Quiet(s) =>
          Quiet(s)' /\ status'[s] = status[s] /\ history'[s] = history[s]]_vars

\* Every accepted start ends, whichever path the worker takes, and the session
\* can be started again or is terminal.
EveryStartEnds == \A s \in Sessions : s \in running ~> s \notin running

\* No session is left EXECUTING.
NoStuckExecution == \A s \in Sessions : status[s] = "executing" ~> status[s] # "executing"

-----------------------------------------------------------------------------
(* The refinement                                                          *)

\* The thread that holds the run of session s, ...
Runner(s) == CHOOSE t \in Runners(s) : TRUE

\* ... where it is, what it was asked for and what it has found approved.
StageOf(t) ==
    IF pc[t] = "release" THEN "ended" ELSE IF t \in Executing(sid[t]) THEN "executing" ELSE "started"

ModeOf(t) == IF t \in Clients THEN request[t].mode ELSE run[t].mode

HeardBy(t) == IF t \in Clients THEN {} ELSE run[t].approved

Standing == [s \in Sessions |-> {id \in InstanceIds : approval[s][id] = "approved"}]
Stage == [s \in Sessions |-> IF Runners(s) = {} THEN "none" ELSE StageOf(Runner(s))]
RealRuns == {s \in Sessions : Runners(s) # {} /\ ModeOf(Runner(s)) = "real"}
Heard == [s \in Sessions |-> IF Runners(s) = {} THEN {} ELSE HeardBy(Runner(s))]
Cancels == {<<c, sid[c]>> : c \in {d \in Clients : pc[d] = "cancel"}}

Promise == INSTANCE SessionContract WITH
    Ids <- InstanceIds, Actions <- SessionActions,
    standing <- Standing, stage <- Stage, real <- RealRuns, heard <- Heard,
    called <- invoked, evidence <- history, cancels <- Cancels

\* However the threads interleave, a session looks as if its requests and the steps
\* of its one run came one after the other: the service keeps SessionContract.
ImplementsContract == Promise!Spec

-----------------------------------------------------------------------------
(* What documents and docstrings say, and the code does not do             *)

\* "Cancel a session before terminal completion.": a cancelled session stays so.
CancelIsFinal ==
    [][\A s \in Sessions : status[s] = "cancelled" => status'[s] = "cancelled"]_vars

\* "Execute only the actions eligible for the selected execution mode.": a SAFE
\* start does not die of an unhandled exception.
SafeStartNeverRaises == \A w \in Workers : pc[w] = "raise" => run[w].mode = "real"

=============================================================================
