------------------------ MODULE SessionServiceProofs ------------------------
(***************************************************************************)
(* Proofs about SessionService, for every set of sessions, threads, plans  *)
(* and any bound on the requests.                                          *)
(***************************************************************************)
EXTENDS SessionService, SequenceTheorems, TLAPS

-----------------------------------------------------------------------------
(* Type correctness                                                        *)

\* A request record has the shape its handler reads.
RequestShape ==
    \A c \in Clients :
        /\ pc[c] \in {"register", "decide"} =>
              request[c] \in [id : InstanceIds, verdict : Verdicts]
        /\ pc[c] = "spawn" => request[c] \in [mode : Modes]

PlannedPCs ==
    {"examine", "complete_empty", "require", "snapshot", "iterate", "await",
     "approval_required", "select"}

\* start() reads session.plan only once there is one.
PlanPresent == \A w \in Workers : pc[w] \in PlannedPCs => plan[sid[w]] # NoPlan

TypeInv == TypeOK /\ RequestShape /\ PlanPresent

\* What an iteration returns is well typed, and claims success only for an
\* action whose handler it called.
LEMMA OutcomeType ==
    ASSUME NEW a \in SessionActions, NEW o \in RealOutcomes(a)
    PROVE  /\ o.invoked \in BOOLEAN
           /\ o.results \in Seq(BOOLEAN)
           /\ o.items \in Seq(Evidence)
           /\ o.unverified \in BOOLEAN
           /\ o.goesOn \in BOOLEAN
           /\ \A i \in DOMAIN o.items : o.items[i].ok => o.invoked /\ o.items[i].id = a.id
<1>1. a.id \in ActionIds /\ ReplanId \in ActionIds
  BY DEF SessionActions, InstanceIds, ActionIds, BuilderNames, CanonicalNames, ReplanId, Canonical
<1>2. /\ [id |-> a.id, ok |-> TRUE] \in Evidence
      /\ [id |-> a.id, ok |-> FALSE] \in Evidence
      /\ [id |-> ReplanId, ok |-> FALSE] \in Evidence
  BY <1>1 DEF Evidence
<1> DEFINE done == [id |-> a.id, ok |-> TRUE]
           lost == [id |-> a.id, ok |-> FALSE]
           denied == [id |-> ReplanId, ok |-> FALSE]
<1>3. \/ o = Outcome(FALSE, <<>>, <<>>, FALSE, FALSE)
      \/ o = Outcome(FALSE, <<FALSE>>, <<>>, FALSE, TRUE)
      \/ o = Outcome(TRUE, <<TRUE>>, <<done>>, FALSE, TRUE)
      \/ o = Outcome(TRUE, <<FALSE>>, <<lost>>, FALSE, FALSE)
      \/ o = Outcome(TRUE, <<TRUE>>, <<done>>, TRUE, FALSE)
      \/ o = Outcome(TRUE, <<TRUE>>, <<>>, FALSE, TRUE)
      \/ o = Outcome(TRUE, <<FALSE>>, <<denied>>, FALSE, FALSE)
  BY Zenon DEF RealOutcomes, IdRefused, ContextRefused
<1>4. /\ <<done>> \in Seq(Evidence) /\ DOMAIN <<done>> = {1} /\ <<done>>[1] = done
      /\ <<lost>> \in Seq(Evidence) /\ DOMAIN <<lost>> = {1} /\ <<lost>>[1] = lost
      /\ <<denied>> \in Seq(Evidence) /\ DOMAIN <<denied>> = {1} /\ <<denied>>[1] = denied
      /\ <<>> \in Seq(Evidence) /\ DOMAIN <<>> = {}
      /\ <<>> \in Seq(BOOLEAN) /\ <<TRUE>> \in Seq(BOOLEAN) /\ <<FALSE>> \in Seq(BOOLEAN)
  BY <1>2
<1> HIDE DEF done, lost, denied
<1>5. /\ done.id = a.id /\ ~lost.ok /\ ~denied.ok
  BY DEF done, lost, denied
<1> DEFINE Good(r) ==
             /\ r.invoked \in BOOLEAN
             /\ r.results \in Seq(BOOLEAN)
             /\ r.items \in Seq(Evidence)
             /\ r.unverified \in BOOLEAN
             /\ r.goesOn \in BOOLEAN
             /\ \A i \in DOMAIN r.items : r.items[i].ok => r.invoked /\ r.items[i].id = a.id
<1>6. Good(Outcome(FALSE, <<>>, <<>>, FALSE, FALSE)) /\ Good(Outcome(FALSE, <<FALSE>>, <<>>, FALSE, TRUE))
  BY <1>4 DEF Outcome
<1>7. Good(Outcome(TRUE, <<TRUE>>, <<done>>, FALSE, TRUE)) /\ Good(Outcome(TRUE, <<TRUE>>, <<done>>, TRUE, FALSE))
  BY <1>4, <1>5 DEF Outcome
<1>8. Good(Outcome(TRUE, <<FALSE>>, <<lost>>, FALSE, FALSE))
  BY <1>4, <1>5 DEF Outcome
<1>9. Good(Outcome(TRUE, <<TRUE>>, <<>>, FALSE, TRUE))
  BY <1>4 DEF Outcome
<1>10. Good(Outcome(TRUE, <<FALSE>>, <<denied>>, FALSE, FALSE))
  BY <1>4, <1>5 DEF Outcome
<1>11. Good(o)
  <2> HIDE DEF Good
  <2> QED  BY <1>3, <1>6, <1>7, <1>8, <1>9, <1>10
<1> QED  BY <1>11

LEMMA InitType == Init => TypeInv
<1> SUFFICES ASSUME Init PROVE TypeInv
  OBVIOUS
<1>1. FreshRun("real") \in RunLocals
  BY DEF FreshRun, RunLocals, Modes
<1>2. TypeOK
  BY <1>1, SessionsAssumption, MaxRequestsAssumption
  DEF Init, TypeOK, Statuses, Marks, Threads, ClientPCs, WorkerPCs, Requests, EventKinds
<1>3. RequestShape /\ PlanPresent
  BY DEF Init, RequestShape, PlanPresent, PlannedPCs, Threads
<1> QED  BY <1>2, <1>3 DEF TypeInv

\* Writing an event keeps the tallies typed.
LEMMA NoteType ==
    ASSUME TypeOK, NEW s \in Sessions, NEW kind \in EventKinds, Note(s, kind)
    PROVE  timeline' \in [Sessions -> [EventKinds -> Nat]]
<1> DEFINE tally == [timeline[s] EXCEPT ![kind] = @ + 1]
<1>1. timeline \in [Sessions -> [EventKinds -> Nat]]
  BY DEF TypeOK
<1>2. tally \in [EventKinds -> Nat]
  <2>1. timeline[s] \in [EventKinds -> Nat]
    BY <1>1
  <2> QED  BY <2>1
<1>3. timeline' = [timeline EXCEPT ![s] = tally]
  BY <1>1 DEF Note
<1> QED  BY <1>1, <1>2, <1>3

\* A jump inside the thread's own handlers keeps the program counters typed.
LEMMA GotoType ==
    ASSUME TypeOK, NEW t \in Threads, NEW label, Goto(t, label),
           t \in Clients => label \in ClientPCs,
           t \in Workers => label \in WorkerPCs
    PROVE  /\ pc' \in [Threads -> ClientPCs \cup WorkerPCs]
           /\ \A c \in Clients : pc'[c] \in ClientPCs
           /\ \A w \in Workers : pc'[w] \in WorkerPCs
BY DEF TypeOK, Goto, Threads

LEMMA CreateType ==
    ASSUME TypeInv, NEW c \in Clients, NEW s \in Sessions, Create(c, s)
    PROVE  TypeInv'
<1>1. timeline' \in [Sessions -> [EventKinds -> Nat]]
  <2>1. "session_created" \in EventKinds /\ s \in Sessions
    BY DEF EventKinds, TypeInv, TypeOK, Threads
  <2> QED  BY <2>1, NoteType DEF Create, TypeInv
<1>p. /\ pc' \in [Threads -> ClientPCs \cup WorkerPCs]
      /\ \A d \in Clients : pc'[d] \in ClientPCs
      /\ \A w \in Workers : pc'[w] \in WorkerPCs
  <2>1. CASE Goto(c, "intent")
    BY <2>1, GotoType, ThreadsAssumption DEF TypeInv, Threads, ClientPCs
  <2>2. CASE UNCHANGED pc
    BY <2>2 DEF TypeInv, TypeOK
  <2> QED  BY <2>1, <2>2 DEF Create
<1>q. status' \in [Sessions -> Statuses] /\ sid' \in [Threads -> Sessions] /\ issued' \in 0..MaxRequests
  BY MaxRequestsAssumption
  DEF TypeInv, TypeOK, Create, Take, CanIssue, Statuses, Threads
<1>2. TypeOK'
  BY <1>1, <1>p, <1>q DEF TypeInv, TypeOK, Create, ghosts
<1>3. RequestShape' /\ PlanPresent'
  BY ThreadsAssumption
  DEF TypeInv, TypeOK, RequestShape, PlanPresent, Create, Take, CanIssue, Goto, Threads, PlannedPCs, session, ghosts
<1> QED  BY <1>2, <1>3 DEF TypeInv

LEMMA RecordIntentType ==
    ASSUME TypeInv, NEW c \in Clients, RecordIntent(c)
    PROVE  TypeInv'
<1>1. timeline' \in [Sessions -> [EventKinds -> Nat]]
  <2>1. "intent_parsed" \in EventKinds /\ sid[c] \in Sessions
    BY DEF EventKinds, TypeInv, TypeOK, Threads
  <2> QED  BY <2>1, NoteType DEF RecordIntent, TypeInv
<1>2. TypeOK'
  BY <1>1, ThreadsAssumption, MaxRequestsAssumption
  DEF TypeInv, TypeOK, RecordIntent, Goto, Statuses, Threads, ClientPCs, WorkerPCs, session, ghosts
<1>3. RequestShape' /\ PlanPresent'
  BY ThreadsAssumption
  DEF TypeInv, TypeOK, RequestShape, PlanPresent, RecordIntent, Goto, Threads, PlannedPCs, session, ghosts
<1> QED  BY <1>2, <1>3 DEF TypeInv

LEMMA RequestPlanType ==
    ASSUME TypeInv, NEW c \in Clients, NEW s \in Sessions, RequestPlan(c, s)
    PROVE  TypeInv'
<1>2. TypeOK'
  BY ThreadsAssumption, MaxRequestsAssumption
  DEF TypeInv, TypeOK, RequestPlan, Take, CanIssue, Goto, Statuses, Threads, ClientPCs, WorkerPCs, session, ghosts
<1>3. RequestShape' /\ PlanPresent'
  BY ThreadsAssumption
  DEF TypeInv, TypeOK, RequestShape, PlanPresent, RequestPlan, Take, CanIssue, Goto, Threads, PlannedPCs, session, ghosts
<1> QED  BY <1>2, <1>3 DEF TypeInv

LEMMA RequestDecisionType ==
    ASSUME TypeInv, NEW c \in Clients, NEW s \in Sessions, NEW id \in InstanceIds, NEW v \in Verdicts, RequestDecision(c, s, id, v)
    PROVE  TypeInv'
<1>2. TypeOK'
  BY ThreadsAssumption, MaxRequestsAssumption
  DEF TypeInv, TypeOK, RequestDecision, Take, CanIssue, Goto, Requests, Statuses, Threads, ClientPCs, WorkerPCs, session, ghosts
<1>3. RequestShape' /\ PlanPresent'
  BY ThreadsAssumption
  DEF TypeInv, TypeOK, RequestShape, PlanPresent, RequestDecision, Take, CanIssue, Goto, Requests, Threads, PlannedPCs, session, ghosts
<1> QED  BY <1>2, <1>3 DEF TypeInv

LEMMA StartAsyncType ==
    ASSUME TypeInv, NEW c \in Clients, NEW s \in Sessions, NEW m \in Modes, StartAsync(c, s, m)
    PROVE  TypeInv'
<1>2. TypeOK'
  BY ThreadsAssumption, MaxRequestsAssumption
  DEF TypeInv, TypeOK, StartAsync, Take, CanIssue, Goto, Requests, MayStart, Statuses, Threads, ClientPCs, WorkerPCs, session, ghosts
<1>3. RequestShape' /\ PlanPresent'
  BY ThreadsAssumption
  DEF TypeInv, TypeOK, RequestShape, PlanPresent, StartAsync, Take, CanIssue, Goto, Requests, MayStart, Threads, PlannedPCs, session, ghosts
<1> QED  BY <1>2, <1>3 DEF TypeInv

LEMMA RequestCancelType ==
    ASSUME TypeInv, NEW c \in Clients, NEW s \in Sessions, RequestCancel(c, s)
    PROVE  TypeInv'
<1>2. TypeOK'
  BY ThreadsAssumption, MaxRequestsAssumption
  DEF TypeInv, TypeOK, RequestCancel, Take, CanIssue, Goto, Statuses, Threads, ClientPCs, WorkerPCs, session, ghosts
<1>3. RequestShape' /\ PlanPresent'
  BY ThreadsAssumption
  DEF TypeInv, TypeOK, RequestShape, PlanPresent, RequestCancel, Take, CanIssue, Goto, Threads, PlannedPCs, session, ghosts
<1> QED  BY <1>2, <1>3 DEF TypeInv

LEMMA CancelType ==
    ASSUME TypeInv, NEW c \in Clients, Cancel(c)
    PROVE  TypeInv'
<1>1. timeline' \in [Sessions -> [EventKinds -> Nat]]
  <2>1. "session_cancelled" \in EventKinds /\ sid[c] \in Sessions
    BY DEF EventKinds, TypeInv, TypeOK, Threads
  <2> QED  BY <2>1, NoteType DEF Cancel, TypeInv
<1>2. TypeOK'
  BY <1>1, ThreadsAssumption, MaxRequestsAssumption
  DEF TypeInv, TypeOK, Cancel, Goto, Terminal, Statuses, Threads, ClientPCs, WorkerPCs, session, ghosts
<1>3. RequestShape' /\ PlanPresent'
  BY ThreadsAssumption
  DEF TypeInv, TypeOK, RequestShape, PlanPresent, Cancel, Goto, Threads, PlannedPCs, session, ghosts
<1> QED  BY <1>2, <1>3 DEF TypeInv

\* A worker's locals stay typed when it writes typed ones.
LEMMA LocalsType ==
    ASSUME TypeOK, NEW w \in Workers, NEW r \in RunLocals, Locals(w, r)
    PROVE  run' \in [Workers -> RunLocals]
BY DEF TypeOK, Locals

LEMMA FreshType == ASSUME NEW m \in Modes PROVE FreshRun(m) \in RunLocals
BY DEF FreshRun, RunLocals

LEMMA BuildPlanType ==
    ASSUME TypeInv, NEW t \in Threads, BuildPlan(t)
    PROVE  TypeInv'
<1>1. timeline' \in [Sessions -> [EventKinds -> Nat]]
  <2>1. "plan_created" \in EventKinds /\ sid[t] \in Sessions
    BY DEF EventKinds, TypeInv, TypeOK, Threads
  <2> QED  BY <2>1, NoteType DEF BuildPlan, TypeInv
<1>p. /\ pc' \in [Threads -> ClientPCs \cup WorkerPCs]
      /\ \A d \in Clients : pc'[d] \in ClientPCs
      /\ \A w \in Workers : pc'[w] \in WorkerPCs
  BY GotoType, ThreadsAssumption DEF BuildPlan, AfterPlan, TypeInv, ClientPCs, WorkerPCs
<1>q. plan' \in [Sessions -> Plans \cup {NoPlan}]
  BY DEF BuildPlan, TypeInv, TypeOK
<1>2. TypeOK'
  BY <1>1, <1>p, <1>q DEF TypeInv, TypeOK, BuildPlan, ghosts
<1>3. RequestShape'
  BY ThreadsAssumption
  DEF TypeInv, TypeOK, RequestShape, BuildPlan, Goto, AfterPlan, Threads
<1>4. PlanPresent'
  <2>1. PICK p \in Plans : plan' = [plan EXCEPT ![sid[t]] = p]
    BY DEF BuildPlan
  <2>2. p # NoPlan
    BY PlansAssumption
  <2>3. ASSUME NEW w \in Workers, pc'[w] \in PlannedPCs, w # t
        PROVE  plan'[sid'[w]] # NoPlan
    BY <2>1, <2>2, <2>3 DEF TypeInv, TypeOK, PlanPresent, BuildPlan, Goto, AfterPlan, Threads
  <2>4. plan'[sid'[t]] # NoPlan
    BY <2>1, <2>2 DEF TypeInv, TypeOK, BuildPlan, Threads
  <2> QED  BY <2>3, <2>4 DEF PlanPresent
<1> QED  BY <1>2, <1>3, <1>4 DEF TypeInv

LEMMA BuildFailsType ==
    ASSUME TypeInv, NEW t \in Threads, BuildFails(t)
    PROVE  TypeInv'
<1>1. timeline' \in [Sessions -> [EventKinds -> Nat]]
  <2>1. "plan_failed" \in EventKinds /\ sid[t] \in Sessions
    BY DEF EventKinds, TypeInv, TypeOK, Threads
  <2> QED  BY <2>1, NoteType DEF BuildFails, TypeInv
<1>2. TypeOK'
  BY <1>1, ThreadsAssumption
  DEF TypeInv, TypeOK, BuildFails, Goto, AfterPlan, Statuses, Threads, ClientPCs, WorkerPCs, session, ghosts
<1>3. RequestShape' /\ PlanPresent'
  BY ThreadsAssumption
  DEF TypeInv, TypeOK, RequestShape, PlanPresent, BuildFails, Goto, AfterPlan, Threads, PlannedPCs, session, ghosts
<1> QED  BY <1>2, <1>3 DEF TypeInv

LEMMA BeginType ==
    ASSUME TypeInv, NEW w \in Workers, Begin(w)
    PROVE  TypeInv'
<1>2. TypeOK'
  BY ThreadsAssumption
  DEF TypeInv, TypeOK, Begin, Goto, Statuses, Threads, ClientPCs, WorkerPCs, session, ghosts
<1>3. RequestShape' /\ PlanPresent'
  BY ThreadsAssumption
  DEF TypeInv, TypeOK, RequestShape, PlanPresent, Begin, Goto, Threads, PlannedPCs, session, ghosts
<1> QED  BY <1>2, <1>3 DEF TypeInv

LEMMA ExamineType ==
    ASSUME TypeInv, NEW w \in Workers, Examine(w)
    PROVE  TypeInv'
<1>2. TypeOK'
  BY ThreadsAssumption
  DEF TypeInv, TypeOK, Examine, Goto, Statuses, Threads, ClientPCs, WorkerPCs, session, ghosts, RunLocals, Modes
<1>3. RequestShape' /\ PlanPresent'
  BY ThreadsAssumption
  DEF TypeInv, TypeOK, RequestShape, PlanPresent, Examine, Goto, Threads, PlannedPCs, session, ghosts
<1> QED  BY <1>2, <1>3 DEF TypeInv

LEMMA CompleteEmptyType ==
    ASSUME TypeInv, NEW w \in Workers, CompleteEmpty(w)
    PROVE  TypeInv'
<1>2. TypeOK'
  BY ThreadsAssumption
  DEF TypeInv, TypeOK, CompleteEmpty, Goto, Statuses, Terminal, Threads, ClientPCs, WorkerPCs, session, ghosts
<1>3. RequestShape' /\ PlanPresent'
  BY ThreadsAssumption
  DEF TypeInv, TypeOK, RequestShape, PlanPresent, CompleteEmpty, Goto, Threads, PlannedPCs, session, ghosts
<1> QED  BY <1>2, <1>3 DEF TypeInv

LEMMA SnapshotType ==
    ASSUME TypeInv, NEW w \in Workers, Snapshot(w)
    PROVE  TypeInv'
<1>r. run' \in [Workers -> RunLocals]
  <2>1. [run[w] EXCEPT !.keys = DecidedIds(sid[w]), !.unread = DecidedIds(sid[w])] \in RunLocals
    BY DEF TypeInv, TypeOK, RunLocals, DecidedIds
  <2> QED  BY <2>1, LocalsType DEF Snapshot, TypeInv
<1>2. TypeOK'
  BY <1>r, ThreadsAssumption
  DEF TypeInv, TypeOK, Snapshot, Goto, Statuses, Threads, ClientPCs, WorkerPCs, session, ghosts
<1>3. RequestShape' /\ PlanPresent'
  BY ThreadsAssumption
  DEF TypeInv, TypeOK, RequestShape, PlanPresent, Snapshot, Goto, Threads, PlannedPCs, session, ghosts
<1> QED  BY <1>2, <1>3 DEF TypeInv

LEMMA IterationRaisesType ==
    ASSUME TypeInv, NEW w \in Workers, IterationRaises(w)
    PROVE  TypeInv'
<1>2. TypeOK'
  BY ThreadsAssumption
  DEF TypeInv, TypeOK, IterationRaises, Goto, Statuses, Threads, ClientPCs, WorkerPCs, session, ghosts
<1>3. RequestShape' /\ PlanPresent'
  BY ThreadsAssumption
  DEF TypeInv, TypeOK, RequestShape, PlanPresent, IterationRaises, Goto, Threads, PlannedPCs, session, ghosts
<1> QED  BY <1>2, <1>3 DEF TypeInv

LEMMA EndIterationType ==
    ASSUME TypeInv, NEW w \in Workers, EndIteration(w)
    PROVE  TypeInv'
<1>2. TypeOK'
  BY ThreadsAssumption
  DEF TypeInv, TypeOK, EndIteration, Goto, Statuses, Threads, ClientPCs, WorkerPCs, session, ghosts
<1>3. RequestShape' /\ PlanPresent'
  BY ThreadsAssumption
  DEF TypeInv, TypeOK, RequestShape, PlanPresent, EndIteration, Goto, Threads, PlannedPCs, session, ghosts
<1> QED  BY <1>2, <1>3 DEF TypeInv

LEMMA AwaitType ==
    ASSUME TypeInv, NEW w \in Workers, Await(w)
    PROVE  TypeInv'
<1>2. TypeOK'
  BY ThreadsAssumption
  DEF TypeInv, TypeOK, Await, Goto, Statuses, Threads, ClientPCs, WorkerPCs, session, ghosts
<1>3. RequestShape' /\ PlanPresent'
  BY ThreadsAssumption
  DEF TypeInv, TypeOK, RequestShape, PlanPresent, Await, Goto, Threads, PlannedPCs, session, ghosts
<1> QED  BY <1>2, <1>3 DEF TypeInv

LEMMA ApprovalRequiredType ==
    ASSUME TypeInv, NEW w \in Workers, ApprovalRequired(w)
    PROVE  TypeInv'
<1>1. timeline' \in [Sessions -> [EventKinds -> Nat]]
  <2>1. "approval_required" \in EventKinds /\ sid[w] \in Sessions
    BY DEF EventKinds, TypeInv, TypeOK, Threads
  <2> QED  BY <2>1, NoteType DEF ApprovalRequired, TypeInv
<1>2. TypeOK'
  BY <1>1, ThreadsAssumption
  DEF TypeInv, TypeOK, ApprovalRequired, Goto, Statuses, Threads, ClientPCs, WorkerPCs, session, ghosts
<1>3. RequestShape' /\ PlanPresent'
  BY ThreadsAssumption
  DEF TypeInv, TypeOK, RequestShape, PlanPresent, ApprovalRequired, Goto, Threads, PlannedPCs, session, ghosts
<1> QED  BY <1>2, <1>3 DEF TypeInv

LEMMA RaiseType ==
    ASSUME TypeInv, NEW w \in Workers, Raise(w)
    PROVE  TypeInv'
<1>1. timeline' \in [Sessions -> [EventKinds -> Nat]]
  <2>1. {"worker_raised", "session_failed"} \subseteq EventKinds /\ sid[w] \in Sessions
    BY DEF EventKinds, TypeInv, TypeOK, Threads
  <2> QED  BY <2>1, NoteType DEF Raise, TypeInv
<1>2. TypeOK'
  BY <1>1, ThreadsAssumption
  DEF TypeInv, TypeOK, Raise, Goto, Statuses, Terminal, Threads, ClientPCs, WorkerPCs, session, ghosts
<1>3. RequestShape' /\ PlanPresent'
  BY ThreadsAssumption
  DEF TypeInv, TypeOK, RequestShape, PlanPresent, Raise, Goto, Threads, PlannedPCs, session, ghosts
<1> QED  BY <1>2, <1>3 DEF TypeInv

LEMMA ReleaseType ==
    ASSUME TypeInv, NEW w \in Workers, Release(w)
    PROVE  TypeInv'
<1>r. run' \in [Workers -> RunLocals]
  <2>1. FreshRun("real") \in RunLocals
    BY FreshType DEF Modes
  <2> QED  BY <2>1, LocalsType DEF Release, TypeInv
<1>2. TypeOK'
  BY <1>r, ThreadsAssumption
  DEF TypeInv, TypeOK, Release, Goto, Statuses, Threads, ClientPCs, WorkerPCs, session, ghosts
<1>3. RequestShape' /\ PlanPresent'
  BY ThreadsAssumption
  DEF TypeInv, TypeOK, RequestShape, PlanPresent, Release, Goto, Threads, PlannedPCs, session, ghosts
<1> QED  BY <1>2, <1>3 DEF TypeInv

LEMMA RegisterType ==
    ASSUME TypeInv, NEW c \in Clients, Register(c)
    PROVE  TypeInv'
<1>1. request[c] \in [id : InstanceIds, verdict : Verdicts] /\ sid[c] \in Sessions
  BY DEF Register, TypeInv, TypeOK, RequestShape, Threads
<1>2. approval' \in [Sessions -> [InstanceIds -> Marks]]
  BY <1>1 DEF Register, TypeInv, TypeOK, Marks
<1>3. late' \subseteq Sessions \X InstanceIds
  BY <1>1 DEF Register, TypeInv, TypeOK
<1>4. /\ pc' \in [Threads -> ClientPCs \cup WorkerPCs]
      /\ \A d \in Clients : pc'[d] \in ClientPCs
      /\ \A w \in Workers : pc'[w] \in WorkerPCs
  BY GotoType, ThreadsAssumption DEF Register, TypeInv, ClientPCs, Threads
<1>5. TypeOK'
  BY <1>2, <1>3, <1>4 DEF TypeInv, TypeOK, Register
<1>6. RequestShape' /\ PlanPresent'
  BY ThreadsAssumption
  DEF TypeInv, TypeOK, RequestShape, PlanPresent, Register, Goto, Threads, PlannedPCs
<1> QED  BY <1>5, <1>6 DEF TypeInv

LEMMA DecideType ==
    ASSUME TypeInv, NEW c \in Clients, Decide(c)
    PROVE  TypeInv'
<1>1. request[c] \in [id : InstanceIds, verdict : Verdicts] /\ sid[c] \in Sessions
  BY DEF Decide, TypeInv, TypeOK, RequestShape, Threads
<1>2. timeline' \in [Sessions -> [EventKinds -> Nat]]
  <2>1. CASE request[c].verdict = "approved"
    BY <1>1, <2>1, NoteType DEF Decide, TypeInv, EventKinds
  <2>2. CASE request[c].verdict = "rejected"
    BY <1>1, <2>2, NoteType DEF Decide, TypeInv, EventKinds
  <2>3. CASE request[c].verdict = "skipped"
    BY <1>1, <2>3, NoteType DEF Decide, TypeInv, EventKinds
  <2> QED  BY <1>1, <2>1, <2>2, <2>3 DEF Verdicts
<1>3. approval' \in [Sessions -> [InstanceIds -> Marks]]
  BY <1>1 DEF Decide, TypeInv, TypeOK, Marks
<1>4. granted' \subseteq Sessions \X InstanceIds /\ late' \subseteq Sessions \X InstanceIds
  BY <1>1 DEF Decide, TypeInv, TypeOK
<1>5. request' \in [Clients -> Requests]
  BY DEF Decide, TypeInv, TypeOK, Requests
<1>6. /\ pc' \in [Threads -> ClientPCs \cup WorkerPCs]
      /\ \A d \in Clients : pc'[d] \in ClientPCs
      /\ \A w \in Workers : pc'[w] \in WorkerPCs
  BY GotoType, ThreadsAssumption DEF Decide, TypeInv, ClientPCs, Threads
<1>7. TypeOK'
  BY <1>2, <1>3, <1>4, <1>5, <1>6 DEF TypeInv, TypeOK, Decide
<1>8. RequestShape' /\ PlanPresent'
  BY ThreadsAssumption
  DEF TypeInv, TypeOK, RequestShape, PlanPresent, Decide, Goto, Threads, PlannedPCs
<1> QED  BY <1>7, <1>8 DEF TypeInv

LEMMA SpawnType ==
    ASSUME TypeInv, NEW c \in Clients, Spawn(c)
    PROVE  TypeInv'
<1>1. PICK w \in Workers :
        /\ pc[w] = "idle"
        /\ sid' = [sid EXCEPT ![w] = sid[c]]
        /\ run' = [run EXCEPT ![w] = FreshRun(request[c].mode)]
        /\ pc' = [pc EXCEPT ![c] = "idle", ![w] = "begin"]
  BY DEF Spawn
<1>2. run' \in [Workers -> RunLocals]
  <2>1. request[c].mode \in Modes
    BY DEF Spawn, TypeInv, RequestShape
  <2> QED  BY <1>1, <2>1, FreshType DEF TypeInv, TypeOK
<1>3. sid' \in [Threads -> Sessions]
  BY <1>1 DEF TypeInv, TypeOK, Threads
<1>4. /\ pc' \in [Threads -> ClientPCs \cup WorkerPCs]
      /\ \A d \in Clients : pc'[d] \in ClientPCs
      /\ \A u \in Workers : pc'[u] \in WorkerPCs
  BY <1>1, ThreadsAssumption DEF TypeInv, TypeOK, Threads, ClientPCs, WorkerPCs
<1>5. request' \in [Clients -> Requests]
  BY DEF Spawn, TypeInv, TypeOK, Requests
<1>6. TypeOK'
  BY <1>2, <1>3, <1>4, <1>5 DEF Spawn, TypeInv, TypeOK, session, ghosts
<1>7. RequestShape' /\ PlanPresent'
  BY <1>1, ThreadsAssumption
  DEF Spawn, TypeInv, TypeOK, RequestShape, PlanPresent, Threads, PlannedPCs, session
<1> QED  BY <1>6, <1>7 DEF TypeInv

LEMMA RequireType ==
    ASSUME TypeInv, NEW w \in Workers, Require(w)
    PROVE  TypeInv'
<1>p. plan[sid[w]] \in Seq(SessionActions)
  BY PlansAssumption DEF Require, TypeInv, TypeOK, PlanPresent, PlannedPCs, Threads
<1>r. run' \in [Workers -> RunLocals]
  <2> DEFINE p == plan[sid[w]]
             ids == {p[i].id : i \in {j \in DOMAIN p : SessionRequiresApproval(p[j])}}
  <2>1. ids \subseteq InstanceIds
    <3>1. \A i \in DOMAIN p : p[i] \in SessionActions
      BY <1>p, ElementOfSeq
    <3> QED  BY <3>1 DEF SessionActions
  <2>2. [run[w] EXCEPT !.required = ids] \in RunLocals
    BY <2>1 DEF TypeInv, TypeOK, RunLocals
  <2> QED  BY <2>2, LocalsType DEF Require, TypeInv
<1>2. TypeOK'
  BY <1>r, ThreadsAssumption
  DEF TypeInv, TypeOK, Require, Goto, Threads, ClientPCs, WorkerPCs, session, ghosts
<1>3. RequestShape' /\ PlanPresent'
  BY ThreadsAssumption
  DEF TypeInv, TypeOK, RequestShape, PlanPresent, Require, Goto, Threads, PlannedPCs, session, ghosts
<1> QED  BY <1>2, <1>3 DEF TypeInv

LEMMA ReadDecisionType ==
    ASSUME TypeInv, NEW w \in Workers, NEW id \in InstanceIds, ReadDecision(w, id)
    PROVE  TypeInv'
<1>r. run' \in [Workers -> RunLocals]
  <2> DEFINE seen == approval[sid[w]][id]
             r == [run[w] EXCEPT
                      !.unread = @ \ {id},
                      !.approved = IF CountsAsApproved(seen) THEN @ \cup {id} ELSE @,
                      !.skipped = IF seen \in {"skipped", "rejected"} THEN @ \cup {id} ELSE @]
  <2>1. run[w] \in RunLocals
    BY DEF TypeInv, TypeOK
  <2>2. /\ run[w].unread \ {id} \in SUBSET InstanceIds
        /\ run[w].approved \cup {id} \in SUBSET InstanceIds
        /\ run[w].skipped \cup {id} \in SUBSET InstanceIds
    BY <2>1 DEF RunLocals
  <2>3. r \in RunLocals
    BY <2>1, <2>2 DEF RunLocals
  <2> QED  BY <2>3, LocalsType DEF ReadDecision, TypeInv
<1>2. TypeOK'
  BY <1>r, ThreadsAssumption
  DEF TypeInv, TypeOK, ReadDecision, Locals, Threads, ClientPCs, WorkerPCs, session, ghosts
<1>3. RequestShape' /\ PlanPresent'
  BY ThreadsAssumption
  DEF TypeInv, TypeOK, RequestShape, PlanPresent, ReadDecision, Locals, Threads, PlannedPCs, session, ghosts
<1> QED  BY <1>2, <1>3 DEF TypeInv

LEMMA SelectType ==
    ASSUME TypeInv, NEW w \in Workers, Select(w)
    PROVE  TypeInv'
<1>p. plan[sid[w]] \in Seq(SessionActions)
  BY PlansAssumption DEF Select, TypeInv, TypeOK, PlanPresent, PlannedPCs, Threads
<1>r. run' \in [Workers -> RunLocals]
  <2> DEFINE p == plan[sid[w]]
             r == [run[w] EXCEPT !.actions = p, !.todo = Eligible(p, run[w].approved)]
  <2>1. Eligible(p, run[w].approved) \subseteq Nat
    BY <1>p DEF Eligible
  <2>2. r \in RunLocals
    BY <1>p, <2>1 DEF TypeInv, TypeOK, RunLocals
  <2> QED  BY <2>2, LocalsType DEF Select, TypeInv
<1>2. TypeOK'
  BY <1>r, ThreadsAssumption
  DEF TypeInv, TypeOK, Select, Goto, Threads, ClientPCs, WorkerPCs, session, ghosts
<1>3. RequestShape' /\ PlanPresent'
  BY ThreadsAssumption
  DEF TypeInv, TypeOK, RequestShape, PlanPresent, Select, Goto, Threads, PlannedPCs, session, ghosts
<1> QED  BY <1>2, <1>3 DEF TypeInv

LEMMA LaunchType ==
    ASSUME TypeInv, NEW w \in Workers, Launch(w)
    PROVE  TypeInv'
<1>1. timeline' \in [Sessions -> [EventKinds -> Nat]]
  <2>1. {"nothing_to_run", "session_started"} \subseteq EventKinds /\ sid[w] \in Sessions
    BY DEF EventKinds, TypeInv, TypeOK, Threads
  <2> QED  BY <2>1, NoteType DEF Launch, TypeInv
<1>2. status' \in [Sessions -> Statuses] /\ stamped' \in [Sessions -> BOOLEAN]
  BY DEF Launch, TypeInv, TypeOK, Statuses, Terminal
<1>3. /\ pc' \in [Threads -> ClientPCs \cup WorkerPCs]
      /\ \A c \in Clients : pc'[c] \in ClientPCs
      /\ \A u \in Workers : pc'[u] \in WorkerPCs
  BY GotoType, ThreadsAssumption DEF Launch, TypeInv, WorkerPCs, Threads
<1>4. TypeOK'
  BY <1>1, <1>2, <1>3 DEF TypeInv, TypeOK, Launch, ghosts
<1>5. RequestShape' /\ PlanPresent'
  BY ThreadsAssumption
  DEF TypeInv, TypeOK, RequestShape, PlanPresent, Launch, Goto, Threads, PlannedPCs
<1> QED  BY <1>4, <1>5 DEF TypeInv

\* The positions left to run are positions of the actions read by Select.
TodoInPlan == \A w \in Workers : run[w].todo \subseteq DOMAIN run[w].actions

LEMMA RunActionType ==
    ASSUME TypeInv, TodoInPlan, NEW w \in Workers, RunAction(w)
    PROVE  TypeInv'
<1>0. PICK i \in run[w].todo : \E o \in RealOutcomes(run[w].actions[i]) : Iterate(w, i, o)
  BY DEF RunAction
<1>1. PICK o \in RealOutcomes(run[w].actions[i]) : Iterate(w, i, o)
  BY <1>0
<1>2. run[w] \in RunLocals /\ run[w].actions[i] \in SessionActions /\ sid[w] \in Sessions
  BY DEF TypeInv, TypeOK, TodoInPlan, RunLocals, Threads
<1>3. run' \in [Workers -> RunLocals]
  <2>1. /\ run[w].todo \ {i} \in SUBSET Nat
        /\ run[w].results \o o.results \in Seq(BOOLEAN)
        /\ run[w].items \o o.items \in Seq(Evidence)
        /\ o.unverified \in BOOLEAN
    BY <1>2, OutcomeType DEF RunLocals
  <2>2. [run[w] EXCEPT !.todo = IF o.goesOn THEN @ \ {i} ELSE {},
                       !.results = @ \o o.results,
                       !.items = @ \o o.items,
                       !.unverified = o.unverified] \in RunLocals
    BY <1>2, <2>1 DEF RunLocals
  <2> QED  BY <1>1, <2>2, LocalsType DEF TypeInv, Iterate
<1>4. invoked' \subseteq Sessions \X SessionActions
  BY <1>1, <1>2 DEF TypeInv, TypeOK, Iterate
<1>5. TypeOK'
  BY <1>3, <1>4 DEF RunAction, TypeInv, TypeOK, session
<1>6. RequestShape' /\ PlanPresent'
  BY DEF RunAction, TypeInv, RequestShape, PlanPresent, session
<1> QED  BY <1>5, <1>6 DEF TypeInv

LEMMA RunRaisesType ==
    ASSUME TypeInv, TodoInPlan, NEW w \in Workers, RunRaises(w)
    PROVE  TypeInv'
<1>1. invoked' \subseteq Sessions \X SessionActions
  <2>1. CASE UNCHANGED invoked
    BY <2>1 DEF TypeInv, TypeOK
  <2>2. CASE \E i \in run[w].todo : invoked' = invoked \cup {<<sid[w], run[w].actions[i]>>}
    <3>1. PICK i \in run[w].todo : invoked' = invoked \cup {<<sid[w], run[w].actions[i]>>}
      BY <2>2
    <3>2. run[w].actions[i] \in SessionActions /\ sid[w] \in Sessions
      BY DEF TypeInv, TypeOK, TodoInPlan, RunLocals, Threads
    <3> QED  BY <3>1, <3>2 DEF TypeInv, TypeOK
  <2> QED  BY <2>1, <2>2 DEF RunRaises
<1>p. /\ pc' \in [Threads -> ClientPCs \cup WorkerPCs]
      /\ \A c \in Clients : pc'[c] \in ClientPCs
      /\ \A v \in Workers : pc'[v] \in WorkerPCs
  BY GotoType, ThreadsAssumption DEF RunRaises, TypeInv, Threads, WorkerPCs
<1>2. TypeOK'
  BY <1>1, <1>p DEF RunRaises, TypeInv, TypeOK, session
<1>3. RequestShape' /\ PlanPresent'
  BY ThreadsAssumption
  DEF RunRaises, TypeInv, TypeOK, RequestShape, PlanPresent, Goto, Threads, PlannedPCs, session
<1> QED  BY <1>2, <1>3 DEF TypeInv

LEMMA FinishType ==
    ASSUME TypeInv, NEW w \in Workers, Finish(w)
    PROVE  TypeInv'
<1> DEFINE success == TargetedSuccess(run[w])
<1>1. timeline' \in [Sessions -> [EventKinds -> Nat]]
  <2>1. FinalEvent(success) \in EventKinds /\ sid[w] \in Sessions
    BY DEF FinalEvent, EventKinds, TypeInv, TypeOK, Threads
  <2> QED  BY <2>1, NoteType DEF Finish, TypeInv
<1>2. status' \in [Sessions -> Statuses] /\ stamped' \in [Sessions -> BOOLEAN]
  BY DEF Finish, TypeInv, TypeOK, Statuses, Terminal, FinalStatus
<1>3. history' \in [Sessions -> Seq(Evidence)]
  <2>1. run[w].items \in Seq(Evidence) /\ sid[w] \in Sessions
    BY DEF TypeInv, TypeOK, RunLocals, Threads
  <2>2. history[sid[w]] \o run[w].items \in Seq(Evidence)
    BY <2>1 DEF TypeInv, TypeOK
  <2> QED  BY <2>1, <2>2 DEF Finish, TypeInv, TypeOK
<1>4. /\ pc' \in [Threads -> ClientPCs \cup WorkerPCs]
      /\ \A c \in Clients : pc'[c] \in ClientPCs
      /\ \A u \in Workers : pc'[u] \in WorkerPCs
  BY GotoType, ThreadsAssumption DEF Finish, TypeInv, WorkerPCs, Threads
<1>5. TypeOK'
  BY <1>1, <1>2, <1>3, <1>4 DEF TypeInv, TypeOK, Finish, ghosts
<1>6. RequestShape' /\ PlanPresent'
  BY ThreadsAssumption
  DEF TypeInv, TypeOK, RequestShape, PlanPresent, Finish, Goto, Threads, PlannedPCs
<1> QED  BY <1>5, <1>6 DEF TypeInv

-----------------------------------------------------------------------------
(* The approval argument                                                   *)

\* A decision that stands approved was made by an approve request.
ApprovalsGranted ==
    \A s \in Sessions, id \in InstanceIds :
        approval[s][id] = "approved" => <<s, id>> \in granted

\* So does every identifier a run has read as approved ...
RunsGranted == \A w \in Workers : \A id \in run[w].approved : <<sid[w], id>> \in granted

\* ... and nothing else is left to run.
TodoApproved ==
    \A w \in Workers : \A i \in run[w].todo :
        i \in DOMAIN run[w].actions /\ run[w].actions[i].id \in run[w].approved

ApprovalInv == ApprovalsGranted /\ RunsGranted /\ TodoApproved /\ OnlyApprovedInvoked

\* Every action the builder can emit needs an approval.
LEMMA AllNeedApproval ==
    ASSUME NEW a \in SessionActions
    PROVE  SessionRequiresApproval(a)
BY DEF SessionActions, InstanceIds, BuilderNames, SessionRequiresApproval

\* The approval argument is untouched by a step that leaves these alone.
LEMMA ApprovalFrame ==
    ASSUME ApprovalInv, UNCHANGED <<approval, run, granted, invoked>>,
           \A w \in Workers : sid'[w] = sid[w]
    PROVE  ApprovalInv'
BY DEF ApprovalInv, ApprovalsGranted, RunsGranted, TodoApproved, OnlyApprovedInvoked

\* A worker that starts from fresh locals has read no approval.
LEMMA FreshFrame ==
    ASSUME TypeOK, ApprovalInv, NEW w \in Workers, NEW m \in Modes,
           run' = [run EXCEPT ![w] = FreshRun(m)],
           \A u \in Workers : u # w => sid'[u] = sid[u],
           UNCHANGED <<approval, granted, invoked>>
    PROVE  ApprovalInv'
<1>1. ASSUME NEW u \in Workers, u # w
      PROVE  run'[u] = run[u] /\ sid'[u] = sid[u]
  BY <1>1 DEF TypeOK
<1>2. run'[w].approved = {} /\ run'[w].todo = {}
  BY DEF TypeOK, FreshRun
<1>3. RunsGranted'
  BY <1>1, <1>2 DEF ApprovalInv, RunsGranted
<1>4. TodoApproved'
  BY <1>1, <1>2 DEF ApprovalInv, TodoApproved
<1> QED  BY <1>3, <1>4 DEF ApprovalInv, ApprovalsGranted, OnlyApprovedInvoked

LEMMA InitApproval == Init => ApprovalInv
BY DEF Init, ApprovalInv, ApprovalsGranted, RunsGranted, TodoApproved, OnlyApprovedInvoked,
       FreshRun, Undecided

LEMMA RegisterApproval ==
    ASSUME TypeInv, ApprovalInv, NEW c \in Clients, Register(c)
    PROVE  ApprovalInv'
<1>1. request[c].id \in InstanceIds /\ sid[c] \in Sessions
  BY DEF Register, TypeInv, TypeOK, RequestShape, Threads
<1>2. ApprovalsGranted'
  BY <1>1 DEF Register, TypeInv, TypeOK, ApprovalInv, ApprovalsGranted
<1> QED
  BY <1>2 DEF Register, ApprovalInv, RunsGranted, TodoApproved, OnlyApprovedInvoked

LEMMA DecideApproval ==
    ASSUME TypeInv, ApprovalInv, NEW c \in Clients, Decide(c)
    PROVE  ApprovalInv'
<1>1. request[c] \in [id : InstanceIds, verdict : Verdicts] /\ sid[c] \in Sessions
  BY DEF Decide, TypeInv, TypeOK, RequestShape, Threads
<1>2. granted \subseteq granted'
  BY DEF Decide
<1>3. ApprovalsGranted'
  BY <1>1, <1>2 DEF Decide, TypeInv, TypeOK, ApprovalInv, ApprovalsGranted
<1> QED
  BY <1>2, <1>3 DEF Decide, ApprovalInv, RunsGranted, TodoApproved, OnlyApprovedInvoked

LEMMA ReadDecisionApproval ==
    ASSUME TypeInv, ApprovalInv, NEW w \in Workers, NEW id \in InstanceIds, ReadDecision(w, id)
    PROVE  ApprovalInv'
<1>1. \A u \in Workers :
        /\ run'[u].todo = run[u].todo
        /\ run'[u].actions = run[u].actions
        /\ run[u].approved \subseteq run'[u].approved
        /\ \A d \in run'[u].approved :
              d \in run[u].approved \/ (u = w /\ d = id /\ approval[sid[w]][id] = "approved")
  BY DEF ReadDecision, Locals, CountsAsApproved, TypeInv, TypeOK, RunLocals
<1>2. RunsGranted'
  <2>1. sid[w] \in Sessions
    BY DEF TypeInv, TypeOK, Threads
  <2> QED
    BY <1>1, <2>1 DEF ReadDecision, ApprovalInv, RunsGranted, ApprovalsGranted, ghosts
<1>3. TodoApproved'
  BY <1>1 DEF ApprovalInv, TodoApproved
<1> QED
  BY <1>2, <1>3
  DEF ReadDecision, ApprovalInv, ApprovalsGranted, OnlyApprovedInvoked, session, ghosts

LEMMA SelectApproval ==
    ASSUME TypeInv, ApprovalInv, NEW w \in Workers, Select(w)
    PROVE  ApprovalInv'
<1> DEFINE p == plan[sid[w]]
<1>1. p \in Seq(SessionActions)
  BY PlansAssumption DEF Select, TypeInv, TypeOK, PlanPresent, PlannedPCs, Threads
<1>2. /\ run'[w].approved = run[w].approved
      /\ run'[w].actions = p
      /\ run'[w].todo = Eligible(p, run[w].approved)
      /\ \A u \in Workers : u # w => run'[u] = run[u]
  BY DEF Select, Locals, TypeInv, TypeOK, RunLocals
<1>3. \A i \in Eligible(p, run[w].approved) : i \in DOMAIN p /\ p[i].id \in run[w].approved
  <2>1. \A i \in DOMAIN p : SessionRequiresApproval(p[i])
    BY <1>1, ElementOfSeq, AllNeedApproval
  <2> QED  BY <2>1 DEF Eligible
<1>4. TodoApproved'
  BY <1>2, <1>3 DEF ApprovalInv, TodoApproved
<1>5. RunsGranted'
  BY <1>2 DEF Select, ApprovalInv, RunsGranted, ghosts
<1> QED
  BY <1>4, <1>5 DEF Select, ApprovalInv, ApprovalsGranted, OnlyApprovedInvoked, session, ghosts

LEMMA RunActionApproval ==
    ASSUME TypeInv, ApprovalInv, NEW w \in Workers, RunAction(w)
    PROVE  ApprovalInv'
<1>1. PICK i \in run[w].todo : \E o \in RealOutcomes(run[w].actions[i]) : Iterate(w, i, o)
  BY DEF RunAction
<1>2. PICK o \in RealOutcomes(run[w].actions[i]) : Iterate(w, i, o)
  BY <1>1
<1>3. /\ run'[w].approved = run[w].approved
      /\ run'[w].actions = run[w].actions
      /\ run'[w].todo \subseteq run[w].todo
      /\ \A u \in Workers : u # w => run'[u] = run[u]
  BY <1>2 DEF Iterate, Locals, TypeInv, TypeOK, RunLocals
<1>4. TodoApproved' /\ RunsGranted'
  BY <1>3 DEF RunAction, ApprovalInv, TodoApproved, RunsGranted
<1>5. <<sid[w], run[w].actions[i].id>> \in granted
  BY DEF ApprovalInv, TodoApproved, RunsGranted
<1>6. OnlyApprovedInvoked'
  <2>1. \A x \in invoked' : x \in invoked \/ x = <<sid[w], run[w].actions[i]>>
    BY <1>2 DEF Iterate
  <2>2. granted' = granted
    BY DEF RunAction
  <2>3. ASSUME NEW x \in invoked'
        PROVE  <<x[1], x[2].id>> \in granted
    <3>1. CASE x \in invoked
      BY <3>1 DEF ApprovalInv, OnlyApprovedInvoked
    <3>2. CASE x = <<sid[w], run[w].actions[i]>>
      <4>1. x[1] = sid[w] /\ x[2] = run[w].actions[i]
        BY <3>2
      <4> QED  BY <1>5, <4>1
    <3> QED  BY <2>1, <2>3, <3>1, <3>2
  <2> QED  BY <2>2, <2>3 DEF OnlyApprovedInvoked
<1> QED
  BY <1>4, <1>6 DEF RunAction, ApprovalInv, ApprovalsGranted, session

LEMMA RunRaisesApproval ==
    ASSUME TypeInv, ApprovalInv, NEW w \in Workers, RunRaises(w)
    PROVE  ApprovalInv'
<1>1. UNCHANGED <<approval, sid, run, granted>>
  BY DEF RunRaises, session
<1>2. ASSUME NEW x \in invoked'
      PROVE  <<x[1], x[2].id>> \in granted
  <2>1. CASE x \in invoked
    BY <2>1 DEF ApprovalInv, OnlyApprovedInvoked
  <2>2. CASE \E i \in run[w].todo : x = <<sid[w], run[w].actions[i]>>
    <3>1. PICK i \in run[w].todo : x = <<sid[w], run[w].actions[i]>>
      BY <2>2
    <3>2. x[1] = sid[w] /\ x[2] = run[w].actions[i]
      BY <3>1
    <3>3. <<sid[w], run[w].actions[i].id>> \in granted
      BY DEF ApprovalInv, TodoApproved, RunsGranted
    <3> QED  BY <3>2, <3>3
  <2> QED  BY <1>2, <2>1, <2>2 DEF RunRaises
<1> QED
  BY <1>1, <1>2
  DEF ApprovalInv, ApprovalsGranted, RunsGranted, TodoApproved, OnlyApprovedInvoked

\* Require and Snapshot write locals that the approval argument does not read.
LEMMA LocalsApproval ==
    ASSUME TypeInv, ApprovalInv, NEW w \in Workers, Require(w) \/ Snapshot(w)
    PROVE  ApprovalInv'
<1>1. \A u \in Workers :
        /\ run'[u].approved = run[u].approved
        /\ run'[u].actions = run[u].actions
        /\ run'[u].todo = run[u].todo
  <2>1. run[w] \in RunLocals /\ run \in [Workers -> RunLocals]
    BY DEF TypeInv, TypeOK
  <2>2. CASE Require(w)
    <3> DEFINE p == plan[sid[w]]
               ids == {p[i].id : i \in {j \in DOMAIN p : SessionRequiresApproval(p[j])}}
    <3>1. run' = [run EXCEPT ![w] = [run[w] EXCEPT !.required = ids]]
      BY <2>2 DEF Require, Locals
    <3> HIDE DEF ids
    <3> QED  BY <2>1, <3>1 DEF RunLocals
  <2>3. CASE Snapshot(w)
    BY <2>1, <2>3 DEF Snapshot, Locals, RunLocals
  <2> QED  BY <2>2, <2>3
<1>2. UNCHANGED <<approval, sid, granted, invoked>>
  BY DEF Require, Snapshot, session, ghosts
<1> QED
  BY <1>1, <1>2
  DEF ApprovalInv, ApprovalsGranted, RunsGranted, TodoApproved, OnlyApprovedInvoked

LEMMA ApprovalStep ==
    ASSUME TypeInv, ApprovalInv, [Next]_vars
    PROVE  ApprovalInv'
<1> USE DEF TypeInv
<1>1. ASSUME NEW c \in Clients, NEW s \in Sessions, RequestStep(c, s)
      PROVE  ApprovalInv'
  <2>1. UNCHANGED <<approval, run, granted, invoked>> /\ \A w \in Workers : sid'[w] = sid[w]
    BY <1>1, ThreadsAssumption
    DEF RequestStep, Create, RequestPlan, RequestDecision, StartAsync, RequestCancel, Take,
        TypeOK, Threads, session, ghosts
  <2> QED  BY <2>1, ApprovalFrame
<1>2. ASSUME NEW c \in Clients, ClientStep(c)
      PROVE  ApprovalInv'
  <2>1. CASE Register(c) \/ Decide(c)
    BY <2>1, RegisterApproval, DecideApproval
  <2>2. CASE Spawn(c)
    <3>1. request[c].mode \in Modes
      BY <2>2 DEF Spawn, RequestShape
    <3>2. PICK w \in Workers :
            /\ sid' = [sid EXCEPT ![w] = sid[c]]
            /\ run' = [run EXCEPT ![w] = FreshRun(request[c].mode)]
      BY <2>2 DEF Spawn
    <3>3. \A u \in Workers : u # w => sid'[u] = sid[u]
      BY <3>2 DEF TypeOK, Threads
    <3> QED  BY <2>2, <3>1, <3>2, <3>3, FreshFrame DEF Spawn, session, ghosts
  <2>3. CASE RecordIntent(c) \/ BuildPlan(c) \/ BuildFails(c) \/ Cancel(c)
    BY <2>3, ApprovalFrame DEF RecordIntent, BuildPlan, BuildFails, Cancel, ghosts
  <2> QED  BY <1>2, <2>1, <2>2, <2>3 DEF ClientStep
<1>3. ASSUME NEW w \in Workers, WorkerStep(w)
      PROVE  ApprovalInv'
  <2>1. CASE Require(w) \/ Snapshot(w)
    BY <2>1, LocalsApproval
  <2>2. ASSUME NEW id \in InstanceIds, ReadDecision(w, id)
        PROVE  ApprovalInv'
    BY <2>2, ReadDecisionApproval
  <2>3. CASE Select(w)
    BY <2>3, SelectApproval
  <2>4. CASE RunAction(w) \/ RunRaises(w)
    BY <2>4, RunActionApproval, RunRaisesApproval
  <2>5. CASE Release(w)
    BY <2>5, FreshFrame DEF Release, Locals, Modes, ghosts
  <2>6. CASE \/ Begin(w) \/ BuildPlan(w) \/ BuildFails(w) \/ Examine(w) \/ CompleteEmpty(w)
             \/ IterationRaises(w) \/ EndIteration(w) \/ Await(w) \/ ApprovalRequired(w)
             \/ Launch(w) \/ Finish(w) \/ Raise(w)
    BY <2>6, ApprovalFrame
    DEF Begin, BuildPlan, BuildFails, Examine, CompleteEmpty, IterationRaises, EndIteration,
        Await, ApprovalRequired, Launch, Finish, Raise, session, ghosts
  <2> QED  BY <1>3, <2>1, <2>2, <2>3, <2>4, <2>5, <2>6 DEF WorkerStep
<1>4. CASE UNCHANGED vars
  BY <1>4, ApprovalFrame DEF vars, session, ghosts
<1> QED  BY <1>1, <1>2, <1>3, <1>4 DEF Next

LEMMA TodoApprovedInPlan == TodoApproved => TodoInPlan
BY DEF TodoApproved, TodoInPlan

LEMMA TypeStep ==
    ASSUME TypeInv, TodoApproved, [Next]_vars
    PROVE  TypeInv'
<1>1. ASSUME NEW c \in Clients, NEW s \in Sessions, RequestStep(c, s)
      PROVE  TypeInv'
  BY <1>1, CreateType, RequestPlanType, RequestDecisionType, StartAsyncType, RequestCancelType
  DEF RequestStep
<1>2. ASSUME NEW c \in Clients, ClientStep(c)
      PROVE  TypeInv'
  BY <1>2, RecordIntentType, BuildPlanType, BuildFailsType, RegisterType, DecideType, SpawnType, CancelType
  DEF ClientStep, Threads
<1>3. ASSUME NEW w \in Workers, WorkerStep(w)
      PROVE  TypeInv'
  <2>1. CASE Begin(w) \/ BuildPlan(w) \/ BuildFails(w) \/ Examine(w) \/ CompleteEmpty(w)
    BY <2>1, BeginType, BuildPlanType, BuildFailsType, ExamineType, CompleteEmptyType DEF Threads
  <2>2. CASE Require(w) \/ Snapshot(w) \/ \E id \in InstanceIds : ReadDecision(w, id)
    BY <2>2, RequireType, SnapshotType, ReadDecisionType
  <2>3. CASE IterationRaises(w) \/ EndIteration(w) \/ Await(w) \/ ApprovalRequired(w)
    BY <2>3, IterationRaisesType, EndIterationType, AwaitType, ApprovalRequiredType
  <2>4. CASE \/ Select(w) \/ Launch(w) \/ RunAction(w) \/ RunRaises(w) \/ Finish(w)
             \/ Raise(w) \/ Release(w)
    BY <2>4, SelectType, LaunchType, RunActionType, RunRaisesType, FinishType, RaiseType, ReleaseType,
       TodoApprovedInPlan
  <2> QED  BY <1>3, <2>1, <2>2, <2>3, <2>4 DEF WorkerStep
<1>4. CASE UNCHANGED vars
  BY <1>4
  DEF TypeInv, TypeOK, RequestShape, PlanPresent, vars, session, ghosts
<1> QED  BY <1>1, <1>2, <1>3, <1>4 DEF Next

LEMMA ApprovalInvariant == Spec => [](TypeInv /\ ApprovalInv)
<1>1. Init => TypeInv /\ ApprovalInv
  BY InitType, InitApproval
<1>2. TypeInv /\ ApprovalInv /\ [Next]_vars => TypeInv' /\ ApprovalInv'
  BY TypeStep, ApprovalStep DEF ApprovalInv
<1> QED  BY <1>1, <1>2, PTL DEF Spec

\* Type correctness: in every reachable state the shared session objects, the
\* decisions of the clients and the locals of the workers have their types.
THEOREM TypeCorrect == Spec => []TypeOK
<1>1. TypeInv /\ ApprovalInv => TypeOK
  BY DEF TypeInv
<1> QED  BY <1>1, ApprovalInvariant, PTL

\* REAL execution never bypasses human approval: a real handler is called only
\* for an action identifier that an approve request of that session named,
\* however plan, approve and start requests interleave.
THEOREM ApprovalBeforeInvocation == Spec => []OnlyApprovedInvoked
<1>1. TypeInv /\ ApprovalInv => OnlyApprovedInvoked
  BY DEF ApprovalInv
<1> QED  BY <1>1, ApprovalInvariant, PTL

-----------------------------------------------------------------------------
(* One run per session                                                     *)

\* A step that leaves _running and every thread's claim on a session alone.
LEMMA OneRunFrame ==
    ASSUME OneRunPerSession, running' = running,
           \A t \in Threads, s \in Sessions : t \in Runners(s)' <=> t \in Runners(s)
    PROVE  OneRunPerSession'
<1>1. \A s \in Sessions : Runners(s)' = Runners(s)
  BY DEF Runners
<1> QED  BY <1>1 DEF OneRunPerSession

\* A worker that stays in its handler keeps its claim.
LEMMA WorkerKeepsRun ==
    ASSUME TypeOK, OneRunPerSession, NEW w \in Workers, NEW label, label # "idle",
           pc[w] # "idle", Goto(w, label), UNCHANGED <<running, sid>>
    PROVE  OneRunPerSession'
<1>1. \A t \in Threads, s \in Sessions : t \in Runners(s)' <=> t \in Runners(s)
  BY ThreadsAssumption DEF Goto, Runners, TypeOK, Threads
<1> QED  BY <1>1, OneRunFrame

\* A client outside "spawn" has none, whichever session it turns to.
LEMMA ClientHasNoRun ==
    ASSUME TypeOK, OneRunPerSession, NEW c \in Clients, running' = running,
           pc[c] # "spawn", pc'[c] # "spawn",
           \A t \in Threads : t # c => pc'[t] = pc[t] /\ sid'[t] = sid[t]
    PROVE  OneRunPerSession'
<1>1. \A t \in Threads, s \in Sessions : t \in Runners(s)' <=> t \in Runners(s)
  BY ThreadsAssumption DEF Runners, Threads
<1> QED  BY <1>1, OneRunFrame

LEMMA InitOneRun == Init => OneRunPerSession
BY DEF Init, OneRunPerSession, Runners, Threads

LEMMA StartAsyncOneRun ==
    ASSUME TypeOK, OneRunPerSession, NEW c \in Clients, NEW s \in Sessions, NEW m \in Modes,
           StartAsync(c, s, m)
    PROVE  OneRunPerSession'
<1>1. s \notin running /\ running' = running \cup {s} /\ pc[c] = "idle"
  BY DEF StartAsync, MayStart, Take, CanIssue
<1>2. /\ pc'[c] = "spawn" /\ sid'[c] = s
      /\ \A t \in Threads : t # c => pc'[t] = pc[t] /\ sid'[t] = sid[t]
  BY DEF StartAsync, Take, Goto, TypeOK, Threads
<1>3. \A z \in Sessions : Runners(z)' = IF z = s THEN Runners(z) \cup {c} ELSE Runners(z)
  BY <1>1, <1>2, ThreadsAssumption DEF Runners, Threads
<1>4. Runners(s) = {}
  BY <1>1 DEF OneRunPerSession
<1> QED  BY <1>1, <1>3, <1>4 DEF OneRunPerSession

LEMMA SpawnOneRun ==
    ASSUME TypeOK, OneRunPerSession, NEW c \in Clients, Spawn(c)
    PROVE  OneRunPerSession'
<1>1. PICK w \in Workers :
        /\ pc[w] = "idle"
        /\ sid' = [sid EXCEPT ![w] = sid[c]]
        /\ pc' = [pc EXCEPT ![c] = "idle", ![w] = "begin"]
  BY DEF Spawn
<1>2. pc[c] = "spawn" /\ running' = running
  BY DEF Spawn, session
<1>3. /\ pc'[w] = "begin" /\ sid'[w] = sid[c] /\ pc'[c] = "idle"
      /\ \A t \in Threads : t # c /\ t # w => pc'[t] = pc[t] /\ sid'[t] = sid[t]
  BY <1>1, ThreadsAssumption DEF TypeOK, Threads
<1>4. \A s \in Sessions :
        Runners(s)' = IF s = sid[c] THEN (Runners(s) \ {c}) \cup {w} ELSE Runners(s)
  BY <1>1, <1>2, <1>3, ThreadsAssumption DEF Runners, Threads
<1>5. c \in Runners(sid[c]) /\ sid[c] \in Sessions
  BY <1>2 DEF Runners, TypeOK, Threads
<1> QED  BY <1>2, <1>4, <1>5 DEF OneRunPerSession

LEMMA ReleaseOneRun ==
    ASSUME TypeOK, OneRunPerSession, NEW w \in Workers, Release(w)
    PROVE  OneRunPerSession'
<1>1. /\ running' = running \ {sid[w]} /\ pc[w] = "release" /\ sid' = sid
      /\ pc'[w] = "idle" /\ \A t \in Threads : t # w => pc'[t] = pc[t]
  BY DEF Release, Goto, TypeOK, Threads
<1>2. \A s \in Sessions :
        Runners(s)' = IF s = sid[w] THEN Runners(s) \ {w} ELSE Runners(s)
  BY <1>1, ThreadsAssumption DEF Runners, Threads
<1>3. w \in Runners(sid[w]) /\ sid[w] \in Sessions
  BY <1>1 DEF Runners, TypeOK, Threads
<1> QED  BY <1>1, <1>2, <1>3 DEF OneRunPerSession

LEMMA OneRunStep ==
    ASSUME TypeOK, OneRunPerSession, [Next]_vars
    PROVE  OneRunPerSession'
<1>1. ASSUME NEW c \in Clients, NEW s \in Sessions, RequestStep(c, s)
      PROVE  OneRunPerSession'
  <2>1. CASE \E m \in Modes : StartAsync(c, s, m)
    BY <2>1, StartAsyncOneRun
  <2>2. CASE \/ Create(c, s) \/ RequestPlan(c, s) \/ RequestCancel(c, s)
             \/ \E id \in InstanceIds, v \in Verdicts : RequestDecision(c, s, id, v)
    <3>1. /\ pc[c] = "idle" /\ pc'[c] # "spawn" /\ running' = running
          /\ \A t \in Threads : t # c => pc'[t] = pc[t] /\ sid'[t] = sid[t]
      BY <2>2
      DEF Create, RequestPlan, RequestCancel, RequestDecision, Take, CanIssue, Goto, TypeOK,
          Threads, session
    <3> QED  BY <3>1, ClientHasNoRun
  <2> QED  BY <1>1, <2>1, <2>2 DEF RequestStep
<1>2. ASSUME NEW c \in Clients, ClientStep(c)
      PROVE  OneRunPerSession'
  <2>1. CASE Spawn(c)
    BY <2>1, SpawnOneRun
  <2>2. CASE \/ RecordIntent(c) \/ BuildPlan(c) \/ BuildFails(c) \/ Register(c) \/ Decide(c)
             \/ Cancel(c)
    <3>1. /\ pc[c] # "spawn" /\ pc'[c] # "spawn" /\ running' = running
          /\ \A t \in Threads : t # c => pc'[t] = pc[t] /\ sid'[t] = sid[t]
      BY <2>2
      DEF RecordIntent, BuildPlan, BuildFails, Register, Decide, Cancel, AfterPlan, Goto, TypeOK, Threads
    <3> QED  BY <3>1, ClientHasNoRun
  <2> QED  BY <1>2, <2>1, <2>2 DEF ClientStep
<1>3. ASSUME NEW w \in Workers, WorkerStep(w)
      PROVE  OneRunPerSession'
  <2>1. CASE Release(w)
    BY <2>1, ReleaseOneRun
  <2>2. CASE RunAction(w) \/ \E id \in InstanceIds : ReadDecision(w, id)
    <3>1. UNCHANGED <<pc, sid, running>>
      BY <2>2 DEF RunAction, ReadDecision, session
    <3> QED  BY <3>1, OneRunFrame DEF Runners
  <2>3. CASE \/ Begin(w) \/ BuildPlan(w) \/ BuildFails(w) \/ Examine(w) \/ CompleteEmpty(w)
             \/ Require(w) \/ Snapshot(w) \/ IterationRaises(w) \/ EndIteration(w)
             \/ Await(w) \/ ApprovalRequired(w) \/ Select(w) \/ Launch(w) \/ RunRaises(w)
             \/ Finish(w) \/ Raise(w)
    <3>1. pc[w] # "idle" /\ UNCHANGED <<running, sid>>
      BY <2>3
      DEF Begin, BuildPlan, BuildFails, Examine, CompleteEmpty, Require, Snapshot,
          IterationRaises, EndIteration, Await, ApprovalRequired, Select, Launch, RunRaises,
          Finish, Raise, session
    <3>2. \E label : label # "idle" /\ Goto(w, label)
      <4>1. CASE Begin(w) \/ BuildPlan(w) \/ BuildFails(w) \/ EndIteration(w)
        BY <4>1, ThreadsAssumption DEF Begin, BuildPlan, BuildFails, AfterPlan, EndIteration
      <4>2. CASE Examine(w)
        <5>1. run[w].mode \in Modes
          BY DEF TypeOK, RunLocals
        <5>2. Goto(w, "complete_empty") \/ Goto(w, "raise") \/ Goto(w, "require")
          BY <4>2, <5>1 DEF Examine, Modes
        <5> QED  BY <5>2
      <4>3. CASE \/ CompleteEmpty(w) \/ Require(w) \/ Snapshot(w) \/ IterationRaises(w)
                 \/ Await(w) \/ ApprovalRequired(w) \/ Select(w) \/ Launch(w) \/ RunRaises(w)
                 \/ Finish(w) \/ Raise(w)
        BY <4>3
        DEF CompleteEmpty, Require, Snapshot, IterationRaises, Await, ApprovalRequired, Select,
            Launch, RunRaises, Finish, Raise
      <4> QED  BY <2>3, <4>1, <4>2, <4>3
    <3> QED  BY <3>1, <3>2, WorkerKeepsRun
  <2> QED  BY <1>3, <2>1, <2>2, <2>3 DEF WorkerStep
<1>4. CASE UNCHANGED vars
  BY <1>4, OneRunFrame DEF Runners, vars, session
<1> QED  BY <1>1, <1>2, <1>3, <1>4 DEF Next

\* _running_lock does its work: two starts of a session never run together, and
\* a session is in _running exactly while one thread holds or will hold its run.
THEOREM OneRunAtATime == Spec => []OneRunPerSession
<1>1. Init => OneRunPerSession
  BY InitOneRun
<1>2. TypeOK /\ OneRunPerSession /\ [Next]_vars => OneRunPerSession'
  BY OneRunStep
<1> QED  BY <1>1, <1>2, TypeCorrect, PTL DEF Spec

=============================================================================
