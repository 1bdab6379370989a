-------------------------- MODULE SessionRunProofs --------------------------
(***************************************************************************)
(* Proofs about the runs of SessionService: what they report, on whose     *)
(* word they act, and that nothing follows the end of the last one.        *)
(***************************************************************************)
EXTENDS SessionServiceProofs, FiniteSetTheorems

-----------------------------------------------------------------------------
(* What the steps of each kind of thread change                            *)

\* The events that open and close a run.
RunKinds == {"session_started", "session_completed", "session_failed"}

RunEventsKept ==
    \A s \in Sessions : \A k \in RunKinds : timeline'[s][k] = timeline[s][k]

LEMMA NoteOther ==
    ASSUME TypeOK, NEW s \in Sessions, NEW kind, kind \notin RunKinds, Note(s, kind)
    PROVE  RunEventsKept
<1>1. ASSUME NEW z \in Sessions, NEW k \in RunKinds
      PROVE  timeline'[z][k] = timeline[z][k]
  <2>1. k \in EventKinds /\ k # kind
    BY DEF RunKinds, EventKinds
  <2>2. timeline \in [Sessions -> [EventKinds -> Nat]] /\ timeline[s] \in [EventKinds -> Nat]
    BY DEF TypeOK
  <2>3. timeline' = [timeline EXCEPT ![s] = [timeline[s] EXCEPT ![kind] = @ + 1]]
    BY DEF Note
  <2>4. [timeline[s] EXCEPT ![kind] = @ + 1][k] = timeline[s][k]
    BY <2>1, <2>2
  <2> QED  BY <2>2, <2>3, <2>4
<1> QED  BY <1>1 DEF RunEventsKept

LEMMA NoteRun ==
    ASSUME TypeOK, NEW s \in Sessions, NEW kind \in RunKinds, Note(s, kind)
    PROVE  \A z \in Sessions, k \in RunKinds :
              timeline'[z][k] = IF z = s /\ k = kind THEN timeline[z][k] + 1 ELSE timeline[z][k]
<1>1. timeline \in [Sessions -> [EventKinds -> Nat]] /\ timeline[s] \in [EventKinds -> Nat]
  BY DEF TypeOK
<1>2. timeline' = [timeline EXCEPT ![s] = [timeline[s] EXCEPT ![kind] = @ + 1]]
  BY DEF Note
<1>3. \A k \in RunKinds :
        [timeline[s] EXCEPT ![kind] = @ + 1][k] =
           IF k = kind THEN timeline[s][k] + 1 ELSE timeline[s][k]
  BY <1>1 DEF RunKinds, EventKinds
<1> QED  BY <1>1, <1>2, <1>3

\* A new request leaves the runs alone.
LEMMA RequestEffect ==
    ASSUME TypeOK, NEW c \in Clients, NEW s \in Sessions, RequestStep(c, s)
    PROVE  /\ UNCHANGED <<approval, history, run, granted, late, invoked>>
           /\ \A w \in Workers : pc'[w] = pc[w] /\ sid'[w] = sid[w]
           /\ RunEventsKept
<1>1. CASE Create(c, s)
  <2>1. RunEventsKept
    BY <1>1, NoteOther DEF Create, RunKinds
  <2>2. UNCHANGED <<approval, history, run, granted, late, invoked>>
    BY <1>1 DEF Create, ghosts
  <2>3. \A w \in Workers : pc'[w] = pc[w] /\ sid'[w] = sid[w]
    BY <1>1, ThreadsAssumption DEF Create, Take, Goto, TypeOK, Threads
  <2> QED  BY <2>1, <2>2, <2>3
<1>2. CASE \/ RequestPlan(c, s) \/ RequestCancel(c, s)
           \/ \E id \in InstanceIds, v \in Verdicts : RequestDecision(c, s, id, v)
           \/ \E m \in Modes : StartAsync(c, s, m)
  <2>1. UNCHANGED <<timeline, approval, history, run, granted, late, invoked>>
    BY <1>2 DEF RequestPlan, RequestCancel, RequestDecision, StartAsync, session, ghosts
  <2>2. \A w \in Workers : pc'[w] = pc[w] /\ sid'[w] = sid[w]
    BY <1>2, ThreadsAssumption
    DEF RequestPlan, RequestCancel, RequestDecision, StartAsync, Take, Goto, TypeOK, Threads
  <2> QED  BY <2>1, <2>2 DEF RunEventsKept
<1> QED  BY <1>1, <1>2 DEF RequestStep

\* The later steps of a request, the start of a worker apart: what they decide is
\* decided late for a run that has read the decisions.
LEMMA ClientEffect ==
    ASSUME TypeOK, RequestShape, NEW c \in Clients, ClientStep(c), ~Spawn(c)
    PROVE  /\ UNCHANGED <<history, run, invoked>>
           /\ \A w \in Workers : pc'[w] = pc[w] /\ sid'[w] = sid[w]
           /\ RunEventsKept
           /\ late \subseteq late'
           /\ \A s \in Sessions, id \in InstanceIds :
                 approval'[s][id] = approval[s][id] \/ <<s, id>> \in late'
<1>0. sid[c] \in Sessions /\ c \in Threads /\ approval \in [Sessions -> [InstanceIds -> Marks]]
  BY DEF TypeOK, Threads
<1>1. CASE RecordIntent(c) \/ Cancel(c) \/ BuildPlan(c) \/ BuildFails(c)
  <2>1. UNCHANGED <<approval, history, run, late, invoked>>
    BY <1>1 DEF RecordIntent, Cancel, BuildPlan, BuildFails, ghosts
  <2>2. \A w \in Workers : pc'[w] = pc[w] /\ sid'[w] = sid[w]
    BY <1>1, ThreadsAssumption
    DEF RecordIntent, Cancel, BuildPlan, BuildFails, AfterPlan, Goto, TypeOK, Threads
  <2>3. \E kind : kind \notin RunKinds /\ Note(sid[c], kind)
    BY <1>1 DEF RecordIntent, Cancel, BuildPlan, BuildFails, RunKinds
  <2>4. RunEventsKept
    BY <1>0, <2>3, NoteOther
  <2> QED  BY <2>1, <2>2, <2>4
<1>2. CASE Register(c)
  <2>1. UNCHANGED <<timeline, history, run, invoked>>
    BY <1>2 DEF Register
  <2>2. \A w \in Workers : pc'[w] = pc[w] /\ sid'[w] = sid[w]
    BY <1>2, ThreadsAssumption DEF Register, Goto, TypeOK, Threads
  <2>3. /\ late' = late \cup {<<sid[c], request[c].id>>}
        /\ approval' = [approval EXCEPT ![sid[c]][request[c].id] = "pending"]
    BY <1>2 DEF Register
  <2>4. \A s \in Sessions, id \in InstanceIds :
           approval'[s][id] = approval[s][id] \/ <<s, id>> \in late'
    BY <1>0, <2>3
  <2> QED  BY <2>1, <2>2, <2>3, <2>4 DEF RunEventsKept
<1>3. CASE Decide(c)
  <2>1. UNCHANGED <<history, run, invoked>>
    BY <1>3 DEF Decide
  <2>2. \A w \in Workers : pc'[w] = pc[w] /\ sid'[w] = sid[w]
    BY <1>3, ThreadsAssumption DEF Decide, Goto, TypeOK, Threads
  <2>3. /\ late' = late \cup {<<sid[c], request[c].id>>}
        /\ approval' = [approval EXCEPT ![sid[c]][request[c].id] = request[c].verdict]
    BY <1>3 DEF Decide
  <2>4. \A s \in Sessions, id \in InstanceIds :
           approval'[s][id] = approval[s][id] \/ <<s, id>> \in late'
    BY <1>0, <2>3
  <2>5. request[c].verdict \in Verdicts
    BY <1>3 DEF Decide, RequestShape
  <2>6. \E kind : kind \notin RunKinds /\ Note(sid[c], kind)
    BY <1>3, <2>5 DEF Decide, RunKinds, Verdicts
  <2>7. RunEventsKept
    BY <1>0, <2>6, NoteOther
  <2> QED  BY <2>1, <2>2, <2>3, <2>4, <2>7
<1> QED  BY <1>1, <1>2, <1>3 DEF ClientStep

\* A worker starts with fresh locals.
LEMMA SpawnEffect ==
    ASSUME TypeOK, RequestShape, NEW c \in Clients, Spawn(c)
    PROVE  /\ UNCHANGED <<session, ghosts>>
           /\ \E w \in Workers :
                 /\ pc[w] = "idle" /\ pc'[w] = "begin" /\ sid'[w] = sid[c]
                 /\ \E m \in Modes : run'[w] = FreshRun(m)
                 /\ \A u \in Workers \ {w} :
                       pc'[u] = pc[u] /\ sid'[u] = sid[u] /\ run'[u] = run[u]
<1>1. PICK w \in Workers :
        /\ pc[w] = "idle"
        /\ sid' = [sid EXCEPT ![w] = sid[c]]
        /\ run' = [run EXCEPT ![w] = FreshRun(request[c].mode)]
        /\ pc' = [pc EXCEPT ![c] = "idle", ![w] = "begin"]
  BY DEF Spawn
<1>2. request[c].mode \in Modes
  BY DEF Spawn, RequestShape
<1>3. pc'[w] = "begin" /\ sid'[w] = sid[c] /\ run'[w] = FreshRun(request[c].mode)
  BY <1>1 DEF TypeOK, Threads
<1>4. \A u \in Workers \ {w} : pc'[u] = pc[u] /\ sid'[u] = sid[u] /\ run'[u] = run[u]
  BY <1>1, ThreadsAssumption DEF TypeOK, Threads
<1> QED  BY <1>1, <1>2, <1>3, <1>4 DEF Spawn

\* A worker's step is about its own session and leaves the other workers alone.
LEMMA WorkerEffect ==
    ASSUME TypeOK, NEW w \in Workers, WorkerStep(w)
    PROVE  /\ sid' = sid /\ approval' = approval
           /\ pc[w] # "idle"
           /\ \A u \in Workers \ {w} : pc'[u] = pc[u] /\ run'[u] = run[u]
<1> USE DEF TypeOK, Threads, Goto, Locals
<1>1. CASE Begin(w) \/ BuildPlan(w) \/ BuildFails(w) \/ Examine(w) \/ CompleteEmpty(w)
  BY <1>1 DEF Begin, BuildPlan, BuildFails, AfterPlan, Examine, CompleteEmpty, session
<1>2. CASE Require(w)
  BY <1>2 DEF Require, session
<1>3. CASE Snapshot(w) \/ IterationRaises(w) \/ EndIteration(w) \/ Await(w) \/ ApprovalRequired(w)
  BY <1>3 DEF Snapshot, IterationRaises, EndIteration, Await, ApprovalRequired, session
<1>4. CASE \E id \in InstanceIds : ReadDecision(w, id)
  BY <1>4 DEF ReadDecision, session
<1>5. CASE Select(w) \/ Launch(w) \/ RunRaises(w) \/ Finish(w) \/ Raise(w) \/ Release(w)
  BY <1>5 DEF Select, Launch, RunRaises, Finish, Raise, Release, session
<1>6. CASE RunAction(w)
  <2>1. \E r : run' = [run EXCEPT ![w] = r]
    BY <1>6 DEF RunAction, Iterate
  <2>2. UNCHANGED <<session, pc, sid>> /\ pc[w] = "run"
    BY <1>6 DEF RunAction
  <2> QED  BY <2>1, <2>2 DEF session
<1> QED  BY <1>1, <1>2, <1>3, <1>4, <1>5, <1>6 DEF WorkerStep

-----------------------------------------------------------------------------
(* The evidence                                                            *)

Called(s, id) == \E x \in invoked : x[1] = s /\ x[2].id = id

\* The evidence a run carries is as true as that of the session.
CarriedIsTrue ==
    \A w \in Workers : \A i \in DOMAIN run[w].items :
        run[w].items[i].ok => Called(sid[w], run[w].items[i].id)

EvidenceInv == CarriedIsTrue /\ NoFalseEvidence

LEMMA EvidenceFrame ==
    ASSUME EvidenceInv, history' = history, invoked \subseteq invoked',
           \A w \in Workers : \/ run'[w].items = run[w].items /\ sid'[w] = sid[w]
                              \/ run'[w].items = <<>>
    PROVE  EvidenceInv'
<1>1. \A s, id : Called(s, id) => Called(s, id)'
  BY DEF Called
<1>2. CarriedIsTrue'
  <2> SUFFICES ASSUME NEW w \in Workers, NEW i \in DOMAIN run'[w].items, run'[w].items[i].ok
               PROVE  Called(sid[w], run[w].items[i].id)' 
    BY DEF CarriedIsTrue
  <2>1. run'[w].items = run[w].items /\ sid'[w] = sid[w]
    <3>1. DOMAIN <<>> = {}
      OBVIOUS
    <3> QED  BY <3>1
  <2>2. Called(sid[w], run[w].items[i].id)
    BY <2>1 DEF EvidenceInv, CarriedIsTrue
  <2> QED  BY <2>1, <2>2 DEF Called
<1>3. NoFalseEvidence'
  BY <1>1 DEF EvidenceInv, NoFalseEvidence
<1> QED  BY <1>2, <1>3 DEF EvidenceInv

LEMMA ConcatItem ==
    ASSUME NEW a \in Seq(Evidence), NEW b \in Seq(Evidence), NEW c, c = a \o b, NEW k \in DOMAIN c
    PROVE  \/ k \in DOMAIN a /\ c[k] = a[k]
           \/ \E j \in DOMAIN b : c[k] = b[j]
<1>1. /\ DOMAIN a = 1..Len(a) /\ DOMAIN b = 1..Len(b) /\ Len(a) \in Nat /\ Len(b) \in Nat
      /\ DOMAIN c = 1..(Len(a) + Len(b))
      /\ \A i \in 1..(Len(a) + Len(b)) : c[i] = IF i <= Len(a) THEN a[i] ELSE b[i - Len(a)]
  BY ConcatProperties, LenProperties
<1>2. CASE k <= Len(a)
  BY <1>1, <1>2
<1>3. CASE ~(k <= Len(a))
  <2>1. k - Len(a) \in DOMAIN b /\ c[k] = b[k - Len(a)]
    BY <1>1, <1>3
  <2> QED  BY <2>1
<1> QED  BY <1>2, <1>3

LEMMA RunActionEvidence ==
    ASSUME TypeInv, ApprovalInv, EvidenceInv, NEW w \in Workers, RunAction(w)
    PROVE  EvidenceInv'
<1>1. PICK i \in run[w].todo : \E o \in RealOutcomes(run[w].actions[i]) : Iterate(w, i, o)
  BY DEF RunAction
<1>2. PICK o \in RealOutcomes(run[w].actions[i]) : Iterate(w, i, o)
  BY <1>1
<1>3. run[w] \in RunLocals /\ run[w].actions[i] \in SessionActions
  BY DEF TypeInv, TypeOK, ApprovalInv, TodoApproved, RunLocals
<1>4. /\ o.items \in Seq(Evidence) /\ o.invoked \in BOOLEAN
      /\ \A k \in DOMAIN o.items :
            o.items[k].ok => o.invoked /\ o.items[k].id = run[w].actions[i].id
  BY <1>2, <1>3, OutcomeType
<1>5. run'[w].items = run[w].items \o o.items
  BY <1>2, <1>3 DEF Iterate, Locals, TypeInv, TypeOK, RunLocals
<1>6. /\ invoked \subseteq invoked'
      /\ o.invoked => <<sid[w], run[w].actions[i]>> \in invoked'
  BY <1>2 DEF Iterate
<1>7. sid' = sid /\ history' = history /\ \A u \in Workers \ {w} : run'[u] = run[u]
  BY WorkerEffect DEF WorkerStep, TypeInv, RunAction, session
<1>8. ASSUME NEW k \in DOMAIN run'[w].items, run'[w].items[k].ok
      PROVE  \E x \in invoked' : x[1] = sid[w] /\ x[2].id = run'[w].items[k].id
  <2>1. run[w].items \in Seq(Evidence)
    BY <1>3 DEF RunLocals
  <2>2. CASE k \in DOMAIN run[w].items /\ run'[w].items[k] = run[w].items[k]
    BY <1>6, <1>8, <2>2 DEF EvidenceInv, CarriedIsTrue, Called
  <2>3. CASE \E j \in DOMAIN o.items : run'[w].items[k] = o.items[j]
    <3>1. PICK j \in DOMAIN o.items : run'[w].items[k] = o.items[j]
      BY <2>3
    <3>2. o.invoked /\ o.items[j].id = run[w].actions[i].id
      BY <1>4, <1>8, <3>1
    <3>3. <<sid[w], run[w].actions[i]>>[1] = sid[w] /\ <<sid[w], run[w].actions[i]>>[2] = run[w].actions[i]
      OBVIOUS
    <3> QED  BY <1>6, <3>1, <3>2, <3>3
  <2>4. o.items \in Seq(Evidence) /\ k \in DOMAIN run'[w].items
    BY <1>4, <1>8
  <2>5. \/ k \in DOMAIN run[w].items /\ run'[w].items[k] = run[w].items[k]
        \/ \E j \in DOMAIN o.items : run'[w].items[k] = o.items[j]
    <3> DEFINE a == run[w].items
               b == o.items
               c == run'[w].items
    <3>1. a \in Seq(Evidence) /\ b \in Seq(Evidence) /\ c = a \o b /\ k \in DOMAIN c
      BY <1>5, <2>1, <2>4
    <3> HIDE DEF a, b, c
    <3>2. (k \in DOMAIN a /\ c[k] = a[k]) \/ \E j \in DOMAIN b : c[k] = b[j]
      BY <3>1, ConcatItem
    <3> QED  BY <3>2 DEF a, b, c
  <2> QED  BY <2>2, <2>3, <2>5
<1>9. CarriedIsTrue'
  <2>1. ASSUME NEW u \in Workers, u # w, NEW k \in DOMAIN run'[u].items, run'[u].items[k].ok
        PROVE  \E x \in invoked' : x[1] = sid'[u] /\ x[2].id = run'[u].items[k].id
    BY <1>6, <1>7, <2>1 DEF EvidenceInv, CarriedIsTrue, Called
  <2> QED  BY <1>7, <1>8, <2>1 DEF CarriedIsTrue, Called
<1>10. NoFalseEvidence'
  BY <1>6, <1>7 DEF EvidenceInv, NoFalseEvidence
<1> QED  BY <1>9, <1>10 DEF EvidenceInv

LEMMA FinishEvidence ==
    ASSUME TypeInv, EvidenceInv, NEW w \in Workers, Finish(w)
    PROVE  EvidenceInv'
<1>1. /\ history' = [history EXCEPT ![sid[w]] = @ \o run[w].items]
      /\ invoked' = invoked /\ run' = run /\ sid' = sid
  BY DEF Finish, ghosts
<1>2. sid[w] \in Sessions /\ history[sid[w]] \in Seq(Evidence) /\ run[w].items \in Seq(Evidence)
  BY DEF TypeInv, TypeOK, Threads, RunLocals
<1>3. ASSUME NEW s \in Sessions, NEW k \in DOMAIN history'[s], history'[s][k].ok
      PROVE  Called(s, history'[s][k].id)
  <2>1. CASE s # sid[w]
    BY <1>1, <1>3, <2>1 DEF TypeInv, TypeOK, EvidenceInv, NoFalseEvidence, Called
  <2>2. CASE s = sid[w]
    <3>1. history'[s] = history[s] \o run[w].items
      BY <1>1, <1>2, <2>2 DEF TypeInv, TypeOK
    <3>2. CASE k \in DOMAIN history[s] /\ history'[s][k] = history[s][k]
      BY <1>3, <3>2 DEF EvidenceInv, NoFalseEvidence, Called
    <3>3. CASE \E j \in DOMAIN run[w].items : history'[s][k] = run[w].items[j]
      BY <1>3, <2>2, <3>3 DEF EvidenceInv, CarriedIsTrue
    <3>4. history[s] \in Seq(Evidence)
      BY <1>2, <2>2
    <3>5. \/ k \in DOMAIN history[s] /\ history'[s][k] = history[s][k]
          \/ \E j \in DOMAIN run[w].items : history'[s][k] = run[w].items[j]
      <4> DEFINE a == history[s]
                 b == run[w].items
                 c == history'[s]
      <4>1. a \in Seq(Evidence) /\ b \in Seq(Evidence) /\ c = a \o b /\ k \in DOMAIN c
        BY <1>2, <1>3, <3>1, <3>4
      <4> HIDE DEF a, b, c
      <4>2. (k \in DOMAIN a /\ c[k] = a[k]) \/ \E j \in DOMAIN b : c[k] = b[j]
        BY <4>1, ConcatItem
      <4> QED  BY <4>2 DEF a, b, c
    <3> QED  BY <3>2, <3>3, <3>5
  <2> QED  BY <2>1, <2>2
<1>4. NoFalseEvidence'
  BY <1>1, <1>3 DEF NoFalseEvidence, Called
<1>5. CarriedIsTrue'
  BY <1>1 DEF EvidenceInv, CarriedIsTrue, Called
<1> QED  BY <1>4, <1>5 DEF EvidenceInv

LEMMA EvidenceStep ==
    ASSUME TypeInv, ApprovalInv, EvidenceInv, [Next]_vars
    PROVE  EvidenceInv'
<1> USE DEF TypeInv
<1>1. ASSUME NEW c \in Clients, NEW s \in Sessions, RequestStep(c, s)
      PROVE  EvidenceInv'
  <2>1. history' = history /\ invoked' = invoked /\ run' = run /\ \A w \in Workers : sid'[w] = sid[w]
    BY <1>1, RequestEffect
  <2> QED  BY <2>1, EvidenceFrame
<1>2. ASSUME NEW c \in Clients, ClientStep(c)
      PROVE  EvidenceInv'
  <2>1. CASE Spawn(c)
    <3>1. history' = history /\ invoked' = invoked
      BY <2>1 DEF Spawn, session, ghosts
    <3>2. ASSUME NEW w \in Workers
          PROVE  (run'[w].items = run[w].items /\ sid'[w] = sid[w]) \/ run'[w].items = <<>>
      <4>1. PICK v \in Workers :
              /\ \E m \in Modes : run'[v] = FreshRun(m)
              /\ \A u \in Workers \ {v} : sid'[u] = sid[u] /\ run'[u] = run[u]
        BY <2>1, SpawnEffect
      <4>2. \A m : FreshRun(m).items = <<>>
        BY DEF FreshRun
      <4> QED  BY <4>1, <4>2
    <3> QED  BY <3>1, <3>2, EvidenceFrame
  <2>2. CASE ~Spawn(c)
    <3>1. history' = history /\ invoked' = invoked /\ run' = run /\ \A w \in Workers : sid'[w] = sid[w]
      BY <1>2, <2>2, ClientEffect
    <3> QED  BY <3>1, EvidenceFrame
  <2> QED  BY <2>1, <2>2
<1>3. ASSUME NEW w \in Workers, WorkerStep(w)
      PROVE  EvidenceInv'
  <2>0. /\ sid' = sid /\ (\A u \in Workers \ {w} : run'[u] = run[u])
        /\ run \in [Workers -> RunLocals] /\ run[w] \in RunLocals
    BY <1>3, WorkerEffect DEF TypeOK
  <2>1. CASE RunAction(w) \/ Finish(w)
    BY <2>1, RunActionEvidence, FinishEvidence
  <2>2. CASE Require(w) \/ Snapshot(w) \/ Select(w) \/ Release(w) \/ \E id \in InstanceIds : ReadDecision(w, id)
    <3>1. history' = history /\ invoked' = invoked
      BY <2>2 DEF Require, Snapshot, Select, Release, ReadDecision, session, ghosts
    <3>2. run'[w].items = run[w].items \/ run'[w].items = <<>>
      <4>1. CASE Require(w)
        <5> DEFINE p == plan[sid[w]]
                   ids == {p[i].id : i \in {j \in DOMAIN p : SessionRequiresApproval(p[j])}}
        <5>1. run' = [run EXCEPT ![w] = [run[w] EXCEPT !.required = ids]]
          BY <4>1 DEF Require, Locals
        <5> HIDE DEF ids
        <5> QED  BY <2>0, <5>1 DEF RunLocals
      <4>2. CASE Snapshot(w)
        BY <2>0, <4>2 DEF Snapshot, Locals, RunLocals
      <4>3. CASE Select(w)
        BY <2>0, <4>3 DEF Select, Locals, RunLocals
      <4>4. CASE Release(w)
        BY <2>0, <4>4 DEF Release, Locals, FreshRun
      <4>5. ASSUME NEW id \in InstanceIds, ReadDecision(w, id)
            PROVE  run'[w].items = run[w].items
        BY <2>0, <4>5 DEF ReadDecision, Locals, RunLocals
      <4> QED  BY <2>2, <4>1, <4>2, <4>3, <4>4, <4>5
    <3> QED  BY <2>0, <3>1, <3>2, EvidenceFrame
  <2>3. CASE \/ Begin(w) \/ BuildPlan(w) \/ BuildFails(w) \/ Examine(w) \/ CompleteEmpty(w)
             \/ IterationRaises(w) \/ EndIteration(w) \/ Await(w) \/ ApprovalRequired(w)
             \/ Launch(w) \/ RunRaises(w) \/ Raise(w)
    <3>1. history' = history /\ invoked \subseteq invoked' /\ run' = run
      BY <2>3
      DEF Begin, BuildPlan, BuildFails, Examine, CompleteEmpty, IterationRaises, EndIteration,
          Await, ApprovalRequired, Launch, RunRaises, Raise, session, ghosts
    <3> QED  BY <2>0, <3>1, EvidenceFrame
  <2> QED  BY <1>3, <2>1, <2>2, <2>3 DEF WorkerStep
<1>4. CASE UNCHANGED vars
  BY <1>4, EvidenceFrame DEF vars, session, ghosts
<1> QED  BY <1>1, <1>2, <1>3, <1>4 DEF Next

LEMMA InitEvidence == Init => EvidenceInv
<1>1. DOMAIN <<>> = {}
  OBVIOUS
<1> QED  BY <1>1 DEF Init, EvidenceInv, CarriedIsTrue, NoFalseEvidence, FreshRun

\* The evidence of a session claims success only for actions whose handler was
\* called for that session, whatever a run that is lost has called besides.
THEOREM EvidenceIsTrue == Spec => []NoFalseEvidence
<1>1. Init => EvidenceInv
  BY InitEvidence
<1>2. TypeInv /\ ApprovalInv /\ EvidenceInv /\ [Next]_vars => EvidenceInv'
  BY EvidenceStep
<1>3. EvidenceInv => NoFalseEvidence
  BY DEF EvidenceInv
<1> QED  BY <1>1, <1>2, <1>3, ApprovalInvariant, PTL DEF Spec

-----------------------------------------------------------------------------
(* The timeline                                                            *)

\* start() before it has filtered the plan; a worker that has chosen nothing to
\* run does not run.
BeforeSelect ==
    {"begin", "build", "examine", "complete_empty", "require", "snapshot", "iterate",
     "await", "approval_required", "select"}

ActionsFollow ==
    \A w \in Workers :
        /\ pc[w] \in BeforeSelect => run[w].actions = <<>>
        /\ pc[w] = "run" => run[w].actions # <<>>

\* Worker w has entered a session_started and not yet its end.
Open(w) == pc[w] = "run" \/ (pc[w] = "raise" /\ run[w].actions # <<>>)

TimelineInv == ActionsFollow /\ RunsAreClosed

LEMMA InitTimeline == Init => TimelineInv
<1> SUFFICES ASSUME Init PROVE TimelineInv
  OBVIOUS
<1>1. \A w \in Workers : pc[w] = "idle"
  BY DEF Init, Threads
<1>2. \A s \in Sessions : Executing(s) = {}
  BY <1>1 DEF Executing
<1>3. \A s \in Sessions, k \in RunKinds : timeline[s][k] = 0
  BY DEF Init, RunKinds, EventKinds
<1>4. RunsAreClosed
  BY <1>2, <1>3 DEF RunsAreClosed, RunKinds
<1> QED  BY <1>1, <1>4 DEF TimelineInv, ActionsFollow, BeforeSelect

\* A step that opens and closes no run.
LEMMA ClosedFrame ==
    ASSUME RunsAreClosed, RunEventsKept,
           \A w \in Workers : /\ Open(w)' <=> Open(w)
                              /\ Open(w) => sid'[w] = sid[w]
    PROVE  RunsAreClosed'
<1>1. ASSUME NEW s \in Sessions
      PROVE  Executing(s)' = Executing(s)
  BY DEF Executing, Open
<1> QED  BY <1>1 DEF RunsAreClosed, RunEventsKept, RunKinds

\* Whoever is at work for a session is the only one.
LEMMA AloneAtWork ==
    ASSUME OneRunPerSession, NEW w \in Workers, pc[w] # "idle", sid[w] \in Sessions
    PROVE  \A u \in Workers : pc[u] # "idle" /\ sid[u] = sid[w] => u = w
BY DEF OneRunPerSession, Runners, Threads

LEMMA LaunchTimeline ==
    ASSUME TypeInv, TodoApproved, OneRunPerSession, TimelineInv, NEW w \in Workers, Launch(w)
    PROVE  TimelineInv'
<1>1. /\ run' = run /\ sid' = sid /\ pc[w] = "launch" /\ sid[w] \in Sessions
      /\ \A u \in Workers \ {w} : pc'[u] = pc[u]
  BY WorkerEffect DEF Launch, TypeInv, TypeOK, Threads, Goto
<1>2. CASE run[w].todo = {}
  <2>1. pc'[w] = "release"
    BY <1>2 DEF Launch, Goto, TypeInv, TypeOK, Threads
  <2>2. RunEventsKept
    BY <1>1, <1>2, NoteOther DEF Launch, TypeInv, RunKinds
  <2>3. RunsAreClosed'
    BY <1>1, <2>1, <2>2, ClosedFrame DEF Open, TimelineInv
  <2> QED  BY <1>1, <2>1, <2>3 DEF TimelineInv, ActionsFollow, BeforeSelect
<1>3. CASE run[w].todo # {}
  <2>1. pc'[w] = "run" /\ Note(sid[w], "session_started")
    BY <1>3 DEF Launch, Goto, TypeInv, TypeOK, Threads
  <2>2. \A z \in Sessions, k \in RunKinds :
           timeline'[z][k] = IF z = sid[w] /\ k = "session_started" THEN timeline[z][k] + 1
                             ELSE timeline[z][k]
    BY <1>1, <2>1, NoteRun DEF TypeInv, RunKinds
  <2>3. run[w].actions # <<>>
    <3>1. DOMAIN <<>> = {}
      OBVIOUS
    <3> QED  BY <1>3, <3>1 DEF TodoApproved
  <2>4. ActionsFollow'
    BY <1>1, <2>1, <2>3 DEF TimelineInv, ActionsFollow, BeforeSelect
  <2>5. Executing(sid[w]) = {}
    BY <1>1, AloneAtWork DEF Executing
  <2>6. w \in Executing(sid[w])'
    BY <1>1, <2>1 DEF Executing
  <2>7. \A z \in Sessions : z # sid[w] => Executing(z)' = Executing(z)
    BY <1>1 DEF Executing
  <2>8. RunsAreClosed'
    <3>1. ASSUME NEW z \in Sessions
          PROVE  timeline'[z]["session_started"] =
                    timeline'[z]["session_completed"] + timeline'[z]["session_failed"]
                    + (IF Executing(z)' = {} THEN 0 ELSE 1)
      <4>1. /\ timeline[z]["session_started"] \in Nat
            /\ timeline[z]["session_completed"] \in Nat
            /\ timeline[z]["session_failed"] \in Nat
        BY DEF TypeInv, TypeOK, EventKinds
      <4> QED  BY <1>1, <2>2, <2>5, <2>6, <2>7, <4>1 DEF TimelineInv, RunsAreClosed, RunKinds
    <3> QED  BY <3>1 DEF RunsAreClosed
  <2> QED  BY <2>4, <2>8 DEF TimelineInv
<1> QED  BY <1>2, <1>3

\* The end of an open run, by Finish or by Raise.
LEMMA CloseTimeline ==
    ASSUME TypeInv, OneRunPerSession, TimelineInv, NEW w \in Workers, WorkerStep(w), Open(w),
           run' = run, pc'[w] = "release",
           NEW kind \in {"session_completed", "session_failed"}, Note(sid[w], kind)
    PROVE  TimelineInv'
<1>1. /\ sid' = sid /\ pc[w] # "idle" /\ sid[w] \in Sessions
      /\ \A u \in Workers \ {w} : pc'[u] = pc[u]
  BY WorkerEffect DEF TypeInv, TypeOK, Threads
<1>2. \A z \in Sessions, k \in RunKinds :
         timeline'[z][k] = IF z = sid[w] /\ k = kind THEN timeline[z][k] + 1 ELSE timeline[z][k]
  BY <1>1, NoteRun DEF TypeInv, RunKinds
<1>3. ActionsFollow'
  BY <1>1 DEF TimelineInv, ActionsFollow, BeforeSelect
<1>4. w \in Executing(sid[w])
  BY DEF Executing, Open
<1>5. Executing(sid[w])' = {}
  BY <1>1, AloneAtWork DEF Executing
<1>6. \A z \in Sessions : z # sid[w] => Executing(z)' = Executing(z)
  BY <1>1 DEF Executing
<1>7. RunsAreClosed'
  <2>1. ASSUME NEW z \in Sessions
        PROVE  timeline'[z]["session_started"] =
                  timeline'[z]["session_completed"] + timeline'[z]["session_failed"]
                  + (IF Executing(z)' = {} THEN 0 ELSE 1)
    <3>1. /\ timeline[z]["session_started"] \in Nat
          /\ timeline[z]["session_completed"] \in Nat
          /\ timeline[z]["session_failed"] \in Nat
      BY DEF TypeInv, TypeOK, EventKinds
    <3>2. timeline[z]["session_started"] =
             timeline[z]["session_completed"] + timeline[z]["session_failed"]
             + (IF Executing(z) = {} THEN 0 ELSE 1)
      BY DEF TimelineInv, RunsAreClosed
    <3>3. CASE z = sid[w]
      BY <1>1, <1>2, <1>4, <1>5, <3>1, <3>2, <3>3 DEF RunKinds
    <3>4. CASE z # sid[w]
      BY <1>2, <1>6, <3>1, <3>2, <3>4 DEF RunKinds
    <3> QED  BY <3>3, <3>4
  <2> QED  BY <2>1 DEF RunsAreClosed
<1> QED  BY <1>3, <1>7 DEF TimelineInv

\* A worker's step that opens and closes no run.
LEMMA WorkerTimeline ==
    ASSUME TypeInv, TimelineInv, NEW w \in Workers, WorkerStep(w), RunEventsKept,
           Open(w)' <=> Open(w),
           pc'[w] \in BeforeSelect => run'[w].actions = <<>>,
           pc'[w] = "run" => run'[w].actions # <<>>
    PROVE  TimelineInv'
<1>1. sid' = sid /\ \A u \in Workers \ {w} : pc'[u] = pc[u] /\ run'[u] = run[u]
  BY WorkerEffect DEF TypeInv
<1>2. \A u \in Workers : Open(u)' <=> Open(u)
  BY <1>1 DEF Open
<1>3. RunsAreClosed'
  BY <1>1, <1>2, ClosedFrame DEF TimelineInv
<1>4. ActionsFollow'
  BY <1>1 DEF TimelineInv, ActionsFollow
<1> QED  BY <1>3, <1>4 DEF TimelineInv

\* The steps before the plan is filtered.
LEMMA EarlyTimeline ==
    ASSUME TypeInv, TimelineInv, NEW w \in Workers,
           \/ Begin(w) \/ BuildPlan(w) \/ BuildFails(w) \/ Examine(w) \/ CompleteEmpty(w)
           \/ Require(w) \/ Snapshot(w) \/ (\E id \in InstanceIds : ReadDecision(w, id))
           \/ IterationRaises(w) \/ EndIteration(w) \/ Await(w) \/ ApprovalRequired(w)
    PROVE  TimelineInv'
<1>1. WorkerStep(w)
  BY DEF WorkerStep
<1>2. pc[w] \in BeforeSelect /\ run[w].actions = <<>>
  <2>1. pc[w] \in BeforeSelect
    BY DEF Begin, BuildPlan, BuildFails, Examine, CompleteEmpty, Require, Snapshot, ReadDecision,
           IterationRaises, EndIteration, Await, ApprovalRequired, BeforeSelect
  <2> QED  BY <2>1 DEF TimelineInv, ActionsFollow
<1>3. pc'[w] # "run"
  <2>1. pc \in [Threads -> ClientPCs \cup WorkerPCs] /\ w \in Threads /\ w \notin Clients
    BY ThreadsAssumption DEF TypeInv, TypeOK, Threads
  <2>2. CASE Examine(w)
    <3>1. run[w].mode \in {"safe", "real"}
      BY DEF TypeInv, TypeOK, RunLocals, Modes
    <3>2. Goto(w, "complete_empty") \/ Goto(w, "raise") \/ Goto(w, "require")
      BY <2>2, <3>1 DEF Examine
    <3> QED  BY <2>1, <3>2 DEF Goto
  <2>3. CASE \E id \in InstanceIds : ReadDecision(w, id)
    BY <2>3 DEF ReadDecision
  <2>4. CASE \/ Begin(w) \/ BuildPlan(w) \/ BuildFails(w) \/ CompleteEmpty(w) \/ Require(w)
             \/ Snapshot(w) \/ IterationRaises(w) \/ EndIteration(w) \/ Await(w)
             \/ ApprovalRequired(w)
    BY <2>1, <2>4
    DEF Begin, BuildPlan, BuildFails, AfterPlan, CompleteEmpty, Require, Snapshot,
        IterationRaises, EndIteration, Await, ApprovalRequired, Goto
  <2> QED  BY <2>2, <2>3, <2>4
<1>4. run'[w].actions = <<>>
  <2>1. run \in [Workers -> RunLocals] /\ run[w] \in RunLocals
    BY DEF TypeInv, TypeOK
  <2>2. CASE Require(w)
    <3> DEFINE p == plan[sid[w]]
               ids == {p[i].id : i \in {j \in DOMAIN p : SessionRequiresApproval(p[j])}}
    <3>1. run' = [run EXCEPT ![w] = [run[w] EXCEPT !.required = ids]]
      BY <2>2 DEF Require, Locals
    <3> HIDE DEF ids
    <3> QED  BY <1>2, <2>1, <3>1 DEF RunLocals
  <2>3. CASE Snapshot(w)
    BY <1>2, <2>1, <2>3 DEF Snapshot, Locals, RunLocals
  <2>4. ASSUME NEW id \in InstanceIds, ReadDecision(w, id)
        PROVE  run'[w].actions = <<>>
    BY <1>2, <2>1, <2>4 DEF ReadDecision, Locals, RunLocals
  <2>5. CASE \/ Begin(w) \/ BuildPlan(w) \/ BuildFails(w) \/ Examine(w) \/ CompleteEmpty(w)
             \/ IterationRaises(w) \/ EndIteration(w) \/ Await(w) \/ ApprovalRequired(w)
    BY <1>2, <2>5
    DEF Begin, BuildPlan, BuildFails, Examine, CompleteEmpty, IterationRaises, EndIteration,
        Await, ApprovalRequired
  <2> QED  BY <2>2, <2>3, <2>4, <2>5
<1>5. RunEventsKept
  <2>1. CASE timeline' = timeline
    BY <2>1 DEF RunEventsKept
  <2>2. CASE \E kind : kind \notin RunKinds /\ Note(sid[w], kind)
    BY <2>2, NoteOther DEF TypeInv, TypeOK, Threads
  <2>3. CASE BuildPlan(w) \/ BuildFails(w) \/ ApprovalRequired(w)
    BY <2>2, <2>3 DEF BuildPlan, BuildFails, ApprovalRequired, RunKinds
  <2>4. CASE \/ Begin(w) \/ Examine(w) \/ CompleteEmpty(w) \/ Require(w) \/ Snapshot(w)
             \/ (\E id \in InstanceIds : ReadDecision(w, id))
             \/ IterationRaises(w) \/ EndIteration(w) \/ Await(w)
    BY <2>1, <2>4
    DEF Begin, Examine, CompleteEmpty, Require, Snapshot, ReadDecision, IterationRaises,
        EndIteration, Await, session
  <2> QED  BY <2>3, <2>4
<1>6. ~Open(w) /\ ~Open(w)'
  BY <1>2, <1>3, <1>4 DEF Open, BeforeSelect
<1> QED  BY <1>1, <1>3, <1>4, <1>5, <1>6, WorkerTimeline

LEMMA WorkerTimelineStep ==
    ASSUME TypeInv, ApprovalInv, OneRunPerSession, TimelineInv, NEW w \in Workers, WorkerStep(w)
    PROVE  TimelineInv'
<1>0. /\ pc \in [Threads -> ClientPCs \cup WorkerPCs] /\ w \in Threads /\ sid[w] \in Sessions
      /\ run \in [Workers -> RunLocals] /\ run[w] \in RunLocals
  BY DEF TypeInv, TypeOK, Threads
<1>1. CASE Launch(w)
  BY <1>1, LaunchTimeline DEF ApprovalInv
<1>2. CASE Finish(w)
  <2>1. Open(w) /\ run' = run /\ pc'[w] = "release"
    BY <1>0, <1>2 DEF Finish, Goto, Open
  <2>2. \E kind \in {"session_completed", "session_failed"} : Note(sid[w], kind)
    BY <1>2 DEF Finish, FinalEvent
  <2> QED  BY <2>1, <2>2, CloseTimeline
<1>3. CASE Raise(w)
  <2>1. run' = run /\ pc[w] = "raise" /\ pc'[w] = "release"
    BY <1>0, <1>3 DEF Raise, Goto
  <2>2. CASE run[w].actions = <<>>
    <3>1. RunEventsKept
      BY <1>0, <1>3, <2>2, NoteOther DEF Raise, TypeInv, RunKinds
    <3>2. ~Open(w) /\ ~Open(w)'
      BY <2>1, <2>2 DEF Open
    <3> QED  BY <2>1, <3>1, <3>2, WorkerTimeline DEF BeforeSelect
  <2>3. CASE run[w].actions # <<>>
    <3>1. Open(w) /\ Note(sid[w], "session_failed")
      BY <1>3, <2>1, <2>3 DEF Raise, Open
    <3> QED  BY <2>1, <3>1, CloseTimeline
  <2> QED  BY <2>2, <2>3
<1>4. CASE RunRaises(w)
  <2>1. /\ timeline' = timeline /\ run' = run /\ pc[w] = "run" /\ pc'[w] = "raise"
        /\ run[w].actions # <<>>
    BY <1>0, <1>4 DEF RunRaises, Goto, TimelineInv, ActionsFollow, session
  <2>2. RunEventsKept /\ Open(w) /\ Open(w)'
    BY <2>1 DEF RunEventsKept, Open
  <2> QED  BY <2>1, <2>2, WorkerTimeline DEF BeforeSelect
<1>5. CASE RunAction(w)
  <2>1. timeline' = timeline /\ pc' = pc /\ pc[w] = "run" /\ run[w].actions # <<>>
    BY <1>5 DEF RunAction, TimelineInv, ActionsFollow, session
  <2>2. run'[w].actions = run[w].actions
    <3>1. PICK i \in run[w].todo : \E o \in RealOutcomes(run[w].actions[i]) : Iterate(w, i, o)
      BY <1>5 DEF RunAction
    <3>2. PICK o \in RealOutcomes(run[w].actions[i]) : Iterate(w, i, o)
      BY <3>1
    <3> QED  BY <1>0, <3>2 DEF Iterate, Locals, RunLocals
  <2>3. RunEventsKept /\ (Open(w)' <=> Open(w))
    BY <2>1, <2>2 DEF RunEventsKept, Open
  <2> QED  BY <2>1, <2>2, <2>3, WorkerTimeline DEF BeforeSelect
<1>6. CASE Select(w) \/ Release(w)
  <2>1. /\ timeline' = timeline /\ pc[w] \in {"select", "release"}
        /\ pc'[w] \in {"launch", "idle"}
    BY <1>0, <1>6 DEF Select, Release, Goto, session
  <2>2. RunEventsKept /\ ~Open(w) /\ ~Open(w)'
    BY <2>1 DEF RunEventsKept, Open
  <2> QED  BY <2>1, <2>2, WorkerTimeline DEF BeforeSelect
<1> QED  BY <1>1, <1>2, <1>3, <1>4, <1>5, <1>6, EarlyTimeline DEF WorkerStep

LEMMA TimelineStep ==
    ASSUME TypeInv, ApprovalInv, OneRunPerSession, TimelineInv, [Next]_vars
    PROVE  TimelineInv'
<1>0. ASSUME RunEventsKept, run' = run, \A w \in Workers : pc'[w] = pc[w] /\ sid'[w] = sid[w]
      PROVE  TimelineInv'
  <2>1. \A w \in Workers : Open(w)' <=> Open(w)
    BY <1>0 DEF Open
  <2>2. RunsAreClosed'
    BY <1>0, <2>1, ClosedFrame DEF TimelineInv
  <2>3. ActionsFollow'
    BY <1>0 DEF TimelineInv, ActionsFollow
  <2> QED  BY <2>2, <2>3 DEF TimelineInv
<1>1. ASSUME NEW c \in Clients, NEW s \in Sessions, RequestStep(c, s)
      PROVE  TimelineInv'
  BY <1>0, <1>1, RequestEffect DEF TypeInv
<1>2. ASSUME NEW c \in Clients, ClientStep(c)
      PROVE  TimelineInv'
  <2>1. CASE ~Spawn(c)
    BY <1>0, <1>2, <2>1, ClientEffect DEF TypeInv
  <2>2. CASE Spawn(c)
    <3>1. PICK w \in Workers :
            /\ pc[w] = "idle" /\ pc'[w] = "begin"
            /\ \E m \in Modes : run'[w] = FreshRun(m)
            /\ \A u \in Workers \ {w} : pc'[u] = pc[u] /\ sid'[u] = sid[u] /\ run'[u] = run[u]
      BY <2>2, SpawnEffect DEF TypeInv
    <3>2. run'[w].actions = <<>>
      BY <3>1 DEF FreshRun
    <3>3. RunEventsKept
      BY <2>2 DEF Spawn, session, RunEventsKept
    <3>4. \A u \in Workers : (Open(u)' <=> Open(u)) /\ (Open(u) => sid'[u] = sid[u])
      BY <3>1 DEF Open
    <3>5. RunsAreClosed'
      BY <3>3, <3>4, ClosedFrame DEF TimelineInv
    <3>6. ActionsFollow'
      BY <3>1, <3>2 DEF TimelineInv, ActionsFollow
    <3> QED  BY <3>5, <3>6 DEF TimelineInv
  <2> QED  BY <2>1, <2>2
<1>3. ASSUME NEW w \in Workers, WorkerStep(w)
      PROVE  TimelineInv'
  BY <1>3, WorkerTimelineStep
<1>4. CASE UNCHANGED vars
  BY <1>0, <1>4 DEF vars, session, RunEventsKept
<1> QED  BY <1>1, <1>2, <1>3, <1>4 DEF Next

\* The timeline accounts for every run: one end for each session_started, but for
\* a run under way, whichever of its exits the worker takes.
THEOREM TimelineCloses == Spec => []RunsAreClosed
<1>1. Init => TimelineInv
  BY InitTimeline
<1>2. TypeInv /\ ApprovalInv /\ OneRunPerSession /\ TimelineInv /\ [Next]_vars => TimelineInv'
  BY TimelineStep
<1>3. TimelineInv => RunsAreClosed
  BY DEF TimelineInv
<1> QED  BY <1>1, <1>2, <1>3, ApprovalInvariant, OneRunAtATime, PTL DEF Spec

-----------------------------------------------------------------------------
(* The user's last word                                                    *)

Unheard == {"begin", "build", "examine", "require", "snapshot"}
Hearing == {"iterate", "select", "launch", "run"}

\* What a run has read as approved is so still, or was decided about since.
HeardApproved(w) ==
    /\ pc[w] \in Unheard => run[w].approved = {}
    /\ pc[w] \in Hearing =>
          \A id \in run[w].approved :
              approval[sid[w]][id] = "approved" \/ <<sid[w], id>> \in late

LastWordInv == \A w \in Workers : HeardApproved(w)

LEMMA InitLastWord == Init => LastWordInv
BY DEF Init, LastWordInv, HeardApproved, Unheard, Hearing, Threads

\* A decision that changes after it was read is late.
LEMMA HeardFrame ==
    ASSUME TypeOK, NEW w \in Workers, HeardApproved(w), late \subseteq late',
           \A s \in Sessions, id \in InstanceIds :
              approval'[s][id] = approval[s][id] \/ <<s, id>> \in late',
           pc'[w] \in Unheard => pc[w] \in Unheard,
           pc'[w] \in Hearing => pc[w] \in Hearing,
           sid'[w] = sid[w], run'[w].approved = run[w].approved
    PROVE  HeardApproved(w)'
<1>1. sid[w] \in Sessions /\ run[w].approved \subseteq InstanceIds
  BY DEF TypeOK, Threads, RunLocals
<1> QED  BY <1>1 DEF HeardApproved

LEMMA SnapshotLastWord ==
    ASSUME TypeInv, OneRunPerSession, LastWordInv, NEW w \in Workers, Snapshot(w)
    PROVE  LastWordInv'
<1>1. /\ sid' = sid /\ approval' = approval /\ pc[w] # "idle" /\ pc[w] = "snapshot"
      /\ \A u \in Workers \ {w} : pc'[u] = pc[u] /\ run'[u] = run[u]
  BY WorkerEffect DEF WorkerStep, TypeInv, Snapshot
<1>2. run[w] \in RunLocals /\ run \in [Workers -> RunLocals] /\ sid[w] \in Sessions
  BY DEF TypeInv, TypeOK, Threads
<1>3. run'[w].approved = {}
  BY <1>1, <1>2 DEF Snapshot, Locals, RunLocals, LastWordInv, HeardApproved, Unheard
<1>4. HeardApproved(w)'
  BY <1>3 DEF HeardApproved
<1>5. ASSUME NEW u \in Workers, u # w
      PROVE  HeardApproved(u)'
  <2>1. pc[u] \in Hearing => sid[u] # sid[w]
    BY <1>1, <1>2, <1>5, AloneAtWork DEF Hearing
  <2>2. late' = {x \in late : x[1] # sid[w]}
    BY DEF Snapshot
  <2>3. \A id : <<sid[u], id>> \in late /\ sid[u] # sid[w] => <<sid[u], id>> \in late'
    BY <2>2
  <2> QED  BY <1>1, <1>5, <2>1, <2>3 DEF LastWordInv, HeardApproved
<1> QED  BY <1>4, <1>5 DEF LastWordInv

LEMMA ReadDecisionLastWord ==
    ASSUME TypeInv, LastWordInv, NEW w \in Workers, NEW id \in InstanceIds, ReadDecision(w, id)
    PROVE  LastWordInv'
<1>1. /\ sid' = sid /\ approval' = approval /\ pc' = pc /\ late' = late /\ pc[w] = "iterate"
      /\ \A u \in Workers \ {w} : run'[u] = run[u]
  BY WorkerEffect DEF WorkerStep, TypeInv, ReadDecision, session, ghosts
<1>2. run[w] \in RunLocals /\ run \in [Workers -> RunLocals]
  BY DEF TypeInv, TypeOK
<1>3. run'[w].approved = IF approval[sid[w]][id] = "approved" THEN run[w].approved \cup {id}
                         ELSE run[w].approved
  BY <1>2 DEF ReadDecision, Locals, CountsAsApproved, RunLocals
<1>4. HeardApproved(w)'
  BY <1>1, <1>3 DEF LastWordInv, HeardApproved, Unheard, Hearing
<1>5. \A u \in Workers \ {w} : HeardApproved(u)'
  BY <1>1 DEF LastWordInv, HeardApproved
<1> QED  BY <1>4, <1>5 DEF LastWordInv

LEMMA LastWordStep ==
    ASSUME TypeInv, OneRunPerSession, LastWordInv, [Next]_vars
    PROVE  LastWordInv'
<1>0. ASSUME UNCHANGED <<approval, late, run>>, \A w \in Workers : pc'[w] = pc[w] /\ sid'[w] = sid[w]
      PROVE  LastWordInv'
  BY <1>0 DEF LastWordInv, HeardApproved
<1>1. ASSUME NEW c \in Clients, NEW s \in Sessions, RequestStep(c, s)
      PROVE  LastWordInv'
  BY <1>0, <1>1, RequestEffect DEF TypeInv
<1>2. ASSUME NEW c \in Clients, ClientStep(c)
      PROVE  LastWordInv'
  <2>1. CASE ~Spawn(c)
    <3>1. /\ run' = run /\ late \subseteq late'
          /\ \A w \in Workers : pc'[w] = pc[w] /\ sid'[w] = sid[w]
          /\ \A s \in Sessions, id \in InstanceIds :
                approval'[s][id] = approval[s][id] \/ <<s, id>> \in late'
      BY <1>2, <2>1, ClientEffect DEF TypeInv
    <3> QED  BY <3>1, HeardFrame DEF TypeInv, LastWordInv
  <2>2. CASE Spawn(c)
    <3>1. PICK w \in Workers :
            /\ pc'[w] = "begin"
            /\ \E m \in Modes : run'[w] = FreshRun(m)
            /\ \A u \in Workers \ {w} : pc'[u] = pc[u] /\ sid'[u] = sid[u] /\ run'[u] = run[u]
      BY <2>2, SpawnEffect DEF TypeInv
    <3>2. run'[w].approved = {}
      BY <3>1 DEF FreshRun
    <3>3. HeardApproved(w)'
      BY <3>1, <3>2 DEF HeardApproved, Hearing
    <3>4. approval' = approval /\ late' = late
      BY <2>2 DEF Spawn, session, ghosts
    <3>5. \A u \in Workers \ {w} : HeardApproved(u)'
      BY <3>1, <3>4 DEF LastWordInv, HeardApproved
    <3> QED  BY <3>3, <3>5 DEF LastWordInv
  <2> QED  BY <2>1, <2>2
<1>3. ASSUME NEW w \in Workers, WorkerStep(w)
      PROVE  LastWordInv'
  <2>0. /\ sid' = sid /\ approval' = approval
        /\ \A u \in Workers \ {w} : pc'[u] = pc[u] /\ run'[u] = run[u]
    BY <1>3, WorkerEffect DEF TypeInv
  <2>t. /\ pc \in [Threads -> ClientPCs \cup WorkerPCs] /\ w \in Threads /\ w \notin Clients
        /\ run \in [Workers -> RunLocals] /\ run[w] \in RunLocals
    BY ThreadsAssumption DEF TypeInv, TypeOK, Threads
  <2>f. ASSUME late' = late, run'[w].approved = run[w].approved,
               pc'[w] \in Unheard => pc[w] \in Unheard,
               pc'[w] \in Hearing => pc[w] \in Hearing
        PROVE  LastWordInv'
    BY <2>0, <2>f, HeardFrame DEF TypeInv, LastWordInv
  <2>1. CASE Snapshot(w)
    BY <2>1, SnapshotLastWord
  <2>2. ASSUME NEW id \in InstanceIds, ReadDecision(w, id)
        PROVE  LastWordInv'
    BY <2>2, ReadDecisionLastWord
  <2>3. CASE \/ Begin(w) \/ BuildPlan(w) \/ BuildFails(w) \/ CompleteEmpty(w)
             \/ IterationRaises(w) \/ EndIteration(w) \/ Await(w) \/ ApprovalRequired(w)
             \/ Launch(w) \/ RunRaises(w) \/ Finish(w) \/ Raise(w)
    <3>1. late' = late /\ run' = run
      BY <2>3
      DEF Begin, BuildPlan, BuildFails, CompleteEmpty, IterationRaises, EndIteration, Await,
          ApprovalRequired, Launch, RunRaises, Finish, Raise, ghosts
    <3>2. /\ pc'[w] \in Unheard => pc[w] \in Unheard
          /\ pc'[w] \in Hearing => pc[w] \in Hearing
      BY <2>t, <2>3
      DEF Begin, BuildPlan, BuildFails, AfterPlan, CompleteEmpty, IterationRaises, EndIteration,
          Await, ApprovalRequired, Launch, RunRaises, Finish, Raise, Goto, Unheard, Hearing
    <3> QED  BY <2>f, <3>1, <3>2
  <2>4. CASE Examine(w)
    <3>1. run[w].mode \in {"safe", "real"}
      BY <2>t DEF RunLocals, Modes
    <3>2. Goto(w, "complete_empty") \/ Goto(w, "raise") \/ Goto(w, "require")
      BY <2>4, <3>1 DEF Examine
    <3>3. late' = late /\ run' = run /\ pc[w] = "examine"
      BY <2>4 DEF Examine, ghosts
    <3> QED  BY <2>f, <2>t, <3>2, <3>3 DEF Goto, Unheard, Hearing
  <2>5. CASE Require(w)
    <3> DEFINE p == plan[sid[w]]
               ids == {p[i].id : i \in {j \in DOMAIN p : SessionRequiresApproval(p[j])}}
    <3>1. run' = [run EXCEPT ![w] = [run[w] EXCEPT !.required = ids]]
      BY <2>5 DEF Require, Locals
    <3> HIDE DEF ids
    <3>2. run'[w].approved = run[w].approved
      BY <2>t, <3>1 DEF RunLocals
    <3>3. late' = late /\ pc[w] = "require" /\ pc'[w] = "snapshot"
      BY <2>t, <2>5 DEF Require, Goto, ghosts
    <3> QED  BY <2>f, <3>2, <3>3 DEF Unheard, Hearing
  <2>6. CASE Select(w)
    <3>1. late' = late /\ pc[w] = "select" /\ pc'[w] = "launch"
      BY <2>t, <2>6 DEF Select, Goto, ghosts
    <3>2. run'[w].approved = run[w].approved
      BY <2>t, <2>6 DEF Select, Locals, RunLocals
    <3> QED  BY <2>f, <3>1, <3>2 DEF Unheard, Hearing
  <2>7. CASE RunAction(w)
    <3>1. PICK i \in run[w].todo : \E o \in RealOutcomes(run[w].actions[i]) : Iterate(w, i, o)
      BY <2>7 DEF RunAction
    <3>2. PICK o \in RealOutcomes(run[w].actions[i]) : Iterate(w, i, o)
      BY <3>1
    <3>3. run'[w].approved = run[w].approved
      BY <2>t, <3>2 DEF Iterate, Locals, RunLocals
    <3>4. late' = late /\ pc' = pc
      BY <2>7 DEF RunAction
    <3> QED  BY <2>f, <3>3, <3>4
  <2>8. CASE Release(w)
    <3>1. late' = late /\ pc'[w] = "idle" /\ \A u \in Workers \ {w} : HeardApproved(u)'
      BY <2>0, <2>t, <2>8 DEF Release, Goto, ghosts, LastWordInv, HeardApproved
    <3>2. HeardApproved(w)'
      BY <3>1 DEF HeardApproved, Unheard, Hearing
    <3> QED  BY <3>1, <3>2 DEF LastWordInv
  <2> QED  BY <1>3, <2>1, <2>2, <2>3, <2>4, <2>5, <2>6, <2>7, <2>8 DEF WorkerStep
<1>4. CASE UNCHANGED vars
  BY <1>0, <1>4 DEF vars, session, ghosts
<1> QED  BY <1>1, <1>2, <1>3, <1>4 DEF Next

\* A run acts on the user's last word, but for decisions that came after it had
\* read the decisions.
THEOREM LastWordFollowed == Spec => []RunFollowsLastWord
<1>1. Init => LastWordInv
  BY InitLastWord
<1>2. TypeInv /\ OneRunPerSession /\ LastWordInv /\ [Next]_vars => LastWordInv'
  BY LastWordStep
<1>3. ApprovalInv /\ LastWordInv => RunFollowsLastWord
  BY DEF ApprovalInv, TodoApproved, LastWordInv, HeardApproved, Hearing, RunFollowsLastWord
<1> QED  BY <1>1, <1>2, <1>3, ApprovalInvariant, OneRunAtATime, PTL DEF Spec

-----------------------------------------------------------------------------
(* The end                                                                 *)

StaysQuiet(s) == Quiet(s)' /\ status'[s] = status[s] /\ history'[s] = history[s]

\* A quiet session stays so as long as nobody turns to its run or its end.
LEMMA QuietFrame ==
    ASSUME NEW s \in Sessions, Quiet(s), status'[s] = status[s], history'[s] = history[s],
           \A t \in Threads : t \in Runners(s)' => t \in Runners(s),
           \A c \in Clients : pc'[c] = "cancel" /\ sid'[c] = s => pc[c] = "cancel" /\ sid[c] = s
    PROVE  StaysQuiet(s)
<1>1. Runners(s)' = {}
  BY DEF Quiet, Runners
<1> QED  BY <1>1 DEF Quiet, StaysQuiet

\* A request that starts or cancels is refused; the others do neither.
LEMMA RequestQuiet ==
    ASSUME TypeInv, NEW s \in Sessions, Quiet(s),
           NEW c \in Clients, NEW z \in Sessions, RequestStep(c, z)
    PROVE  StaysQuiet(s)
<1>1. /\ pc[c] = "idle" /\ sid' = [sid EXCEPT ![c] = z]
      /\ \A t \in Threads : t # c => pc'[t] = pc[t] /\ sid'[t] = sid[t]
      /\ sid'[c] = z /\ history' = history
  BY DEF RequestStep, Create, RequestPlan, RequestDecision, StartAsync, RequestCancel, Take,
         CanIssue, Goto, TypeInv, TypeOK, Threads, session
<1>2. status'[s] = status[s]
  BY DEF RequestStep, Create, RequestPlan, RequestDecision, StartAsync, RequestCancel, Quiet,
         Terminal, TypeInv, TypeOK, session
<1>3. pc'[c] \in {"spawn", "cancel"} => z # s
  BY DEF RequestStep, Create, RequestPlan, RequestDecision, StartAsync, RequestCancel, MayStart,
         Take, CanIssue, Goto, Quiet, TypeInv, TypeOK, Threads
<1> QED  BY <1>1, <1>2, <1>3, ThreadsAssumption, QuietFrame DEF Runners, Threads

LEMMA ClientQuiet ==
    ASSUME TypeInv, NEW s \in Sessions, Quiet(s), NEW c \in Clients, ClientStep(c)
    PROVE  StaysQuiet(s)
<1>0. c \in Threads /\ pc \in [Threads -> ClientPCs \cup WorkerPCs]
  BY DEF TypeInv, TypeOK, Threads
<1>1. CASE Spawn(c)
  <2>1. sid[c] # s
    BY <1>0, <1>1 DEF Spawn, Quiet, Runners
  <2>2. PICK w \in Workers :
          /\ sid' = [sid EXCEPT ![w] = sid[c]]
          /\ pc' = [pc EXCEPT ![c] = "idle", ![w] = "begin"]
    BY <1>1 DEF Spawn
  <2>3. /\ sid'[w] = sid[c] /\ pc'[c] = "idle"
        /\ \A t \in Threads : t # c /\ t # w => pc'[t] = pc[t] /\ sid'[t] = sid[t]
    BY <2>2, ThreadsAssumption DEF TypeInv, TypeOK, Threads
  <2>4. status' = status /\ history' = history
    BY <1>1 DEF Spawn, session
  <2> QED  BY <2>1, <2>3, <2>4, ThreadsAssumption, QuietFrame DEF Runners, Threads
<1>2. CASE \/ RecordIntent(c) \/ BuildPlan(c) \/ BuildFails(c) \/ Register(c) \/ Decide(c)
           \/ Cancel(c)
  <2>1. /\ pc'[c] \notin {"spawn", "cancel"} /\ sid' = sid /\ history' = history
        /\ \A t \in Threads : t # c => pc'[t] = pc[t]
    BY <1>0, <1>2
    DEF RecordIntent, BuildPlan, BuildFails, AfterPlan, Register, Decide, Cancel, Goto
  <2>2. status'[s] = status[s]
    BY <1>2 DEF RecordIntent, BuildPlan, BuildFails, Register, Decide, Cancel, Quiet, TypeInv,
                TypeOK
  <2> QED  BY <2>1, <2>2, ThreadsAssumption, QuietFrame DEF Runners, Threads
<1> QED  BY <1>1, <1>2 DEF ClientStep

\* A worker that is at work is at work for another session.
LEMMA WorkerQuiet ==
    ASSUME TypeInv, NEW s \in Sessions, Quiet(s), NEW w \in Workers, WorkerStep(w)
    PROVE  StaysQuiet(s)
<1>1. sid' = sid /\ pc[w] # "idle"
  BY WorkerEffect DEF TypeInv
<1>2. sid[w] # s
  BY <1>1 DEF Quiet, Runners, Threads
<1>3. \A t \in Threads : t # w => pc'[t] = pc[t]
  BY DEF WorkerStep, Begin, BuildPlan, BuildFails, AfterPlan, Examine, CompleteEmpty, Require,
         Snapshot, ReadDecision, IterationRaises, EndIteration, Await, ApprovalRequired, Select,
         Launch, RunAction, RunRaises, Finish, Raise, Release, Goto, TypeInv, TypeOK
<1>4. status'[s] = status[s] /\ history'[s] = history[s]
  <2>1. CASE \/ Begin(w) \/ BuildPlan(w) \/ BuildFails(w) \/ Examine(w) \/ Require(w)
             \/ Snapshot(w) \/ (\E id \in InstanceIds : ReadDecision(w, id))
             \/ IterationRaises(w) \/ EndIteration(w) \/ Select(w) \/ RunAction(w)
             \/ RunRaises(w) \/ Release(w)
    BY <2>1
    DEF Begin, BuildPlan, BuildFails, Examine, Require, Snapshot, ReadDecision, IterationRaises,
        EndIteration, Select, RunAction, RunRaises, Release, session
  <2> DEFINE here == sid[w]
  <2>2. status \in [Sessions -> Statuses] /\ history \in [Sessions -> Seq(Evidence)]
    BY DEF TypeInv, TypeOK
  <2>3. CASE CompleteEmpty(w) \/ Await(w) \/ ApprovalRequired(w) \/ Launch(w) \/ Raise(w)
    <3>1. history' = history
      BY <2>3 DEF CompleteEmpty, Await, ApprovalRequired, Launch, Raise
    <3>2. \E x : status' = [status EXCEPT ![here] = x]
      BY <2>3 DEF CompleteEmpty, Await, ApprovalRequired, Launch, Raise
    <3> QED  BY <1>2, <2>2, <3>1, <3>2
  <2>4. CASE Finish(w)
    <3>1. \E x : status' = [status EXCEPT ![here] = x]
      BY <2>4 DEF Finish
    <3>2. \E x : history' = [history EXCEPT ![here] = x]
      BY <2>4 DEF Finish
    <3> QED  BY <1>2, <2>2, <3>1, <3>2
  <2> QED  BY <2>1, <2>3, <2>4 DEF WorkerStep
<1> QED  BY <1>1, <1>2, <1>3, <1>4, ThreadsAssumption, QuietFrame DEF Runners, Threads

LEMMA QuietStep ==
    ASSUME TypeInv, Next
    PROVE  \A s \in Sessions : Quiet(s) => StaysQuiet(s)
BY RequestQuiet, ClientQuiet, WorkerQuiet DEF Next

\* No request wakes a terminal session whose last run and last cancel have ended:
\* its status and its evidence are final.
THEOREM TheEndIsFinal == Spec => QuietIsForever
<1>1. TypeInv /\ [Next]_vars =>
         [\A s \in Sessions : Quiet(s) =>
            Quiet(s)' /\ status'[s] = status[s] /\ history'[s] = history[s]]_vars
  BY QuietStep DEF StaysQuiet
<1> QED  BY <1>1, ApprovalInvariant, PTL DEF Spec, QuietIsForever

-----------------------------------------------------------------------------
(* The contract: who holds a run                                           *)

\* A run that is about to execute is a REAL one.
RealPCs == {"require", "snapshot", "iterate", "await", "approval_required", "select", "launch"}

OnlyRealGoOn == \A w \in Workers : pc[w] \in RealPCs => run[w].mode = "real"

\* An action that failed leaves a failed result beside its evidence.
AllDone(w) == \A k \in DOMAIN run[w].results : run[w].results[k]
AllClaimed(w) == \A k \in DOMAIN run[w].items : run[w].items[k].ok

FailuresShow == \A w \in Workers : AllDone(w) => AllClaimed(w)

ContractInv == OnlyRealGoOn /\ FailuresShow

LEMMA RunnerIs ==
    ASSUME OneRunPerSession, NEW s \in Sessions, NEW t \in Runners(s)
    PROVE  Runners(s) # {} /\ Runner(s) = t
<1>1. Runner(s) \in Runners(s)
  BY DEF Runner
<1> QED  BY <1>1 DEF OneRunPerSession

LEMMA StageOfWorker ==
    ASSUME NEW w \in Workers
    PROVE  StageOf(w) = IF pc[w] = "release" THEN "ended" ELSE IF Open(w) THEN "executing" ELSE "started"
BY DEF StageOf, Executing, Open

LEMMA StageOfClient ==
    ASSUME NEW c \in Clients, pc[c] = "spawn"
    PROVE  StageOf(c) = "started"
BY ThreadsAssumption DEF StageOf, Executing

LEMMA SeenShape ==
    /\ DOMAIN Stage = Sessions /\ Stage = [s \in Sessions |-> Stage[s]]
    /\ DOMAIN Heard = Sessions /\ Heard = [s \in Sessions |-> Heard[s]]
    /\ RealRuns \subseteq Sessions
    /\ Stage' = [s \in Sessions |-> Stage'[s]]
    /\ Heard' = [s \in Sessions |-> Heard'[s]]
    /\ RealRuns' \subseteq Sessions
<1>1. DOMAIN Stage = Sessions /\ Stage = [s \in Sessions |-> Stage[s]]
  BY DEF Stage
<1>2. DOMAIN Heard = Sessions /\ Heard = [s \in Sessions |-> Heard[s]]
  BY DEF Heard
<1>3. Stage' = [s \in Sessions |-> Stage'[s]]
  BY DEF Stage
<1>4. Heard' = [s \in Sessions |-> Heard'[s]]
  BY DEF Heard
<1>5. RealRuns \subseteq Sessions /\ RealRuns' \subseteq Sessions
  BY DEF RealRuns
<1> QED  BY <1>1, <1>2, <1>3, <1>4, <1>5

\* What one holds of a run, ...
SameHold(t) ==
    /\ StageOf(t)' = StageOf(t)
    /\ ModeOf(t)' = ModeOf(t)
    /\ HeardBy(t)' = HeardBy(t)

SameRun(s) == Runners(s)' = Runners(s) /\ \A t \in Runners(s) : SameHold(t)

\* ... is all that a session shows of it.
LEMMA RunSeen ==
    ASSUME NEW s \in Sessions, SameRun(s)
    PROVE  Stage'[s] = Stage[s] /\ Heard'[s] = Heard[s] /\ (s \in RealRuns' <=> s \in RealRuns)
<1>1. CASE Runners(s) = {}
  BY <1>1 DEF SameRun, Stage, Heard, RealRuns
<1>2. CASE Runners(s) # {}
  <2>1. Runner(s) \in Runners(s) /\ Runner(s)' = Runner(s)
    BY <1>2 DEF Runner, SameRun
  <2>2. SameHold(Runner(s))
    BY <2>1 DEF SameRun
  <2>3. /\ StageOf(Runner(s))' = StageOf(Runner(s)) /\ HeardBy(Runner(s))' = HeardBy(Runner(s))
        /\ ModeOf(Runner(s))' = ModeOf(Runner(s))
    BY <2>1, <2>2 DEF SameHold, StageOf, HeardBy, ModeOf
  <2> QED  BY <1>2, <2>3 DEF SameRun, Stage, Heard, RealRuns
<1> QED  BY <1>1, <1>2

LEMMA RunsSeen ==
    ASSUME \A s \in Sessions : SameRun(s)
    PROVE  Stage' = Stage /\ Heard' = Heard /\ RealRuns' = RealRuns
<1>1. \A s \in Sessions : /\ Stage'[s] = Stage[s] /\ Heard'[s] = Heard[s]
                          /\ s \in RealRuns' <=> s \in RealRuns
  BY RunSeen
<1>2. Stage' = Stage
  BY <1>1 DEF Stage
<1>3. Heard' = Heard
  BY <1>1 DEF Heard
<1>4. RealRuns' = RealRuns
  BY <1>1 DEF RealRuns
<1> QED  BY <1>2, <1>3, <1>4

LEMMA PointChange ==
    ASSUME NEW S, NEW f, NEW g, f = [z \in S |-> f[z]], g = [z \in S |-> g[z]],
           NEW s \in S, \A z \in S \ {s} : g[z] = f[z]
    PROVE  g = [f EXCEPT ![s] = g[s]]
<1> DEFINE h == [z \in S |-> IF z = s THEN g[s] ELSE f[z]]
<1>1. DOMAIN f = S
  OBVIOUS
<1>2. [f EXCEPT ![s] = g[s]] = h
  BY <1>1
<1>3. \A z \in S : h[z] = g[z]
  OBVIOUS
<1>4. h = [z \in S |-> g[z]]
  BY <1>3
<1> QED  BY <1>2, <1>4

LEMMA OtherRunsSeen ==
    ASSUME NEW s \in Sessions, \A z \in Sessions \ {s} : SameRun(z)
    PROVE  /\ Stage' = [Stage EXCEPT ![s] = Stage'[s]]
           /\ Heard' = [Heard EXCEPT ![s] = Heard'[s]]
           /\ \A z \in Sessions \ {s} : z \in RealRuns' <=> z \in RealRuns
<1>1. \A z \in Sessions \ {s} : /\ Stage'[z] = Stage[z] /\ Heard'[z] = Heard[z]
                                /\ z \in RealRuns' <=> z \in RealRuns
  BY RunSeen
<1>2. Stage' = [Stage EXCEPT ![s] = Stage'[s]]
  BY <1>1, SeenShape, PointChange
<1>3. Heard' = [Heard EXCEPT ![s] = Heard'[s]]
  BY <1>1, SeenShape, PointChange
<1> QED  BY <1>1, <1>2, <1>3, Zenon

\* A worker is seen by the session it works for, and by no other.
LEMMA WorkerSeen ==
    ASSUME TypeInv, OneRunPerSession, OneRunPerSession', NEW w \in Workers, WorkerStep(w)
    PROVE  LET s == sid[w]
           IN  /\ s \in Sessions /\ s \in DOMAIN Stage /\ s \in DOMAIN Heard
               /\ Stage[s] = StageOf(w) /\ Heard[s] = run[w].approved
               /\ s \in RealRuns <=> run[w].mode = "real"
               /\ Stage' = [Stage EXCEPT ![s] = IF pc'[w] = "idle" THEN "none" ELSE StageOf(w)']
               /\ Heard' = [Heard EXCEPT ![s] = IF pc'[w] = "idle" THEN {} ELSE run'[w].approved]
               /\ RealRuns' = IF pc'[w] # "idle" /\ run'[w].mode = "real" THEN RealRuns \cup {s}
                              ELSE RealRuns \ {s}
<1> DEFINE s == sid[w]
<1>1. /\ sid' = sid /\ pc[w] # "idle" /\ s \in Sessions /\ w \in Threads /\ w \notin Clients
      /\ \A u \in Workers \ {w} : pc'[u] = pc[u] /\ run'[u] = run[u]
  BY WorkerEffect, ThreadsAssumption DEF TypeInv, TypeOK, Threads
<1>2. request' = request /\ \A c \in Clients : pc'[c] = pc[c]
  <2>1. \A t \in Threads : t # w => pc'[t] = pc[t]
    BY DEF WorkerStep, Begin, BuildPlan, BuildFails, AfterPlan, Examine, CompleteEmpty, Require,
           Snapshot, ReadDecision, IterationRaises, EndIteration, Await, ApprovalRequired, Select,
           Launch, RunAction, RunRaises, Finish, Raise, Release, Goto, TypeInv, TypeOK
  <2>2. request' = request
    BY DEF WorkerStep, Begin, BuildPlan, BuildFails, Examine, CompleteEmpty, Require, Snapshot,
           ReadDecision, IterationRaises, EndIteration, Await, ApprovalRequired, Select, Launch,
           RunAction, RunRaises, Finish, Raise, Release
  <2> QED  BY <1>1, <2>1, <2>2, ThreadsAssumption DEF Threads
<1> HIDE DEF s
<1>3. w \in Runners(s)
  BY <1>1 DEF Runners, s
<1>4. /\ Stage[s] = StageOf(w) /\ Heard[s] = run[w].approved
      /\ s \in RealRuns <=> run[w].mode = "real"
  BY <1>1, <1>3, RunnerIs DEF Stage, Heard, RealRuns, HeardBy, ModeOf
<1>5. ASSUME NEW z \in Sessions, z # s
      PROVE  SameRun(z)
  <2>1. Runners(z)' = Runners(z)
    BY <1>1, <1>2, <1>5 DEF Runners, Threads, s
  <2>2. ASSUME NEW t \in Runners(z)
        PROVE  SameHold(t)
    <3>1. t # w /\ t \in Threads /\ pc'[t] = pc[t]
      BY <1>1, <1>2, <1>5 DEF Runners, Threads, s
    <3>2. CASE t \in Clients
      <4>1. pc[t] = "spawn" /\ pc'[t] = "spawn"
        BY <2>2, <3>1, <3>2, ThreadsAssumption DEF Runners
      <4>2. StageOf(t) = "started" /\ StageOf(t)' = "started"
        BY <3>2, <4>1, ThreadsAssumption DEF StageOf, Executing
      <4> QED  BY <1>2, <3>2, <4>2 DEF SameHold, ModeOf, HeardBy
    <3>3. CASE t \in Workers
      <4>1. run'[t] = run[t] /\ t \notin Clients
        BY <1>1, <3>1, <3>3, ThreadsAssumption
      <4>2. (t \in Executing(sid[t]))' <=> t \in Executing(sid[t])
        BY <1>1, <3>1, <3>3, <4>1 DEF Executing
      <4>3. StageOf(t)' = StageOf(t)
        BY <3>1, <4>2 DEF StageOf
      <4> QED  BY <4>1, <4>3 DEF SameHold, ModeOf, HeardBy
    <3> QED  BY <3>1, <3>2, <3>3 DEF Threads
  <2> QED  BY <2>1, <2>2 DEF SameRun
<1>6. /\ Stage' = [Stage EXCEPT ![s] = Stage'[s]]
      /\ Heard' = [Heard EXCEPT ![s] = Heard'[s]]
      /\ \A z \in Sessions \ {s} : z \in RealRuns' <=> z \in RealRuns
  BY <1>1, <1>5, OtherRunsSeen DEF s
<1>7. CASE pc'[w] # "idle"
  <2>1. w \in Runners(s)'
    BY <1>1, <1>7 DEF Runners, s
  <2>2. (Runners(s) # {} /\ Runner(s) = w)'
    <3>1. Runner(s)' \in Runners(s)'
      BY <2>1 DEF Runner
    <3> QED  BY <1>1, <2>1, <3>1 DEF OneRunPerSession, s
  <2>3. /\ Stage'[s] = StageOf(w)' /\ Heard'[s] = run'[w].approved
        /\ s \in RealRuns' <=> run'[w].mode = "real"
    BY <1>1, <2>2 DEF Stage, Heard, RealRuns, HeardBy, ModeOf, s
  <2>4. RealRuns' = IF run'[w].mode = "real" THEN RealRuns \cup {s} ELSE RealRuns \ {s}
    BY <1>1, <1>6, <2>3, SeenShape DEF s
  <2> QED  BY <1>1, <1>4, <1>6, <1>7, <2>3, <2>4, SeenShape DEF s
<1>8. CASE pc'[w] = "idle"
  <2>1. Runners(s) = {w}
    BY <1>1, <1>3 DEF OneRunPerSession, s
  <2>2. Runners(s)' = {}
    BY <1>1, <1>2, <1>8, <2>1, ThreadsAssumption DEF Runners, Threads, s
  <2>3. Stage'[s] = "none" /\ Heard'[s] = {} /\ s \notin RealRuns'
    BY <1>1, <2>2 DEF Stage, Heard, RealRuns, s
  <2>4. RealRuns' = RealRuns \ {s}
    BY <1>1, <1>6, <2>3, SeenShape DEF s
  <2> QED  BY <1>1, <1>4, <1>6, <1>8, <2>3, <2>4, SeenShape DEF s
<1> QED  BY <1>7, <1>8

-----------------------------------------------------------------------------
(* The contract: what its invariant needs                                  *)

\* What a step does to the locals of its worker.
LEMMA LocalsKept ==
    ASSUME TypeInv, NEW w \in Workers, WorkerStep(w), ~Release(w)
    PROVE  /\ run'[w].mode = run[w].mode
           /\ \/ run'[w].approved = run[w].approved
              \/ \E id \in InstanceIds : ReadDecision(w, id)
           /\ \/ run'[w].results = run[w].results /\ run'[w].items = run[w].items
              \/ RunAction(w)
<1>0. run \in [Workers -> RunLocals] /\ run[w] \in RunLocals
  BY DEF TypeInv, TypeOK
<1>1. CASE \/ Begin(w) \/ BuildPlan(w) \/ BuildFails(w) \/ Examine(w) \/ CompleteEmpty(w)
           \/ IterationRaises(w) \/ EndIteration(w) \/ Await(w) \/ ApprovalRequired(w)
           \/ Launch(w) \/ RunRaises(w) \/ Finish(w) \/ Raise(w)
  <2>1. run' = run
    BY <1>1 DEF Begin, BuildPlan, BuildFails, Examine, CompleteEmpty, IterationRaises,
                EndIteration, Await, ApprovalRequired, Launch, RunRaises, Finish, Raise
  <2> QED  BY <2>1
<1>2. CASE Require(w)
  <2> DEFINE p == plan[sid[w]]
             ids == {p[i].id : i \in {j \in DOMAIN p : SessionRequiresApproval(p[j])}}
  <2>1. run' = [run EXCEPT ![w] = [run[w] EXCEPT !.required = ids]]
    BY <1>2 DEF Require, Locals
  <2> HIDE DEF ids
  <2> QED  BY <1>0, <2>1 DEF RunLocals
<1>3. CASE Snapshot(w)
  BY <1>0, <1>3 DEF Snapshot, Locals, RunLocals
<1>4. ASSUME NEW id \in InstanceIds, ReadDecision(w, id)
      PROVE  /\ run'[w].mode = run[w].mode
             /\ run'[w].results = run[w].results /\ run'[w].items = run[w].items
  BY <1>0, <1>4 DEF ReadDecision, Locals, RunLocals
<1>5. CASE Select(w)
  BY <1>0, <1>5 DEF Select, Locals, RunLocals
<1>6. CASE RunAction(w)
  <2>1. PICK i \in run[w].todo : \E o \in RealOutcomes(run[w].actions[i]) : Iterate(w, i, o)
    BY <1>6 DEF RunAction
  <2>2. PICK o \in RealOutcomes(run[w].actions[i]) : Iterate(w, i, o)
    BY <2>1
  <2> QED  BY <1>0, <1>6, <2>2 DEF Iterate, Locals, RunLocals
<1> QED  BY <1>1, <1>2, <1>3, <1>4, <1>5, <1>6 DEF WorkerStep

\* An outcome without a failed result has no failed evidence.
LEMMA OutcomeShows ==
    ASSUME NEW a \in SessionActions, NEW o \in RealOutcomes(a),
           \A k \in DOMAIN o.results : o.results[k], NEW k \in DOMAIN o.items
    PROVE  o.items[k].ok
<1> DEFINE done == [id |-> a.id, ok |-> TRUE]
           lost == [id |-> a.id, ok |-> FALSE]
           denied == [id |-> ReplanId, ok |-> FALSE]
<1>1. \/ o = Outcome(FALSE, <<>>, <<>>, FALSE, FALSE)
      \/ o = Outcome(FALSE, <<FALSE>>, <<>>, FALSE, TRUE)
      \/ o = Outcome(TRUE, <<TRUE>>, <<done>>, FALSE, TRUE)
      \/ o = Outcome(TRUE, <<FALSE>>, <<lost>>, FALSE, FALSE)
      \/ o = Outcome(TRUE, <<TRUE>>, <<done>>, TRUE, FALSE)
      \/ o = Outcome(TRUE, <<TRUE>>, <<>>, FALSE, TRUE)
      \/ o = Outcome(TRUE, <<FALSE>>, <<denied>>, FALSE, FALSE)
  BY Zenon DEF RealOutcomes, IdRefused, ContextRefused
<1>2. done.ok
  OBVIOUS
<1> HIDE DEF done, lost, denied
<1>3. o.results # <<FALSE>>
  <2>1. DOMAIN <<FALSE>> = {1} /\ <<FALSE>>[1] = FALSE
    OBVIOUS
  <2> QED  BY <2>1
<1> DEFINE Good(r) == r.results # <<FALSE>> => r.items = <<>> \/ r.items = <<done>>
<1>4. Good(o)
  <2>1. Good(Outcome(FALSE, <<>>, <<>>, FALSE, FALSE))
    BY DEF Outcome
  <2>2. Good(Outcome(FALSE, <<FALSE>>, <<>>, FALSE, TRUE))
    BY DEF Outcome
  <2>3. Good(Outcome(TRUE, <<TRUE>>, <<>>, FALSE, TRUE))
    BY DEF Outcome
  <2>4. Good(Outcome(TRUE, <<TRUE>>, <<done>>, FALSE, TRUE))
    BY DEF Outcome
  <2>5. Good(Outcome(TRUE, <<TRUE>>, <<done>>, TRUE, FALSE))
    BY DEF Outcome
  <2>6. Good(Outcome(TRUE, <<FALSE>>, <<lost>>, FALSE, FALSE))
    BY DEF Outcome
  <2>7. Good(Outcome(TRUE, <<FALSE>>, <<denied>>, FALSE, FALSE))
    BY DEF Outcome
  <2> HIDE DEF Good
  <2> QED  BY <1>1, <2>1, <2>2, <2>3, <2>4, <2>5, <2>6, <2>7
<1>5. DOMAIN <<>> = {} /\ DOMAIN <<done>> = {1} /\ <<done>>[1] = done
  OBVIOUS
<1> QED  BY <1>2, <1>3, <1>4, <1>5

LEMMA ConcatAll ==
    ASSUME NEW a \in Seq(BOOLEAN), NEW b \in Seq(BOOLEAN), NEW c, c = a \o b,
           \A k \in DOMAIN c : c[k]
    PROVE  (\A k \in DOMAIN a : a[k]) /\ (\A k \in DOMAIN b : b[k])
<1>1. /\ DOMAIN a = 1..Len(a) /\ DOMAIN b = 1..Len(b) /\ Len(a) \in Nat /\ Len(b) \in Nat
      /\ DOMAIN c = 1..(Len(a) + Len(b))
      /\ \A i \in 1..(Len(a) + Len(b)) : c[i] = IF i <= Len(a) THEN a[i] ELSE b[i - Len(a)]
  BY ConcatProperties, LenProperties
<1>2. ASSUME NEW k \in DOMAIN a
      PROVE  a[k]
  BY <1>1, <1>2
<1>3. ASSUME NEW k \in DOMAIN b
      PROVE  b[k]
  <2>1. k + Len(a) \in DOMAIN c /\ c[k + Len(a)] = b[k]
    <3>1. k \in Nat /\ 1 <= k /\ k <= Len(b) /\ (k + Len(a)) - Len(a) = k
      BY <1>1, <1>3
    <3> QED  BY <1>1, <3>1
  <2> QED  BY <2>1
<1> QED  BY <1>2, <1>3

LEMMA RunActionShows ==
    ASSUME TypeInv, ApprovalInv, FailuresShow, NEW w \in Workers, RunAction(w), AllDone(w)'
    PROVE  AllClaimed(w)'
<1>1. PICK i \in run[w].todo : \E o \in RealOutcomes(run[w].actions[i]) : Iterate(w, i, o)
  BY DEF RunAction
<1>2. PICK o \in RealOutcomes(run[w].actions[i]) : Iterate(w, i, o)
  BY <1>1
<1>3. run[w] \in RunLocals /\ run[w].actions[i] \in SessionActions
  BY DEF TypeInv, TypeOK, ApprovalInv, TodoApproved, RunLocals
<1>4. o.items \in Seq(Evidence) /\ o.results \in Seq(BOOLEAN)
  BY <1>2, <1>3, OutcomeType
<1>5. /\ run'[w].items = run[w].items \o o.items
      /\ run'[w].results = run[w].results \o o.results
  BY <1>2, <1>3 DEF Iterate, Locals, TypeInv, TypeOK, RunLocals
<1> DEFINE a == run[w].items
           b == o.items
           c == run'[w].items
           x == run[w].results
           y == o.results
           z == run'[w].results
<1>6. /\ a \in Seq(Evidence) /\ b \in Seq(Evidence) /\ c = a \o b
      /\ x \in Seq(BOOLEAN) /\ y \in Seq(BOOLEAN) /\ z = x \o y
      /\ \A k \in DOMAIN z : z[k]
  BY <1>3, <1>4, <1>5 DEF RunLocals, AllDone
<1> HIDE DEF a, b, c, x, y, z
<1>7. (\A k \in DOMAIN x : x[k]) /\ (\A k \in DOMAIN y : y[k])
  BY <1>6, ConcatAll
<1>8. (\A k \in DOMAIN a : a[k].ok) /\ (\A k \in DOMAIN b : b[k].ok)
  BY <1>2, <1>3, <1>7, OutcomeShows DEF a, b, x, y, FailuresShow, AllDone, AllClaimed
<1>9. \A k \in DOMAIN c : c[k].ok
  BY <1>6, <1>8, ConcatItem
<1> QED  BY <1>9 DEF AllClaimed, c

LEMMA InitContract == Init => ContractInv
<1>1. DOMAIN <<>> = {}
  OBVIOUS
<1> QED  BY <1>1 DEF Init, ContractInv, OnlyRealGoOn, RealPCs, FailuresShow, AllClaimed, FreshRun, Threads

LEMMA FreshContract ==
    ASSUME NEW w \in Workers, NEW m \in Modes, run'[w] = FreshRun(m)
    PROVE  AllClaimed(w)'
<1>1. DOMAIN <<>> = {}
  OBVIOUS
<1> QED  BY <1>1 DEF AllClaimed, FreshRun

LEMMA ContractStep ==
    ASSUME TypeInv, ApprovalInv, ContractInv, [Next]_vars
    PROVE  ContractInv'
<1>0. ASSUME run' = run, \A w \in Workers : pc'[w] = pc[w]
      PROVE  ContractInv'
  BY <1>0 DEF ContractInv, OnlyRealGoOn, FailuresShow, AllDone, AllClaimed
<1>1. ASSUME NEW c \in Clients, NEW s \in Sessions, RequestStep(c, s)
      PROVE  ContractInv'
  BY <1>0, <1>1, RequestEffect DEF TypeInv
<1>2. ASSUME NEW c \in Clients, ClientStep(c)
      PROVE  ContractInv'
  <2>1. CASE ~Spawn(c)
    BY <1>0, <1>2, <2>1, ClientEffect DEF TypeInv
  <2>2. CASE Spawn(c)
    <3>1. PICK w \in Workers :
            /\ pc'[w] = "begin"
            /\ \E m \in Modes : run'[w] = FreshRun(m)
            /\ \A u \in Workers \ {w} : pc'[u] = pc[u] /\ run'[u] = run[u]
      BY <2>2, SpawnEffect DEF TypeInv
    <3>2. AllClaimed(w)'
      BY <3>1, FreshContract
    <3>3. FailuresShow'
      BY <3>1, <3>2 DEF ContractInv, FailuresShow, AllDone, AllClaimed
    <3>4. OnlyRealGoOn'
      BY <3>1 DEF ContractInv, OnlyRealGoOn, RealPCs
    <3> QED  BY <3>3, <3>4 DEF ContractInv
  <2> QED  BY <2>1, <2>2
<1>3. ASSUME NEW w \in Workers, WorkerStep(w)
      PROVE  ContractInv'
  <2>0. \A u \in Workers \ {w} : pc'[u] = pc[u] /\ run'[u] = run[u]
    BY <1>3, WorkerEffect DEF TypeInv
  <2>1. /\ pc \in [Threads -> ClientPCs \cup WorkerPCs] /\ w \in Threads /\ w \notin Clients
        /\ run \in [Workers -> RunLocals] /\ run[w] \in RunLocals
    BY ThreadsAssumption DEF TypeInv, TypeOK, Threads
  <2>2. CASE Release(w)
    <3>1. pc'[w] = "idle" /\ run'[w] = FreshRun("real") /\ "real" \in Modes
      BY <2>1, <2>2 DEF Release, Goto, Locals, Modes
    <3>2. AllClaimed(w)'
      BY <3>1, FreshContract
    <3> QED  BY <2>0, <3>1, <3>2
             DEF ContractInv, OnlyRealGoOn, RealPCs, FailuresShow, AllDone, AllClaimed
  <2>3. CASE ~Release(w)
    <3>1. run'[w].mode = run[w].mode
      BY <1>3, <2>3, LocalsKept
    <3>2. AllDone(w)' => AllClaimed(w)'
      <4>1. CASE RunAction(w)
        BY <4>1, RunActionShows DEF ContractInv
      <4>2. CASE run'[w].results = run[w].results /\ run'[w].items = run[w].items
        BY <4>2 DEF ContractInv, FailuresShow, AllDone, AllClaimed
      <4> QED  BY <1>3, <2>3, <4>1, <4>2, LocalsKept
    <3>3. pc'[w] \in RealPCs => run[w].mode = "real"
      <4>1. CASE Examine(w)
        <5>1. run[w].mode \in {"safe", "real"}
          BY <2>1 DEF RunLocals, Modes
        <5>2. \/ Goto(w, "complete_empty") \/ Goto(w, "raise")
              \/ Goto(w, "require") /\ run[w].mode = "real"
          BY <4>1, <5>1 DEF Examine
        <5> QED  BY <2>1, <5>2 DEF Goto, RealPCs
      <4>2. CASE \/ Require(w) \/ Snapshot(w) \/ EndIteration(w) \/ Await(w) \/ Select(w)
                 \/ (\E id \in InstanceIds : ReadDecision(w, id))
        <5>1. pc[w] \in RealPCs
          BY <4>2 DEF Require, Snapshot, EndIteration, Await, Select, ReadDecision, RealPCs
        <5> QED  BY <5>1 DEF ContractInv, OnlyRealGoOn
      <4>3. CASE \/ Begin(w) \/ BuildPlan(w) \/ BuildFails(w) \/ CompleteEmpty(w)
                 \/ IterationRaises(w) \/ ApprovalRequired(w) \/ Launch(w)
                 \/ RunRaises(w) \/ Finish(w) \/ Raise(w)
        BY <2>1, <4>3
        DEF Begin, BuildPlan, BuildFails, AfterPlan, CompleteEmpty, IterationRaises,
            ApprovalRequired, Launch, RunRaises, Finish, Raise, Goto, RealPCs
      <4>4. CASE RunAction(w)
        BY <4>4 DEF RunAction, RealPCs
      <4> QED  BY <1>3, <2>3, <4>1, <4>2, <4>3, <4>4 DEF WorkerStep
    <3> QED  BY <2>0, <3>1, <3>2, <3>3
             DEF ContractInv, OnlyRealGoOn, FailuresShow, AllDone, AllClaimed
  <2> QED  BY <2>2, <2>3
<1>4. CASE UNCHANGED vars
  BY <1>0, <1>4 DEF vars, session
<1> QED  BY <1>1, <1>2, <1>3, <1>4 DEF Next

-----------------------------------------------------------------------------
(* The contract: what a request shows                                      *)

LEMMA StandingSeen ==
    ASSUME TypeOK, NEW s \in Sessions, NEW id \in InstanceIds, NEW v,
           approval' = [approval EXCEPT ![s][id] = v]
    PROVE  /\ Standing' = [Standing EXCEPT ![s] = Standing'[s]]
           /\ Standing'[s] = IF v = "approved" THEN Standing[s] \cup {id} ELSE Standing[s] \ {id}
<1>1. /\ Standing = [z \in Sessions |-> Standing[z]]
      /\ Standing' = [z \in Sessions |-> Standing'[z]]
  BY DEF Standing
<1>2. approval \in [Sessions -> [InstanceIds -> Marks]]
  BY DEF TypeOK
<1>3. \A z \in Sessions \ {s} : Standing'[z] = Standing[z]
  BY <1>2 DEF Standing
<1>4. \A i \in InstanceIds : approval'[s][i] = IF i = id THEN v ELSE approval[s][i]
  BY <1>2
<1>5. /\ Standing'[s] = {i \in InstanceIds : approval'[s][i] = "approved"}
      /\ Standing[s] = {i \in InstanceIds : approval[s][i] = "approved"}
  BY DEF Standing
<1>6. Standing'[s] = IF v = "approved" THEN Standing[s] \cup {id} ELSE Standing[s] \ {id}
  BY <1>4, <1>5
<1>7. Standing' = [Standing EXCEPT ![s] = Standing'[s]]
  BY <1>1, <1>3, PointChange
<1> QED  BY <1>6, <1>7

LEMMA StandingKept == ASSUME approval' = approval PROVE Standing' = Standing
BY DEF Standing

LEMMA CancelsKept ==
    ASSUME \A c \in Clients : /\ pc'[c] = "cancel" <=> pc[c] = "cancel"
                              /\ pc[c] = "cancel" => sid'[c] = sid[c]
    PROVE  Cancels' = Cancels
BY DEF Cancels

\* What a client's step leaves alone of the other threads, and of the runs.
Alone(c) ==
    /\ run' = run
    /\ \A t \in Threads \ {c} : pc'[t] = pc[t] /\ sid'[t] = sid[t]
    /\ \A d \in Clients \ {c} : request'[d] = request[d]

\* Whoever holds a run holds it as before, unless it is that client.
LEMMA OthersHold ==
    ASSUME NEW c \in Clients, Alone(c), NEW s \in Sessions, NEW t \in Runners(s), t # c
    PROVE  SameHold(t) /\ t \in Runners(s)'
<1>1. t \in Threads /\ pc'[t] = pc[t] /\ sid'[t] = sid[t] /\ sid[t] = s
  BY DEF Runners, Alone
<1>2. CASE t \in Clients
  <2>1. pc[t] = "spawn" /\ pc'[t] = "spawn" /\ request'[t] = request[t]
    BY <1>1, <1>2, ThreadsAssumption DEF Runners, Alone
  <2>2. StageOf(t) = "started" /\ StageOf(t)' = "started"
    BY <1>2, <2>1, ThreadsAssumption DEF StageOf, Executing
  <2> QED  BY <1>1, <1>2, <2>1, <2>2 DEF SameHold, ModeOf, HeardBy, Runners
<1>3. CASE t \in Workers
  <2>1. t \notin Clients /\ run' = run
    BY <1>3, ThreadsAssumption DEF Alone
  <2>2. (t \in Executing(sid[t]))' <=> t \in Executing(sid[t])
    BY <1>1, <1>3, <2>1 DEF Executing
  <2>3. StageOf(t)' = StageOf(t)
    BY <1>1, <2>2 DEF StageOf
  <2>4. t \in Runners(s)'
    BY <1>1, <1>3, <2>1 DEF Runners
  <2> QED  BY <2>1, <2>3, <2>4 DEF SameHold, ModeOf, HeardBy
<1> QED  BY <1>1, <1>2, <1>3 DEF Threads

\* Who will hold a run, and held none, is that client.
LEMMA OthersHeld ==
    ASSUME NEW c \in Clients, Alone(c), NEW s \in Sessions, NEW t \in Runners(s)', t # c
    PROVE  t \in Runners(s)
BY ThreadsAssumption DEF Runners, Alone

LEMMA ClientSeen ==
    ASSUME NEW c \in Clients, Alone(c), pc[c] # "spawn", pc'[c] # "spawn"
    PROVE  Stage' = Stage /\ Heard' = Heard /\ RealRuns' = RealRuns
<1>1. ASSUME NEW s \in Sessions
      PROVE  SameRun(s)
  <2>1. c \notin Runners(s) /\ c \notin Runners(s)'
    BY ThreadsAssumption DEF Runners
  <2>2. Runners(s)' = Runners(s)
    BY <2>1, OthersHold, OthersHeld
  <2> QED  BY <2>1, <2>2, OthersHold DEF SameRun
<1> QED  BY <1>1, RunsSeen

LEMMA StartAsyncSeen ==
    ASSUME TypeInv, OneRunPerSession, NEW c \in Clients, NEW s \in Sessions, NEW m \in Modes,
           StartAsync(c, s, m)
    PROVE  /\ Stage[s] = "none"
           /\ Stage' = [Stage EXCEPT ![s] = "started"]
           /\ Heard' = Heard
           /\ RealRuns' \in {RealRuns, RealRuns \cup {s}}
<1>1. /\ pc \in [Threads -> ClientPCs \cup WorkerPCs] /\ sid \in [Threads -> Sessions]
      /\ request \in [Clients -> Requests] /\ c \in Threads
  BY DEF TypeInv, TypeOK, Threads
<1>2. /\ pc[c] = "idle" /\ pc'[c] = "spawn" /\ sid'[c] = s /\ request'[c] = [mode |-> m]
      /\ Alone(c)
  BY <1>1 DEF StartAsync, Take, CanIssue, Goto, Alone
<1>3. Runners(s) = {}
  BY DEF StartAsync, MayStart, OneRunPerSession
<1>4. Runners(s)' = {c}
  <2>1. c \in Runners(s)'
    BY <1>1, <1>2 DEF Runners
  <2> QED  BY <1>2, <1>3, <2>1, OthersHeld
<1>5. Runner(s)' = c
  BY <1>4 DEF Runner
<1>6. StageOf(c)' = "started" /\ HeardBy(c)' = {}
  BY <1>2, ThreadsAssumption DEF StageOf, Executing, HeardBy
<1>7. Stage[s] = "none" /\ Heard[s] = {} /\ s \notin RealRuns
  BY <1>3 DEF Stage, Heard, RealRuns
<1>8. Stage'[s] = "started" /\ Heard'[s] = {}
  BY <1>4, <1>5, <1>6 DEF Stage, Heard, StageOf, HeardBy
<1>9. ASSUME NEW z \in Sessions, z # s
      PROVE  SameRun(z)
  <2>1. c \notin Runners(z) /\ c \notin Runners(z)'
    BY <1>2, <1>9, ThreadsAssumption DEF Runners
  <2>2. Runners(z)' = Runners(z)
    BY <1>2, <2>1, OthersHold, OthersHeld
  <2> QED  BY <1>2, <2>1, <2>2, OthersHold DEF SameRun
<1>10. /\ Stage' = [Stage EXCEPT ![s] = Stage'[s]]
       /\ Heard' = [Heard EXCEPT ![s] = Heard'[s]]
       /\ \A z \in Sessions \ {s} : z \in RealRuns' <=> z \in RealRuns
  BY <1>9, OtherRunsSeen
<1>11. Heard' = Heard
  BY <1>7, <1>8, <1>10, SeenShape
<1>12. RealRuns' \in {RealRuns, RealRuns \cup {s}}
  <2>1. CASE s \in RealRuns'
    BY <1>10, <2>1, SeenShape
  <2>2. CASE s \notin RealRuns'
    BY <1>7, <1>10, <2>2, SeenShape
  <2> QED  BY <2>1, <2>2
<1> QED  BY <1>7, <1>8, <1>10, <1>11, <1>12

\* The worker takes the run over from the request that started it.
LEMMA SpawnSeen ==
    ASSUME TypeInv, OneRunPerSession, OneRunPerSession', NEW c \in Clients, Spawn(c)
    PROVE  Stage' = Stage /\ Heard' = Heard /\ RealRuns' = RealRuns
<1>0. PICK s \in Sessions : s = sid[c]
  BY DEF TypeInv, TypeOK, Threads
<1>1. PICK w \in Workers :
        /\ pc[w] = "idle"
        /\ sid' = [sid EXCEPT ![w] = sid[c]]
        /\ run' = [run EXCEPT ![w] = FreshRun(request[c].mode)]
        /\ pc' = [pc EXCEPT ![c] = "idle", ![w] = "begin"]
        /\ request' = [request EXCEPT ![c] = <<>>]
  BY DEF Spawn
<1>2. /\ s \in Sessions /\ sid[c] = s /\ c \in Threads /\ w \in Threads /\ c # w /\ c \notin Workers /\ w \notin Clients
      /\ pc[c] = "spawn"
      /\ pc'[w] = "begin" /\ pc'[c] = "idle" /\ sid'[w] = s
      /\ run'[w] = FreshRun(request[c].mode)
      /\ \A t \in Threads \ {c, w} : pc'[t] = pc[t] /\ sid'[t] = sid[t]
      /\ \A d \in Clients \ {c} : request'[d] = request[d]
      /\ \A u \in Workers \ {w} : run'[u] = run[u]
  BY <1>0, <1>1, ThreadsAssumption DEF Spawn, TypeInv, TypeOK, Threads
<1>3. c \in Runners(s) /\ w \in Runners(s)'
  BY <1>2 DEF Runners
<1>4. Runners(s) # {} /\ Runner(s) = c
  BY <1>2, <1>3, RunnerIs
<1>5. Runners(s)' # {} /\ Runner(s)' = w
  <2>1. Runner(s)' \in Runners(s)'
    BY <1>3 DEF Runner
  <2> QED  BY <1>2, <1>3, <2>1 DEF OneRunPerSession
<1>6. StageOf(c) = "started" /\ HeardBy(c) = {} /\ ModeOf(c) = request[c].mode
  BY <1>2, StageOfClient DEF HeardBy, ModeOf
<1>7. StageOf(w)' = "started" /\ HeardBy(w)' = {} /\ ModeOf(w)' = request[c].mode
  <2>1. StageOf(w)' = "started"
    BY <1>2 DEF StageOf, Executing
  <2> QED  BY <1>2, <2>1 DEF HeardBy, ModeOf, FreshRun
<1>8. /\ StageOf(Runner(s))' = "started" /\ HeardBy(Runner(s))' = {}
      /\ ModeOf(Runner(s))' = request[c].mode
  BY <1>5, <1>7 DEF StageOf, HeardBy, ModeOf, Executing
<1>9. /\ Stage'[s] = Stage[s] /\ Heard'[s] = Heard[s]
      /\ s \in RealRuns' <=> s \in RealRuns
  BY <1>2, <1>4, <1>5, <1>6, <1>8 DEF Stage, Heard, RealRuns
<1>10. ASSUME NEW z \in Sessions, z # s
       PROVE  SameRun(z)
  <2>1. ASSUME NEW t \in Threads
        PROVE  /\ t \in Runners(z)' <=> t \in Runners(z)
               /\ t \in Runners(z) => t \notin {c, w}
    <3>1. CASE t \in {c, w}
      BY <1>1, <1>2, <1>10, <3>1 DEF Runners
    <3>2. CASE t \notin {c, w}
      BY <1>2, <3>2 DEF Runners
    <3> QED  BY <3>1, <3>2
  <2>2. Runners(z)' = Runners(z)
    BY <2>1 DEF Runners
  <2>3. ASSUME NEW t \in Runners(z)
        PROVE  SameHold(t)
    <3>1. t \in Threads /\ t \notin {c, w} /\ pc'[t] = pc[t] /\ sid'[t] = sid[t]
      BY <1>2, <2>1 DEF Runners
    <3>2. CASE t \in Clients
      <4>1. pc[t] = "spawn" /\ pc'[t] = "spawn" /\ request'[t] = request[t]
        BY <1>2, <2>3, <3>1, <3>2, ThreadsAssumption DEF Runners
      <4>2. StageOf(t) = "started" /\ StageOf(t)' = "started"
        BY <3>2, <4>1, ThreadsAssumption DEF StageOf, Executing
      <4> QED  BY <3>2, <4>1, <4>2 DEF SameHold, ModeOf, HeardBy
    <3>3. CASE t \in Workers
      <4>1. run'[t] = run[t] /\ t \notin Clients
        BY <1>2, <3>1, <3>3, ThreadsAssumption
      <4>2. (t \in Executing(sid[t]))' <=> t \in Executing(sid[t])
        BY <3>1, <3>3, <4>1 DEF Executing
      <4>3. StageOf(t)' = StageOf(t)
        BY <3>1, <4>2 DEF StageOf
      <4> QED  BY <4>1, <4>3 DEF SameHold, ModeOf, HeardBy
    <3> QED  BY <3>1, <3>2, <3>3 DEF Threads
  <2> QED  BY <2>2, <2>3 DEF SameRun
<1>11. /\ Stage' = [Stage EXCEPT ![s] = Stage'[s]]
       /\ Heard' = [Heard EXCEPT ![s] = Heard'[s]]
       /\ \A z \in Sessions \ {s} : z \in RealRuns' <=> z \in RealRuns
  BY <1>2, <1>10, OtherRunsSeen
<1>12. RealRuns' = RealRuns
  BY <1>9, <1>11, SeenShape
<1> QED  BY <1>9, <1>11, <1>12, SeenShape

-----------------------------------------------------------------------------
(* The contract: the steps                                                 *)

Unseen == UNCHANGED <<status, Standing, Stage, RealRuns, Heard, invoked, history, Cancels>>

\* A step of the service, seen by its sessions.
Keeps == Promise!Next \/ Unseen

LEMMA StepKeeps == ASSUME NEW s \in Sessions, Promise!SessionStep(s) PROVE Keeps
BY DEF Keeps, Promise!Next

LEMMA RequestKeeps ==
    ASSUME TypeInv, OneRunPerSession, NEW c \in Clients, NEW s \in Sessions, RequestStep(c, s)
    PROVE  Keeps
<1>0. /\ pc \in [Threads -> ClientPCs \cup WorkerPCs] /\ sid \in [Threads -> Sessions]
      /\ request \in [Clients -> Requests] /\ c \in Threads
  BY DEF TypeInv, TypeOK, Threads
<1>1. /\ pc[c] = "idle" /\ sid'[c] = s /\ approval' = approval /\ history' = history
      /\ invoked' = invoked /\ run' = run
  BY <1>0, RequestEffect DEF RequestStep, Create, RequestPlan, RequestDecision, StartAsync, RequestCancel,
     Take, CanIssue, session, TypeInv
<1>2. Alone(c)
  <2>1. \A t \in Threads \ {c} : pc'[t] = pc[t] /\ sid'[t] = sid[t]
    BY <1>0 DEF RequestStep, Create, RequestPlan, RequestDecision, StartAsync, RequestCancel,
       Take, Goto
  <2>2. \A d \in Clients \ {c} : request'[d] = request[d]
    BY <1>0 DEF RequestStep, Create, RequestPlan, RequestDecision, StartAsync, RequestCancel
  <2> QED  BY <1>1, <2>1, <2>2 DEF Alone
<1>3. Standing' = Standing
  BY <1>1, StandingKept
<1>4. pc'[c] # "cancel" => Cancels' = Cancels
  <2> SUFFICES ASSUME pc'[c] # "cancel" PROVE Cancels' = Cancels
    OBVIOUS
  <2>1. \A d \in Clients : /\ pc'[d] = "cancel" <=> pc[d] = "cancel"
                           /\ pc[d] = "cancel" => sid'[d] = sid[d]
    BY <1>1, <1>2 DEF Alone, Threads
  <2> QED  BY <2>1, CancelsKept
<1>5. pc'[c] # "spawn" => Stage' = Stage /\ Heard' = Heard /\ RealRuns' = RealRuns
  BY <1>1, <1>2, ClientSeen
<1>6. CASE Create(c, s)
  <2>1. pc'[c] \notin {"cancel", "spawn"}
    BY <1>0, <1>1, <1>6 DEF Create, Goto
  <2>2. Promise!Create(s)
    BY <1>1, <1>3, <1>4, <1>5, <1>6, <2>1
    DEF Create, Promise!Create, Promise!Shows, Promise!runs
  <2> QED  BY <2>2, StepKeeps DEF Promise!SessionStep
<1>7. CASE RequestPlan(c, s) \/ \E id \in InstanceIds, v \in Verdicts : RequestDecision(c, s, id, v)
  <2>1. pc'[c] \notin {"cancel", "spawn"} /\ status' = status
    BY <1>0, <1>7 DEF RequestPlan, RequestDecision, Goto, session
  <2> QED  BY <1>1, <1>3, <1>4, <1>5, <2>1 DEF Keeps, Unseen
<1>8. ASSUME NEW m \in Modes, StartAsync(c, s, m)
      PROVE  Keeps
  <2>1. /\ Stage[s] = "none"
        /\ Stage' = [Stage EXCEPT ![s] = "started"]
        /\ Heard' = Heard
        /\ RealRuns' \in {RealRuns, RealRuns \cup {s}}
    BY <1>8, StartAsyncSeen
  <2>2. pc'[c] # "cancel" /\ status' = status /\ status[s] \notin Terminal \cup {"absent"}
    BY <1>0, <1>8 DEF StartAsync, MayStart, Goto
  <2>3. Promise!Start(s)
    BY <1>1, <1>3, <1>4, <2>1, <2>2
    DEF Promise!Start, Promise!Enters, Promise!Terminal, Terminal
  <2> QED  BY <2>3, StepKeeps DEF Promise!SessionStep
<1>9. CASE RequestCancel(c, s)
  <2>1. pc'[c] = "cancel" /\ status' = status /\ status[s] \notin Terminal \cup {"absent"}
    BY <1>0, <1>9 DEF RequestCancel, Goto, session
  <2>2. Cancels' = Cancels \cup {<<c, s>>}
    BY <1>1, <1>2, <2>1 DEF Cancels, Alone, Threads
  <2>3. Promise!RequestCancel(c, s)
    BY <1>1, <1>3, <1>5, <2>1, <2>2
    DEF Promise!RequestCancel, Promise!runs, Promise!Terminal, Terminal
  <2> QED  BY <2>3, StepKeeps DEF Promise!SessionStep
<1> QED  BY <1>6, <1>7, <1>8, <1>9 DEF RequestStep

LEMMA ClientKeeps ==
    ASSUME TypeInv, OneRunPerSession, OneRunPerSession', NEW c \in Clients, ClientStep(c)
    PROVE  Keeps
<1>0. /\ pc \in [Threads -> ClientPCs \cup WorkerPCs] /\ sid \in [Threads -> Sessions]
      /\ request \in [Clients -> Requests] /\ c \in Threads /\ sid[c] \in Sessions
  BY DEF TypeInv, TypeOK, Threads
<1>1. CASE Spawn(c)
  <2>1. Stage' = Stage /\ Heard' = Heard /\ RealRuns' = RealRuns
    BY <1>1, SpawnSeen
  <2>2. status' = status /\ approval' = approval /\ invoked' = invoked /\ history' = history
    BY <1>1 DEF Spawn, session, ghosts
  <2>3. \A d \in Clients : /\ pc'[d] = "cancel" <=> pc[d] = "cancel"
                           /\ pc[d] = "cancel" => sid'[d] = sid[d]
    BY <1>0, <1>1, ThreadsAssumption DEF Spawn, Threads
  <2> QED  BY <2>1, <2>2, <2>3, StandingKept, CancelsKept DEF Keeps, Unseen
<1>2. CASE ~Spawn(c)
  <2>1. /\ sid' = sid /\ run' = run /\ history' = history /\ invoked' = invoked
        /\ pc[c] # "spawn" /\ pc'[c] \notin {"spawn", "cancel"}
    BY <1>0, <1>2 DEF ClientStep, RecordIntent, BuildPlan, BuildFails, AfterPlan, Register, Decide, Cancel,
       Goto, ghosts
  <2>2. Alone(c)
    <3>1. \A t \in Threads \ {c} : pc'[t] = pc[t]
      BY <1>0, <1>2 DEF ClientStep, RecordIntent, BuildPlan, BuildFails, AfterPlan, Register, Decide, Cancel,
         Goto
    <3>2. \A d \in Clients \ {c} : request'[d] = request[d]
      BY <1>0, <1>2 DEF ClientStep, RecordIntent, BuildPlan, BuildFails, Register, Decide, Cancel
    <3> QED  BY <2>1, <3>1, <3>2 DEF Alone
  <2>3. Stage' = Stage /\ Heard' = Heard /\ RealRuns' = RealRuns
    BY <2>1, <2>2, ClientSeen
  <2>4. pc[c] # "cancel" => Cancels' = Cancels
    <3> SUFFICES ASSUME pc[c] # "cancel" PROVE Cancels' = Cancels
      OBVIOUS
    <3>1. \A d \in Clients : /\ pc'[d] = "cancel" <=> pc[d] = "cancel"
                             /\ pc[d] = "cancel" => sid'[d] = sid[d]
      BY <2>1, <2>2 DEF Alone, Threads
    <3> QED  BY <3>1, CancelsKept
  <2>5. CASE RecordIntent(c) \/ BuildPlan(c) \/ BuildFails(c)
    <3>1. status' = status /\ approval' = approval /\ pc[c] # "cancel"
      BY <2>5 DEF RecordIntent, BuildPlan, BuildFails
    <3> QED  BY <2>1, <2>3, <2>4, <3>1, StandingKept DEF Keeps, Unseen
  <2>6. ASSUME NEW id \in InstanceIds, NEW v, approval' = [approval EXCEPT ![sid[c]][id] = v],
               status' = status, pc[c] # "cancel"
        PROVE  Keeps
    <3>1. /\ Standing' = [Standing EXCEPT ![sid[c]] = Standing'[sid[c]]]
          /\ Standing'[sid[c]] = IF v = "approved" THEN Standing[sid[c]] \cup {id}
                                 ELSE Standing[sid[c]] \ {id}
      BY <1>0, <2>6, StandingSeen DEF TypeInv
    <3>2. \/ Standing' = [Standing EXCEPT ![sid[c]] = Standing[sid[c]] \ {id}]
          \/ Standing' = [Standing EXCEPT ![sid[c]] = Standing[sid[c]] \cup {id}]
      BY <3>1
    <3>3. Promise!Decide(sid[c])
      BY <2>1, <2>3, <2>4, <2>6, <3>2 DEF Promise!Decide, Promise!runs
    <3> QED  BY <1>0, <3>3, StepKeeps DEF Promise!SessionStep
  <2>7. CASE Register(c)
    <3>1. request[c].id \in InstanceIds
      BY <2>7 DEF Register, TypeInv, RequestShape
    <3> QED  BY <2>6, <2>7, <3>1 DEF Register
  <2>8. CASE Decide(c)
    <3>1. request[c].id \in InstanceIds
      BY <2>8 DEF Decide, TypeInv, RequestShape
    <3> QED  BY <2>6, <2>8, <3>1 DEF Decide
  <2>9. CASE Cancel(c)
    <3>1. pc[c] = "cancel" /\ approval' = approval /\ status' = [status EXCEPT ![sid[c]] = "cancelled"]
      BY <2>9 DEF Cancel
    <3>2. <<c, sid[c]>> \in Cancels
      BY <3>1 DEF Cancels
    <3>3. Cancels' = Cancels \ {<<c, sid[c]>>}
      BY <2>1, <2>2, <3>1 DEF Cancels, Alone, Threads
    <3>4. Promise!Cancel(c, sid[c])
      BY <2>1, <2>3, <3>1, <3>2, <3>3, StandingKept DEF Promise!Cancel, Promise!Shows, Promise!runs
    <3> QED  BY <1>0, <3>4, StepKeeps DEF Promise!SessionStep
  <2> QED  BY <1>2, <2>5, <2>7, <2>8, <2>9 DEF ClientStep
<1> QED  BY <1>1, <1>2

\* What the session shows of its run, before and after a step that goes on.
LEMMA WorkerGoesOn ==
    ASSUME TypeInv, OneRunPerSession, OneRunPerSession', NEW w \in Workers, WorkerStep(w),
           ~Release(w), NEW s, s = sid[w]
    PROVE  /\ pc'[w] # "idle"
           /\ Stage[s] = StageOf(w) /\ Heard[s] = run[w].approved
           /\ s \in RealRuns <=> run[w].mode = "real"
           /\ RealRuns' = RealRuns
           /\ Stage' = [Stage EXCEPT ![s] = StageOf(w)']
           /\ Heard' = [Heard EXCEPT ![s] = run'[w].approved]
           /\ StageOf(w)' = StageOf(w) => Stage' = Stage
           /\ run'[w].approved = run[w].approved => Heard' = Heard
<1>1. /\ pc \in [Threads -> ClientPCs \cup WorkerPCs] /\ w \in Threads /\ w \notin Clients
  BY ThreadsAssumption DEF TypeInv, TypeOK, Threads
<1>2. pc'[w] # "idle"
  <2>1. CASE RunAction(w) \/ \E id \in InstanceIds : ReadDecision(w, id)
    BY <2>1, WorkerEffect DEF TypeInv, RunAction, ReadDecision
  <2>2. CASE \/ Begin(w) \/ BuildPlan(w) \/ BuildFails(w) \/ CompleteEmpty(w)
             \/ Require(w) \/ Snapshot(w) \/ IterationRaises(w) \/ EndIteration(w) \/ Await(w)
             \/ ApprovalRequired(w) \/ Select(w) \/ Launch(w) \/ RunRaises(w) \/ Finish(w) \/ Raise(w)
    BY <1>1, <2>2 DEF Begin, BuildPlan, BuildFails, AfterPlan, CompleteEmpty, Require, Snapshot,
                      IterationRaises, EndIteration, Await, ApprovalRequired, Select, Launch,
                      RunRaises, Finish, Raise, Goto
  <2>3. CASE Examine(w)
    <3>1. run[w].mode \in {"safe", "real"}
      BY DEF TypeInv, TypeOK, RunLocals, Modes
    <3>2. Goto(w, "complete_empty") \/ Goto(w, "raise") \/ Goto(w, "require")
      BY <2>3, <3>1 DEF Examine
    <3> QED  BY <1>1, <3>2 DEF Goto
  <2> QED  BY <2>1, <2>2, <2>3 DEF WorkerStep
<1>3. run'[w].mode = run[w].mode
  BY LocalsKept
<1>4. LET z == sid[w]
      IN  /\ z \in Sessions /\ z \in DOMAIN Stage /\ z \in DOMAIN Heard
          /\ Stage[z] = StageOf(w) /\ Heard[z] = run[w].approved
          /\ z \in RealRuns <=> run[w].mode = "real"
          /\ Stage' = [Stage EXCEPT ![z] = IF pc'[w] = "idle" THEN "none" ELSE StageOf(w)']
          /\ Heard' = [Heard EXCEPT ![z] = IF pc'[w] = "idle" THEN {} ELSE run'[w].approved]
          /\ RealRuns' = IF pc'[w] # "idle" /\ run'[w].mode = "real" THEN RealRuns \cup {z}
                         ELSE RealRuns \ {z}
  BY WorkerSeen, Zenon
<1>5. /\ Stage[s] = StageOf(w) /\ Heard[s] = run[w].approved
      /\ s \in RealRuns <=> run[w].mode = "real"
      /\ Stage' = [Stage EXCEPT ![s] = StageOf(w)']
      /\ Heard' = [Heard EXCEPT ![s] = run'[w].approved]
  BY <1>2, <1>4
<1>6. RealRuns' = RealRuns
  BY <1>2, <1>3, <1>4
<1>7. StageOf(w)' = StageOf(w) => Stage' = Stage
  BY <1>5, SeenShape
<1>8. run'[w].approved = run[w].approved => Heard' = Heard
  BY <1>5, SeenShape
<1> QED  BY <1>2, <1>5, <1>6, <1>7, <1>8

\* Steps that no session shows: the run reads, or chooses where to go.
LEMMA WorkerUnseen ==
    ASSUME TypeInv, TimelineInv, NEW w \in Workers,
           \/ Begin(w) \/ BuildPlan(w) \/ Examine(w) \/ Require(w) \/ Snapshot(w)
           \/ IterationRaises(w) \/ EndIteration(w) \/ Select(w)
    PROVE  /\ ~Release(w) /\ ~(\E id \in InstanceIds : ReadDecision(w, id))
           /\ StageOf(w)' = StageOf(w)
           /\ UNCHANGED <<status, invoked, history>>
<1>1. /\ pc \in [Threads -> ClientPCs \cup WorkerPCs] /\ w \in Threads /\ w \notin Clients
      /\ run \in [Workers -> RunLocals] /\ run[w] \in RunLocals
  BY ThreadsAssumption DEF TypeInv, TypeOK, Threads
<1>2. pc[w] \in BeforeSelect /\ pc[w] \notin {"run", "raise", "release"} /\ run[w].actions = <<>>
  BY DEF Begin, BuildPlan, Examine, Require, Snapshot, IterationRaises, EndIteration, Select,
         BeforeSelect, TimelineInv, ActionsFollow
<1>3. pc'[w] \notin {"run", "release"} /\ (pc'[w] = "raise" => run'[w].actions = <<>>)
  <2>1. CASE Begin(w) \/ BuildPlan(w) \/ IterationRaises(w) \/ EndIteration(w)
    <3>1. run' = run
      BY <2>1 DEF Begin, BuildPlan, IterationRaises, EndIteration
    <3>2. pc'[w] \notin {"run", "release"}
      BY <1>1, <2>1 DEF Begin, BuildPlan, AfterPlan, IterationRaises, EndIteration, Goto
    <3> QED  BY <1>2, <3>1, <3>2
  <2>2. CASE Examine(w)
    <3>1. run[w].mode \in {"safe", "real"}
      BY <1>1 DEF RunLocals, Modes
    <3>2. Goto(w, "complete_empty") \/ Goto(w, "raise") \/ Goto(w, "require")
      BY <2>2, <3>1 DEF Examine
    <3>3. run' = run
      BY <2>2 DEF Examine
    <3> QED  BY <1>1, <1>2, <3>2, <3>3 DEF Goto
  <2>3. CASE Require(w) \/ Snapshot(w) \/ Select(w)
    BY <1>1, <2>3 DEF Require, Snapshot, Select, Goto
  <2> QED  BY <2>1, <2>2, <2>3
<1>4. StageOf(w) = "started" /\ StageOf(w)' = "started"
  BY <1>2, <1>3 DEF StageOf, Executing
<1>5. UNCHANGED <<status, invoked, history>>
  BY DEF Begin, BuildPlan, Examine, Require, Snapshot, IterationRaises, EndIteration, Select,
         session, ghosts
<1>6. pc[w] = "iterate" => IterationRaises(w) \/ EndIteration(w)
  BY DEF Begin, BuildPlan, Examine, Require, Snapshot, Select
<1>7. ~(\E id \in InstanceIds : ReadDecision(w, id))
  BY <1>1, <1>6 DEF ReadDecision, IterationRaises, EndIteration, Goto
<1> QED  BY <1>2, <1>4, <1>5, <1>7 DEF Release

\* RunAction and RunRaises call at most one handler, of an action that the run has
\* found approved.
LEMMA RunCalls ==
    ASSUME TypeInv, ApprovalInv, TimelineInv, NEW w \in Workers, RunAction(w) \/ RunRaises(w)
    PROVE  /\ ~Release(w) /\ UNCHANGED <<status, history>>
           /\ StageOf(w) = "executing" /\ StageOf(w)' = StageOf(w)
           /\ run'[w].approved = run[w].approved
           /\ \/ invoked' = invoked
              \/ \E a \in SessionActions :
                    a.id \in run[w].approved /\ invoked' = invoked \cup {<<sid[w], a>>}
<1>1. /\ pc \in [Threads -> ClientPCs \cup WorkerPCs] /\ w \in Threads /\ w \notin Clients
      /\ run \in [Workers -> RunLocals] /\ run[w] \in RunLocals
  BY ThreadsAssumption DEF TypeInv, TypeOK, Threads
<1>2. pc[w] = "run" /\ run[w].actions # <<>>
  BY DEF RunAction, RunRaises, TimelineInv, ActionsFollow
<1>3. \A i \in run[w].todo : run[w].actions[i] \in SessionActions /\ run[w].actions[i].id \in run[w].approved
  BY <1>1 DEF ApprovalInv, TodoApproved, RunLocals
<1>4. sid' = sid /\ status' = status /\ history' = history
  BY DEF RunAction, RunRaises, session
<1>5. CASE RunAction(w)
  <2>1. PICK i \in run[w].todo : \E o \in RealOutcomes(run[w].actions[i]) : Iterate(w, i, o)
    BY <1>5 DEF RunAction
  <2>2. PICK o \in RealOutcomes(run[w].actions[i]) : Iterate(w, i, o)
    BY <2>1
  <2>3. run'[w].approved = run[w].approved
    BY <1>1, <2>2 DEF Iterate, Locals, RunLocals
  <2>4. invoked' = invoked \/ invoked' = invoked \cup {<<sid[w], run[w].actions[i]>>}
    BY <2>2 DEF Iterate
  <2>5. pc' = pc
    BY <1>5 DEF RunAction
  <2> QED  BY <1>2, <1>3, <1>4, <2>3, <2>4, <2>5 DEF StageOf, Executing, Release
<1>6. CASE RunRaises(w)
  <2>1. pc'[w] = "raise" /\ run' = run
    BY <1>1, <1>6 DEF RunRaises, Goto
  <2>2. \/ invoked' = invoked
        \/ \E i \in run[w].todo : invoked' = invoked \cup {<<sid[w], run[w].actions[i]>>}
    BY <1>6 DEF RunRaises
  <2> QED  BY <1>2, <1>3, <1>4, <2>1, <2>2 DEF StageOf, Executing, Release
<1> QED  BY <1>5, <1>6

\* The evidence of a run: what it claims done was called, and a run that completes
\* admits no failure.
LEMMA FinishTells ==
    ASSUME TypeInv, EvidenceInv, ContractInv, NEW w \in Workers, Finish(w), NEW s \in Sessions, s = sid[w]
    PROVE  /\ history' = [history EXCEPT ![s] = history'[s]]
           /\ DOMAIN history[s] \subseteq DOMAIN history'[s]
           /\ \A i \in DOMAIN history[s] : history'[s][i] = history[s][i]
           /\ \A i \in DOMAIN history'[s] \ DOMAIN history[s] :
                 /\ history'[s][i].ok => \E x \in invoked : x[1] = s /\ x[2].id = history'[s][i].id
                 /\ status'[s] = "completed" => history'[s][i].ok
           /\ \/ status' = [status EXCEPT ![s] = "completed"] /\ status'[s] = "completed"
              \/ status' = [status EXCEPT ![s] = "failed"]
<1> DEFINE a == history[s]
           b == run[w].items
           c == history'[s]
<1>1. /\ history' = [history EXCEPT ![s] = a \o b] /\ c = a \o b
      /\ a \in Seq(Evidence) /\ b \in Seq(Evidence)
  BY DEF Finish, TypeInv, TypeOK, RunLocals
<1>2. \A i \in DOMAIN b : b[i].ok => Called(s, b[i].id)
  BY DEF EvidenceInv, CarriedIsTrue
<1>3. TargetedSuccess(run[w]) => \A i \in DOMAIN b : b[i].ok
  BY DEF TargetedSuccess, ContractInv, FailuresShow, AllDone, AllClaimed
<1>4. status' = [status EXCEPT ![s] = IF TargetedSuccess(run[w]) THEN "completed" ELSE "failed"]
  BY DEF Finish, FinalStatus
<1>5. status'[s] = IF TargetedSuccess(run[w]) THEN "completed" ELSE "failed"
  BY <1>4 DEF TypeInv, TypeOK
<1>6. history' = [history EXCEPT ![s] = c]
  BY <1>1
<1> HIDE DEF a, b, c
<1>7. /\ DOMAIN a = 1..Len(a) /\ DOMAIN b = 1..Len(b) /\ Len(a) \in Nat /\ Len(b) \in Nat
      /\ DOMAIN c = 1..(Len(a) + Len(b))
      /\ \A i \in 1..(Len(a) + Len(b)) : c[i] = IF i <= Len(a) THEN a[i] ELSE b[i - Len(a)]
  BY <1>1, ConcatProperties, LenProperties
<1>8. DOMAIN a \subseteq DOMAIN c /\ \A i \in DOMAIN a : c[i] = a[i]
  BY <1>7
<1>9. \A i \in DOMAIN c \ DOMAIN a : \E j \in DOMAIN b : c[i] = b[j]
  <2> SUFFICES ASSUME NEW i \in DOMAIN c \ DOMAIN a
               PROVE  \E j \in DOMAIN b : c[i] = b[j]
    OBVIOUS
  <2>1. i - Len(a) \in DOMAIN b /\ c[i] = b[i - Len(a)]
    BY <1>7
  <2> QED  BY <2>1
<1>10. \A i \in DOMAIN c \ DOMAIN a :
          /\ c[i].ok => Called(s, c[i].id)
          /\ status'[s] = "completed" => c[i].ok
  BY <1>2, <1>3, <1>5, <1>9
<1>11. \/ status' = [status EXCEPT ![s] = "completed"] /\ status'[s] = "completed"
       \/ status' = [status EXCEPT ![s] = "failed"]
  BY <1>4, <1>5
<1>12. /\ DOMAIN history[s] \subseteq DOMAIN history'[s]
       /\ \A i \in DOMAIN history[s] : history'[s][i] = history[s][i]
  BY <1>8 DEF a, c
<1>13. \A i \in DOMAIN history'[s] \ DOMAIN history[s] :
          /\ history'[s][i].ok => \E x \in invoked : x[1] = s /\ x[2].id = history'[s][i].id
          /\ status'[s] = "completed" => history'[s][i].ok
  BY <1>10 DEF a, c, Called
<1>14. history' = [history EXCEPT ![s] = history'[s]]
  BY <1>6 DEF c
<1> QED  BY <1>11, <1>12, <1>13, <1>14, Zenon

LEMMA WorkerKeeps ==
    ASSUME TypeInv, ApprovalInv, EvidenceInv, TimelineInv, ContractInv,
           OneRunPerSession, OneRunPerSession', NEW w \in Workers, WorkerStep(w)
    PROVE  Keeps
<1>0. PICK s \in Sessions : s = sid[w]
  BY DEF TypeInv, TypeOK, Threads
<1>1. /\ pc \in [Threads -> ClientPCs \cup WorkerPCs] /\ w \in Threads /\ w \notin Clients
      /\ run \in [Workers -> RunLocals] /\ run[w] \in RunLocals
  BY ThreadsAssumption DEF TypeInv, TypeOK, Threads
<1>2. Standing' = Standing /\ Cancels' = Cancels
  <2>1. sid' = sid /\ approval' = approval
    BY WorkerEffect DEF TypeInv
  <2>2. \A c \in Clients : pc'[c] = pc[c]
    BY <1>1, ThreadsAssumption
    DEF WorkerStep, Begin, BuildPlan, BuildFails, AfterPlan, Examine, CompleteEmpty, Require,
        Snapshot, ReadDecision, IterationRaises, EndIteration, Await, ApprovalRequired, Select,
        Launch, RunAction, RunRaises, Finish, Raise, Release, Goto, Threads
  <2> QED  BY <2>1, <2>2, StandingKept, CancelsKept
<1>3. ASSUME ~Release(w)
      PROVE  /\ Stage[s] = StageOf(w) /\ Heard[s] = run[w].approved
             /\ s \in RealRuns <=> run[w].mode = "real"
             /\ RealRuns' = RealRuns
             /\ Stage' = [Stage EXCEPT ![s] = StageOf(w)']
             /\ Heard' = [Heard EXCEPT ![s] = run'[w].approved]
             /\ StageOf(w)' = StageOf(w) => Stage' = Stage
             /\ run'[w].approved = run[w].approved => Heard' = Heard
  BY <1>0, <1>3, WorkerGoesOn
<1>4. CASE \/ Begin(w) \/ BuildPlan(w) \/ Examine(w) \/ Require(w) \/ Snapshot(w)
           \/ IterationRaises(w) \/ EndIteration(w) \/ Select(w)
  <2>1. /\ ~Release(w) /\ ~(\E id \in InstanceIds : ReadDecision(w, id))
        /\ StageOf(w)' = StageOf(w)
        /\ UNCHANGED <<status, invoked, history>>
    BY <1>4, WorkerUnseen
  <2>2. run'[w].approved = run[w].approved
    BY <2>1, LocalsKept
  <2> QED  BY <1>2, <1>3, <2>1, <2>2 DEF Keeps, Unseen
<1>5. CASE BuildFails(w)
  <2>1. /\ pc[w] = "build" /\ pc'[w] = "release" /\ run' = run
        /\ UNCHANGED <<status, invoked, history>>
    BY <1>1, <1>5 DEF BuildFails, AfterPlan, Goto, ghosts
  <2>2. ~Release(w) /\ StageOf(w) = "started" /\ StageOf(w)' = "ended"
    BY <2>1 DEF Release, StageOf, Executing
  <2>3. Promise!Block(s)
    BY <1>2, <1>3, <2>1, <2>2 DEF Promise!Block, Promise!Enters
  <2> QED  BY <2>3, StepKeeps DEF Promise!SessionStep
<1>6. ASSUME NEW id \in InstanceIds, ReadDecision(w, id)
      PROVE  Keeps
  <2>1. /\ pc[w] = "iterate" /\ pc' = pc /\ UNCHANGED <<status, invoked, history>> /\ run[w].mode = "real"
    BY <1>6 DEF ReadDecision, session, ghosts, ContractInv, OnlyRealGoOn, RealPCs
  <2>2. ~Release(w) /\ StageOf(w) = "started" /\ StageOf(w)' = StageOf(w)
    BY <2>1 DEF Release, StageOf, Executing
  <2>3. run'[w].approved = IF approval[s][id] = "approved" THEN run[w].approved \cup {id}
                           ELSE run[w].approved
    BY <1>0, <1>1, <1>6 DEF ReadDecision, Locals, RunLocals, CountsAsApproved
  <2>4. CASE approval[s][id] = "approved"
    <3>1. id \in Standing[s]
      BY <2>4 DEF Standing
    <3>2. Heard' = [Heard EXCEPT ![s] = Heard[s] \cup {id}]
      BY <1>3, <2>2, <2>3, <2>4
    <3>3. Promise!Hear(s)
      BY <1>2, <1>3, <2>1, <2>2, <3>1, <3>2 DEF Promise!Hear
    <3> QED  BY <3>3, StepKeeps DEF Promise!SessionStep
  <2>5. CASE approval[s][id] # "approved"
    BY <1>2, <1>3, <2>1, <2>2, <2>3, <2>5 DEF Keeps, Unseen
  <2> QED  BY <2>4, <2>5
<1>7. CASE Await(w) \/ ApprovalRequired(w)
  <2>1. /\ pc[w] \in {"await", "approval_required"} /\ pc'[w] \in {"approval_required", "release"}
        /\ run' = run /\ run[w].mode = "real" /\ UNCHANGED <<invoked, history>>
        /\ status' = [status EXCEPT ![s] = "awaiting_approval"]
    BY <1>0, <1>1, <1>7 DEF Await, ApprovalRequired, Goto, ghosts, ContractInv, OnlyRealGoOn, RealPCs
  <2>2. /\ ~Release(w) /\ StageOf(w) = "started"
        /\ StageOf(w)' \in {"started", "ended"}
    BY <2>1 DEF Release, StageOf, Executing
  <2>3. Promise!Await(s)
    BY <1>2, <1>3, <2>1, <2>2 DEF Promise!Await, Promise!Enters, Promise!Shows
  <2> QED  BY <2>3, StepKeeps DEF Promise!SessionStep
<1>8. CASE CompleteEmpty(w) \/ (Launch(w) /\ run[w].todo = {})
  <2>1. /\ pc[w] \in {"complete_empty", "launch"} /\ pc'[w] = "release"
        /\ run' = run /\ UNCHANGED <<invoked, history>>
        /\ status' = [status EXCEPT ![s] = "completed"]
    BY <1>0, <1>1, <1>8 DEF CompleteEmpty, Launch, Goto, ghosts
  <2>2. ~Release(w) /\ StageOf(w) = "started" /\ StageOf(w)' = "ended"
    BY <2>1 DEF Release, StageOf, Executing
  <2>3. Promise!CompleteEmpty(s)
    BY <1>2, <1>3, <2>1, <2>2 DEF Promise!CompleteEmpty, Promise!Enters, Promise!Shows
  <2> QED  BY <2>3, StepKeeps DEF Promise!SessionStep
<1>9. CASE Launch(w) /\ run[w].todo # {}
  <2>1. /\ pc[w] = "launch" /\ pc'[w] = "run" /\ run' = run /\ run[w].mode = "real"
        /\ UNCHANGED <<invoked, history>> /\ status' = [status EXCEPT ![s] = "executing"]
    BY <1>0, <1>1, <1>9 DEF Launch, Goto, ghosts, ContractInv, OnlyRealGoOn, RealPCs
  <2>2. ~Release(w) /\ StageOf(w) = "started" /\ StageOf(w)' = "executing"
    BY <1>0, <2>1, WorkerEffect DEF Release, StageOf, Executing, TypeInv
  <2>3. run[w].approved # {}
    BY <1>9 DEF ApprovalInv, TodoApproved
  <2>4. Promise!Execute(s)
    BY <1>2, <1>3, <2>1, <2>2, <2>3 DEF Promise!Execute, Promise!Enters, Promise!Shows
  <2> QED  BY <2>4, StepKeeps DEF Promise!SessionStep
<1>10. CASE RunAction(w) \/ RunRaises(w)
  <2>1. /\ ~Release(w) /\ UNCHANGED <<status, history>>
        /\ StageOf(w) = "executing" /\ StageOf(w)' = StageOf(w)
        /\ run'[w].approved = run[w].approved
        /\ \/ invoked' = invoked
           \/ \E a \in SessionActions : a.id \in run[w].approved /\ invoked' = invoked \cup {<<s, a>>}
    BY <1>0, <1>10, RunCalls
  <2>2. CASE invoked' = invoked
    BY <1>2, <1>3, <2>1, <2>2 DEF Keeps, Unseen
  <2>3. CASE \E a \in SessionActions : a.id \in run[w].approved /\ invoked' = invoked \cup {<<s, a>>}
    <3>1. Promise!Call(s)
      BY <1>2, <1>3, <2>1, <2>3 DEF Promise!Call, Promise!runs
    <3> QED  BY <3>1, StepKeeps DEF Promise!SessionStep
  <2> QED  BY <2>1, <2>2, <2>3
<1>11. CASE Finish(w)
  <2>1. pc[w] = "run" /\ pc'[w] = "release" /\ run' = run /\ invoked' = invoked
    BY <1>1, <1>11 DEF Finish, Goto, ghosts
  <2>2. ~Release(w) /\ StageOf(w) = "executing" /\ StageOf(w)' = "ended"
    BY <2>1 DEF Release, StageOf, Executing
  <2> DEFINE new == DOMAIN history'[s] \ DOMAIN history[s]
  <2>3. /\ history' = [history EXCEPT ![s] = history'[s]]
        /\ DOMAIN history[s] \subseteq DOMAIN history'[s]
        /\ \A i \in DOMAIN history[s] : history'[s][i] = history[s][i]
        /\ \A i \in new :
              /\ history'[s][i].ok => \E x \in invoked : x[1] = s /\ x[2].id = history'[s][i].id
              /\ status'[s] = "completed" => history'[s][i].ok
        /\ \/ status' = [status EXCEPT ![s] = "completed"] /\ status'[s] = "completed"
           \/ status' = [status EXCEPT ![s] = "failed"]
    BY <1>0, <1>11, FinishTells, Zenon
  <2>4. /\ Stage[s] = "executing" /\ Promise!Enters(s, "ended")
        /\ UNCHANGED <<Standing, RealRuns, Heard, invoked, Cancels>>
    BY <1>2, <1>3, <2>1, <2>2 DEF Promise!Enters
  <2>5. \/ Promise!Shows(s, "completed") /\ \A i \in new : history'[s][i].ok
        \/ Promise!Shows(s, "failed")
    BY <2>3 DEF Promise!Shows
  <2>6. \A i \in new : history'[s][i].ok => \E x \in invoked : x[1] = s /\ x[2].id = history'[s][i].id
    BY <2>3
  <2>7. Promise!Finish(s)
    BY <2>3, <2>4, <2>5, <2>6, Zenon DEF Promise!Finish
  <2> QED  BY <2>7, StepKeeps DEF Promise!SessionStep
<1>12. CASE Raise(w)
  <2>1. /\ pc[w] = "raise" /\ pc'[w] = "release" /\ run' = run /\ UNCHANGED <<invoked, history>>
        /\ status' = [status EXCEPT ![s] = "failed"]
    BY <1>0, <1>1, <1>12 DEF Raise, Goto, ghosts
  <2>2. ~Release(w) /\ StageOf(w) \in {"started", "executing"} /\ StageOf(w)' = "ended"
    BY <2>1 DEF Release, StageOf, Executing
  <2>3. Promise!Fail(s)
    BY <1>2, <1>3, <2>1, <2>2 DEF Promise!Fail, Promise!Enters, Promise!Shows
  <2> QED  BY <2>3, StepKeeps DEF Promise!SessionStep
<1>13. CASE Release(w)
  <2>1. pc[w] = "release" /\ pc'[w] = "idle" /\ UNCHANGED <<status, invoked, history>>
    BY <1>1, <1>13 DEF Release, Goto, ghosts
  <2>2. LET z == sid[w]
        IN  /\ Stage[z] = StageOf(w)
            /\ Stage' = [Stage EXCEPT ![z] = IF pc'[w] = "idle" THEN "none" ELSE StageOf(w)']
            /\ Heard' = [Heard EXCEPT ![z] = IF pc'[w] = "idle" THEN {} ELSE run'[w].approved]
            /\ RealRuns' = IF pc'[w] # "idle" /\ run'[w].mode = "real" THEN RealRuns \cup {z}
                           ELSE RealRuns \ {z}
    BY WorkerSeen, Zenon
  <2>3. Promise!Leave(s)
    BY <1>0, <1>2, <2>1, <2>2 DEF Promise!Leave, Promise!Enters, StageOf
  <2> QED  BY <2>3, StepKeeps DEF Promise!SessionStep
<1> QED  BY <1>4, <1>5, <1>6, <1>7, <1>8, <1>9, <1>10, <1>11, <1>12, <1>13 DEF WorkerStep

LEMMA InitSeen == Init => Promise!Init
<1> SUFFICES ASSUME Init PROVE Promise!Init
  OBVIOUS
<1>1. \A t \in Threads : pc[t] = "idle"
  BY DEF Init
<1>2. \A s \in Sessions : Runners(s) = {}
  BY <1>1 DEF Runners, Threads
<1>3. Stage = [s \in Sessions |-> "none"] /\ Heard = [s \in Sessions |-> {}] /\ RealRuns = {}
  BY <1>2 DEF Stage, Heard, RealRuns
<1>4. Cancels = {}
  BY <1>1 DEF Cancels, Threads
<1>5. Standing = [s \in Sessions |-> {}]
  BY DEF Init, Standing, Undecided
<1> QED  BY <1>3, <1>4, <1>5 DEF Init, Promise!Init

LEMMA StillSeen == ASSUME UNCHANGED vars PROVE Unseen
<1>1. \A s \in Sessions : SameRun(s)
  BY DEF vars, session, SameRun, SameHold, Runners, StageOf, Executing, ModeOf, HeardBy
<1>2. Stage' = Stage /\ Heard' = Heard /\ RealRuns' = RealRuns
  BY <1>1, RunsSeen
<1>3. Standing' = Standing /\ Cancels' = Cancels
  BY StandingKept, CancelsKept DEF vars, session
<1> QED  BY <1>2, <1>3 DEF Unseen, vars, session, ghosts

\* The service keeps the contract, whatever its sessions, its threads, its plans and
\* its requests are: a session is seen through the one thread that holds its run.
THEOREM ServiceKeepsContract == Spec => ImplementsContract
<1>1. Init => ContractInv
  BY InitContract
<1>2. TypeInv /\ ApprovalInv /\ ContractInv /\ [Next]_vars => ContractInv'
  BY ContractStep
<1>3. Init => EvidenceInv
  BY InitEvidence
<1>4. TypeInv /\ ApprovalInv /\ EvidenceInv /\ [Next]_vars => EvidenceInv'
  BY EvidenceStep
<1>5. Init => TimelineInv
  BY InitTimeline
<1>6. TypeInv /\ ApprovalInv /\ OneRunPerSession /\ TimelineInv /\ [Next]_vars => TimelineInv'
  BY TimelineStep
<1>7. Init => Promise!Init
  BY InitSeen
<1>8. /\ TypeInv /\ ApprovalInv /\ EvidenceInv /\ TimelineInv /\ ContractInv
      /\ OneRunPerSession /\ OneRunPerSession' /\ [Next]_vars
      => [Promise!Next]_(Promise!vars)
  <2> SUFFICES ASSUME TypeInv, ApprovalInv, EvidenceInv, TimelineInv, ContractInv,
                      OneRunPerSession, OneRunPerSession', [Next]_vars
               PROVE  Promise!Next \/ UNCHANGED Promise!vars
    OBVIOUS
  <2>1. Keeps => Promise!Next \/ UNCHANGED Promise!vars
    BY DEF Keeps, Unseen, Promise!vars, Promise!runs
  <2>2. CASE UNCHANGED vars
    BY <2>1, <2>2, StillSeen DEF Keeps
  <2> QED  BY <2>1, <2>2, RequestKeeps, ClientKeeps, WorkerKeeps DEF Next
<1> QED  BY <1>1, <1>2, <1>3, <1>4, <1>5, <1>6, <1>7, <1>8, ApprovalInvariant, OneRunAtATime, PTL
         DEF Spec, ImplementsContract, Promise!Spec

-----------------------------------------------------------------------------
(* The end of a run                                                        *)

\* How far each point of start() is from the end, at most.
Ahead ==
    [begin |-> 11, build |-> 10, examine |-> 9, require |-> 8, snapshot |-> 7, iterate |-> 6,
     select |-> 5, launch |-> 4, run |-> 3, await |-> 3, approval_required |-> 2,
     complete_empty |-> 2, raise |-> 2, release |-> 1, idle |-> 0]

\* What is left of the run of a worker: the way ahead, the decisions to read and the
\* actions to run.
Left(w) == <<Ahead[pc[w]], Cardinality(run[w].unread), Cardinality(run[w].todo)>>

Natural3(x) == x[1] \in Nat /\ x[2] \in Nat /\ x[3] \in Nat

Shorter(x, y) ==
    \/ x[1] < y[1]
    \/ x[1] = y[1] /\ x[2] < y[2]
    \/ x[1] = y[1] /\ x[2] = y[2] /\ x[3] < y[3]

\* Every step of a run leaves less of it, and a step of another thread leaves it alone.
EveryRunUsesUp ==
    [][\A w \in Workers : pc[w] # "idle" =>
          \/ UNCHANGED <<pc[w], run[w]>>
          \/ Natural3(Left(w)') /\ Shorter(Left(w)', Left(w))]_vars

\* Only decisions that were taken have an entry, and they are finitely many.
FiniteInv ==
    /\ \A s \in Sessions : IsFiniteSet(DecidedIds(s))
    /\ \A w \in Workers : IsFiniteSet(run[w].unread)

LEMMA InitFinite == Init => FiniteInv
<1> SUFFICES ASSUME Init PROVE FiniteInv
  OBVIOUS
<1>1. \A s \in Sessions : DecidedIds(s) = {}
  BY DEF Init, DecidedIds, Undecided
<1>2. \A w \in Workers : run[w].unread = {}
  BY DEF Init, FreshRun
<1> QED  BY <1>1, <1>2, FS_EmptySet DEF FiniteInv

\* A request enters one decision at most.
LEMMA DecidedFinite ==
    ASSUME TypeOK, FiniteInv, NEW z \in Sessions, NEW id \in InstanceIds, NEW v,
           approval' = approval \/ approval' = [approval EXCEPT ![z][id] = v],
           NEW s \in Sessions
    PROVE  IsFiniteSet(DecidedIds(s))'
<1>1. DecidedIds(s)' \subseteq DecidedIds(s) \cup {id}
  <2> SUFFICES ASSUME NEW i \in InstanceIds, approval'[s][i] # Undecided, i # id
               PROVE  approval[s][i] # Undecided
    BY DEF DecidedIds
  <2>1. approval \in [Sessions -> [InstanceIds -> Marks]]
    BY DEF TypeOK
  <2>2. CASE approval' = [approval EXCEPT ![z][id] = v]
    BY <2>1, <2>2
  <2> QED  BY <2>2
<1>2. IsFiniteSet(DecidedIds(s) \cup {id})
  BY FS_AddElement DEF FiniteInv
<1> QED  BY <1>1, <1>2, FS_Subset

\* What a step leaves of the decisions to read.
LEMMA UnreadShrinks ==
    ASSUME TypeInv, NEW w \in Workers, WorkerStep(w)
    PROVE  run'[w].unread \subseteq run[w].unread \/ run'[w].unread = DecidedIds(sid[w])
<1>0. run \in [Workers -> RunLocals] /\ run[w] \in RunLocals
  BY DEF TypeInv, TypeOK
<1>1. CASE \/ Begin(w) \/ BuildPlan(w) \/ BuildFails(w) \/ Examine(w) \/ CompleteEmpty(w)
           \/ IterationRaises(w) \/ EndIteration(w) \/ Await(w) \/ ApprovalRequired(w)
           \/ Launch(w) \/ RunRaises(w) \/ Finish(w) \/ Raise(w)
  <2>1. run' = run
    BY <1>1 DEF Begin, BuildPlan, BuildFails, Examine, CompleteEmpty, IterationRaises,
                EndIteration, Await, ApprovalRequired, Launch, RunRaises, Finish, Raise
  <2> QED  BY <2>1
<1>2. CASE Require(w)
  <2> DEFINE p == plan[sid[w]]
             ids == {p[i].id : i \in {j \in DOMAIN p : SessionRequiresApproval(p[j])}}
  <2>1. run' = [run EXCEPT ![w] = [run[w] EXCEPT !.required = ids]]
    BY <1>2 DEF Require, Locals
  <2> HIDE DEF ids
  <2> QED  BY <1>0, <2>1 DEF RunLocals
<1>3. CASE Snapshot(w)
  <2> DEFINE ids == DecidedIds(sid[w])
  <2>1. run' = [run EXCEPT ![w] = [run[w] EXCEPT !.keys = ids, !.unread = ids]]
    BY <1>3 DEF Snapshot, Locals
  <2> HIDE DEF ids
  <2>2. run'[w].unread = ids
    BY <1>0, <2>1 DEF RunLocals
  <2> QED  BY <2>2 DEF ids
<1>4. ASSUME NEW id \in InstanceIds, ReadDecision(w, id)
      PROVE  run'[w].unread \subseteq run[w].unread
  BY <1>0, <1>4 DEF ReadDecision, Locals, RunLocals
<1>5. CASE Select(w)
  BY <1>0, <1>5 DEF Select, Locals, RunLocals
<1>6. CASE RunAction(w)
  <2>1. PICK i \in run[w].todo : \E o \in RealOutcomes(run[w].actions[i]) : Iterate(w, i, o)
    BY <1>6 DEF RunAction
  <2>2. PICK o \in RealOutcomes(run[w].actions[i]) : Iterate(w, i, o)
    BY <2>1
  <2> QED  BY <1>0, <2>2 DEF Iterate, Locals, RunLocals
<1>7. CASE Release(w)
  BY <1>0, <1>7 DEF Release, Locals, FreshRun
<1> QED  BY <1>1, <1>2, <1>3, <1>4, <1>5, <1>6, <1>7 DEF WorkerStep

LEMMA FiniteStep ==
    ASSUME TypeInv, FiniteInv, [Next]_vars
    PROVE  FiniteInv'
<1>0. ASSUME approval' = approval, \A w \in Workers : IsFiniteSet(run'[w].unread)
      PROVE  FiniteInv'
  BY <1>0 DEF FiniteInv, DecidedIds
<1>1. ASSUME NEW c \in Clients, NEW s \in Sessions, RequestStep(c, s)
      PROVE  FiniteInv'
  <2>1. approval' = approval /\ run' = run
    BY <1>1, RequestEffect DEF TypeInv
  <2> QED  BY <1>0, <2>1 DEF FiniteInv
<1>2. ASSUME NEW c \in Clients, ClientStep(c)
      PROVE  FiniteInv'
  <2>1. CASE Spawn(c)
    <3>1. approval' = approval
      BY <2>1 DEF Spawn, session
    <3>2. PICK w \in Workers :
            /\ \E m \in Modes : run'[w] = FreshRun(m)
            /\ \A u \in Workers \ {w} : run'[u] = run[u]
      BY <2>1, SpawnEffect DEF TypeInv
    <3>3. IsFiniteSet(run'[w].unread)
      BY <3>2, FS_EmptySet DEF FreshRun
    <3> QED  BY <1>0, <3>1, <3>2, <3>3 DEF FiniteInv
  <2>2. CASE ~Spawn(c)
    <3>1. run' = run /\ sid[c] \in Sessions
      BY <1>2, <2>2, ClientEffect DEF TypeInv, TypeOK, Threads
    <3>2. \/ approval' = approval
          \/ \E id \in InstanceIds, v \in Marks : approval' = [approval EXCEPT ![sid[c]][id] = v]
      <4>1. CASE Register(c)
        <5>1. request[c].id \in InstanceIds /\ "pending" \in Marks
          BY <4>1 DEF Register, TypeInv, RequestShape, Marks
        <5> QED  BY <4>1, <5>1 DEF Register
      <4>2. CASE Decide(c)
        <5>1. request[c].id \in InstanceIds /\ request[c].verdict \in Marks
          BY <4>2 DEF Decide, TypeInv, RequestShape, Marks
        <5> QED  BY <4>2, <5>1 DEF Decide
      <4>3. CASE RecordIntent(c) \/ Cancel(c) \/ BuildPlan(c) \/ BuildFails(c)
        BY <4>3 DEF RecordIntent, Cancel, BuildPlan, BuildFails
      <4> QED  BY <1>2, <2>2, <4>1, <4>2, <4>3 DEF ClientStep
    <3>3. CASE approval' = approval
      BY <1>0, <3>1, <3>3 DEF FiniteInv
    <3>4. ASSUME NEW id \in InstanceIds, NEW v, approval' = [approval EXCEPT ![sid[c]][id] = v]
          PROVE  FiniteInv'
      <4>1. \A s \in Sessions : IsFiniteSet(DecidedIds(s))'
        BY <3>1, <3>4, DecidedFinite DEF TypeInv
      <4> QED  BY <3>1, <4>1 DEF FiniteInv
    <3> QED  BY <3>2, <3>3, <3>4
  <2> QED  BY <2>1, <2>2
<1>3. ASSUME NEW w \in Workers, WorkerStep(w)
      PROVE  FiniteInv'
  <2>1. /\ approval' = approval /\ sid[w] \in Sessions
        /\ \A u \in Workers \ {w} : run'[u] = run[u]
    BY <1>3, WorkerEffect DEF TypeInv, TypeOK, Threads
  <2>2. IsFiniteSet(run[w].unread) /\ IsFiniteSet(DecidedIds(sid[w]))
    BY <2>1 DEF FiniteInv
  <2>3. IsFiniteSet(run'[w].unread)
    BY <1>3, <2>2, UnreadShrinks, FS_Subset
  <2> QED  BY <1>0, <2>1, <2>3 DEF FiniteInv
<1>4. CASE UNCHANGED vars
  BY <1>0, <1>4 DEF vars, session, FiniteInv
<1> QED  BY <1>1, <1>2, <1>3, <1>4 DEF Next

LEMMA TodoFinite ==
    ASSUME TypeInv, ApprovalInv, NEW w \in Workers
    PROVE  IsFiniteSet(run[w].todo)
<1>1. run[w].actions \in Seq(SessionActions)
  BY DEF TypeInv, TypeOK, RunLocals
<1>2. DOMAIN run[w].actions = 1..Len(run[w].actions) /\ Len(run[w].actions) \in Nat
  BY <1>1, LenProperties
<1>3. run[w].todo \subseteq 1..Len(run[w].actions)
  BY <1>2 DEF ApprovalInv, TodoApproved
<1>4. IsFiniteSet(1..Len(run[w].actions))
  BY <1>2, FS_Interval
<1> QED  BY <1>3, <1>4, FS_Subset

LEMMA LeftNatural ==
    ASSUME TypeInv, ApprovalInv, FiniteInv, NEW w \in Workers
    PROVE  Natural3(Left(w))
<1>1. pc[w] \in WorkerPCs
  BY DEF TypeInv, TypeOK
<1>2. Ahead[pc[w]] \in Nat
  BY <1>1 DEF Ahead, WorkerPCs
<1>3. Cardinality(run[w].unread) \in Nat
  BY FS_CardinalityType DEF FiniteInv
<1>4. Cardinality(run[w].todo) \in Nat
  BY TodoFinite, FS_CardinalityType
<1> QED  BY <1>2, <1>3, <1>4 DEF Natural3, Left

\* start() only goes forward, the two loops apart.
LEMMA GoesForward ==
    ASSUME TypeInv, NEW w \in Workers, WorkerStep(w), ~RunAction(w),
           ~(\E id \in InstanceIds : ReadDecision(w, id))
    PROVE  Ahead[pc'[w]] < Ahead[pc[w]]
<1>1. /\ pc \in [Threads -> ClientPCs \cup WorkerPCs] /\ w \in Threads /\ w \notin Clients
      /\ run[w].mode \in {"safe", "real"}
  BY ThreadsAssumption DEF TypeInv, TypeOK, Threads, RunLocals, Modes
<1>2. CASE Begin(w) \/ BuildPlan(w) \/ BuildFails(w)
  BY <1>1, <1>2 DEF Begin, BuildPlan, BuildFails, AfterPlan, Goto, Ahead
<1>3. CASE Examine(w)
  <2>1. pc[w] = "examine" /\ (Goto(w, "complete_empty") \/ Goto(w, "raise") \/ Goto(w, "require"))
    BY <1>1, <1>3 DEF Examine
  <2> QED  BY <1>1, <2>1 DEF Goto, Ahead
<1>4. CASE CompleteEmpty(w) \/ Require(w) \/ Snapshot(w) \/ IterationRaises(w) \/ EndIteration(w)
  <2>1. \/ pc[w] = "complete_empty" /\ pc'[w] = "release"
        \/ pc[w] = "require" /\ pc'[w] = "snapshot"
        \/ pc[w] = "snapshot" /\ pc'[w] = "iterate"
        \/ pc[w] = "iterate" /\ pc'[w] \in {"raise", "await", "select"}
    BY <1>1, <1>4 DEF CompleteEmpty, Require, Snapshot, IterationRaises, EndIteration, Goto
  <2> QED  BY <2>1 DEF Ahead
<1>5. CASE Await(w) \/ ApprovalRequired(w) \/ Select(w) \/ Launch(w)
  <2>1. \/ pc[w] = "await" /\ pc'[w] = "approval_required"
        \/ pc[w] = "approval_required" /\ pc'[w] = "release"
        \/ pc[w] = "select" /\ pc'[w] = "launch"
        \/ pc[w] = "launch" /\ pc'[w] \in {"release", "run"}
    BY <1>1, <1>5 DEF Await, ApprovalRequired, Select, Launch, Goto
  <2> QED  BY <2>1 DEF Ahead
<1>6. CASE RunRaises(w) \/ Finish(w) \/ Raise(w) \/ Release(w)
  <2>1. \/ pc[w] = "run" /\ pc'[w] \in {"raise", "release"}
        \/ pc[w] = "raise" /\ pc'[w] = "release"
        \/ pc[w] = "release" /\ pc'[w] = "idle"
    BY <1>1, <1>6 DEF RunRaises, Finish, Raise, Release, Goto
  <2> QED  BY <2>1 DEF Ahead
<1> QED  BY <1>2, <1>3, <1>4, <1>5, <1>6 DEF WorkerStep

LEMMA WorkerShortens ==
    ASSUME TypeInv, ApprovalInv, FiniteInv, NEW w \in Workers, WorkerStep(w)
    PROVE  Shorter(Left(w)', Left(w))
<1>0. run \in [Workers -> RunLocals] /\ run[w] \in RunLocals
  BY DEF TypeInv, TypeOK
<1>1. CASE ~RunAction(w) /\ ~(\E id \in InstanceIds : ReadDecision(w, id))
  BY <1>1, GoesForward DEF Shorter, Left
<1>2. ASSUME NEW id \in InstanceIds, ReadDecision(w, id)
      PROVE  Shorter(Left(w)', Left(w))
  <2>1. pc' = pc /\ id \in run[w].unread /\ run'[w].unread = run[w].unread \ {id}
    BY <1>0, <1>2 DEF ReadDecision, Locals, RunLocals
  <2>2. /\ Cardinality(run'[w].unread) = Cardinality(run[w].unread) - 1
        /\ Cardinality(run[w].unread) \in Nat
    BY <2>1, FS_RemoveElement, FS_CardinalityType DEF FiniteInv
  <2>3. Cardinality(run'[w].unread) < Cardinality(run[w].unread)
    BY <2>2
  <2> QED  BY <2>1, <2>3 DEF Shorter, Left
<1>3. CASE RunAction(w)
  <2>1. PICK i \in run[w].todo : \E o \in RealOutcomes(run[w].actions[i]) : Iterate(w, i, o)
    BY <1>3 DEF RunAction
  <2>2. PICK o \in RealOutcomes(run[w].actions[i]) : Iterate(w, i, o)
    BY <2>1
  <2>3. /\ run'[w].unread = run[w].unread
        /\ run'[w].todo \subseteq run[w].todo /\ i \notin run'[w].todo
    BY <1>0, <2>2 DEF Iterate, Locals, RunLocals
  <2>4. /\ Cardinality(run'[w].todo) <= Cardinality(run[w].todo)
        /\ Cardinality(run'[w].todo) # Cardinality(run[w].todo)
        /\ Cardinality(run'[w].todo) \in Nat /\ Cardinality(run[w].todo) \in Nat
    BY <2>1, <2>3, TodoFinite, FS_Subset, FS_CardinalityType
  <2>5. pc' = pc
    BY <1>3 DEF RunAction
  <2> QED  BY <2>3, <2>4, <2>5 DEF Shorter, Left
<1> QED  BY <1>1, <1>2, <1>3

\* Whatever other threads do meanwhile, a run only ever shortens, in the naturals: no
\* decision, plan or cancel of a request sends it back, so it ends, as long as its
\* thread keeps running.
THEOREM RunsAreBounded == Spec => EveryRunUsesUp
<1> DEFINE Natural == \A w \in Workers : Natural3(Left(w))
           Shortens == \A w \in Workers : pc[w] # "idle" =>
                          UNCHANGED <<pc[w], run[w]>> \/ Shorter(Left(w)', Left(w))
<1>1. TypeInv /\ ApprovalInv /\ FiniteInv => Natural
  BY LeftNatural
<1>2. TypeInv /\ ApprovalInv /\ FiniteInv /\ [Next]_vars => [Shortens]_vars
  <2> SUFFICES ASSUME TypeInv, ApprovalInv, FiniteInv, Next
               PROVE  Shortens
    OBVIOUS
  <2>1. ASSUME NEW c \in Clients, NEW s \in Sessions, RequestStep(c, s)
        PROVE  Shortens
    BY <2>1, RequestEffect DEF TypeInv
  <2>2. ASSUME NEW c \in Clients, ClientStep(c)
        PROVE  Shortens
    <3>1. CASE Spawn(c)
      <4>1. PICK w \in Workers :
              /\ pc[w] = "idle"
              /\ run' = [run EXCEPT ![w] = FreshRun(request[c].mode)]
              /\ pc' = [pc EXCEPT ![c] = "idle", ![w] = "begin"]
        BY <3>1 DEF Spawn
      <4>2. \A u \in Workers \ {w} : pc'[u] = pc[u] /\ run'[u] = run[u]
        BY <4>1, ThreadsAssumption DEF TypeInv, TypeOK, Threads
      <4> QED  BY <4>1, <4>2
    <3>2. CASE ~Spawn(c)
      BY <2>2, <3>2, ClientEffect DEF TypeInv
    <3> QED  BY <3>1, <3>2
  <2>3. ASSUME NEW w \in Workers, WorkerStep(w)
        PROVE  Shortens
    <3>1. \A u \in Workers \ {w} : pc'[u] = pc[u] /\ run'[u] = run[u]
      BY <2>3, WorkerEffect DEF TypeInv
    <3>2. Shorter(Left(w)', Left(w))
      BY <2>3, WorkerShortens
    <3> QED  BY <3>1, <3>2
  <2> QED  BY <2>1, <2>2, <2>3 DEF Next
<1>3. Natural' /\ [Shortens]_vars =>
        [\A w \in Workers : pc[w] # "idle" =>
            \/ UNCHANGED <<pc[w], run[w]>>
            \/ Natural3(Left(w)') /\ Shorter(Left(w)', Left(w))]_vars
  <2>1. Natural' => \A w \in Workers : Natural3(Left(w)')
    BY DEF Natural3, Left
  <2> QED  BY <2>1
<1>4. Spec => []FiniteInv
  BY InitFinite, FiniteStep, ApprovalInvariant, PTL DEF Spec
<1>5. Spec => []Natural
  BY <1>1, <1>4, ApprovalInvariant, PTL
<1> HIDE DEF Natural, Shortens
<1> QED  BY <1>2, <1>3, <1>4, <1>5, ApprovalInvariant, PTL DEF Spec, EveryRunUsesUp

=============================================================================
