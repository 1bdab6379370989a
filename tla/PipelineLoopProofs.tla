------------------------- MODULE PipelineLoopProofs -------------------------
(***************************************************************************)
(* Pipeline implements BootstrapLoop, for every set of plans and recovery  *)
(* plans a session may meet, and any number of attempts and replans: the   *)
(* abstraction on which SessionService is built.                           *)
(***************************************************************************)
EXTENDS PipelineProofs

Bootstrapped == plan[at]

\* A handler was called in the present iteration.
Called == \E x \in invoked : x.run = at

-----------------------------------------------------------------------------
(* The inductive invariant                                                 *)

InSession == mode = "real" /\ attended = TRUE /\ plan \in Seq(SessionActions)

\* An identifier that no policy knows is called without a provider, and refused by
\* the validator.
PlainCall ==
    call.phase = "plain" /\ pc \in Working =>
        /\ ~RequiresHumanApproval(Bootstrapped.id) /\ ~Called
        /\ call.current = <<Bootstrapped>> /\ pc \in {"call", "returned"}
        /\ call.results = <<>> /\ ~call.executed /\ ~call.unverified

\* The call that asks ends pending unless the validator refuses the action.
AskCall ==
    call.phase = "ask" /\ pc = "returned" => (call.pending <=> ActionAccepted(Bootstrapped))

\* The resumed call works on the action itself ...
OnAction ==
    /\ call.current = <<Bootstrapped>> /\ call.rejected = {}
    /\ \/ pc = "execute" /\ call.results = <<>> /\ ~call.pending /\ ~call.unverified
       \/ /\ Called
          /\ \E r \in HandlerResults(Bootstrapped, "real") :
                /\ call.results = <<r>>
                /\ call.unverified => r.status = "success"
                /\ pc \in {"execute", "verify"} => ~call.pending /\ ~call.unverified
                /\ pc = "recover" => ~call.pending
                /\ pc = "recover" \/ call.pending => r.status = "failed" \/ call.unverified

\* ... or on a recovery plan: none, or a remediation the gate denies in REAL mode.
OnRecovery ==
    /\ Called /\ ~call.pending /\ ~call.unverified /\ pc # "recover"
    /\ \/ call.current = <<>> /\ call.results = <<>>
       \/ /\ \E c \in Contexts : call.current = <<[id |-> ReplanId, context |-> c]>>
          /\ call.rejected = {}
          /\ \/ pc = "execute" /\ call.results = <<>>
             \/ call.results = <<[id |-> ReplanId, status |-> "failed", retryable |-> FALSE,
                                  replan |-> FALSE]>>

ResumedCall ==
    call.phase = "resume" /\ pc \in Working =>
        /\ RequiresHumanApproval(Bootstrapped.id) /\ ActionAccepted(Bootstrapped)
        /\ call.given \in DOMAIN store
        /\ store[call.given] = [id |-> Bootstrapped.id, plan |-> <<Bootstrapped>>, run |-> at,
                                status |-> "approved"]
        /\ pc = "call" => /\ call.current = <<Bootstrapped>> /\ call.results = <<>>
                          /\ ~call.executed /\ ~call.unverified /\ ~call.pending
        /\ pc # "call" => call.executed /\ (OnAction \/ OnRecovery)

SessionInv == InSession /\ PlainCall /\ AskCall /\ ResumedCall

\* All that is known of a state of the machinery.
Known == TypeInv /\ LoopInv /\ ConsentInv /\ SessionInv

-----------------------------------------------------------------------------
(* The actions of a session                                                *)

LEMMA SessionAction ==
    ASSUME NEW a \in SessionActions
    PROVE  /\ a \in Actions /\ a.id.subject # Bare
           /\ ActionAccepted(a) => RequiresHumanApproval(a.id)
           /\ RequiresHumanApproval(a.id) =>
                 /\ HasHandler(a.id.name, "real")
                 /\ GateAllows(ExecutorId(a), "real", TRUE)
           /\ Valid(<<a>>) <=> ActionAccepted(a)
<1>1. /\ a.id.name \in BuilderNames /\ a.id.subject \in Subjects /\ a.context \in Contexts
      /\ a = [id |-> a.id, context |-> a.context]
      /\ a.id = [name |-> a.id.name, subject |-> a.id.subject]
  BY DEF SessionActions, InstanceIds
<1>2. a.id.subject # Bare
  BY <1>1, SubjectsAssumption
<1>3. a \in Actions
  <2>1. a.id.name \in CanonicalNames
    BY <1>1 DEF BuilderNames, CanonicalNames
  <2>2. a.id \in ActionIds
    BY <1>1, <2>1 DEF ActionIds
  <2> QED  BY <1>1, <2>2 DEF Actions
<1>4. ActionAccepted(a) => a.id.name = "install_python_package"
  BY <1>2 DEF ActionAccepted, ValidatorCanonical
<1>5. RequiresHumanApproval(a.id) <=> a.id.name = "install_python_package"
  BY <1>2 DEF RequiresHumanApproval, HasPolicy, GateCanonical, Canonical, HumanApprovalNames
<1>6. a.id.name = "install_python_package" =>
         HasHandler(a.id.name, "real") /\ GateAllows(ExecutorId(a), "real", TRUE)
  BY DEF HasHandler, RealHandlerNames, GateAllows, ExecutorId, Canonical, HasPolicy,
         GateCanonical, SafeOnlyNames
<1>7. Valid(<<a>>) <=> ActionAccepted(a)
  BY DEF Valid
<1> QED  BY <1>2, <1>3, <1>4, <1>5, <1>6, <1>7

LEMMA RemediationDenied ==
    /\ ~RequiresHumanApproval(ReplanId)
    /\ \A a \in Actions, ok \in BOOLEAN :
          a.id = ReplanId => ~GateAllows(ExecutorId(a), "real", ok)
<1>1. ReplanId.name = "fix_venv"
  BY DEF ReplanId, Canonical
<1>2. ~RequiresHumanApproval(ReplanId)
  BY <1>1 DEF RequiresHumanApproval, HumanApprovalNames
<1>3. \A a \in Actions, ok \in BOOLEAN :
         a.id = ReplanId => ~GateAllows(ExecutorId(a), "real", ok)
  BY <1>1 DEF GateAllows, ExecutorId, Canonical, SafeOnlyNames
<1> QED  BY <1>2, <1>3

LEMMA AtSession ==
    ASSUME TypeInv, InSession, pc \in Working
    PROVE  Bootstrapped \in SessionActions /\ at \in DOMAIN plan
<1>1. at \in DOMAIN plan /\ plan \in Seq(SessionActions)
  BY DEF TypeInv, AtWork, InSession
<1>2. at \in 1..Len(plan)
  BY <1>1
<1> QED  BY <1>1, <1>2, ElementOfSeq DEF Bootstrapped

\* The resumed call has its approval already, for the action itself ...
LEMMA ResumeAsksNothing ==
    ASSUME call.phase = "resume", call.current = <<Bootstrapped>>,
           call.given \in DOMAIN store, call.given # 0,
           store[call.given] = [id |-> Bootstrapped.id, plan |-> <<Bootstrapped>>, run |-> at,
                                status |-> "approved"]
    PROVE  AskedBy(call, call.current) = {} /\ RejectedBy(call, call.current) = {}
<1>1. NeedApproval(call.current) \subseteq {1}
  BY DEF NeedApproval
<1>2. \A i \in NeedApproval(call.current) : i \in Claims(call, call.current)
  BY <1>1 DEF Claims, Bootstrapped
<1>3. \A i \in Claims(call, call.current) : Matches(store[call.given], call.current, i)
  BY <1>1 DEF Claims, Matches, Bootstrapped
<1>4. store[call.given].status # "rejected"
  OBVIOUS
<1> QED  BY <1>2, <1>3, <1>4 DEF AskedBy, RejectedBy, HasProvider

\* ... and asks for one of a recovery plan that needs it.
LEMMA RecoveryAsks ==
    ASSUME SessionCallers, TypeInv, InSession, pc = "recover", call.phase = "resume",
           NEW p \in Candidates, Valid(p), AskedBy(call, p) = {}
    PROVE  /\ \/ p = <<>>
              \/ \E c \in Contexts : p = <<[id |-> ReplanId, context |-> c]>>
           /\ RejectedBy(call, p) = {}
<1>1. p \in Seq(Actions)
  BY PlansAreSequences
<1>2. Bootstrapped \in SessionActions
  BY AtSession DEF Working
<1>3. ~ \E i \in DOMAIN p : RequiresHumanApproval(p[i].id) /\ p[i].id.subject = Bare
  <2>1. SUFFICES ASSUME NEW i \in DOMAIN p, RequiresHumanApproval(p[i].id),
                        p[i].id.subject = Bare
                 PROVE  FALSE
    OBVIOUS
  <2>2. p[i].id # Bootstrapped.id
    BY <1>2, <2>1, SessionAction
  <2>3. i \in NeedApproval(p) /\ i \notin Claims(call, p)
    BY <2>1, <2>2 DEF NeedApproval, Claims, Bootstrapped
  <2>4. HasProvider(call)
    BY DEF HasProvider
  <2>5. i \in AskedBy(call, p)
    BY <2>3, <2>4, Zenon DEF AskedBy
  <2> QED  BY <2>5
<1>4. p = <<>> \/ (Len(p) = 1 /\ p[1].id = ReplanId)
  BY <1>3 DEF SessionCallers
<1>5. CASE p = <<>>
  BY <1>5 DEF RejectedBy, Claims, NeedApproval
<1>6. CASE Len(p) = 1 /\ p[1].id = ReplanId
  <2>1. p[1] \in Actions /\ p = <<p[1]>>
    BY <1>1, <1>6
  <2>2. p[1].context \in Contexts /\ p[1] = [id |-> ReplanId, context |-> p[1].context]
    BY <1>6, <2>1 DEF Actions
  <2>3. NeedApproval(p) = {}
    BY <1>6, <2>1, RemediationDenied DEF NeedApproval
  <2> QED  BY <2>1, <2>2, <2>3 DEF RejectedBy, Claims
<1> QED  BY <1>4, <1>5, <1>6

\* What a real handler of the action reports.
LEMMA ReportedResult ==
    ASSUME NEW a \in SessionActions, RequiresHumanApproval(a.id),
           NEW r \in HandlerResults(a, "real")
    PROVE  /\ r.id = a.id /\ r.status \in {"success", "failed"}
           /\ r.status = "success" => ~r.replan
<1>1. HasHandler(a.id.name, "real")
  BY SessionAction
<1>2. \/ r = Result(a, "success", FALSE, FALSE)
      \/ r \in [id : {a.id}, status : {"failed"}, retryable : BOOLEAN, replan : BOOLEAN]
  BY <1>1 DEF HandlerResults
<1>3. CASE r = Result(a, "success", FALSE, FALSE)
  BY <1>3 DEF Result
<1>4. CASE r \in [id : {a.id}, status : {"failed"}, retryable : BOOLEAN, replan : BOOLEAN]
  BY <1>4
<1> QED  BY <1>2, <1>3, <1>4

\* A step out of the iteration keeps what is said of it.
LEMMA SessionLeaves ==
    ASSUME pc' \notin Working
    PROVE  PlainCall' /\ AskCall' /\ ResumedCall'
BY DEF PlainCall, AskCall, ResumedCall, Working

LEMMA InitSession == SessionCallers /\ Init => SessionInv
<1> SUFFICES ASSUME SessionCallers, Init  PROVE SessionInv
  OBVIOUS
<1>1. InSession
  BY DEF SessionCallers, Init, InSession
<1>2. pc \notin Working
  BY DEF Init, Working
<1> QED  BY <1>1, <1>2 DEF SessionInv, PlainCall, AskCall, ResumedCall, Working

-----------------------------------------------------------------------------
(* The steps of a call                                                     *)

\* Only the resumed call gets to the executor.
LEMMA ExecutorResumes ==
    ASSUME Known, pc \in {"execute", "verify", "recover"}
    PROVE  /\ call.phase = "resume" /\ call.executed /\ (OnAction \/ OnRecovery)
           /\ RequiresHumanApproval(Bootstrapped.id) /\ ActionAccepted(Bootstrapped)
           /\ call.given \in DOMAIN store
           /\ store[call.given] = [id |-> Bootstrapped.id, plan |-> <<Bootstrapped>>,
                                   run |-> at, status |-> "approved"]
           /\ Bootstrapped \in SessionActions /\ mode = "real" /\ call \in Calls
<1>1. call \in Calls /\ call.phase \in {"ask", "resume", "plain"}
  BY DEF Known, TypeInv, TypeOK, Calls
<1>2. call.phase = "resume"
  BY <1>1 DEF Known, SessionInv, PlainCall, LoopInv, AskOnly, Working
<1>3. pc \in Working /\ pc # "call"
  BY DEF Working
<1>4. Bootstrapped \in SessionActions
  BY <1>3, AtSession DEF Known, SessionInv
<1> QED  BY <1>1, <1>2, <1>3, <1>4 DEF Known, SessionInv, ResumedCall, InSession

\* What a step of the executor has to show.
LEMMA ExecutorStays ==
    ASSUME Known, pc \in {"execute", "verify", "recover"}, pc' # "call",
           call'.phase = call.phase, call'.given = call.given,
           call'.executed = call.executed, UNCHANGED <<mode, attended, plan, at>>,
           \A k \in DOMAIN store : k \in DOMAIN store' /\ store'[k] = store[k],
           OnAction' \/ OnRecovery'
    PROVE  SessionInv'
<1>1. /\ call.phase = "resume" /\ call.executed
      /\ RequiresHumanApproval(Bootstrapped.id) /\ ActionAccepted(Bootstrapped)
      /\ call.given \in DOMAIN store
      /\ store[call.given] = [id |-> Bootstrapped.id, plan |-> <<Bootstrapped>>,
                              run |-> at, status |-> "approved"]
  BY ExecutorResumes
<1>2. Bootstrapped' = Bootstrapped
  BY DEF Bootstrapped
<1>3. ResumedCall'
  BY <1>1, <1>2 DEF ResumedCall
<1>4. PlainCall' /\ AskCall'
  BY <1>1 DEF PlainCall, AskCall
<1>5. InSession'
  BY DEF Known, SessionInv, InSession
<1> QED  BY <1>3, <1>4, <1>5 DEF SessionInv

LEMMA NextActionSession ==
    ASSUME Known, NextAction
    PROVE  PlainCall' /\ AskCall' /\ ResumedCall'
<1>1. CASE at \in DOMAIN plan
  <2>1. /\ call' = FreshCall(IF mode = "real" /\ RequiresHumanApproval(plan[at].id)
                             THEN "ask" ELSE "plain", plan[at], 0)
        /\ pc = "next" /\ pc' = "call" /\ UNCHANGED <<plan, at, invoked>>
    BY <1>1 DEF NextAction, inputs
  <2>2. \A x \in invoked : x.run < at /\ x.run \in Nat /\ at \in Nat
    BY <2>1 DEF Known, LoopInv, CallsBehind, TypeInv, TypeOK
  <2>3. ~Called'
    BY <2>1, <2>2 DEF Called
  <2>4. mode = "real"
    BY DEF Known, SessionInv, InSession
  <2>5. /\ call'.phase = IF RequiresHumanApproval(plan[at].id) THEN "ask" ELSE "plain"
        /\ call'.current = <<plan[at]>> /\ call'.results = <<>> /\ ~call'.executed
        /\ ~call'.unverified
    BY <2>1, <2>4 DEF FreshCall
  <2>6. Bootstrapped' = plan[at]
    BY <2>1 DEF Bootstrapped
  <2> QED  BY <2>1, <2>3, <2>5, <2>6 DEF PlainCall, AskCall, ResumedCall
<1>2. CASE at \notin DOMAIN plan
  <2>1. pc' = "report"
    BY <1>2 DEF NextAction
  <2> QED  BY <2>1, SessionLeaves DEF Working
<1> QED  BY <1>1, <1>2

LEMMA EnterInvalidSession ==
    ASSUME Known, EnterInvalid
    PROVE  PlainCall' /\ AskCall' /\ ResumedCall'
<1>1. /\ pc = "call" /\ pc' = "returned" /\ ~Valid(call.current)
      /\ UNCHANGED <<plan, at, call, store, invoked>> /\ pc \in Working
  BY DEF EnterInvalid, inputs, Working
<1>2. Bootstrapped \in SessionActions /\ Bootstrapped' = Bootstrapped
  BY <1>1, AtSession DEF Known, SessionInv, Bootstrapped
<1>3. Valid(<<Bootstrapped>>) <=> ActionAccepted(Bootstrapped)
  BY <1>2, SessionAction
<1>4. PlainCall'
  BY <1>1, <1>2 DEF Known, SessionInv, PlainCall, Called
<1>5. AskCall'
  BY <1>1, <1>2, <1>3 DEF AskCall, Known, LoopInv, AskOnly, Bootstrapped
<1>6. call.phase # "resume"
  BY <1>1, <1>3 DEF Known, SessionInv, ResumedCall
<1> QED  BY <1>1, <1>4, <1>5, <1>6 DEF ResumedCall

LEMMA EnterPendingSession ==
    ASSUME Known, EnterPending
    PROVE  PlainCall' /\ AskCall' /\ ResumedCall'
<1>1. /\ pc = "call" /\ pc' = "returned" /\ Valid(call.current)
      /\ AskedBy(call, call.current) # {}
      /\ UNCHANGED <<plan, at, invoked>> /\ pc \in Working
      /\ call' = [call EXCEPT !.pending = TRUE]
  BY DEF EnterPending, inputs, Working
<1>2. Bootstrapped \in SessionActions /\ Bootstrapped' = Bootstrapped
  BY <1>1, AtSession DEF Known, SessionInv, Bootstrapped
<1>3. Valid(<<Bootstrapped>>) <=> ActionAccepted(Bootstrapped)
  BY <1>2, SessionAction
<1>4. call \in Calls /\ call.phase \in {"ask", "resume", "plain"} /\ call.given \in Nat
      /\ store \in Seq(Request)
  BY DEF Known, TypeInv, TypeOK, Calls
<1>5. call.phase # "plain"
  BY <1>1 DEF AskedBy, HasProvider
<1>6. call.phase # "resume"
  <2>1. SUFFICES ASSUME call.phase = "resume"  PROVE FALSE
    OBVIOUS
  <2>2. /\ call.current = <<Bootstrapped>> /\ call.given \in DOMAIN store
        /\ store[call.given] = [id |-> Bootstrapped.id, plan |-> <<Bootstrapped>>,
                                run |-> at, status |-> "approved"]
    BY <1>1, <2>1 DEF Known, SessionInv, ResumedCall
  <2>3. call.given # 0
    BY <1>4, <2>2
  <2> QED  BY <1>1, <2>1, <2>2, <2>3, ResumeAsksNothing
<1>7. call.phase = "ask" /\ call'.phase = "ask" /\ call'.pending
  BY <1>1, <1>4, <1>5, <1>6 DEF Calls
<1>8. ActionAccepted(Bootstrapped)
  BY <1>1, <1>3, <1>7 DEF Known, LoopInv, AskOnly, Bootstrapped
<1> QED  BY <1>2, <1>7, <1>8 DEF PlainCall, AskCall, ResumedCall

LEMMA EnterSession ==
    ASSUME Known, Enter
    PROVE  PlainCall' /\ AskCall' /\ ResumedCall'
<1>1. /\ pc = "call" /\ pc' = "execute" /\ Valid(call.current)
      /\ AskedBy(call, call.current) = {}
      /\ UNCHANGED <<plan, at, store, invoked>> /\ pc \in Working
      /\ call' = [call EXCEPT !.rejected = RejectedBy(call, call.current), !.executed = TRUE]
  BY DEF Enter, inputs, Working
<1>2. Bootstrapped \in SessionActions /\ Bootstrapped' = Bootstrapped
  BY <1>1, AtSession DEF Known, SessionInv, Bootstrapped
<1>3. (Valid(<<Bootstrapped>>) <=> ActionAccepted(Bootstrapped))
      /\ (ActionAccepted(Bootstrapped) => RequiresHumanApproval(Bootstrapped.id))
  BY <1>2, SessionAction
<1>4. call \in Calls /\ call.phase \in {"ask", "resume", "plain"} /\ store \in Seq(Request)
  BY DEF Known, TypeInv, TypeOK, Calls
<1>5. call.phase # "ask"
  BY <1>1, AskedIsFirst DEF Known, LoopInv
<1>6. call.phase # "plain"
  BY <1>1, <1>3 DEF Known, SessionInv, PlainCall
<1>7. /\ call.phase = "resume" /\ call.current = <<Bootstrapped>>
      /\ RequiresHumanApproval(Bootstrapped.id) /\ ActionAccepted(Bootstrapped)
      /\ call.given \in DOMAIN store /\ call.results = <<>>
      /\ store[call.given] = [id |-> Bootstrapped.id, plan |-> <<Bootstrapped>>,
                              run |-> at, status |-> "approved"]
      /\ ~call.unverified /\ ~call.pending
  BY <1>1, <1>4, <1>5, <1>6 DEF Known, SessionInv, ResumedCall
<1>8. call.given # 0
  BY <1>4, <1>7
<1>9. RejectedBy(call, call.current) = {}
  BY <1>7, <1>8, ResumeAsksNothing
<1>10. /\ call'.phase = "resume" /\ call'.current = <<Bootstrapped>> /\ call'.rejected = {}
       /\ call'.results = <<>> /\ ~call'.pending /\ ~call'.unverified /\ call'.executed
       /\ call'.given = call.given
  BY <1>1, <1>4, <1>7, <1>9 DEF Calls
<1>11. OnAction'
  BY <1>1, <1>2, <1>10 DEF OnAction
<1> QED  BY <1>1, <1>2, <1>7, <1>10, <1>11 DEF PlainCall, AskCall, ResumedCall

LEMMA ApproveSession ==
    ASSUME Known, Approve
    PROVE  PlainCall' /\ AskCall' /\ ResumedCall'
<1>1. /\ pc = "returned" /\ pc' = "call" /\ call.phase = "ask" /\ call.pending
      /\ UNCHANGED <<plan, at, invoked>>
      /\ call' = FreshCall("resume", plan[at], Len(store))
      /\ store' = [store EXCEPT ![Len(store)].status = "approved"]
  BY DEF Approve, inputs
<1>2. RequiresHumanApproval(Bootstrapped.id) /\ ActionAccepted(Bootstrapped)
  BY <1>1 DEF Known, LoopInv, AskOnly, SessionInv, AskCall, Bootstrapped
<1>3. /\ Len(store) # 0
      /\ store[Len(store)] = [id |-> plan[at].id, plan |-> <<plan[at]>>, run |-> at,
                              status |-> "pending"]
  BY <1>1 DEF Known, ConsentInv, LastIsAsked
<1>4. store \in Seq(Request)
  BY DEF Known, TypeInv, TypeOK
<1>5. Len(store) \in DOMAIN store /\ DOMAIN store' = DOMAIN store
  BY <1>1, <1>3, <1>4
<1>6. store'[Len(store)] = [store[Len(store)] EXCEPT !.status = "approved"]
  BY <1>1, <1>5
<1>7. store'[Len(store)] = [id |-> plan[at].id, plan |-> <<plan[at]>>, run |-> at,
                            status |-> "approved"]
  BY <1>3, <1>6
<1>8. /\ call'.phase = "resume" /\ call'.given = Len(store) /\ call'.current = <<plan[at]>>
      /\ call'.results = <<>> /\ ~call'.executed /\ ~call'.unverified /\ ~call'.pending
  BY <1>1 DEF FreshCall
<1> QED
  BY <1>1, <1>2, <1>5, <1>7, <1>8 DEF PlainCall, AskCall, ResumedCall, Bootstrapped

\* Where the executor is with a plan that has one action or none.
LEMMA ExecutorPlace ==
    ASSUME Known, pc = "execute"
    PROVE  \/ /\ OnAction /\ call.results = <<>> /\ Position = 1
              /\ DOMAIN call.current = {1} /\ ~call.pending /\ ~call.unverified
           \/ /\ OnAction /\ Position = 2 /\ DOMAIN call.current = {1} /\ Called
           \/ /\ OnRecovery /\ call.current = <<>> /\ call.results = <<>>
              /\ DOMAIN call.current = {}
           \/ /\ OnRecovery /\ call.results = <<>> /\ Position = 1
              /\ DOMAIN call.current = {1} /\ call.rejected = {}
              /\ \E c \in Contexts : call.current = <<[id |-> ReplanId, context |-> c]>>
           \/ /\ OnRecovery /\ Position = 2 /\ DOMAIN call.current = {1}
<1>1. OnAction \/ OnRecovery
  BY ExecutorResumes
<1>2. call.results = <<>> => Position = 1
  BY DEF Position
<1>3. \A r : call.results = <<r>> => Position = 2
  BY DEF Position
<1>4. \A a : call.current = <<a>> => DOMAIN call.current = {1}
  OBVIOUS
<1>5. call.current = <<>> => DOMAIN call.current = {}
  OBVIOUS
<1>6. CASE OnAction
  <2>1. DOMAIN call.current = {1}
    BY <1>4, <1>6 DEF OnAction
  <2>2. \/ call.results = <<>> /\ ~call.pending /\ ~call.unverified
        \/ Called /\ \E r \in HandlerResults(Bootstrapped, "real") : call.results = <<r>>
    BY <1>6 DEF OnAction
  <2>3. CASE call.results = <<>> /\ ~call.pending /\ ~call.unverified
    BY <1>2, <1>6, <2>1, <2>3
  <2>4. CASE Called /\ \E r \in HandlerResults(Bootstrapped, "real") : call.results = <<r>>
    <3>1. Position = 2
      BY <1>3, <2>4
    <3> QED  BY <1>6, <2>1, <2>4, <3>1
  <2> QED  BY <2>2, <2>3, <2>4
<1>7. CASE OnRecovery
  <2>1. CASE call.current = <<>> /\ call.results = <<>>
    BY <1>5, <1>7, <2>1
  <2>2. CASE ~(call.current = <<>> /\ call.results = <<>>)
    <3>1. /\ \E c \in Contexts : call.current = <<[id |-> ReplanId, context |-> c]>>
          /\ call.rejected = {}
      BY <1>7, <2>2 DEF OnRecovery
    <3>2. \/ call.results = <<>>
          \/ call.results = <<[id |-> ReplanId, status |-> "failed", retryable |-> FALSE,
                               replan |-> FALSE]>>
      BY <1>7, <2>2 DEF OnRecovery
    <3>3. DOMAIN call.current = {1}
      BY <1>4, <3>1
    <3>4. (Position = 1 /\ call.results = <<>>) \/ Position = 2
      BY <1>2, <1>3, <3>2
    <3> QED  BY <1>7, <3>1, <3>3, <3>4
  <2> QED  BY <2>1, <2>2
<1> QED  BY <1>1, <1>6, <1>7

LEMMA SkipImpossible == Known => ~SkipRejected
<1> SUFFICES ASSUME Known, SkipRejected  PROVE FALSE
  OBVIOUS
<1>1. pc = "execute" /\ Position \in DOMAIN call.current /\ Position \in call.rejected
  BY DEF SkipRejected
<1>2. OnAction => call.rejected = {}
  BY DEF OnAction
<1> QED  BY <1>1, <1>2, ExecutorPlace

LEMMA DenySession ==
    ASSUME Known, Deny
    PROVE  SessionInv'
<1>1. /\ pc = "execute" /\ pc' = "execute" /\ Position \in DOMAIN call.current
      /\ ~Allowed(call, call.current[Position])
      /\ call' = Keep(Result(call.current[Position], "failed", FALSE, FALSE))
      /\ UNCHANGED <<mode, attended, plan, at, store, invoked>>
  BY DEF Deny, inputs
<1>2. /\ call.phase = "resume" /\ mode = "real" /\ call \in Calls
      /\ Bootstrapped \in SessionActions /\ RequiresHumanApproval(Bootstrapped.id)
  BY <1>1, ExecutorResumes
<1>3. ~(OnAction /\ Position = 1)
  <2>1. OnAction /\ Position = 1 => call.current[Position] = Bootstrapped
    BY DEF OnAction
  <2>2. GateAllows(ExecutorId(Bootstrapped), "real", TRUE)
    BY <1>2, SessionAction
  <2>3. IsApproved(call) = TRUE
    BY <1>2 DEF IsApproved, HasProvider
  <2> QED  BY <1>1, <1>2, <2>1, <2>2, <2>3 DEF Allowed
<1>4. /\ OnRecovery /\ call.results = <<>> /\ Position = 1 /\ call.rejected = {}
      /\ \E c \in Contexts : call.current = <<[id |-> ReplanId, context |-> c]>>
  BY <1>1, <1>3, ExecutorPlace
<1>5. call.current[Position].id = ReplanId
  BY <1>4
<1>6. /\ call'.phase = call.phase /\ call'.given = call.given /\ call'.executed = call.executed
      /\ call'.current = call.current /\ call'.rejected = call.rejected
      /\ call'.pending = call.pending /\ call'.unverified = call.unverified
      /\ call'.results = Append(call.results, Result(call.current[Position], "failed", FALSE,
                                                     FALSE))
  BY <1>1, <1>2 DEF Keep, Calls
<1>7. call'.results = <<[id |-> ReplanId, status |-> "failed", retryable |-> FALSE,
                         replan |-> FALSE]>>
  BY <1>4, <1>5, <1>6 DEF Result
<1>8. OnRecovery'
  <2>1. Called' /\ ~call'.pending /\ ~call'.unverified
    BY <1>1, <1>4, <1>6 DEF OnRecovery, Called
  <2> QED  BY <1>1, <1>4, <1>6, <1>7, <2>1 DEF OnRecovery
<1> QED  BY <1>1, <1>6, <1>8, ExecutorStays

LEMMA HandleSession ==
    ASSUME Known, Handle
    PROVE  SessionInv'
<1>1. /\ pc = "execute" /\ pc' = "execute" /\ Position \in DOMAIN call.current
      /\ Allowed(call, call.current[Position])
      /\ UNCHANGED <<mode, attended, plan, at, store>>
  BY DEF Handle, inputs, outputs
<1>2. /\ call.phase = "resume" /\ mode = "real" /\ call \in Calls
      /\ Bootstrapped \in SessionActions /\ RequiresHumanApproval(Bootstrapped.id)
  BY <1>1, ExecutorResumes
<1>3. ~(OnRecovery /\ Position = 1)
  <2>1. SUFFICES ASSUME OnRecovery, Position = 1  PROVE FALSE
    OBVIOUS
  <2>2. PICK c \in Contexts : call.current = <<[id |-> ReplanId, context |-> c]>>
    <3>1. call.current # <<>>
      BY <1>1
    <3> QED  BY <2>1, <3>1 DEF OnRecovery
  <2>3. call.current[Position] \in Actions /\ call.current[Position].id = ReplanId
    <3>1. ReplanId \in ActionIds
      BY DEF ReplanId, Canonical, ActionIds, CanonicalNames
    <3> QED  BY <2>1, <2>2, <3>1 DEF Actions
  <2>4. IsApproved(call) \in BOOLEAN
    BY DEF IsApproved
  <2> QED  BY <1>1, <1>2, <2>3, <2>4, RemediationDenied DEF Allowed
<1>4. /\ OnAction /\ call.results = <<>> /\ Position = 1 /\ ~call.pending /\ ~call.unverified
  BY <1>1, <1>3, ExecutorPlace
<1>5. call.current = <<Bootstrapped>> /\ call.rejected = {} /\ call.current[Position] = Bootstrapped
  BY <1>4 DEF OnAction
<1>6. PICK r \in HandlerResults(Bootstrapped, "real") :
         call' = IF r.retryable /\ call.attempt < MaxAttempts
                 THEN [call EXCEPT !.attempt = @ + 1]
                 ELSE Keep(r)
  BY <1>2, <1>5 DEF Handle
<1>7. Called'
  <2>1. [run |-> at, plan |-> call.current, pos |-> Position] \in invoked'
    BY <1>2 DEF Handle
  <2> QED  BY <1>1, <2>1 DEF Called
<1>8. Bootstrapped' = Bootstrapped
  BY <1>1 DEF Bootstrapped
<1>9. CASE r.retryable /\ call.attempt < MaxAttempts
  <2>1. call' = [call EXCEPT !.attempt = call.attempt + 1]
    BY <1>6, <1>9
  <2>2. /\ call'.phase = call.phase /\ call'.given = call.given
        /\ call'.executed = call.executed /\ call'.current = call.current
        /\ call'.rejected = call.rejected /\ call'.pending = call.pending
        /\ call'.unverified = call.unverified /\ call'.results = call.results
    BY <1>2, <2>1 DEF Calls
  <2>3. OnAction'
    BY <1>1, <1>4, <1>5, <1>8, <2>2 DEF OnAction
  <2> QED  BY <1>1, <2>2, <2>3, ExecutorStays
<1>10. CASE ~(r.retryable /\ call.attempt < MaxAttempts)
  <2>1. call' = Keep(r)
    BY <1>6, <1>10
  <2>2. /\ call'.phase = call.phase /\ call'.given = call.given
        /\ call'.executed = call.executed /\ call'.current = call.current
        /\ call'.rejected = call.rejected /\ call'.pending = call.pending
        /\ call'.unverified = call.unverified /\ call'.results = Append(call.results, r)
    BY <1>2, <2>1 DEF Keep, Calls
  <2>3. call'.results = <<r>>
    BY <1>4, <2>2
  <2>4. OnAction'
    BY <1>1, <1>4, <1>5, <1>7, <1>8, <2>2, <2>3 DEF OnAction
  <2> QED  BY <1>1, <2>2, <2>4, ExecutorStays
<1> QED  BY <1>9, <1>10

LEMMA EndExecutionSession ==
    ASSUME Known, EndExecution
    PROVE  SessionInv'
<1>1. /\ pc = "execute" /\ pc' = "verify" /\ Position \notin DOMAIN call.current
      /\ UNCHANGED <<mode, attended, plan, at, call, store, invoked>>
  BY DEF EndExecution, inputs
<1>2. \/ OnAction /\ Position = 2
      \/ OnRecovery /\ call.current = <<>> /\ call.results = <<>>
      \/ OnRecovery /\ Position = 2
  BY <1>1, ExecutorPlace
<1>3. CASE OnAction /\ Position = 2
  <2>1. call.results # <<>>
    BY <1>3 DEF Position
  <2>2. OnAction'
    BY <1>1, <1>3, <2>1 DEF OnAction, Bootstrapped, Called
  <2> QED  BY <1>1, <2>2, ExecutorStays
<1>4. CASE OnRecovery /\ ((call.current = <<>> /\ call.results = <<>>) \/ Position = 2)
  <2>1. Position = 2 => call.results # <<>>
    BY DEF Position
  <2>2. OnRecovery'
    BY <1>1, <1>4, <2>1 DEF OnRecovery, Called
  <2> QED  BY <1>1, <2>2, ExecutorStays
<1> QED  BY <1>2, <1>3, <1>4

LEMMA VerifySession ==
    ASSUME Known, Verify
    PROVE  SessionInv'
<1>1. pc = "verify" /\ UNCHANGED <<mode, attended, plan, at, store, invoked>>
  BY DEF Verify, inputs
<1>2. PICK bad \in IF Verifiable(call) = {} THEN {FALSE} ELSE BOOLEAN :
         call' = [call EXCEPT !.unverified = bad]
  BY DEF Verify
<1>3. bad \in BOOLEAN /\ (bad => Verifiable(call) # {})
  BY <1>2
<1>4. pc' = IF MayReplan(call') THEN "recover" ELSE "returned"
  BY DEF Verify
<1>5. /\ Bootstrapped \in SessionActions /\ RequiresHumanApproval(Bootstrapped.id)
      /\ call \in Calls /\ (OnAction \/ OnRecovery)
  BY <1>1, ExecutorResumes
<1>6. /\ call'.phase = call.phase /\ call'.given = call.given
      /\ call'.executed = call.executed /\ call'.current = call.current
      /\ call'.rejected = call.rejected /\ call'.pending = call.pending
      /\ call'.unverified = bad /\ call'.results = call.results
  BY <1>2, <1>5 DEF Calls
<1>7. pc' = "recover" => bad \/ \E i \in DOMAIN call.results : call.results[i].replan
  BY <1>4, <1>6 DEF MayReplan, NeedsReplan
<1>8. Bootstrapped' = Bootstrapped /\ Called' = Called /\ pc' # "call"
      /\ pc' \notin {"execute", "verify"}
  BY <1>1, <1>4 DEF Bootstrapped, Called
<1>9. CASE OnAction
  <2>1. PICK r \in HandlerResults(Bootstrapped, "real") : call.results = <<r>>
    BY <1>1, <1>9 DEF OnAction
  <2>2. ~call.pending /\ Called /\ call.current = <<Bootstrapped>> /\ call.rejected = {}
    BY <1>1, <1>9 DEF OnAction
  <2>3. /\ r.status \in {"success", "failed"}
        /\ r.status = "success" => ~r.replan
    BY <1>5, ReportedResult
  <2>4. bad => r.status = "success"
    BY <1>3, <2>1 DEF Verifiable
  <2>5. pc' = "recover" => r.status = "failed" \/ bad
    <3>1. \A i \in DOMAIN call.results : call.results[i] = r
      BY <2>1
    <3> QED  BY <1>7, <2>3, <3>1
  <2>6. OnAction'
    BY <1>6, <1>8, <2>1, <2>2, <2>4, <2>5 DEF OnAction
  <2> QED  BY <1>1, <1>6, <1>8, <2>6, ExecutorStays
<1>10. CASE OnRecovery
  <2>1. \/ call.results = <<>>
        \/ call.results = <<[id |-> ReplanId, status |-> "failed", retryable |-> FALSE,
                             replan |-> FALSE]>>
    BY <1>1, <1>10 DEF OnRecovery
  <2>2. \A i \in DOMAIN call.results : call.results[i].status = "failed" /\ ~call.results[i].replan
    BY <2>1
  <2>3. Verifiable(call) = {}
    BY <2>2 DEF Verifiable
  <2>4. ~bad /\ pc' # "recover"
    BY <1>3, <1>7, <2>2, <2>3
  <2>5. OnRecovery'
    BY <1>1, <1>6, <1>8, <1>10, <2>4 DEF OnRecovery
  <2> QED  BY <1>1, <1>6, <1>8, <2>5, ExecutorStays
<1> QED  BY <1>5, <1>9, <1>10

\* Where a call is that asks for a recovery plan.
LEMMA RecoverPlace ==
    ASSUME Known, pc = "recover"
    PROVE  /\ call.phase = "resume" /\ call \in Calls /\ Called /\ ~call.pending
           /\ call.current = <<Bootstrapped>> /\ call.rejected = {}
           /\ \E r \in HandlerResults(Bootstrapped, "real") :
                 /\ call.results = <<r>>
                 /\ call.unverified => r.status = "success"
                 /\ r.status = "failed" \/ call.unverified
<1>1. OnAction /\ call.phase = "resume" /\ call \in Calls
  BY ExecutorResumes DEF OnRecovery
<1> QED  BY <1>1 DEF OnAction

LEMMA RecoverInvalidSession ==
    ASSUME Known, NEW p \in Candidates, RecoverInvalid(p)
    PROVE  SessionInv'
<1>1. /\ pc = "recover" /\ pc' = "returned"
      /\ UNCHANGED <<mode, attended, plan, at, store, invoked>>
      /\ call' = [call EXCEPT !.replans = NextCount(call.replans)]
  BY DEF RecoverInvalid, inputs
<1>2. call \in Calls
  BY <1>1, RecoverPlace
<1>3. /\ call'.phase = call.phase /\ call'.given = call.given
      /\ call'.executed = call.executed /\ call'.current = call.current
      /\ call'.rejected = call.rejected /\ call'.pending = call.pending
      /\ call'.unverified = call.unverified /\ call'.results = call.results
  BY <1>1, <1>2 DEF Calls
<1>4. OnAction'
  BY <1>1, <1>3, RecoverPlace DEF OnAction, Bootstrapped, Called
<1> QED  BY <1>1, <1>3, <1>4, ExecutorStays

LEMMA RecoverPendingSession ==
    ASSUME Known, NEW p \in Candidates, RecoverPending(p)
    PROVE  SessionInv'
<1>1. /\ pc = "recover" /\ pc' = "returned"
      /\ UNCHANGED <<mode, attended, plan, at, invoked>>
      /\ store' = store \o NewRequests(call, p)
      /\ call' = [call EXCEPT !.replans = NextCount(call.replans), !.pending = TRUE]
  BY DEF RecoverPending, inputs
<1>2. call \in Calls
  BY <1>1, RecoverPlace
<1>3. /\ call'.phase = call.phase /\ call'.given = call.given
      /\ call'.executed = call.executed /\ call'.current = call.current
      /\ call'.rejected = call.rejected
      /\ call'.unverified = call.unverified /\ call'.results = call.results
  BY <1>1, <1>2 DEF Calls
<1>4. OnAction'
  BY <1>1, <1>3, RecoverPlace DEF OnAction, Bootstrapped, Called
<1>5. \A k \in DOMAIN store : k \in DOMAIN store' /\ store'[k] = store[k]
  BY <1>1, AppendedKept, PlansAreSequences DEF Known
<1> QED  BY <1>1, <1>3, <1>4, <1>5, ExecutorStays

LEMMA RecoverSession ==
    ASSUME SessionCallers, Known, NEW p \in Candidates, Recover(p)
    PROVE  SessionInv'
<1>1. /\ pc = "recover" /\ pc' = "execute" /\ Valid(p) /\ AskedBy(call, p) = {}
      /\ UNCHANGED <<mode, attended, plan, at, store, invoked>>
      /\ call' = [call EXCEPT !.replans = NextCount(call.replans), !.current = p,
                              !.rejected = RejectedBy(call, p), !.results = <<>>,
                              !.unverified = FALSE]
  BY DEF Recover, inputs
<1>2. call \in Calls /\ call.phase = "resume" /\ Called /\ ~call.pending
  BY <1>1, RecoverPlace
<1>3. /\ call'.phase = call.phase /\ call'.given = call.given
      /\ call'.executed = call.executed /\ call'.current = p
      /\ call'.rejected = RejectedBy(call, p) /\ call'.pending = call.pending
      /\ call'.unverified = FALSE /\ call'.results = <<>>
  BY <1>1, <1>2 DEF Calls
<1>4. /\ p = <<>> \/ \E c \in Contexts : p = <<[id |-> ReplanId, context |-> c]>>
      /\ RejectedBy(call, p) = {}
  BY <1>1, <1>2, RecoveryAsks DEF Known, SessionInv
<1>5. OnRecovery'
  BY <1>1, <1>2, <1>3, <1>4 DEF OnRecovery, Called
<1> QED  BY <1>1, <1>3, <1>5, ExecutorStays

LEMMA SessionStep == SessionCallers /\ Known /\ [Next]_vars => SessionInv'
<1> SUFFICES ASSUME SessionCallers, Known, [Next]_vars  PROVE SessionInv'
  OBVIOUS
<1>0. InSession'
  <2>1. UNCHANGED inputs
    BY DEF Next, vars, inputs, NextAction, EnterInvalid, EnterPending, Enter, SkipRejected,
           Deny, Handle, EndExecution, Verify, RecoverInvalid, RecoverPending, Recover,
           Blocked, Unattended, Refuse, Approve, Record, Report, Raises
  <2> QED  BY <2>1 DEF inputs, Known, SessionInv, InSession
<1>1. CASE NextAction \/ EnterInvalid \/ EnterPending \/ Enter \/ Approve
  BY <1>0, <1>1, NextActionSession, EnterInvalidSession, EnterPendingSession, EnterSession,
     ApproveSession DEF SessionInv
<1>2. CASE SkipRejected \/ Deny \/ Handle \/ EndExecution \/ Verify
  BY <1>2, SkipImpossible, DenySession, HandleSession, EndExecutionSession, VerifySession
<1>3. CASE \E p \in Candidates : RecoverInvalid(p) \/ RecoverPending(p) \/ Recover(p)
  BY <1>3, RecoverInvalidSession, RecoverPendingSession, RecoverSession
<1>4. CASE Blocked \/ Unattended \/ Refuse \/ Record \/ Report \/ Raises
  <2>1. pc' \notin Working
    BY <1>4 DEF Blocked, Unattended, Refuse, Record, Report, Raises, Advance, Working
  <2> QED  BY <1>0, <2>1, SessionLeaves DEF SessionInv
<1>5. CASE UNCHANGED vars
  BY <1>0, <1>5
  DEF vars, inputs, outputs, Known, SessionInv, PlainCall, AskCall, ResumedCall, OnAction,
      OnRecovery, Bootstrapped, Called
<1> QED  BY <1>1, <1>2, <1>3, <1>4, <1>5 DEF Next

-----------------------------------------------------------------------------
(* The refinement                                                          *)

\* What BootstrapLoop sees of a state of Pipeline.
LoopTodo == IF pc \in LoopLeft THEN {} ELSE {j \in DOMAIN plan : at <= j}
LoopResults == [k \in DOMAIN collected |-> collected[k].ok]
LoopInvoked == {j \in {x.run : x \in invoked} : j < at \/ pc \in LoopLeft}

\* BootstrapLoop and Pipeline extend the same module of outcomes.
LEMMA SameOutcomes == \A a : Loop!RealOutcomes(a) = RealOutcomes(a)
BY DEF RealOutcomes, IdRefused, ContextRefused, Outcome, ReplanId, Canonical,
       RequiresHumanApproval, HasPolicy, GateCanonical, HumanApprovalNames, ActionAccepted,
       ValidatorCanonical, Bare,
       Loop!RealOutcomes, Loop!IdRefused, Loop!ContextRefused, Loop!Outcome, Loop!ReplanId,
       Loop!Canonical, Loop!RequiresHumanApproval, Loop!HasPolicy, Loop!GateCanonical,
       Loop!HumanApprovalNames, Loop!ActionAccepted, Loop!ValidatorCanonical, Loop!Bare

LEMMA LoopStutters ==
    ASSUME UNCHANGED <<plan, LoopTodo, LoopResults, evidence, unverified, LoopInvoked>>
    PROVE  UNCHANGED Loop!vars
BY DEF Loop!vars, LoopTodo, LoopResults, LoopInvoked

\* A step inside an iteration shows nothing, handlers called or not.
LEMMA InsideStutters ==
    ASSUME Known, pc \notin LoopLeft, pc' \notin LoopLeft,
           UNCHANGED <<plan, at, collected, evidence, unverified>>,
           invoked \subseteq invoked', \A x \in invoked' : x \in invoked \/ x.run = at
    PROVE  UNCHANGED Loop!vars
<1>1. at \in Nat
  BY DEF Known, TypeInv, TypeOK
<1>2. UNCHANGED LoopTodo /\ UNCHANGED LoopResults
  BY DEF LoopTodo, LoopResults
<1>3. UNCHANGED LoopInvoked
  <2>1. LoopInvoked = {j \in {x.run : x \in invoked} : j < at}
    BY DEF LoopInvoked
  <2>2. LoopInvoked' = {j \in {x.run : x \in invoked'} : j < at}
    BY DEF LoopInvoked
  <2>3. ~(at < at)
    BY <1>1
  <2> QED  BY <2>1, <2>2, <2>3
<1> QED  BY <1>2, <1>3, LoopStutters

LEMMA CollectedAppends ==
    ASSUME TypeInv, NEW ok \in BOOLEAN, collected' = Append(collected, [run |-> at, ok |-> ok])
    PROVE  LoopResults' = LoopResults \o <<ok>>
<1>1. collected \in Seq([run : Nat, ok : BOOLEAN])
  BY DEF TypeInv, TypeOK
<1>2. /\ DOMAIN collected = 1..Len(collected) /\ Len(collected) \in Nat
      /\ DOMAIN collected' = 1..Len(collected) + 1
      /\ collected'[Len(collected) + 1] = [run |-> at, ok |-> ok]
      /\ \A k \in 1..Len(collected) : collected'[k] = collected[k]
  BY <1>1
<1>3. \A k \in 1..Len(collected) : collected[k].ok \in BOOLEAN
  <2> TAKE k \in 1..Len(collected)
  <2>1. collected[k] \in [run : Nat, ok : BOOLEAN]
    BY <1>1, ElementOfSeq
  <2> QED  BY <2>1
<1>4. LoopResults \in Seq(BOOLEAN) /\ Len(LoopResults) = Len(collected)
  BY <1>2, <1>3 DEF LoopResults
<1>5. LoopResults' = [k \in 1..Len(collected) + 1 |->
                        IF k \in 1..Len(collected) THEN collected[k].ok ELSE ok]
  <2>1. \A k \in 1..Len(collected) + 1 :
           collected'[k].ok = IF k \in 1..Len(collected) THEN collected[k].ok ELSE ok
    BY <1>2
  <2> QED  BY <1>2, <2>1 DEF LoopResults
<1>6. LoopResults \o <<ok>> = [k \in 1..Len(collected) + 1 |->
                                 IF k \in 1..Len(collected) THEN LoopResults[k] ELSE ok]
  BY <1>2, <1>4
<1>7. \A k \in 1..Len(collected) : LoopResults[k] = collected[k].ok
  BY <1>2 DEF LoopResults
<1> QED  BY <1>5, <1>6, <1>7

\* The end of an iteration with outcome o is a step of the loop.
LEMMA IterationEnds ==
    ASSUME Known, pc = "returned", UNCHANGED <<plan, invoked>>,
           NEW o \in RealOutcomes(plan[at]),
           o.invoked <=> Called,
           LoopResults' = LoopResults \o o.results,
           evidence' = evidence \o o.items,
           unverified' = o.unverified,
           \/ o.goesOn /\ pc' = "next" /\ at' = at + 1
           \/ ~o.goesOn /\ pc' = "report" /\ at' = at
    PROVE  Loop!Next
<1>1. at \in DOMAIN plan /\ plan \in Seq(Actions) /\ at \in Nat /\ DOMAIN plan \subseteq Nat
  <2>1. at \in DOMAIN plan /\ plan \in Seq(Actions)
    BY PlansAssumption DEF Known, TypeInv, TypeOK, AtWork, Working
  <2> QED  BY <2>1
<1>2. LoopTodo = {j \in DOMAIN plan : at <= j}
  BY DEF LoopTodo, LoopLeft
<1>3. at \in LoopTodo /\ \A j \in LoopTodo : at <= j
  BY <1>1, <1>2
<1>4. LoopTodo' = IF o.goesOn THEN LoopTodo \ {at} ELSE {}
  <2>1. CASE o.goesOn
    <3>1. LoopTodo' = {j \in DOMAIN plan : at + 1 <= j}
      BY <2>1 DEF LoopTodo, LoopLeft
    <3> QED  BY <1>1, <1>2, <2>1, <3>1
  <2>2. CASE ~o.goesOn
    BY <2>2 DEF LoopTodo, LoopLeft
  <2> QED  BY <2>1, <2>2
<1>5. LoopInvoked' = IF o.invoked THEN LoopInvoked \cup {at} ELSE LoopInvoked
  <2> DEFINE runs == {x.run : x \in invoked}
  <2>1. runs \subseteq Nat /\ \A j \in runs : j <= at
    BY DEF Known, TypeInv, TypeOK, LoopInv, CallsBehind
  <2>2. at \in runs <=> Called
    BY DEF Called
  <2>3. LoopInvoked = {j \in runs : j < at}
    BY DEF LoopInvoked, LoopLeft
  <2>4. LoopInvoked' = runs
    <3>1. LoopInvoked' = {j \in runs : j < at' \/ pc' \in LoopLeft}
      BY DEF LoopInvoked
    <3>2. \A j \in runs : j < at' \/ pc' \in LoopLeft
      <4> HIDE DEF runs
      <4>1. \A j \in runs : j < at + 1
        BY <1>1, <2>1
      <4> QED  BY <4>1 DEF LoopLeft
    <3> QED  BY <3>1, <3>2
  <2> HIDE DEF runs
  <2>5. \A j \in runs : j < at \/ j = at
    BY <1>1, <2>1
  <2>6. ~(at < at)
    BY <1>1
  <2> QED  BY <2>2, <2>3, <2>4, <2>5, <2>6
<1>6. Loop!Iterate(at, o)
  BY <1>4, <1>5 DEF Loop!Iterate, LoopTodo, LoopResults, LoopInvoked
<1>7. o \in Loop!RealOutcomes(plan[at])
  BY SameOutcomes
<1> QED  BY <1>3, <1>6, <1>7 DEF Loop!Next, LoopTodo

LEMMA BlockedIterates ==
    ASSUME Known, Blocked
    PROVE  Loop!Next
<1>1. /\ pc = "returned" /\ call.phase = "ask" /\ ~call.pending
      /\ collected' = Append(collected, [run |-> at, ok |-> FALSE])
      /\ evidence' = evidence \o <<>> /\ unverified' = FALSE
      /\ at' = at + 1 /\ pc' = "next" /\ UNCHANGED <<plan, invoked>>
  BY DEF Blocked, Collect, Advance, inputs
<1>2. RequiresHumanApproval(plan[at].id) /\ ~ActionAccepted(plan[at])
  BY <1>1 DEF Known, LoopInv, AskOnly, SessionInv, AskCall, Bootstrapped
<1>3. ContextRefused(plan[at]) \in RealOutcomes(plan[at])
  BY <1>2 DEF RealOutcomes
<1>4. ~Called
  <2>1. \A x \in invoked : x.run < at /\ x.run \in Nat /\ at \in Nat
    BY <1>1 DEF Known, LoopInv, CallsBehind, TypeInv, TypeOK
  <2> QED  BY <2>1 DEF Called
<1>5. LoopResults' = LoopResults \o <<FALSE>>
  BY <1>1, CollectedAppends DEF Known
<1>6. /\ ContextRefused(plan[at]).invoked = FALSE
      /\ ContextRefused(plan[at]).results = <<FALSE>>
      /\ ContextRefused(plan[at]).items = <<>>
      /\ ContextRefused(plan[at]).unverified = FALSE
      /\ ContextRefused(plan[at]).goesOn = TRUE
  BY DEF ContextRefused, Outcome
<1> QED  BY <1>1, <1>3, <1>4, <1>5, <1>6, IterationEnds

\* What the recorded call can look like, and the outcome it stands for.
LEMMA RecordedOutcome ==
    ASSUME Known, pc = "returned", call.phase # "ask"
    PROVE  \E o \in RealOutcomes(plan[at]) :
              /\ o.invoked <=> Called
              /\ o.results = IF Records(call) THEN <<Succeeded(call)>> ELSE <<>>
              /\ o.items = IF Records(call) THEN Items(call) ELSE <<>>
              /\ o.unverified = call.unverified
              /\ o.goesOn <=> GoesOn(call)
<1>1. /\ call \in Calls /\ call.phase \in {"resume", "plain"} /\ call.unverified \in BOOLEAN
      /\ call.pending \in BOOLEAN /\ pc \in Working
  BY DEF Known, TypeInv, TypeOK, Calls, Working
<1> DEFINE a == plan[at]
           it(ok) == <<[id |-> a.id, ok |-> ok]>>
<1>2. CASE call.phase = "plain"
  <2>1. /\ ~RequiresHumanApproval(a.id) /\ ~Called /\ ~call.executed /\ ~call.unverified
    BY <1>1, <1>2 DEF Known, SessionInv, PlainCall, Bootstrapped
  <2>2. IdRefused(a) \in RealOutcomes(a)
    BY <2>1 DEF RealOutcomes
  <2>3. ~Records(call) /\ ~GoesOn(call)
    BY <2>1 DEF Records, GoesOn, PipelineSuccess
  <2>4. /\ IdRefused(a).invoked = FALSE /\ IdRefused(a).results = <<>>
        /\ IdRefused(a).items = <<>> /\ IdRefused(a).unverified = FALSE
        /\ IdRefused(a).goesOn = FALSE
    BY DEF IdRefused, Outcome
  <2> QED  BY <1>1, <2>1, <2>2, <2>3, <2>4
<1>3. CASE call.phase = "resume"
  <2>1. /\ RequiresHumanApproval(a.id) /\ ActionAccepted(a) /\ call.executed
        /\ OnAction \/ OnRecovery
    BY <1>1, <1>3 DEF Known, SessionInv, ResumedCall, Bootstrapped
  <2>2. a \in SessionActions
    BY <1>1, AtSession DEF Known, SessionInv, Bootstrapped
  <2>3. /\ Outcome(TRUE, <<TRUE>>, it(TRUE), FALSE, TRUE) \in RealOutcomes(a)
        /\ Outcome(TRUE, <<FALSE>>, it(FALSE), FALSE, FALSE) \in RealOutcomes(a)
        /\ Outcome(TRUE, <<TRUE>>, it(TRUE), TRUE, FALSE) \in RealOutcomes(a)
        /\ Outcome(TRUE, <<TRUE>>, <<>>, FALSE, TRUE) \in RealOutcomes(a)
        /\ Outcome(TRUE, <<FALSE>>, <<[id |-> ReplanId, ok |-> FALSE]>>, FALSE, FALSE)
              \in RealOutcomes(a)
    BY <2>1 DEF RealOutcomes
  <2>4. Records(call)
    BY <2>1 DEF Records
  \* It suffices to name the outcome.
  <2>5. ASSUME Called, NEW ok \in BOOLEAN, NEW items, NEW bad \in BOOLEAN, NEW on \in BOOLEAN,
               Outcome(TRUE, <<ok>>, items, bad, on) \in RealOutcomes(a),
               Succeeded(call) = ok, Items(call) = items, call.unverified = bad,
               on <=> GoesOn(call)
        PROVE  \E o \in RealOutcomes(a) :
                  /\ o.invoked <=> Called
                  /\ o.results = <<Succeeded(call)>>
                  /\ o.items = Items(call)
                  /\ o.unverified = call.unverified
                  /\ o.goesOn <=> GoesOn(call)
    <3> DEFINE o == Outcome(TRUE, <<ok>>, items, bad, on)
    <3>1. /\ o.invoked = TRUE /\ o.results = <<ok>> /\ o.items = items
          /\ o.unverified = bad /\ o.goesOn = on
      BY DEF Outcome
    <3>2. o \in RealOutcomes(a)
      BY <2>5
    <3> HIDE DEF o
    <3> QED  BY <2>5, <3>1, <3>2
  <2>6. CASE OnAction
    <3>1. PICK r \in HandlerResults(a, "real") :
             /\ call.results = <<r>>
             /\ call.unverified => r.status = "success"
             /\ call.pending => r.status = "failed" \/ call.unverified
      BY <2>6 DEF OnAction, Bootstrapped
    <3>2. Called
      BY <2>6 DEF OnAction
    <3>3. r.id = a.id /\ r.status \in {"success", "failed"}
      BY <2>1, <2>2, ReportedResult
    <3>4. Succeeded(call) <=> r.status = "success"
      BY <3>1, <3>3 DEF Succeeded
    <3>5. Items(call) = <<[id |-> a.id, ok |-> r.status = "success"]>>
      <4>1. Items(call) = [i \in 1..1 |-> [id |-> r.id, ok |-> r.status = "success"]]
        BY <3>1 DEF Items
      <4> QED  BY <3>3, <4>1
    <3>6. CASE r.status = "failed"
      <4>1. Succeeded(call) = FALSE /\ call.unverified = FALSE /\ ~GoesOn(call)
        BY <1>1, <3>1, <3>4, <3>6 DEF GoesOn, PipelineSuccess, Succeeded
      <4>2. Items(call) = it(FALSE)
        BY <3>5, <3>6
      <4> QED  BY <2>3, <2>4, <2>5, <3>2, <4>1, <4>2
    <3>7. CASE r.status = "success" /\ call.unverified
      <4>1. Succeeded(call) = TRUE /\ call.unverified = TRUE /\ ~GoesOn(call)
        BY <1>1, <3>4, <3>7 DEF GoesOn, PipelineSuccess, Succeeded
      <4>2. Items(call) = it(TRUE)
        BY <3>5, <3>7
      <4> QED  BY <2>3, <2>4, <2>5, <3>2, <4>1, <4>2
    <3>8. CASE r.status = "success" /\ ~call.unverified
      <4>1. Succeeded(call) = TRUE /\ call.unverified = FALSE /\ GoesOn(call)
        BY <1>1, <2>1, <3>1, <3>4, <3>8 DEF GoesOn, PipelineSuccess, Succeeded
      <4>2. Items(call) = it(TRUE)
        BY <3>5, <3>8
      <4> QED  BY <2>3, <2>4, <2>5, <3>2, <4>1, <4>2
    <3> QED  BY <3>3, <3>6, <3>7, <3>8
  <2>7. CASE OnRecovery
    <3>1. Called /\ ~call.pending /\ call.unverified = FALSE
      BY <1>1, <2>7 DEF OnRecovery
    <3>2. \/ call.results = <<>>
          \/ call.results = <<[id |-> ReplanId, status |-> "failed", retryable |-> FALSE,
                               replan |-> FALSE]>>
      BY <2>7 DEF OnRecovery
    <3>3. CASE call.results = <<>>
      <4>1. Succeeded(call) = TRUE /\ Items(call) = <<>>
        BY <3>3 DEF Succeeded, Items
      <4>2. GoesOn(call)
        BY <2>1, <3>1, <4>1 DEF GoesOn, PipelineSuccess
      <4> QED  BY <2>3, <2>4, <2>5, <3>1, <4>1, <4>2
    <3>4. CASE call.results = <<[id |-> ReplanId, status |-> "failed", retryable |-> FALSE,
                                 replan |-> FALSE]>>
      <4>1. Succeeded(call) = FALSE /\ ~GoesOn(call)
        BY <3>4 DEF Succeeded, GoesOn, PipelineSuccess
      <4>2. Items(call) = <<[id |-> ReplanId, ok |-> FALSE]>>
        <5> DEFINE r == [id |-> ReplanId, status |-> "failed", retryable |-> FALSE,
                         replan |-> FALSE]
                   x == [id |-> r.id, ok |-> r.status = "success"]
        <5>1. r.id = ReplanId /\ (r.status = "success") = FALSE
          OBVIOUS
        <5>2. x = [id |-> ReplanId, ok |-> FALSE]
          <6> HIDE DEF r
          <6> QED  BY <5>1
        <5>3. Items(call) = [i \in 1..1 |-> x]
          <6>1. call.results = <<r>>
            BY <3>4
          <6> HIDE DEF r
          <6> QED  BY <6>1 DEF Items
        <5> HIDE DEF x
        <5>4. [i \in 1..1 |-> x] = <<x>>
          OBVIOUS
        <5> QED  BY <5>2, <5>3, <5>4
      <4> QED  BY <2>3, <2>4, <2>5, <3>1, <4>1, <4>2
    <3> QED  BY <3>2, <3>3, <3>4
  <2> QED  BY <2>1, <2>6, <2>7
<1> QED  BY <1>1, <1>2, <1>3

LEMMA RecordIterates ==
    ASSUME Known, Record
    PROVE  Loop!Next
<1>1. /\ pc = "returned" /\ call.phase # "ask" /\ UNCHANGED <<plan, invoked>>
      /\ unverified' = call.unverified
      /\ IF GoesOn(call) THEN pc' = "next" /\ at' = at + 1 ELSE pc' = "report" /\ at' = at
  BY DEF Record, Advance, inputs
<1>2. PICK o \in RealOutcomes(plan[at]) :
         /\ o.invoked <=> Called
         /\ o.results = IF Records(call) THEN <<Succeeded(call)>> ELSE <<>>
         /\ o.items = IF Records(call) THEN Items(call) ELSE <<>>
         /\ o.unverified = call.unverified
         /\ o.goesOn <=> GoesOn(call)
  BY <1>1, RecordedOutcome
<1>3. LoopResults' = LoopResults \o o.results /\ evidence' = evidence \o o.items
  <2>1. CASE Records(call)
    <3>1. collected' = Append(collected, [run |-> at, ok |-> Succeeded(call)])
          /\ evidence' = evidence \o Items(call)
      BY <2>1 DEF Record, Collect
    <3>2. Succeeded(call) \in BOOLEAN
      BY DEF Succeeded
    <3> QED  BY <1>2, <2>1, <3>1, <3>2, CollectedAppends DEF Known
  <2>2. CASE ~Records(call)
    <3>1. UNCHANGED <<collected, evidence>>
      BY <2>2 DEF Record
    <3>2. evidence \in Seq(Evidence) /\ collected \in Seq([run : Nat, ok : BOOLEAN])
      BY DEF Known, TypeInv, TypeOK
    <3>3. LoopResults \in Seq({collected[k].ok : k \in DOMAIN collected})
      BY <3>2 DEF LoopResults
    <3>4. LoopResults' = LoopResults
      BY <3>1 DEF LoopResults
    <3>5. LoopResults \o <<>> = LoopResults /\ evidence \o <<>> = evidence
      BY <3>2, <3>3
    <3> QED  BY <1>2, <2>2, <3>1, <3>4, <3>5
  <2> QED  BY <2>1, <2>2
<1> QED  BY <1>1, <1>2, <1>3, IterationEnds

LEMMA LoopLeaves ==
    ASSUME Known, UNCHANGED <<plan, at, collected, evidence, unverified, invoked>>,
           \/ pc \in LoopLeft /\ pc' \in LoopLeft
           \/ pc = "next" /\ pc' = "report" /\ at \notin DOMAIN plan
    PROVE  UNCHANGED Loop!vars
<1>1. CASE pc \in LoopLeft /\ pc' \in LoopLeft
  <2>1. UNCHANGED <<LoopTodo, LoopResults, LoopInvoked>>
    BY <1>1 DEF LoopTodo, LoopResults, LoopInvoked
  <2> QED  BY <2>1, LoopStutters
<1>2. CASE pc = "next" /\ pc' = "report" /\ at \notin DOMAIN plan
  <2>1. at \in 1..Len(plan) + 1 /\ DOMAIN plan = 1..Len(plan) /\ Len(plan) \in Nat
    BY PlansAssumption DEF Known, TypeInv, TypeOK
  <2>2. {j \in DOMAIN plan : at <= j} = {}
    BY <1>2, <2>1
  <2>3. UNCHANGED LoopTodo
    BY <1>2, <2>2 DEF LoopTodo, LoopLeft
  <2>4. \A x \in invoked : x.run < at
    BY <1>2 DEF Known, LoopInv, CallsBehind
  <2>5. UNCHANGED LoopInvoked
    BY <1>2, <2>4 DEF LoopInvoked, LoopLeft
  <2>6. UNCHANGED LoopResults
    BY DEF LoopResults
  <2> QED  BY <2>3, <2>5, <2>6, LoopStutters
<1> QED  BY <1>1, <1>2

LEMMA StepImplements == SessionCallers /\ Known /\ [Next]_vars => [Loop!Next]_(Loop!vars)
<1> SUFFICES ASSUME SessionCallers, Known, [Next]_vars
             PROVE  Loop!Next \/ UNCHANGED Loop!vars
  OBVIOUS
<1>1. CASE NextAction
  <2>1. CASE at \in DOMAIN plan
    BY <1>1, <2>1, InsideStutters DEF NextAction, LoopLeft, inputs, outputs
  <2>2. CASE at \notin DOMAIN plan
    BY <1>1, <2>2, LoopLeaves DEF NextAction, inputs, outputs
  <2> QED  BY <2>1, <2>2
<1>2. CASE EnterInvalid \/ EnterPending \/ Enter \/ SkipRejected \/ Deny \/ EndExecution
           \/ Approve
  <2>1. UNCHANGED <<plan, at, collected, evidence, unverified, invoked>>
    BY <1>2 DEF EnterInvalid, EnterPending, Enter, SkipRejected, Deny, EndExecution, Approve,
                inputs, outputs
  <2>2. pc \notin LoopLeft /\ pc' \notin LoopLeft
    BY <1>2 DEF EnterInvalid, EnterPending, Enter, SkipRejected, Deny, EndExecution, Approve,
                LoopLeft
  <2> QED  BY <2>1, <2>2, InsideStutters
<1>3. CASE Handle
  BY <1>3, InsideStutters DEF Handle, LoopLeft, inputs, outputs
<1>4. CASE Verify
  BY <1>4, InsideStutters DEF Verify, LoopLeft, inputs, outputs
<1>5. CASE \E p \in Candidates : RecoverInvalid(p) \/ RecoverPending(p) \/ Recover(p)
  BY <1>5, InsideStutters DEF RecoverInvalid, RecoverPending, Recover, LoopLeft, inputs, outputs
<1>6. CASE Blocked
  BY <1>6, BlockedIterates
<1>7. CASE Unattended \/ Refuse
  <2>1. ~attended \/ FALSE \in Answers
    BY <1>7 DEF Unattended, Refuse
  <2> QED  BY <2>1 DEF SessionCallers, Known, SessionInv, InSession
<1>8. CASE Record
  BY <1>8, RecordIterates
<1>9. CASE Report
  BY <1>9, LoopLeaves DEF Report, LoopLeft, inputs, outputs
<1>10. CASE Raises
  <2>1. CASE pc = "report"
    BY <1>10, <2>1, LoopLeaves DEF Raises, LoopLeft, inputs, outputs
  <2>2. CASE pc # "report"
    BY <1>10, <2>2, InsideStutters DEF Raises, LoopLeft, inputs, outputs
  <2> QED  BY <2>1, <2>2
<1>11. CASE UNCHANGED vars
  BY <1>11 DEF vars, Loop!vars
<1> QED
  BY <1>1, <1>2, <1>3, <1>4, <1>5, <1>6, <1>7, <1>8, <1>9, <1>10, <1>11 DEF Next

LEMMA InitImplements == Init => Loop!Init
<1> SUFFICES ASSUME Init  PROVE Loop!Init
  OBVIOUS
<1>1. /\ plan \in Plans /\ at = 1 /\ pc = "next" /\ collected = <<>> /\ evidence = <<>>
      /\ unverified = FALSE /\ invoked = {}
  BY DEF Init
<1>2. plan \in Seq(Actions)
  BY <1>1, PlansAssumption
<1>3. LoopTodo = DOMAIN plan
  <2>1. \A j \in DOMAIN plan : 1 <= j
    BY <1>2
  <2> QED  BY <1>1, <2>1 DEF LoopTodo, LoopLeft
<1>4. LoopResults = <<>> /\ LoopInvoked = {}
  BY <1>1 DEF LoopResults, LoopInvoked
<1> QED  BY <1>1, <1>3, <1>4 DEF Loop!Init, LoopTodo, LoopResults, LoopInvoked

\* For the plans of a session, whatever the handlers report and the planner proposes,
\* run() is BootstrapLoop: the outcomes on which SessionService runs are all there are.
THEOREM SessionsRunTheLoop ==
    ASSUME SessionCallers
    PROVE  Spec => ImplementsLoop
<1>1. Init => Known
  BY InitTypes, InitLoop, InitConsent, InitSession DEF Known
<1>2. Known /\ [Next]_vars => Known'
  BY TypeStep, LoopStep, ConsentStep, SessionStep DEF Known, LoopInv
<1>3. Known /\ [Next]_vars => [Loop!Next]_(Loop!vars)
  BY StepImplements
<1> QED  BY <1>1, <1>2, <1>3, InitImplements, PTL DEF Spec, ImplementsLoop, Loop!Spec

=============================================================================
