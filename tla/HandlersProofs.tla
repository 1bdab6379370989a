--------------------------- MODULE HandlersProofs ---------------------------
(***************************************************************************)
(* Proofs about Handlers, for every set of plans, any words in the         *)
(* contexts, any number of attempts and any number of executions.          *)
(***************************************************************************)
EXTENDS Handlers, SequenceTheorems, TLAPS

-----------------------------------------------------------------------------
(* The inductive invariant                                                 *)

\* An action that the executor may attempt for real: what the gate and the
\* registry have made sure of before the first command of a handler.
Ordered ==
    /\ at \in DOMAIN plan
    /\ ~IsRejected(at)
    /\ Allowed
    /\ job.mode = "real"
    /\ job.approved
    /\ HasHandler(Name, "real")

\* A command is only at work for such an action.
CommandsOrdered == pc \in Commands => Ordered

\* The daemon is only asked for in the verification of a success of Docker's.
DaemonAsked ==
    pc = "daemon" =>
        /\ Upcoming \in DOMAIN plan
        /\ HasJudge
        /\ plan[Upcoming].id.name = "install_docker"

\* One result for each action the executor is done with.
Aligned == Len(results) = at - 1

\* A report that Pipeline expects of the action at i.
Fits(i, r) ==
    IF IsRejected(i) THEN r = Result(plan[i], "skipped", FALSE, FALSE)
    ELSE IF GateAllows(Canonical(plan[i].id.name), job.mode, job.approved)
    THEN r \in HandlerResults(plan[i], job.mode)
    ELSE r = Result(plan[i], "failed", FALSE, FALSE)

\* The composition with Pipeline: what is reported of an action is a skip, a
\* denial, or one of the HandlerResults on which Pipeline runs.
ResultsAsPipelineAssumes ==
    \A i \in DOMAIN results :
        IF IsRejected(i) THEN results[i] = Result(plan[i], "skipped", FALSE, FALSE)
        ELSE IF GateAllows(Canonical(plan[i].id.name), job.mode, job.approved)
        THEN results[i] \in HandlerResults(plan[i], job.mode)
        ELSE results[i] = Result(plan[i], "failed", FALSE, FALSE)

\* A command that outlived its timeout belongs to an action the executor has left.
LeftEarlier ==
    \A l \in left : \/ l.order.run < runs
                    \/ l.order.run = runs /\ l.order.pos < at

ExecutorTypes ==
    /\ job \in [plan : Plans \cup {<<>>}, mode : Modes, approved : BOOLEAN,
                rejected : SUBSET Nat, host : Hosts]
    /\ pc \in PCs
    /\ at \in 1..Len(plan) + 1
    /\ attempt \in 1..MaxAttempts
    /\ results \in Seq(ActionResult)
    /\ verdicts \in Seq(Verdicts)
    /\ runs \in 0..MaxRuns

MachineTypes ==
    /\ machine \in Machines
    /\ left \subseteq Left
    /\ changed \subseteq Orders

\* The executor's half, and the machine's.
ExecutorInv ==
    /\ ExecutorTypes /\ CommandsOrdered /\ DaemonAsked
    /\ Aligned /\ ResultsAsPipelineAssumes /\ VerdictsMatchResults

MachineInv == MachineTypes /\ LeftEarlier /\ OnlyConsentedChange

Inv == ExecutorInv /\ MachineInv

executor == <<job, pc, at, attempt, results, verdicts, runs>>

-----------------------------------------------------------------------------
(* The tables                                                              *)

\* No rule knows "timed out": a command that outlived its timeout is not retried.
LEMMA TimedOutIsPermanent == ~Retryable({"timed out"})
<1>1. \A i \in DOMAIN Rules : Rules[i].words \cap {"timed out"} = {}
  <2>1. DOMAIN Rules = 1..5
    BY DEF Rules
  <2>2. /\ Rules[1].words = {"policy", "denied"}
        /\ Rules[2].words = {"not supported", "unknown"}
        /\ Rules[3].words = {"no real handler", "unavailable"}
        /\ Rules[4].words = {"verification"}
        /\ Rules[5].words = {"timeout", "transient"}
    BY DEF Rules
  <2>3. \A i \in 1..5 : "timed out" \notin Rules[i].words
    <3>1. /\ "timed out" \notin Rules[1].words /\ "timed out" \notin Rules[2].words
          /\ "timed out" \notin Rules[3].words /\ "timed out" \notin Rules[4].words
          /\ "timed out" \notin Rules[5].words
      BY <2>2
    <3>2. \A i \in 1..5 : i = 1 \/ i = 2 \/ i = 3 \/ i = 4 \/ i = 5
      OBVIOUS
    <3> QED  BY <3>1, <3>2
  <2> QED  BY <2>1, <2>3
<1>2. {i \in DOMAIN Rules : Rules[i].words \cap {"timed out"} # {} /\
         \A j \in DOMAIN Rules : Rules[j].words \cap {"timed out"} # {} => i <= j} = {}
  BY <1>1
<1>3. FailureType({"timed out"}) = "permanent"
  BY <1>2, Zenon DEF FailureType
<1> QED  BY <1>3 DEF Retryable

\* The first rule knows "denied", and neither retries nor replans.
LEMMA DeniedIsFinal == ~Retryable({"denied"}) /\ ~Replans({"denied"})
<1>1. DOMAIN Rules = 1..5 /\ Rules[1].words = {"policy", "denied"} /\ Rules[1].type = "policy_denied"
  BY DEF Rules
<1> DEFINE hit(i) == Rules[i].words \cap {"denied"} # {}
           first == {i \in DOMAIN Rules : hit(i) /\ \A j \in DOMAIN Rules : hit(j) => i <= j}
<1>2. hit(1)
  BY <1>1
<1>3. first = {1}
  <2> HIDE DEF hit
  <2> QED  BY <1>1, <1>2
<1>4. FailureType({"denied"}) = Rules[CHOOSE i \in first : TRUE].type
  BY <1>3 DEF FailureType
<1>5. (CHOOSE i \in first : TRUE) = 1
  BY <1>3
<1>6. FailureType({"denied"}) = "policy_denied"
  BY <1>1, <1>4, <1>5
<1> QED  BY <1>6 DEF Retryable, Replans

\* What the gate lets through in REAL mode has a real handler; if that changes the
\* machine, the execution was approved.
LEMMA GateAndRegistry ==
    ASSUME NEW n \in CanonicalNames, NEW m \in Modes, NEW ok \in BOOLEAN,
           GateAllows(Canonical(n), m, ok)
    PROVE  /\ HasHandler(n, m)
           /\ m = "real" /\ n # "check_python_version_real" => ok
BY DEF GateAllows, Canonical, HasHandler, Modes, SafeOnlyNames, HumanApprovalNames,
       RealHandlerNames, SafeHandlerNames, CanonicalNames

\* A real handler's failure, whatever its message says, is one that Pipeline expects.
LEMMA FailureExpected ==
    ASSUME HasHandler(Name, "real"), NEW words, NEW hint \in BOOLEAN
    PROVE  Failed(words, hint) \in HandlerResults(Current, "real")
<1>1. Retryable(words) \in BOOLEAN /\ (Replans(words) \/ hint) \in BOOLEAN
  BY DEF Retryable, Replans
<1>2. [id |-> Current.id, status |-> "failed", retryable |-> Retryable(words),
       replan |-> Replans(words) \/ hint] \in
      [id : {Current.id}, status : {"failed"}, retryable : BOOLEAN, replan : BOOLEAN]
  BY <1>1
<1> QED  BY <1>2 DEF Failed, Result, HandlerResults, Name

LEMMA ResultType ==
    ASSUME NEW a \in Actions, NEW status \in {"success", "skipped", "failed"},
           NEW x \in BOOLEAN, NEW y \in BOOLEAN
    PROVE  Result(a, status, x, y) \in ActionResult /\ Result(a, status, x, y).status = status
<1>1. a.id \in ActionIds
  BY DEF Actions
<1> QED  BY <1>1 DEF ActionResult, Result

\* What Pipeline expects is an ActionResult, and a success is nothing but a success.
LEMMA ExpectedType ==
    ASSUME NEW a \in Actions, NEW m \in Modes, NEW r \in HandlerResults(a, m)
    PROVE  /\ r \in ActionResult
           /\ r.status = "success" => r = Result(a, "success", FALSE, FALSE)
<1>1. CASE r = Result(a, "skipped", FALSE, FALSE) \/ r = Result(a, "success", FALSE, FALSE)
  BY <1>1, ResultType
<1>2. CASE r \in [id : {a.id}, status : {"failed"}, retryable : BOOLEAN, replan : BOOLEAN]
  <2>1. a.id \in ActionIds
    BY DEF Actions
  <2> QED  BY <1>2, <2>1 DEF ActionResult
<1>3. \/ r = Result(a, "failed", FALSE, TRUE)
      \/ r = Result(a, "skipped", FALSE, FALSE) \/ r = Result(a, "success", FALSE, FALSE)
      \/ r \in [id : {a.id}, status : {"failed"}, retryable : BOOLEAN, replan : BOOLEAN]
  BY Zenon DEF HandlerResults
<1>4. CASE r = Result(a, "failed", FALSE, TRUE)
  BY <1>4, ResultType
<1> QED  BY <1>1, <1>2, <1>3, <1>4

LEMMA PlanType ==
    ASSUME ExecutorTypes
    PROVE  /\ plan \in Seq(Actions)
           /\ Len(plan) \in Nat
           /\ DOMAIN plan = 1..Len(plan)
           /\ \A i \in DOMAIN plan : /\ plan[i] \in Actions
                                     /\ plan[i].id \in ActionIds
                                     /\ plan[i].id.name \in CanonicalNames
                                     /\ plan[i].context \in Contexts
           /\ job.mode \in Modes /\ job.approved \in BOOLEAN /\ job.rejected \in SUBSET Nat
<1>1. plan \in Seq(Actions)
  <2>1. plan \in Plans \cup {<<>>}
    BY DEF ExecutorTypes, plan
  <2>2. Plans \subseteq Seq(Actions)
    BY PlansAssumption
  <2>3. <<>> \in Seq(Actions)
    OBVIOUS
  <2> QED  BY <2>1, <2>2, <2>3
<1>2. Len(plan) \in Nat /\ DOMAIN plan = 1..Len(plan) /\ \A i \in DOMAIN plan : plan[i] \in Actions
  BY <1>1
<1>3. \A a \in Actions : a.id \in ActionIds /\ a.id.name \in CanonicalNames /\ a.context \in Contexts
  BY DEF Actions, ActionIds
<1>4. job.mode \in Modes /\ job.approved \in BOOLEAN /\ job.rejected \in SUBSET Nat
  BY DEF ExecutorTypes
<1> QED  BY <1>1, <1>2, <1>3, <1>4

\* A report that fits is an ActionResult, and a success is nothing but a success.
LEMMA FitsType ==
    ASSUME ExecutorTypes, NEW i \in DOMAIN plan, NEW r, Fits(i, r)
    PROVE  /\ r \in ActionResult
           /\ r.status = "success" => r = Result(plan[i], "success", FALSE, FALSE)
<1>1. plan[i] \in Actions /\ plan[i].id \in ActionIds /\ job.mode \in Modes
  BY PlanType
<1>2. CASE r \in HandlerResults(plan[i], job.mode)
  BY <1>1, <1>2, ExpectedType
<1>3. CASE r = Result(plan[i], "skipped", FALSE, FALSE) \/ r = Result(plan[i], "failed", FALSE, FALSE)
  BY <1>1, <1>3, ResultType
<1> QED  BY <1>2, <1>3 DEF Fits

-----------------------------------------------------------------------------
(* The executor's half, by kinds of steps                                  *)

LEMMA ResultsGrow ==
    ASSUME ExecutorInv, at \in DOMAIN plan, NEW r, Fits(at, r),
           results' = Append(results, r), at' = at + 1, UNCHANGED <<job, verdicts>>
    PROVE  /\ results' \in Seq(ActionResult)
           /\ at' \in 1..Len(plan') + 1
           /\ Aligned' /\ ResultsAsPipelineAssumes' /\ VerdictsMatchResults'
<1>1. /\ results \in Seq(ActionResult) /\ at \in Nat /\ Len(results) = at - 1
      /\ DOMAIN results = 1..at - 1 /\ at \in 1..Len(plan)
  BY PlanType DEF ExecutorInv, ExecutorTypes, Aligned
<1>2. r \in ActionResult
  BY FitsType DEF ExecutorInv
<1>3. /\ results' \in Seq(ActionResult) /\ Len(results') = at /\ DOMAIN results' = 1..at
      /\ results'[at] = r /\ \A i \in 1..at - 1 : results'[i] = results[i]
  BY <1>1, <1>2
<1>4. plan' = plan /\ job' = job /\ verdicts' = verdicts
  BY DEF plan
<1>5. \A i \in DOMAIN results : Fits(i, results[i])
  BY DEF ExecutorInv, ResultsAsPipelineAssumes, Fits
<1>6. \A i \in DOMAIN results' : Fits(i, results'[i])
  BY <1>1, <1>3, <1>5
<1>7. ResultsAsPipelineAssumes'
  BY <1>4, <1>6 DEF ResultsAsPipelineAssumes, Fits, IsRejected
<1>8. VerdictsMatchResults'
  <2> SUFFICES ASSUME NEW i \in DOMAIN verdicts, verdicts[i].verdict = "verified"
               PROVE  i \in DOMAIN results' /\ results'[i] = results[i]
    BY <1>4 DEF VerdictsMatchResults, ExecutorInv
  <2>1. i \in DOMAIN results
    BY DEF VerdictsMatchResults, ExecutorInv
  <2> QED  BY <1>1, <1>3, <2>1
<1>9. Aligned' /\ at' \in 1..Len(plan') + 1
  BY <1>1, <1>3, <1>4 DEF Aligned
<1> QED  BY <1>3, <1>7, <1>8, <1>9

\* Whatever ends an attempt with a report that fits.
LEMMA ConcludeKeeps ==
    ASSUME ExecutorInv, at \in DOMAIN plan, NEW r, Fits(at, r), Conclude(r)
    PROVE  ExecutorInv'
<1>1. job' = job /\ verdicts' = verdicts /\ runs' = runs /\ pc' = "attempt" /\ plan' = plan
  BY DEF Conclude, plan
<1>2. CommandsOrdered' /\ DaemonAsked'
  BY <1>1 DEF CommandsOrdered, Commands, DaemonAsked
<1>3. CASE r.retryable /\ attempt < MaxAttempts
  <2>1. attempt' = attempt + 1 /\ at' = at /\ results' = results
    BY <1>3 DEF Conclude
  <2>2. attempt' \in 1..MaxAttempts
    BY <1>3, <2>1, BoundsAssumption DEF ExecutorInv, ExecutorTypes
  <2>3. ExecutorTypes'
    BY <1>1, <2>1, <2>2 DEF ExecutorInv, ExecutorTypes, PCs
  <2>4. Aligned' /\ ResultsAsPipelineAssumes' /\ VerdictsMatchResults'
    BY <1>1, <2>1
    DEF ExecutorInv, Aligned, ResultsAsPipelineAssumes, VerdictsMatchResults, IsRejected
  <2> QED  BY <1>2, <2>3, <2>4 DEF ExecutorInv
<1>4. CASE ~(r.retryable /\ attempt < MaxAttempts)
  <2>1. attempt' = 1 /\ at' = at + 1 /\ results' = Append(results, r)
    BY <1>4 DEF Conclude
  <2>2. /\ results' \in Seq(ActionResult) /\ at' \in 1..Len(plan') + 1
        /\ Aligned' /\ ResultsAsPipelineAssumes' /\ VerdictsMatchResults'
    BY <1>1, <2>1, ResultsGrow
  <2>3. ExecutorTypes'
    <3>1. attempt' \in 1..MaxAttempts
      BY <2>1, BoundsAssumption
    <3> QED  BY <1>1, <2>2, <3>1 DEF ExecutorInv, ExecutorTypes, PCs
  <2> QED  BY <1>2, <2>2, <2>3 DEF ExecutorInv
<1> QED  BY <1>3, <1>4

\* A real handler fails, or succeeds.
LEMMA FailureKeeps ==
    ASSUME ExecutorInv, Ordered, NEW words, NEW hint \in BOOLEAN, Conclude(Failed(words, hint))
    PROVE  ExecutorInv'
<1>1. Fits(at, Failed(words, hint))
  BY FailureExpected DEF Ordered, Fits, Allowed, Current, Name
<1> QED  BY <1>1, ConcludeKeeps DEF Ordered

LEMMA SuccessKeeps ==
    ASSUME ExecutorInv, at \in DOMAIN plan, ~IsRejected(at), Allowed, job.mode = "real",
           HasHandler(Name, "real"), Conclude(Success)
    PROVE  ExecutorInv'
<1>1. Fits(at, Success)
  BY DEF Fits, Allowed, Current, Name, Success, HandlerResults
<1> QED  BY <1>1, ConcludeKeeps

LEMMA GotoKeeps ==
    ASSUME ExecutorInv, NEW place \in PCs \ {"daemon"}, Goto(place),
           place \in Commands => Ordered
    PROVE  ExecutorInv'
<1>1. pc' = place /\ UNCHANGED <<job, at, attempt, results, verdicts, runs>> /\ plan' = plan
  BY DEF Goto, plan
<1>2. ExecutorTypes'
  BY <1>1 DEF ExecutorInv, ExecutorTypes
<1>3. CommandsOrdered' /\ DaemonAsked'
  BY <1>1 DEF CommandsOrdered, Ordered, IsRejected, Allowed, Current, Name, DaemonAsked
<1>4. Aligned' /\ ResultsAsPipelineAssumes' /\ VerdictsMatchResults'
  BY <1>1 DEF ExecutorInv, Aligned, ResultsAsPipelineAssumes, VerdictsMatchResults, IsRejected
<1> QED  BY <1>2, <1>3, <1>4 DEF ExecutorInv

LEMMA ExecutorStutters ==
    ASSUME ExecutorInv, UNCHANGED executor
    PROVE  ExecutorInv'
<1>1. UNCHANGED <<job, pc, at, attempt, results, verdicts, runs>> /\ plan' = plan
  BY DEF executor, plan
<1> QED
  BY <1>1
  DEF ExecutorInv, ExecutorTypes, CommandsOrdered, Ordered, IsRejected, Allowed, Current, Name,
      DaemonAsked, Upcoming, HasJudge, Judged, Aligned, ResultsAsPipelineAssumes,
      VerdictsMatchResults

\* The guard of a real handler makes the action an ordered one.
LEMMA RealOrdered ==
    ASSUME ExecutorInv, NEW names, Real(names), Name # "check_python_version_real"
    PROVE  Ordered
<1>1. /\ job.mode = "real" /\ at \in DOMAIN plan /\ ~IsRejected(at) /\ Allowed
      /\ HasHandler(Name, "real")
  BY DEF Real, At
<1>2. Name \in CanonicalNames /\ job.mode \in Modes /\ job.approved \in BOOLEAN
  BY <1>1, PlanType DEF ExecutorInv, Name, Current
<1>3. job.approved
  BY <1>1, <1>2, GateAndRegistry DEF Allowed
<1> QED  BY <1>1, <1>3 DEF Ordered

-----------------------------------------------------------------------------
(* The machine's half                                                      *)

\* The executor never goes back to an action it has left.
Forward ==
    \/ runs' = runs /\ at' \in Nat /\ at' >= at
    \/ runs' = runs + 1

LEMMA ConcludeForward ==
    ASSUME ExecutorInv, NEW r, Conclude(r)
    PROVE  Forward
BY DEF Conclude, Forward, ExecutorInv, ExecutorTypes

LEMMA MachineStays ==
    ASSUME ExecutorInv, MachineInv, MachineUnchanged, Forward
    PROVE  MachineInv'
<1>1. machine' = machine /\ left' = left /\ changed' = changed
  BY DEF MachineUnchanged
<1>2. MachineTypes' /\ OnlyConsentedChange'
  BY <1>1 DEF MachineInv, MachineTypes, OnlyConsentedChange
<1>3. LeftEarlier'
  <2> SUFFICES ASSUME NEW l \in left
               PROVE  l.order.run < runs' \/ (l.order.run = runs' /\ l.order.pos < at')
    BY <1>1 DEF LeftEarlier
  <2>1. l.order.run \in Nat /\ l.order.pos \in Nat /\ runs \in Nat /\ at \in Nat
    BY DEF MachineInv, MachineTypes, Left, Orders, ExecutorInv, ExecutorTypes
  <2>2. l.order.run < runs \/ (l.order.run = runs /\ l.order.pos < at)
    BY DEF MachineInv, LeftEarlier
  <2> QED  BY <2>1, <2>2 DEF Forward
<1> QED  BY <1>2, <1>3 DEF MachineInv

\* The order of the action at hand is one the user consented to.
LEMMA TheOrderConsented ==
    ASSUME ExecutorInv, Ordered
    PROVE  /\ TheOrder \in Orders
           /\ TheOrder.run = runs /\ TheOrder.pos = at
           /\ TheOrder.mode = "real" /\ TheOrder.approved /\ TheOrder.pos \notin TheOrder.rejected
<1>1. job.mode \in Modes /\ job.approved \in BOOLEAN /\ job.rejected \in SUBSET Nat
  BY PlanType DEF ExecutorInv
<1>2. runs \in Nat /\ at \in Nat
  BY DEF ExecutorInv, ExecutorTypes
<1> QED  BY <1>1, <1>2 DEF TheOrder, Orders, Ordered, IsRejected

LEMMA InstallsSoftware ==
    ASSUME ExecutorInv, Ordered, pc \in {"apt", "service", "deb", "pip"}
    PROVE  Installs(pc) \in Software
<1>1. Current.context \in Contexts
  BY PlanType DEF ExecutorInv, Ordered, Current
<1> QED  BY <1>1 DEF Installs, Software

\* Something changes on the machine by an order that was consented to.
LEMMA ChangeConsented ==
    ASSUME MachineInv, NEW o \in Orders, o.mode = "real", o.approved, o.pos \notin o.rejected,
           machine' \in Machines, changed' \in {changed, changed \cup {o}}, left' \subseteq left,
           LeftEarlier'
    PROVE  MachineInv'
<1>1. changed' \subseteq changed \cup {o} /\ left' \subseteq left
  OBVIOUS
<1>2. MachineTypes'
  BY <1>1 DEF MachineInv, MachineTypes
<1>3. OnlyConsentedChange'
  BY <1>1 DEF MachineInv, OnlyConsentedChange
<1> QED  BY <1>2, <1>3 DEF MachineInv

LEMMA EarlierStays ==
    ASSUME ExecutorInv, MachineInv, Forward, left' \subseteq left
    PROVE  LeftEarlier'
<1> SUFFICES ASSUME NEW l \in left
             PROVE  l.order.run < runs' \/ (l.order.run = runs' /\ l.order.pos < at')
  BY DEF LeftEarlier
<1>1. l.order.run \in Nat /\ l.order.pos \in Nat /\ runs \in Nat /\ at \in Nat
  BY DEF MachineInv, MachineTypes, Left, Orders, ExecutorInv, ExecutorTypes
<1>2. l.order.run < runs \/ (l.order.run = runs /\ l.order.pos < at)
  BY DEF MachineInv, LeftEarlier
<1> QED  BY <1>1, <1>2 DEF Forward

LEMMA TakesKeeps ==
    ASSUME ExecutorInv, MachineInv, Ordered, Forward, NEW item \in Software, Takes(item),
           UNCHANGED left
    PROVE  MachineInv'
<1>1. machine' \in Machines
  BY DEF Takes, MachineInv, MachineTypes, Machines
<1>2. changed' \in {changed, changed \cup {TheOrder}}
  BY DEF Takes
<1>3. LeftEarlier'
  BY EarlierStays
<1> QED  BY <1>1, <1>2, <1>3, TheOrderConsented, ChangeConsented

\* A command outlives its timeout: its failure is final, so the executor leaves
\* the action in the same step.
LEMMA OutlivesKeeps ==
    ASSUME ExecutorInv, MachineInv, Ordered, NEW item \in Software,
           left' = left \cup {[item |-> item, order |-> TheOrder]}, UNCHANGED <<machine, changed>>,
           NEW r, ~r.retryable, Conclude(r)
    PROVE  MachineInv'
<1> DEFINE new == [item |-> item, order |-> TheOrder]
<1>1. new \in Left /\ new.order = TheOrder
  BY TheOrderConsented DEF Left
<1>2. at' = at + 1 /\ runs' = runs /\ at \in Nat /\ runs \in Nat
  BY DEF Conclude, ExecutorInv, ExecutorTypes
<1> HIDE DEF new
<1>3. left' = left \cup {new}
  BY DEF new
<1>4. MachineTypes'
  BY <1>1, <1>3 DEF MachineInv, MachineTypes
<1>5. LeftEarlier'
  <2>1. \A l \in left : l.order.run < runs' \/ (l.order.run = runs' /\ l.order.pos < at')
    <3> SUFFICES ASSUME NEW l \in left
                 PROVE  l.order.run < runs' \/ (l.order.run = runs' /\ l.order.pos < at')
      OBVIOUS
    <3>1. l.order.run \in Nat /\ l.order.pos \in Nat
      BY DEF MachineInv, MachineTypes, Left, Orders
    <3>2. l.order.run < runs \/ (l.order.run = runs /\ l.order.pos < at)
      BY DEF MachineInv, LeftEarlier
    <3> QED  BY <1>2, <3>1, <3>2
  <2>2. new.order.run = runs' /\ new.order.pos < at'
    <3>1. new.order.run = runs /\ new.order.pos = at
      BY <1>1, TheOrderConsented
    <3> QED  BY <1>2, <3>1
  <2> QED  BY <1>3, <2>1, <2>2 DEF LeftEarlier
<1>6. OnlyConsentedChange'
  BY <1>1, <1>3, TheOrderConsented DEF MachineInv, OnlyConsentedChange
<1> QED  BY <1>4, <1>5, <1>6 DEF MachineInv

-----------------------------------------------------------------------------
(* The steps                                                               *)

LEMMA InitInv == Init => Inv
<1> SUFFICES ASSUME Init PROVE Inv
  OBVIOUS
<1>1. job.plan = <<>> /\ plan = <<>> /\ Len(plan) = 0
  BY DEF Init, plan
<1>2. ExecutorTypes
  <2>1. job \in [plan : Plans \cup {<<>>}, mode : Modes, approved : BOOLEAN,
                 rejected : SUBSET Nat, host : Hosts]
    BY DEF Init, Modes
  <2>2. attempt \in 1..MaxAttempts /\ runs \in 0..MaxRuns /\ at \in 1..Len(plan) + 1
    BY <1>1, BoundsAssumption DEF Init
  <2>3. results \in Seq(ActionResult) /\ verdicts \in Seq(Verdicts) /\ pc \in PCs
    BY DEF Init, PCs
  <2> QED  BY <2>1, <2>2, <2>3 DEF ExecutorTypes
<1>3. CommandsOrdered /\ DaemonAsked /\ Aligned /\ ResultsAsPipelineAssumes /\ VerdictsMatchResults
  BY <1>1 DEF Init, CommandsOrdered, Commands, DaemonAsked, Aligned, ResultsAsPipelineAssumes, VerdictsMatchResults
<1>4. MachineInv
  BY DEF Init, MachineInv, MachineTypes, Machines, VenvStates, LeftEarlier, OnlyConsentedChange
<1> QED  BY <1>2, <1>3, <1>4 DEF Inv, ExecutorInv

LEMMA ExecuteStep == ASSUME Inv, Execute PROVE Inv'
<1>1. PICK p \in Plans, m \in Modes, ok \in BOOLEAN :
         \E no \in SUBSET DOMAIN p :
            job' = [job EXCEPT !.plan = p, !.mode = m, !.approved = ok, !.rejected = no]
  BY DEF Execute
<1>2. PICK no \in SUBSET DOMAIN p :
         job' = [job EXCEPT !.plan = p, !.mode = m, !.approved = ok, !.rejected = no]
  BY <1>1
<1>3. /\ pc' = "attempt" /\ at' = 1 /\ attempt' = 1 /\ results' = <<>> /\ verdicts' = <<>>
      /\ runs' = runs + 1 /\ runs < MaxRuns
  BY DEF Execute
<1>4. p \in Seq(Actions) /\ no \in SUBSET Nat
  BY PlansAssumption
<1>5. job' \in [plan : Plans \cup {<<>>}, mode : Modes, approved : BOOLEAN,
                rejected : SUBSET Nat, host : Hosts]
  BY <1>2, <1>4 DEF Inv, ExecutorInv, ExecutorTypes
<1>6. plan' \in Seq(Actions) /\ Len(plan') \in Nat
  <2>1. plan' = p
    BY <1>2, <1>5 DEF plan, Inv, ExecutorInv, ExecutorTypes
  <2> QED  BY <1>4, <2>1
<1>7. ExecutorTypes'
  <2>1. at' \in 1..Len(plan') + 1
    BY <1>3, <1>6
  <2>2. attempt' \in 1..MaxAttempts /\ runs' \in 0..MaxRuns
    BY <1>3, BoundsAssumption DEF Inv, ExecutorInv, ExecutorTypes
  <2> QED  BY <1>3, <1>5, <2>1, <2>2 DEF ExecutorTypes, PCs
<1>8. /\ CommandsOrdered' /\ DaemonAsked'
      /\ Aligned' /\ ResultsAsPipelineAssumes' /\ VerdictsMatchResults'
  BY <1>3 DEF CommandsOrdered, Commands, DaemonAsked, Aligned, ResultsAsPipelineAssumes,
              VerdictsMatchResults
<1>9. MachineInv'
  BY <1>3, MachineStays DEF Inv, Execute, Forward
<1> QED  BY <1>7, <1>8, <1>9 DEF Inv, ExecutorInv

LEMMA SkipRejectedStep == ASSUME Inv, SkipRejected PROVE Inv'
<1> DEFINE r == Result(Current, "skipped", FALSE, FALSE)
<1>1. Fits(at, r)
  BY DEF SkipRejected, Fits, Current
<1>2. /\ at \in DOMAIN plan /\ pc = "attempt" /\ at' = at + 1 /\ results' = Append(results, r)
      /\ job' = job /\ pc' = pc /\ attempt' = attempt /\ verdicts' = verdicts /\ runs' = runs
  BY DEF SkipRejected
<1> HIDE DEF r
<1>3. /\ results' \in Seq(ActionResult) /\ at' \in 1..Len(plan') + 1
      /\ Aligned' /\ ResultsAsPipelineAssumes' /\ VerdictsMatchResults'
  BY <1>1, <1>2, ResultsGrow DEF Inv
<1>4. ExecutorTypes' /\ CommandsOrdered' /\ DaemonAsked'
  BY <1>2, <1>3 DEF Inv, ExecutorInv, ExecutorTypes, CommandsOrdered, Commands, DaemonAsked
<1>5. MachineInv'
  <2>1. Forward
    BY <1>2 DEF Forward, Inv, ExecutorInv, ExecutorTypes
  <2> QED  BY <2>1, MachineStays DEF Inv, SkipRejected
<1> QED  BY <1>3, <1>4, <1>5 DEF Inv, ExecutorInv

\* An attempt that ends without a command.
LEMMA QuietEnd ==
    ASSUME Inv, at \in DOMAIN plan, NEW r, Fits(at, r), Conclude(r), MachineUnchanged
    PROVE  Inv'
BY ConcludeKeeps, ConcludeForward, MachineStays DEF Inv

LEMMA DenyStep == ASSUME Inv, Deny PROVE Inv'
<1> DEFINE r == Failed({"denied"}, FALSE)
<1>1. r = Result(Current, "failed", FALSE, FALSE)
  <2>1. Retryable({"denied"}) = FALSE /\ (Replans({"denied"}) \/ FALSE) = FALSE
    <3>1. Retryable({"denied"}) \in BOOLEAN /\ Replans({"denied"}) \in BOOLEAN
      BY DEF Retryable, Replans
    <3> QED  BY <3>1, DeniedIsFinal
  <2> QED  BY <2>1, Zenon DEF Failed
<1>2. at \in DOMAIN plan /\ ~IsRejected(at) /\ ~Allowed /\ Conclude(r) /\ MachineUnchanged
  BY DEF Deny
<1> HIDE DEF r
<1>3. Fits(at, r)
  BY <1>1, <1>2 DEF Fits, Allowed, Name, Current
<1> QED  BY <1>2, <1>3, QuietEnd

LEMMA SimulateStep == ASSUME Inv, Simulate PROVE Inv'
<1> DEFINE r == Result(Current, "skipped", FALSE, FALSE)
<1>1. /\ at \in DOMAIN plan /\ ~IsRejected(at) /\ Allowed /\ job.mode = "safe"
      /\ Conclude(r) /\ MachineUnchanged
  BY DEF Simulate, At
<1>2. Fits(at, r)
  BY <1>1 DEF Fits, Allowed, Name, Current, HandlerResults
<1> HIDE DEF r
<1> QED  BY <1>1, <1>2, QuietEnd

\* A real handler that refuses or fails before its first command.
LEMMA QuietFailure ==
    ASSUME Inv, NEW names, Real(names), Name # "check_python_version_real",
           NEW words, NEW hint \in BOOLEAN, Conclude(Failed(words, hint)), MachineUnchanged
    PROVE  Inv'
<1>1. Ordered
  BY RealOrdered DEF Inv
<1>2. ExecutorInv'
  BY <1>1, FailureKeeps DEF Inv
<1>3. MachineInv'
  BY ConcludeForward, MachineStays DEF Inv
<1> QED  BY <1>2, <1>3 DEF Inv

LEMMA QuietSuccess ==
    ASSUME Inv, NEW names, Real(names), Conclude(Success), MachineUnchanged
    PROVE  Inv'
<1>1. ExecutorInv'
  BY SuccessKeeps DEF Inv, Real, At
<1>2. MachineInv'
  BY ConcludeForward, MachineStays DEF Inv
<1> QED  BY <1>1, <1>2 DEF Inv

LEMMA RefuseStep == ASSUME Inv, Refuse PROVE Inv'
<1>1. PICK names \in {AptNames, {"install_cursor"}, {"install_python_package"}, {"create_virtualenv"}} :
         Real(names)
  BY DEF Refuse
<1>2. Name # "check_python_version_real"
  BY <1>1 DEF Real, At, AptNames
<1>3. Conclude(Failed({}, FALSE)) /\ MachineUnchanged
  BY DEF Refuse
<1> QED  BY <1>1, <1>2, <1>3, QuietFailure

LEMMA RefuseProjectStep == ASSUME Inv, RefuseProject PROVE Inv'
<1>1. Real({"install_project_dependencies"}) /\ MachineUnchanged
  BY DEF RefuseProject
<1>2. Name # "check_python_version_real"
  BY <1>1 DEF Real, At
<1> QED  BY <1>1, <1>2, QuietFailure DEF RefuseProject

\* A real handler gives its first command.
LEMMA BeginStep ==
    ASSUME Inv, NEW names, Real(names), Name # "check_python_version_real",
           NEW place \in Commands, Goto(place), MachineUnchanged
    PROVE  Inv'
<1>1. Ordered
  BY RealOrdered DEF Inv
<1>2. ExecutorInv'
  BY <1>1, GotoKeeps DEF Inv, PCs, Commands
<1>3. Forward
  BY DEF Goto, Forward, Inv, ExecutorInv, ExecutorTypes
<1>4. MachineInv'
  BY <1>3, MachineStays DEF Inv
<1> QED  BY <1>2, <1>4 DEF Inv

LEMMA BeginsStep ==
    ASSUME Inv, BeginDocker \/ BeginCursor \/ BeginPackage \/ BeginProject \/ BeginVenv
    PROVE  Inv'
<1>1. PICK names \in {{"install_docker"}, {"install_cursor"}, {"install_python_package"},
                      {"install_project_dependencies"}, {"create_virtualenv"}},
           place \in Commands :
         Real(names) /\ Goto(place) /\ MachineUnchanged
  BY DEF BeginDocker, BeginCursor, BeginPackage, BeginProject, BeginVenv, Commands
<1>2. Name # "check_python_version_real"
  BY <1>1 DEF Real, At
<1> QED  BY <1>1, <1>2, BeginStep

-----------------------------------------------------------------------------
(* The commands                                                            *)

\* A command that is at work has been ordered.
LEMMA AtWork ==
    ASSUME Inv, pc \in Commands
    PROVE  ExecutorInv /\ MachineInv /\ Ordered
BY DEF Inv, ExecutorInv, CommandsOrdered

LEMMA CommandOkStep == ASSUME Inv, CommandOk PROVE Inv'
<1>1. pc \in {"apt", "service", "deb", "pip"} /\ Takes(Installs(pc)) /\ UNCHANGED left
  BY DEF CommandOk
<1>2. ExecutorInv /\ MachineInv /\ Ordered
  BY <1>1, AtWork DEF Commands
<1>3. Installs(pc) \in Software
  BY <1>1, <1>2, InstallsSoftware
<1>4. CASE Goto("service")
  <2>1. ExecutorInv'
    BY <1>2, <1>4, GotoKeeps DEF PCs, Commands
  <2>2. Forward
    BY <1>2, <1>4 DEF Goto, Forward, ExecutorInv, ExecutorTypes
  <2> QED  BY <1>1, <1>2, <1>3, <2>1, <2>2, TakesKeeps DEF Inv
<1>5. CASE Conclude(Success)
  <2>1. ExecutorInv'
    BY <1>2, <1>5, SuccessKeeps DEF Ordered
  <2>2. Forward
    BY <1>2, <1>5, ConcludeForward
  <2> QED  BY <1>1, <1>2, <1>3, <2>1, <2>2, TakesKeeps DEF Inv
<1> QED  BY <1>4, <1>5 DEF CommandOk

LEMMA CommandFailsStep == ASSUME Inv, CommandFails PROVE Inv'
<1>1. pc \in {"apt", "service", "deb", "pip"}
  BY DEF CommandFails
<1>2. ExecutorInv /\ MachineInv /\ Ordered
  BY <1>1, AtWork DEF Commands
<1>3. PICK words : Conclude(Failed(words, FALSE))
  BY DEF CommandFails
<1>4. ExecutorInv' /\ Forward
  BY <1>2, <1>3, FailureKeeps, ConcludeForward
<1>5. CASE MachineUnchanged
  BY <1>2, <1>4, <1>5, MachineStays DEF Inv
<1>6. CASE Takes(Installs(pc)) /\ UNCHANGED left
  <2>1. Installs(pc) \in Software
    BY <1>1, <1>2, InstallsSoftware
  <2> QED  BY <1>2, <1>4, <1>6, <2>1, TakesKeeps DEF Inv
<1> QED  BY <1>5, <1>6 DEF CommandFails

LEMMA CommandNotStartedStep == ASSUME Inv, CommandNotStarted PROVE Inv'
<1>1. pc \in {"apt", "service", "deb", "pip"} /\ MachineUnchanged
  BY DEF CommandNotStarted
<1>2. ExecutorInv /\ MachineInv /\ Ordered
  BY <1>1, AtWork DEF Commands
<1>3. PICK words : Conclude(Failed(words, FALSE))
  BY DEF CommandNotStarted
<1>4. ExecutorInv' /\ Forward
  BY <1>2, <1>3, FailureKeeps, ConcludeForward
<1> QED  BY <1>1, <1>2, <1>4, MachineStays DEF Inv

LEMMA CommandTimesOutStep == ASSUME Inv, CommandTimesOut PROVE Inv'
<1> DEFINE words == {"timed out"} \cup IF pc = "pip" THEN WordsIn[Current.context] ELSE {}
           r == Failed(words, FALSE)
<1>1. pc \in {"apt", "service", "deb", "pip"} /\ Conclude(r)
  BY DEF CommandTimesOut
<1>2. ExecutorInv /\ MachineInv /\ Ordered
  BY <1>1, AtWork DEF Commands
<1>3. ExecutorInv' /\ Forward
  <2> HIDE DEF words
  <2> QED  BY <1>1, <1>2, FailureKeeps, ConcludeForward
<1>4. Installs(pc) \in Software
  BY <1>1, <1>2, InstallsSoftware
<1>5. CASE MachineUnchanged
  BY <1>2, <1>3, <1>5, MachineStays DEF Inv
<1>6. CASE Takes(Installs(pc)) /\ UNCHANGED left
  BY <1>2, <1>3, <1>4, <1>6, TakesKeeps DEF Inv
<1>7. CASE /\ pc # "pip"
           /\ left' = left \cup {[item |-> Installs(pc), order |-> TheOrder]}
           /\ UNCHANGED <<machine, changed>>
  <2>1. words = {"timed out"}
    BY <1>7
  <2>2. ~r.retryable
    BY <2>1, TimedOutIsPermanent DEF Failed, Result
  <2>3. MachineInv'
    <3> HIDE DEF r
    <3> QED  BY <1>1, <1>2, <1>4, <1>7, <2>2, OutlivesKeeps
  <2> QED  BY <1>3, <2>3 DEF Inv
<1> QED  BY <1>5, <1>6, <1>7 DEF CommandTimesOut

LEMMA DownloadOkStep == ASSUME Inv, DownloadOk PROVE Inv'
<1>1. pc = "download" /\ Goto("deb") /\ MachineUnchanged
  BY DEF DownloadOk
<1>2. ExecutorInv /\ MachineInv /\ Ordered
  BY <1>1, AtWork DEF Commands
<1>3. ExecutorInv'
  BY <1>1, <1>2, GotoKeeps DEF PCs, Commands
<1>4. Forward
  BY <1>1, <1>2 DEF Goto, Forward, ExecutorInv, ExecutorTypes
<1> QED  BY <1>1, <1>2, <1>3, <1>4, MachineStays DEF Inv

LEMMA DownloadFailsStep == ASSUME Inv, DownloadFails PROVE Inv'
<1>1. pc = "download" /\ MachineUnchanged
  BY DEF DownloadFails
<1>2. ExecutorInv /\ MachineInv /\ Ordered
  BY <1>1, AtWork DEF Commands
<1>3. PICK hint \in BOOLEAN : \E words : Conclude(Failed(words, hint))
  BY DEF DownloadFails
<1>4. PICK words : Conclude(Failed(words, hint))
  BY <1>3
<1>5. ExecutorInv' /\ Forward
  BY <1>2, <1>4, FailureKeeps, ConcludeForward
<1> QED  BY <1>1, <1>2, <1>5, MachineStays DEF Inv

LEMMA CreateVenvStep == ASSUME Inv, CreateVenv PROVE Inv'
<1>1. pc = "venv" /\ UNCHANGED left
  BY DEF CreateVenv
<1>2. ExecutorInv /\ MachineInv /\ Ordered
  BY <1>1, AtWork DEF Commands
<1>3. PICK state \in {"directory", "marker", "complete"} \cup {machine.venv} :
         /\ machine' = [machine EXCEPT !.venv = state]
         /\ changed' = IF state = machine.venv THEN changed ELSE changed \cup {TheOrder}
         /\ IF state = "complete" THEN Conclude(Success)
            ELSE \E words \in {{}, {"denied"}, WordsIn[Current.context]} :
                    Conclude(Failed(words, FALSE))
  BY <1>1 DEF CreateVenv
<1>4. ExecutorInv' /\ Forward
  <2>1. CASE state = "complete"
    <3>1. Conclude(Success)
      BY <1>3, <2>1
    <3> QED  BY <1>2, <3>1, SuccessKeeps, ConcludeForward DEF Ordered
  <2>2. CASE state # "complete"
    <3>1. PICK words : Conclude(Failed(words, FALSE))
      BY <1>3, <2>2
    <3> QED  BY <1>2, <3>1, FailureKeeps, ConcludeForward
  <2> QED  BY <2>1, <2>2
<1>5. machine' \in Machines
  BY <1>2, <1>3 DEF MachineInv, MachineTypes, Machines, VenvStates
<1>6. changed' \in {changed, changed \cup {TheOrder}}
  BY <1>3
<1>7. LeftEarlier'
  BY <1>1, <1>2, <1>4, EarlierStays
<1>8. MachineInv'
  BY <1>1, <1>2, <1>5, <1>6, <1>7, TheOrderConsented, ChangeConsented
<1> QED  BY <1>4, <1>8 DEF Inv

-----------------------------------------------------------------------------
(* The end of an execution, its verification, and the machine by itself    *)

LEMMA EndStep == ASSUME Inv, EndExecution \/ EndVerification PROVE Inv'
<1>1. PICK place \in {"verify", "idle"} : Goto(place)
  BY DEF EndExecution, EndVerification
<1>2. MachineUnchanged
  BY DEF EndExecution, EndVerification
<1>3. ExecutorInv'
  BY <1>1, GotoKeeps DEF Inv, PCs, Commands
<1>4. Forward
  BY <1>1 DEF Goto, Forward, Inv, ExecutorInv, ExecutorTypes
<1> QED  BY <1>2, <1>3, <1>4, MachineStays DEF Inv

\* A verdict is added; only of a success is it "verified".
LEMMA DecideKeeps ==
    ASSUME Inv, Upcoming \in DOMAIN plan, NEW v \in {"verified", "failed", "skipped"},
           v = "verified" => HasJudge, Decide(v)
    PROVE  Inv'
<1> DEFINE i == Upcoming
<1>1. /\ i \in DOMAIN plan
      /\ pc' = "verify" /\ UNCHANGED <<job, at, attempt, results, runs>>
      /\ MachineUnchanged
  BY DEF Decide
<1>2. /\ v = "verified" => Judged(i)
      /\ verdicts' = Append(verdicts, [id |-> plan[i].id, verdict |-> v])
  BY DEF Decide, HasJudge
<1> DEFINE new == [id |-> plan[i].id, verdict |-> v]
<1>3. new \in Verdicts /\ new.id = plan[i].id /\ new.verdict = v
  BY <1>1, PlanType DEF Inv, ExecutorInv, Verdicts
<1> HIDE DEF new
<1>4. verdicts \in Seq(Verdicts) /\ verdicts' = Append(verdicts, new)
  BY <1>2 DEF Inv, ExecutorInv, ExecutorTypes, new
<1>5. /\ verdicts' \in Seq(Verdicts) /\ DOMAIN verdicts' = 1..i
      /\ \A k \in DOMAIN verdicts : verdicts'[k] = verdicts[k]
      /\ verdicts'[i] = new /\ DOMAIN verdicts = 1..i - 1
  BY <1>3, <1>4 DEF Upcoming
<1>6. plan' = plan
  BY <1>1 DEF plan
<1>7. ExecutorTypes'
  BY <1>1, <1>5, <1>6 DEF Inv, ExecutorInv, ExecutorTypes, PCs
<1>8. VerdictsMatchResults'
  <2>1. v = "verified" =>
           i \in DOMAIN results /\ results[i] = Result(plan[i], "success", FALSE, FALSE)
    <3> SUFFICES ASSUME v = "verified"
                 PROVE  i \in DOMAIN results /\ results[i] = Result(plan[i], "success", FALSE, FALSE)
      OBVIOUS
    <3>1. i \in DOMAIN results /\ results[i].status = "success"
      BY <1>2 DEF Judged
    <3>2. Fits(i, results[i])
      BY <3>1 DEF Inv, ExecutorInv, ResultsAsPipelineAssumes, Fits
    <3> QED  BY <1>1, <3>1, <3>2, FitsType DEF Inv, ExecutorInv
  <2>2. ASSUME NEW k \in DOMAIN verdicts'
        PROVE  /\ verdicts'[k].id = plan[k].id
               /\ verdicts'[k].verdict = "verified" =>
                     k \in DOMAIN results /\ results[k] = Result(plan[k], "success", FALSE, FALSE)
    <3> HIDE DEF i
    <3>1. CASE k = i
      BY <1>3, <1>5, <2>1, <3>1
    <3>2. CASE k \in DOMAIN verdicts
      BY <1>5, <3>2 DEF Inv, ExecutorInv, VerdictsMatchResults
    <3>3. k = i \/ k \in DOMAIN verdicts
      <4>1. i \in Nat
        BY <1>4 DEF i, Upcoming
      <4> QED  BY <1>5, <4>1
    <3> QED  BY <3>1, <3>2, <3>3
  <2> QED  BY <1>1, <1>6, <2>2 DEF VerdictsMatchResults
<1>9. CommandsOrdered' /\ DaemonAsked' /\ Aligned' /\ ResultsAsPipelineAssumes'
  BY <1>1, <1>6
  DEF Inv, ExecutorInv, CommandsOrdered, Commands, DaemonAsked, IsRejected, Aligned,
      ResultsAsPipelineAssumes
<1>10. MachineInv'
  <2>1. Forward
    BY <1>1 DEF Forward, Inv, ExecutorInv, ExecutorTypes
  <2> QED  BY <1>1, <2>1, MachineStays DEF Inv
<1> QED  BY <1>7, <1>8, <1>9, <1>10 DEF Inv, ExecutorInv

\* The two steps that judge add one verdict, to which a success answers.
LEMMA JudgesDecide ==
    ASSUME Inv, Verify \/ AskDaemon
    PROVE  /\ Verifying /\ Upcoming \in DOMAIN plan
           /\ \E v \in {"verified", "failed", "skipped"} :
                 Decide(v) /\ (v # "skipped" => HasJudge)
<1>1. CASE Verify
  BY <1>1, Zenon DEF Verify, Verifying
<1>2. CASE AskDaemon
  BY <1>2, Zenon DEF AskDaemon, Verifying, Inv, ExecutorInv, DaemonAsked
<1> QED  BY <1>1, <1>2

LEMMA JudgeStep == ASSUME Inv, Verify \/ AskDaemon PROVE Inv'
<1>1. PICK v \in {"verified", "failed", "skipped"} : Decide(v) /\ (v # "skipped" => HasJudge)
  BY JudgesDecide
<1> QED  BY <1>1, JudgesDecide, DecideKeeps

LEMMA AskDockerStep == ASSUME Inv, AskDocker PROVE Inv'
<1>1. /\ pc' = "daemon" /\ UNCHANGED <<job, at, attempt, results, verdicts, runs>>
      /\ plan' = plan /\ MachineUnchanged
  BY DEF AskDocker, Goto, plan
<1>2. DaemonAsked'
  BY <1>1 DEF AskDocker, DockerAsked, DaemonAsked, HasJudge, Judged, Upcoming
<1>3. ExecutorInv'
  BY <1>1, <1>2
  DEF Inv, ExecutorInv, ExecutorTypes, PCs, CommandsOrdered, Commands, Aligned,
      ResultsAsPipelineAssumes, VerdictsMatchResults, IsRejected
<1>4. Forward
  BY <1>1 DEF Forward, Inv, ExecutorInv, ExecutorTypes
<1> QED  BY <1>1, <1>3, <1>4, MachineStays DEF Inv

LEMMA LandStep == ASSUME Inv, Land PROVE Inv'
<1>1. PICK l \in left :
         /\ left' = left \ {l}
         /\ \/ UNCHANGED <<machine, changed>>
            \/ /\ machine' = [machine EXCEPT !.software = @ \cup {l.item}]
               /\ changed' = IF l.item \in machine.software THEN changed
                             ELSE changed \cup {l.order}
  BY DEF Land
<1>2. UNCHANGED executor
  BY DEF Land, executor
<1>3. ExecutorInv'
  BY <1>2, ExecutorStutters DEF Inv
<1>4. l.item \in Software /\ l.order \in Orders
  BY DEF Inv, MachineInv, MachineTypes, Left
<1>5. l.order.mode = "real" /\ l.order.approved /\ l.order.pos \notin l.order.rejected
  BY DEF Inv, MachineInv, OnlyConsentedChange
<1>6. machine' \in Machines /\ changed' \in {changed, changed \cup {l.order}} /\ left' \subseteq left
  BY <1>1, <1>4 DEF Inv, MachineInv, MachineTypes, Machines
<1>7. Forward
  BY <1>2 DEF executor, Forward, Inv, ExecutorInv, ExecutorTypes
<1>8. MachineInv'
  BY <1>4, <1>5, <1>6, <1>7, EarlierStays, ChangeConsented DEF Inv
<1> QED  BY <1>3, <1>8 DEF Inv

LEMMA RemoveStep == ASSUME Inv, Remove PROVE Inv'
<1>1. UNCHANGED executor /\ left' = left /\ changed' = changed
  BY DEF Remove, executor
<1>2. ExecutorInv'
  BY <1>1, ExecutorStutters DEF Inv
<1>3. machine' \in Machines
  BY DEF Remove, Inv, MachineInv, MachineTypes, Machines, VenvStates
<1>4. Forward
  BY <1>1 DEF executor, Forward, Inv, ExecutorInv, ExecutorTypes
<1>5. LeftEarlier'
  BY <1>1, <1>4, EarlierStays DEF Inv
<1>6. MachineTypes' /\ OnlyConsentedChange'
  BY <1>1, <1>3 DEF Inv, MachineInv, MachineTypes, OnlyConsentedChange
<1> QED  BY <1>2, <1>5, <1>6 DEF Inv, MachineInv

LEMMA StutterStep == ASSUME Inv, UNCHANGED vars PROVE Inv'
<1>1. UNCHANGED executor /\ MachineUnchanged
  BY DEF vars, executor, MachineUnchanged
<1>2. Forward
  BY <1>1 DEF executor, Forward, Inv, ExecutorInv, ExecutorTypes
<1> QED  BY <1>1, <1>2, ExecutorStutters, MachineStays DEF Inv

-----------------------------------------------------------------------------
(* The theorems                                                            *)

LEMMA NextInv == Inv /\ [Next]_vars => Inv'
<1> SUFFICES ASSUME Inv, [Next]_vars PROVE Inv'
  OBVIOUS
<1>1. CASE Execute  BY <1>1, ExecuteStep
<1>2. CASE SkipRejected  BY <1>2, SkipRejectedStep
<1>3. CASE Deny  BY <1>3, DenyStep
<1>4. CASE Simulate  BY <1>4, SimulateStep
<1>5. CASE CheckPython  BY <1>5, QuietSuccess DEF CheckPython
<1>6. CASE Refuse  BY <1>6, RefuseStep
<1>7. CASE RefuseProject  BY <1>7, RefuseProjectStep
<1>8. CASE VenvExists  BY <1>8, QuietSuccess DEF VenvExists
<1>9. CASE BeginDocker \/ BeginCursor \/ BeginPackage \/ BeginProject \/ BeginVenv
  BY <1>9, BeginsStep
<1>10. CASE CommandOk  BY <1>10, CommandOkStep
<1>11. CASE CommandFails  BY <1>11, CommandFailsStep
<1>12. CASE CommandNotStarted  BY <1>12, CommandNotStartedStep
<1>13. CASE CommandTimesOut  BY <1>13, CommandTimesOutStep
<1>14. CASE DownloadOk  BY <1>14, DownloadOkStep
<1>15. CASE DownloadFails  BY <1>15, DownloadFailsStep
<1>16. CASE CreateVenv  BY <1>16, CreateVenvStep
<1>17. CASE EndExecution \/ EndVerification  BY <1>17, EndStep
<1>18. CASE Verify \/ AskDaemon  BY <1>18, JudgeStep
<1>19. CASE Land  BY <1>19, LandStep
<1>20. CASE Remove  BY <1>20, RemoveStep
<1>21. CASE AskDocker  BY <1>21, AskDockerStep
<1>22. CASE UNCHANGED vars  BY <1>22, StutterStep
<1> QED
  BY <1>1, <1>2, <1>3, <1>4, <1>5, <1>6, <1>7, <1>8, <1>9, <1>10, <1>11, <1>12, <1>13, <1>14,
     <1>15, <1>16, <1>17, <1>18, <1>19, <1>20, <1>21, <1>22 DEF Next

LEMMA Invariance == Spec => []Inv
BY InitInv, NextInv, PTL DEF Spec

\* No attempt at an action begins while a command of an earlier attempt at it is
\* still at work: a timeout is a final failure.
THEOREM NoOverlap == Spec => []RetriesNeverOverlap
<1>1. Inv => RetriesNeverOverlap
  <2> SUFFICES ASSUME Inv, NEW l \in left, l.order.run = runs, l.order.pos = at
               PROVE  FALSE
    BY DEF RetriesNeverOverlap
  <2>1. runs \in Nat /\ at \in Nat
    BY DEF Inv, ExecutorInv, ExecutorTypes
  <2>2. l.order.run < runs \/ (l.order.run = runs /\ l.order.pos < at)
    BY DEF Inv, MachineInv, LeftEarlier
  <2> QED  BY <2>1, <2>2
<1> QED  BY <1>1, Invariance, PTL

\* Every change of the machine, late or in time, was ordered by a REAL, approved
\* execution for an action the user did not reject.
THEOREM ConsentedChange == Spec => []OnlyConsentedChange
<1>1. Inv => OnlyConsentedChange
  BY DEF Inv, MachineInv
<1> QED  BY <1>1, Invariance, PTL

\* Whatever the commands do, the executor's results are those that Pipeline's
\* abstraction of the handlers allows, all of them at every moment.
THEOREM ResultsRefine == Spec => []ResultsAsPipelineAssumes
<1>1. Inv => ResultsAsPipelineAssumes
  BY DEF Inv, ExecutorInv
<1> QED  BY <1>1, Invariance, PTL

\* Verdicts are aligned with plan and results, and only a success is certified.
THEOREM VerdictsAligned == Spec => []VerdictsMatchResults
<1>1. Inv => VerdictsMatchResults
  BY DEF Inv, ExecutorInv
<1> QED  BY <1>1, Invariance, PTL

-----------------------------------------------------------------------------
(* The refinement                                                          *)

\* Only an action that has a handler is tried again.
Retrying == attempt > 1 => at \in DOMAIN plan /\ ~IsRejected(at) /\ Allowed

\* Only a success with a verifier of its own fails its verification.
FailuresFounded ==
    \A i \in DOMAIN verdicts : verdicts[i].verdict = "failed" =>
        /\ i \in DOMAIN results /\ results[i].status = "success"
        /\ plan[i].id.name \in VerifierNames

RefineInv == Retrying /\ FailuresFounded

\* The three kinds of step that Next has between an execution's begin and end: an
\* attempt ends, a verdict is added, or the executor shows the pipeline nothing.
Attempted ==
    /\ Executing /\ pc' = "attempt"
    /\ at \in DOMAIN plan /\ ~IsRejected(at) /\ Allowed
    /\ \E r \in HandlerResults(Current, job.mode) : Conclude(r)

Unseen ==
    /\ pc' = pc \/ (Executing /\ Executing') \/ (Verifying /\ Verifying')
    /\ Executing => UNCHANGED lost
    /\ UNCHANGED <<job, at, attempt, results, verdicts>>

LEMMA RealAttempted ==
    ASSUME Inv, NEW names, Real(names), NEW r, Conclude(r),
           r = Success \/ \E words : \E hint \in BOOLEAN : r = Failed(words, hint)
    PROVE  Attempted
<1>1. /\ pc = "attempt" /\ at \in DOMAIN plan /\ ~IsRejected(at) /\ Allowed
      /\ job.mode = "real" /\ HasHandler(Name, "real")
  BY DEF Real, At
<1>2. Success \in HandlerResults(Current, "real")
  BY <1>1 DEF Success, HandlerResults, Name
<1>3. r \in HandlerResults(Current, "real")
  BY <1>1, <1>2, FailureExpected
<1>4. pc' = "attempt"
  BY DEF Conclude
<1> QED  BY <1>1, <1>3, <1>4 DEF Attempted, Executing

LEMMA CommandAttempted ==
    ASSUME Inv, pc \in Commands, NEW r, Conclude(r),
           r = Success \/ \E words : \E hint \in BOOLEAN : r = Failed(words, hint)
    PROVE  Attempted
<1>1. Ordered
  BY AtWork
<1>2. Success \in HandlerResults(Current, "real")
  BY <1>1 DEF Ordered, Success, HandlerResults, Name
<1>3. r \in HandlerResults(Current, "real")
  BY <1>1, <1>2, FailureExpected DEF Ordered
<1>4. pc' = "attempt" /\ Executing
  BY DEF Conclude, Executing, Commands
<1> QED  BY <1>1, <1>3, <1>4 DEF Attempted, Ordered

LEMMA Kinds ==
    ASSUME Inv, [Next]_vars
    PROVE  \/ Execute \/ SkipRejected \/ Deny \/ Attempted
           \/ EndExecution \/ (Verify \/ AskDaemon) \/ EndVerification \/ Unseen
<1>1. CASE Simulate
  <2>1. /\ Executing /\ at \in DOMAIN plan /\ ~IsRejected(at) /\ Allowed /\ job.mode = "safe"
        /\ Conclude(Result(Current, "skipped", FALSE, FALSE))
    BY <1>1 DEF Simulate, At, Executing
  <2>2. Result(Current, "skipped", FALSE, FALSE) \in HandlerResults(Current, job.mode)
    BY <2>1 DEF HandlerResults
  <2>3. pc' = "attempt"
    BY <2>1 DEF Conclude
  <2> QED  BY <2>1, <2>2, <2>3 DEF Attempted
<1>2. CASE CheckPython \/ VenvExists
  <2>1. PICK names : Real(names)
    BY <1>2 DEF CheckPython, VenvExists
  <2>2. Conclude(Success)
    BY <1>2 DEF CheckPython, VenvExists
  <2> QED  BY <2>1, <2>2, RealAttempted
<1>3. CASE Refuse \/ RefuseProject
  <2>1. PICK names : Real(names)
    BY <1>3 DEF Refuse, RefuseProject
  <2>2. PICK words : Conclude(Failed(words, FALSE))
    BY <1>3 DEF Refuse, RefuseProject
  <2> QED  BY <2>1, <2>2, RealAttempted
<1>4. CASE BeginDocker \/ BeginCursor \/ BeginPackage \/ BeginProject \/ BeginVenv
  <2>1. pc = "attempt"
    BY <1>4 DEF BeginDocker, BeginCursor, BeginPackage, BeginProject, BeginVenv, Real, At
  <2>2. PICK place \in Commands : Goto(place)
    BY <1>4 DEF BeginDocker, BeginCursor, BeginPackage, BeginProject, BeginVenv, Commands
  <2> QED  BY <2>1, <2>2 DEF Unseen, Executing, Goto, Commands
<1>5. CASE CommandOk
  <2>1. pc \in {"apt", "service", "deb", "pip"} /\ (Goto("service") \/ Conclude(Success))
    BY <1>5 DEF CommandOk
  <2>2. CASE Goto("service")
    BY <2>1, <2>2 DEF Unseen, Executing, Commands, Goto
  <2>3. CASE Conclude(Success)
    BY <2>1, <2>3, CommandAttempted DEF Commands
  <2> QED  BY <2>1, <2>2, <2>3
<1>6. CASE CommandFails \/ CommandNotStarted \/ CommandTimesOut
  <2>1. pc \in Commands
    BY <1>6 DEF CommandFails, CommandNotStarted, CommandTimesOut, Commands
  <2>2. PICK words : Conclude(Failed(words, FALSE))
    BY <1>6 DEF CommandFails, CommandNotStarted, CommandTimesOut
  <2> QED  BY <2>1, <2>2, CommandAttempted
<1>7. CASE DownloadFails
  <2>1. pc \in Commands
    BY <1>7 DEF DownloadFails, Commands
  <2>2. PICK hint \in BOOLEAN : \E words : Conclude(Failed(words, hint))
    BY <1>7 DEF DownloadFails
  <2> QED  BY <2>1, <2>2, CommandAttempted
<1>8. CASE CreateVenv
  <2>1. pc \in Commands
    BY <1>8 DEF CreateVenv, Commands
  <2>2. Conclude(Success) \/ \E words : Conclude(Failed(words, FALSE))
    BY <1>8 DEF CreateVenv
  <2> QED  BY <2>1, <2>2, CommandAttempted
<1>9. CASE DownloadOk
  BY <1>9 DEF DownloadOk, Unseen, Executing, Commands, Goto
<1>10. CASE Land \/ Remove \/ AskDocker
  BY <1>10
  DEF Land, Remove, Loses, AskDocker, DockerAsked, Goto, Unseen, Executing, Verifying, Commands
<1>11. CASE UNCHANGED vars
  BY <1>11 DEF vars, Unseen
<1> QED
  BY <1>1, <1>2, <1>3, <1>4, <1>5, <1>6, <1>7, <1>8, <1>9, <1>10, <1>11 DEF Next

\* Neither a simulation nor a denial is tried again.
LEMMA RetryWaits ==
    ASSUME Inv, RefineInv, at \notin DOMAIN plan \/ IsRejected(at) \/ ~Allowed
    PROVE  attempt = 1
BY DEF Inv, ExecutorInv, ExecutorTypes, RefineInv, Retrying

LEMMA DenyReports ==
    ASSUME Deny
    PROVE  /\ attempt' = 1 /\ at' = at + 1 /\ pc' = "attempt"
           /\ results' = Append(results, Result(Current, "failed", FALSE, FALSE))
           /\ UNCHANGED <<job, verdicts>>
<1> DEFINE r == Failed({"denied"}, FALSE)
<1>1. r = Result(Current, "failed", FALSE, FALSE)
  <2>1. Retryable({"denied"}) = FALSE /\ (Replans({"denied"}) \/ FALSE) = FALSE
    <3>1. Retryable({"denied"}) \in BOOLEAN /\ Replans({"denied"}) \in BOOLEAN
      BY DEF Retryable, Replans
    <3> QED  BY <3>1, DeniedIsFinal
  <2> QED  BY <2>1, Zenon DEF Failed
<1>2. Conclude(r)
  BY DEF Deny
<1> HIDE DEF r
<1>3. ~r.retryable
  BY <1>1 DEF Result
<1> QED  BY <1>1, <1>2, <1>3 DEF Conclude

\* While results are added, and while none is, the failed verdicts stay founded.
LEMMA FoundedStays ==
    ASSUME Inv, RefineInv, UNCHANGED <<job, verdicts>>,
           results' = results \/ \E r : results' = Append(results, r)
    PROVE  FailuresFounded'
<1>1. plan' = plan
  BY DEF plan
<1>2. ASSUME NEW i \in DOMAIN results
      PROVE  i \in DOMAIN results' /\ results'[i] = results[i]
  BY DEF Inv, ExecutorInv, ExecutorTypes
<1> QED  BY <1>1, <1>2 DEF RefineInv, FailuresFounded

LEMMA JudgesFounded ==
    ASSUME Inv, RefineInv, Verify \/ AskDaemon
    PROVE  FailuresFounded'
<1> DEFINE i == Upcoming
<1>1. PICK v \in {"verified", "failed", "skipped"} : Decide(v) /\ (v # "skipped" => HasJudge)
  BY JudgesDecide
<1>2. /\ i \in DOMAIN plan /\ plan' = plan /\ results' = results
      /\ v = "failed" => plan[i].id.name \in VerifierNames /\ Judged(i)
      /\ verdicts' = Append(verdicts, [id |-> plan[i].id, verdict |-> v])
  BY <1>1, JudgesDecide DEF Decide, HasJudge, plan
<1> DEFINE new == [id |-> plan[i].id, verdict |-> v]
<1>3. new \in Verdicts /\ new.verdict = v
  BY <1>2, PlanType DEF Inv, ExecutorInv, Verdicts
<1> HIDE DEF new
<1>4. verdicts \in Seq(Verdicts) /\ verdicts' = Append(verdicts, new)
  BY <1>2 DEF Inv, ExecutorInv, ExecutorTypes, new
<1>5. /\ DOMAIN verdicts' = 1..i /\ verdicts'[i] = new /\ DOMAIN verdicts = 1..i - 1
      /\ \A k \in DOMAIN verdicts : verdicts'[k] = verdicts[k]
  BY <1>3, <1>4 DEF Upcoming
<1>6. i \in Nat
  BY <1>4 DEF Upcoming
<1> HIDE DEF i
<1> SUFFICES ASSUME NEW k \in DOMAIN verdicts', verdicts'[k].verdict = "failed"
             PROVE  /\ k \in DOMAIN results /\ results[k].status = "success"
                    /\ plan[k].id.name \in VerifierNames
  BY <1>2 DEF FailuresFounded
<1>7. CASE k = i
  BY <1>2, <1>3, <1>5, <1>7 DEF Judged
<1>8. CASE k \in DOMAIN verdicts
  BY <1>5, <1>8 DEF RefineInv, FailuresFounded
<1> QED  BY <1>5, <1>6, <1>7, <1>8

LEMMA RefineStep ==
    ASSUME Inv, RefineInv, [Next]_vars
    PROVE  RefineInv'
<1>1. CASE Execute
  BY <1>1 DEF Execute, RefineInv, Retrying, FailuresFounded
<1>2. CASE SkipRejected
  <2>1. attempt' = 1 /\ UNCHANGED <<job, verdicts>>
    BY <1>2, RetryWaits DEF SkipRejected
  <2>2. FailuresFounded'
    BY <1>2, <2>1, FoundedStays DEF SkipRejected
  <2> QED  BY <2>1, <2>2 DEF RefineInv, Retrying
<1>3. CASE Deny
  BY <1>3, DenyReports, FoundedStays DEF RefineInv, Retrying
<1>4. CASE Attempted
  <2>1. PICK r : Conclude(r)
    BY <1>4 DEF Attempted
  <2>2. FailuresFounded'
    BY <2>1, FoundedStays DEF Conclude
  <2>3. Retrying'
    BY <1>4, <2>1 DEF Conclude, Retrying, Attempted, IsRejected, Allowed, Name, Current, plan
  <2> QED  BY <2>2, <2>3 DEF RefineInv
<1>5. CASE EndExecution \/ EndVerification \/ Unseen
  <2>1. UNCHANGED <<job, at, attempt, results, verdicts>>
    BY <1>5 DEF EndExecution, EndVerification, Unseen, Goto
  <2>2. Retrying'
    BY <2>1 DEF RefineInv, Retrying, IsRejected, Allowed, Name, Current, plan
  <2> QED  BY <2>1, <2>2, FoundedStays DEF RefineInv
<1>6. CASE Verify \/ AskDaemon
  <2>1. Retrying'
    BY <1>6, JudgesDecide DEF Decide, RefineInv, Retrying, IsRejected, Allowed, Name, Current, plan
  <2> QED  BY <1>6, <2>1, JudgesFounded DEF RefineInv
<1> QED  BY <1>1, <1>2, <1>3, <1>4, <1>5, <1>6, Kinds

\* The executor's position is where the contract counts it.
LEMMA PositionIsAt ==
    ASSUME Inv
    PROVE  Executor!Position = at
BY DEF Inv, ExecutorInv, ExecutorTypes, Aligned, Executor!Position

\* The contract reads the tables that the executor reads.
LEMMA SameTables ==
    /\ Executor!Modes = Modes /\ Executor!VerifierNames = VerifierNames
    /\ \A n : Executor!Canonical(n) = Canonical(n)
    /\ \A id, m, ok : Executor!GateAllows(id, m, ok) <=> GateAllows(id, m, ok)
    /\ \A a, status, x, y : Executor!Result(a, status, x, y) = Result(a, status, x, y)
    /\ \A a, m : Executor!HandlerResults(a, m) = HandlerResults(a, m)
<1>1. /\ Executor!Modes = Modes /\ Executor!VerifierNames = VerifierNames
      /\ \A n : Executor!Canonical(n) = Canonical(n)
      /\ \A a, status, x, y : Executor!Result(a, status, x, y) = Result(a, status, x, y)
  BY DEF Modes, VerifierNames, Canonical, Bare, Result, Executor!Modes, Executor!VerifierNames,
         Executor!Canonical, Executor!Bare, Executor!Result
<1>2. \A id, m, ok : Executor!GateAllows(id, m, ok) <=> GateAllows(id, m, ok)
  BY DEF GateAllows, HasPolicy, GateCanonical, Canonical, Bare, SafeOnlyNames, HumanApprovalNames,
         Executor!GateAllows, Executor!HasPolicy, Executor!GateCanonical, Executor!Canonical,
         Executor!Bare, Executor!SafeOnlyNames, Executor!HumanApprovalNames
<1>3. \A n, m : Executor!HasHandler(n, m) <=> HasHandler(n, m)
  BY DEF HasHandler, SafeHandlerNames, RealHandlerNames, CanonicalNames, Executor!HasHandler,
         Executor!SafeHandlerNames, Executor!RealHandlerNames, Executor!CanonicalNames
<1>4. \A a, m : Executor!HandlerResults(a, m) = HandlerResults(a, m)
  BY <1>1, <1>3, Zenon DEF HandlerResults, Executor!HandlerResults
<1> QED  BY <1>1, <1>2, <1>4

LEMMA InitImplements == Init => Executor!Init
<1> SUFFICES ASSUME Init PROVE Executor!Init
  OBVIOUS
<1>1. job.plan = <<>> /\ job.mode = "safe" /\ job.approved = FALSE /\ job.rejected = {}
  BY DEF Init
<1> QED  BY <1>1 DEF Init, Executor!Init, plan, Executing, Verifying, Commands

LEMMA ExecuteImplements ==
    ASSUME Inv, Execute
    PROVE  Executor!Execute
<1>1. PICK p \in Plans, m \in Modes, ok \in BOOLEAN :
         \E no \in SUBSET DOMAIN p :
            job' = [job EXCEPT !.plan = p, !.mode = m, !.approved = ok, !.rejected = no]
  BY DEF Execute
<1>2. PICK no \in SUBSET DOMAIN p :
         job' = [job EXCEPT !.plan = p, !.mode = m, !.approved = ok, !.rejected = no]
  BY <1>1
<1>3. job'.plan = p /\ job'.mode = m /\ job'.approved = ok /\ job'.rejected = no
  BY <1>2 DEF Inv, ExecutorInv, ExecutorTypes
<1>4. /\ pc = "idle" /\ pc' = "attempt" /\ attempt' = 1 /\ results' = <<>>
  BY DEF Execute
<1> QED  BY <1>3, <1>4, SameTables DEF Executor!Execute, plan, Executing, Verifying, Commands

LEMMA SkipImplements ==
    ASSUME Inv, RefineInv, SkipRejected
    PROVE  Executor!SkipRejected
<1>1. /\ pc = "attempt" /\ pc' = "attempt" /\ at \in DOMAIN plan /\ at \in job.rejected
      /\ results' = Append(results, Result(plan[at], "skipped", FALSE, FALSE))
      /\ attempt' = 1 /\ UNCHANGED <<job, plan>>
  BY RetryWaits DEF SkipRejected, IsRejected, Current, plan
<1> QED  BY <1>1, PositionIsAt, SameTables
  DEF Executor!SkipRejected, Executor!Report, Executor!job, Executing

LEMMA DenyImplements ==
    ASSUME Inv, Deny
    PROVE  Executor!Deny
<1>1. /\ pc = "attempt" /\ pc' = "attempt" /\ at \in DOMAIN plan /\ at \notin job.rejected
      /\ results' = Append(results, Result(plan[at], "failed", FALSE, FALSE))
      /\ attempt' = 1 /\ UNCHANGED <<job, plan>>
  BY DenyReports DEF Deny, IsRejected, Current, plan
<1>2. ~Executor!Allowed(plan[at])
  BY SameTables DEF Deny, Allowed, Name, Current, Executor!Allowed
<1> QED  BY <1>1, <1>2, PositionIsAt, SameTables
  DEF Executor!Deny, Executor!Report, Executor!job, Executing

LEMMA AttemptImplements ==
    ASSUME Inv, Attempted
    PROVE  Executor!Attempt
<1>1. PICK r \in HandlerResults(plan[at], job.mode) : Conclude(r)
  BY DEF Attempted, Current
<1>2. /\ Executing /\ pc' = "attempt" /\ at \in DOMAIN plan /\ at \notin job.rejected
      /\ UNCHANGED <<job, plan>>
  BY <1>1 DEF Attempted, Conclude, IsRejected, plan
<1>3. Executor!Allowed(plan[at]) /\ Executing'
  BY <1>2, SameTables DEF Executing, Attempted, Allowed, Name, Current, Executor!Allowed
<1>4. IF r.retryable /\ attempt < MaxAttempts
      THEN attempt' = attempt + 1 /\ UNCHANGED results
      ELSE Executor!Report(r)
  BY <1>1 DEF Conclude, Executor!Report
<1>5. pc # "idle" /\ pc' # "idle"
  BY <1>2 DEF Executing, Commands
<1> QED
  BY <1>1, <1>2, <1>3, <1>4, <1>5, PositionIsAt, SameTables DEF Executor!Attempt, Executor!job

LEMMA EndImplements ==
    ASSUME Inv, EndExecution
    PROVE  Executor!EndExecution
<1>1. /\ pc = "attempt" /\ pc' = "verify" /\ at \notin DOMAIN plan
      /\ UNCHANGED <<job, plan, attempt, results>>
  BY DEF EndExecution, Goto, plan
<1> QED  BY <1>1, PositionIsAt
  DEF Executor!EndExecution, Executor!job, Executing, Verifying, Commands

LEMMA VerificationImplements ==
    ASSUME Inv, RefineInv, EndVerification
    PROVE  Executor!Verify
<1>1. /\ pc = "verify" /\ pc' = "idle" /\ UNCHANGED <<job, plan, attempt, results, verdicts>>
  BY DEF EndVerification, Goto, plan
<1>2. ASSUME NEW i \in DOMAIN verdicts, verdicts[i].verdict = "failed"
      PROVE  i \in Executor!Verifiable
  BY <1>2, SameTables DEF RefineInv, FailuresFounded, Executor!Verifiable
<1> DEFINE failed == \E i \in DOMAIN verdicts : verdicts[i].verdict = "failed"
<1>3. failed \in BOOLEAN /\ (Executor!Verifiable = {} => ~failed)
  BY <1>2
<1>4. (pc' = "idle" /\ \E i \in DOMAIN verdicts' : verdicts'[i].verdict = "failed") = failed
  BY <1>1
<1>5. failed \in IF Executor!Verifiable = {} THEN {FALSE} ELSE BOOLEAN
  <2> HIDE DEF failed
  <2> QED  BY <1>3
<1>6. ~Executing /\ Verifying /\ ~Executing' /\ ~Verifying'
  BY <1>1 DEF Executing, Verifying, Commands
<1> QED  BY <1>1, <1>4, <1>5, <1>6, Zenon DEF Executor!Verify, Executor!job

\* Every other step of the executor is a stuttering step of its contract.
LEMMA UnseenStutters ==
    ASSUME Inv, Unseen \/ Verify \/ AskDaemon
    PROVE  UNCHANGED Executor!vars
<1>1. CASE Unseen
  BY <1>1 DEF Unseen, Executing, Verifying, Commands, plan, Executor!vars, Executor!job
<1>2. CASE Verify \/ AskDaemon
  <2>1. Verifying /\ pc' = "verify" /\ UNCHANGED <<job, attempt, results>> /\ pc # "idle"
    BY <1>2, JudgesDecide DEF Decide, Verifying
  <2>2. ~Executing /\ ~Executing' /\ Verifying'
    BY <2>1 DEF Executing, Verifying, Commands
  <2> QED  BY <2>1, <2>2 DEF plan, Executor!vars, Executor!job
<1> QED  BY <1>1, <1>2

\* The executor with its real handlers and verifiers is the one that Pipeline
\* assumes: whatever the commands do, it keeps ExecutorContract, attempt by attempt.
THEOREM ExecutorImplemented == Spec => ImplementsExecutor
<1>1. Init => RefineInv
  BY DEF Init, RefineInv, Retrying, FailuresFounded
<1>2. Inv /\ RefineInv /\ [Next]_vars => RefineInv'
  BY RefineStep
<1>3. Inv /\ RefineInv /\ [Next]_vars => [Executor!Next]_Executor!vars
  BY Kinds, ExecuteImplements, SkipImplements, DenyImplements, AttemptImplements, EndImplements,
     VerificationImplements, UnseenStutters DEF Executor!Next
<1>4. Init => Executor!Init
  BY InitImplements
<1>5. Spec => []RefineInv
  BY <1>1, <1>2, Invariance, PTL DEF Spec
<1> QED  BY <1>3, <1>4, <1>5, Invariance, PTL DEF Spec, ImplementsExecutor, Executor!Spec

-----------------------------------------------------------------------------
(* What the verdicts rest on                                               *)

\* A part that was seen, or was lost when the action at i was being verified or later.
Kept(part, i) == Present(part) \/ LostSince(part, i)

\* Losses are counted from the first verdict on, and between its two commands the
\* Docker verifier relies on what the first one saw.
LossInv ==
    /\ lost \subseteq Losses
    /\ Executing => verdicts = <<>>
    /\ pc = "daemon" => Kept(<<"docker", Bare>>, Upcoming)
    /\ CertifiedUnlessLost

LEMMA VerdictsCounted ==
    ASSUME Inv
    PROVE  /\ Upcoming \in Nat
           /\ \A i \in DOMAIN verdicts : i \in Nat /\ i <= Upcoming
<1>1. verdicts \in Seq(Verdicts)
  BY DEF Inv, ExecutorInv, ExecutorTypes
<1>2. DOMAIN verdicts = 1..Len(verdicts) /\ Len(verdicts) \in Nat
  BY <1>1
<1> QED  BY <1>2 DEF Upcoming

\* Only these steps are taken outside an execution.
LEMMA IdleKinds ==
    ASSUME Next, ~Executing
    PROVE  \/ Execute \/ Verify \/ AskDaemon \/ AskDocker \/ EndVerification \/ Land \/ Remove
<1>1. pc # "attempt" /\ pc \notin Commands
  BY DEF Executing
<1>2. ~(SkipRejected \/ Deny \/ Simulate \/ EndExecution)
  BY <1>1 DEF SkipRejected, Deny, Simulate, At, EndExecution
<1>3. ~(CheckPython \/ Refuse \/ RefuseProject \/ VenvExists)
  BY <1>1 DEF CheckPython, Refuse, RefuseProject, VenvExists, Real, At
<1>4. ~(BeginDocker \/ BeginCursor \/ BeginPackage \/ BeginProject \/ BeginVenv)
  BY <1>1 DEF BeginDocker, BeginCursor, BeginPackage, BeginProject, BeginVenv, Real, At
<1>5. ~(CommandOk \/ CommandFails \/ CommandNotStarted \/ CommandTimesOut)
  BY <1>1 DEF CommandOk, CommandFails, CommandNotStarted, CommandTimesOut, Commands
<1>6. ~(DownloadOk \/ DownloadFails \/ CreateVenv)
  BY <1>1 DEF DownloadOk, DownloadFails, CreateVenv, Commands
<1> QED  BY <1>2, <1>3, <1>4, <1>5, <1>6 DEF Next

\* The machine by itself takes nothing from a verification without leaving a trace.
LEMMA KeptStays ==
    ASSUME Inv, Verifying, Land \/ Remove, NEW part, NEW i \in Nat, i <= Upcoming, Kept(part, i)
    PROVE  Kept(part, i)'
<1>1. CASE Land
  <2>1. machine.software \subseteq machine'.software /\ machine'.venv = machine.venv /\ lost' = lost
    BY <1>1 DEF Land, Inv, MachineInv, MachineTypes, Machines
  <2> QED  BY <2>1 DEF Kept, Present, LostSince, VenvMarked
<1>2. ASSUME NEW gone, Loses(gone), part # gone => (Present(part) => Present(part)')
      PROVE  Kept(part, i)'
  <2>1. lost' = lost \cup {[part |-> gone, at |-> Upcoming]}
    BY <1>2 DEF Loses
  <2>2. CASE part = gone
    <3>1. [part |-> gone, at |-> Upcoming].at >= i
      BY VerdictsCounted
    <3> QED  BY <2>1, <2>2, <3>1 DEF Kept, LostSince
  <2>3. CASE part # gone
    BY <1>2, <2>1, <2>3 DEF Kept, LostSince
  <2> QED  BY <2>2, <2>3
<1>3. CASE Remove
  <2>1. CASE \E item \in machine.software :
               machine' = [machine EXCEPT !.software = @ \ {item}] /\ Loses(item)
    <3>1. PICK item \in machine.software :
             machine' = [machine EXCEPT !.software = @ \ {item}] /\ Loses(item)
      BY <2>1
    <3>2. machine'.software = machine.software \ {item} /\ machine'.venv = machine.venv
      BY <3>1 DEF Inv, MachineInv, MachineTypes, Machines
    <3>3. part # item => (Present(part) => Present(part)')
      BY <3>2 DEF Present, VenvMarked
    <3> QED  BY <1>2, <3>1, <3>3
  <2>2. CASE machine' = [machine EXCEPT !.venv = "absent"] /\ Loses(<<"venv", Bare>>)
    <3>1. machine'.software = machine.software
      BY <2>2 DEF Inv, MachineInv, MachineTypes, Machines
    <3>2. part # <<"venv", Bare>> => (Present(part) => Present(part)')
      BY <3>1 DEF Present
    <3> QED  BY <1>2, <2>2, <3>2
  <2> QED  BY <1>3, <2>1, <2>2 DEF Remove
<1> QED  BY <1>1, <1>3

\* What is certified was seen by its own verifier, or since.
LEMMA JudgesSaw ==
    ASSUME Inv, LossInv, Verify \/ AskDaemon, NEW v, v = "verified", Decide(v),
           NEW part \in PartsOf(plan[Upcoming])
    PROVE  Kept(part, Upcoming)
<1> DEFINE a == plan[Upcoming]
<1>1. v # "failed" /\ v # "skipped"
  OBVIOUS
<1>2. ASSUME NEW w, Decide(w) PROVE w = v
  <2>1. Upcoming \in Nat /\ verdicts \in Seq(Verdicts) /\ Upcoming = Len(verdicts) + 1
    BY VerdictsCounted DEF Upcoming, Inv, ExecutorInv, ExecutorTypes
  <2>2. /\ Append(verdicts, [id |-> a.id, verdict |-> w])[Upcoming] = [id |-> a.id, verdict |-> w]
        /\ Append(verdicts, [id |-> a.id, verdict |-> v])[Upcoming] = [id |-> a.id, verdict |-> v]
    BY <2>1
  <2>3. [id |-> a.id, verdict |-> w] = [id |-> a.id, verdict |-> v]
    BY <1>2, <2>2 DEF Decide
  <2> QED  BY <2>3
<1>3. CASE Verify
  <2>1. Observable(a) /\ a.id.name # "install_docker"
    BY <1>1, <1>2, <1>3, Zenon DEF Verify
  <2>2. Present(part)
    BY <2>1 DEF Observable, PartsOf, Present, ExecutableFound, PackageFound, VenvMarked
  <2> QED  BY <2>2 DEF Kept
<1>4. CASE AskDaemon
  <2>1. pc = "daemon" /\ <<"daemon", Bare>> \in machine.software
    BY <1>1, <1>2, <1>4, Zenon DEF AskDaemon
  <2>2. a.id.name = "install_docker"
    BY <2>1 DEF Inv, ExecutorInv, DaemonAsked
  <2>3. part = <<"docker", Bare>> \/ part = <<"daemon", Bare>>
    BY <2>2 DEF PartsOf
  <2>4. <<"daemon", Bare>> # <<"venv", Bare>>
    OBVIOUS
  <2> QED  BY <2>1, <2>3, <2>4 DEF LossInv, Kept, Present
<1> QED  BY <1>3, <1>4

LEMMA JudgesLoss ==
    ASSUME Inv, LossInv, Verify \/ AskDaemon
    PROVE  LossInv'
<1>1. PICK v \in {"verified", "failed", "skipped"} : Decide(v)
  BY JudgesDecide
<1> DEFINE new == [id |-> plan[Upcoming].id, verdict |-> v]
<1>2. /\ pc' = "verify" /\ Verifying
      /\ UNCHANGED <<job, plan, lost, machine>>
      /\ verdicts' = Append(verdicts, new)
  BY <1>1, JudgesDecide DEF Decide, MachineUnchanged, plan
<1>3. new \in Verdicts /\ new.verdict = v
  BY JudgesDecide, PlanType DEF Inv, ExecutorInv, Verdicts
<1> HIDE DEF new
<1>4. /\ DOMAIN verdicts' = DOMAIN verdicts \cup {Upcoming}
      /\ verdicts'[Upcoming] = new
      /\ \A i \in DOMAIN verdicts : verdicts'[i] = verdicts[i]
  BY <1>2, <1>3 DEF Upcoming, Inv, ExecutorInv, ExecutorTypes
<1>5. ASSUME NEW part, NEW i, Kept(part, i) PROVE (Present(part) \/ LostSince(part, i))'
  BY <1>2, <1>5 DEF Kept, Present, LostSince, VenvMarked
<1>6. CertifiedUnlessLost'
  <2> SUFFICES ASSUME NEW i \in DOMAIN verdicts', verdicts'[i].verdict = "verified",
                      NEW part \in PartsOf(plan[i])
               PROVE  Kept(part, i)
    BY <1>2, <1>5 DEF CertifiedUnlessLost, PartsOf
  <2>1. CASE i = Upcoming
    BY <1>1, <1>3, <1>4, <2>1, JudgesSaw
  <2>2. CASE i \in DOMAIN verdicts
    BY <1>2, <1>4, <2>2 DEF LossInv, CertifiedUnlessLost, Kept
  <2> QED  BY <1>4, <2>1, <2>2
<1>7. ~Executing'
  BY <1>2 DEF Executing, Commands
<1> QED  BY <1>2, <1>6, <1>7 DEF LossInv

LEMMA LossStep ==
    ASSUME Inv, LossInv, [Next]_vars
    PROVE  LossInv'
<1>1. CASE Executing
  <2>1. lost' = lost
    BY <1>1, Kinds
    DEF Execute, SkipRejected, Attempted, Deny, Conclude, EndExecution, Goto, Verify, AskDaemon,
        EndVerification, Unseen, Executing, Commands
  <2>2. verdicts' = verdicts
    BY <1>1, Kinds
    DEF Execute, SkipRejected, Attempted, Deny, Conclude, EndExecution, Goto, Verify, AskDaemon,
        EndVerification, Unseen, Executing, Commands
  <2>3. pc' # "daemon"
    BY <1>1, Kinds
    DEF Execute, SkipRejected, Attempted, Deny, Conclude, EndExecution, Goto, Verify, AskDaemon,
        EndVerification, Unseen, Executing, Verifying, Commands
  <2> QED  BY <1>1, <2>1, <2>2, <2>3 DEF LossInv, CertifiedUnlessLost
<1>2. CASE ~Executing /\ (Verify \/ AskDaemon)
  BY <1>2, JudgesLoss
<1>3. CASE Execute
  BY <1>3 DEF Execute, LossInv, CertifiedUnlessLost, Losses
<1>4. CASE ~Executing /\ AskDocker
  <2>1. /\ pc' = "daemon" /\ pc = "verify" /\ ExecutableFound("docker")
        /\ UNCHANGED <<job, plan, lost, machine, verdicts>>
    BY <1>4 DEF AskDocker, DockerAsked, Goto, MachineUnchanged, plan
  <2>2. ~Executing' /\ Verifying /\ Upcoming' = Upcoming
    BY <2>1 DEF Executing, Commands, Verifying, Upcoming
  <2>3. Kept(<<"docker", Bare>>, Upcoming)'
    BY <2>1 DEF Kept, Present, ExecutableFound
  <2>4. CertifiedUnlessLost'
    BY <2>1, <2>2 DEF LossInv, CertifiedUnlessLost, PartsOf, Present, VenvMarked, LostSince
  <2> QED  BY <2>1, <2>2, <2>3, <2>4 DEF LossInv
<1>5. CASE ~Executing /\ EndVerification
  <2>1. pc' = "idle" /\ lost' = lost
    BY <1>5 DEF EndVerification, Goto
  <2> QED  BY <2>1 DEF LossInv, CertifiedUnlessLost, Executing, Verifying, Commands
<1>6. CASE ~Executing /\ (Land \/ Remove)
  <2>1. UNCHANGED <<job, plan, pc, verdicts>>
    BY <1>6 DEF Land, Remove, plan
  <2>2. /\ ~Executing' /\ Upcoming' = Upcoming /\ Verifying' = Verifying
        /\ \A a : PartsOf(a)' = PartsOf(a)
    BY <1>6, <2>1 DEF Executing, Verifying, Upcoming, PartsOf
  <2>3. lost' \subseteq Losses
    <3>1. lost' = lost \/ \E part \in Parts : lost' = lost \cup {[part |-> part, at |-> Upcoming]}
      BY <1>6 DEF Land, Remove, Loses, Parts, Inv, MachineInv, MachineTypes, Machines
    <3> QED  BY <3>1, VerdictsCounted DEF LossInv, Losses
  <2>4. pc' = "daemon" => Kept(<<"docker", Bare>>, Upcoming)'
    BY <1>6, <2>1, <2>2, VerdictsCounted, KeptStays DEF LossInv, Verifying
  <2>5. CertifiedUnlessLost'
    <3> SUFFICES ASSUME Verifying, NEW i \in DOMAIN verdicts, verdicts[i].verdict = "verified",
                        NEW part \in PartsOf(plan[i])
                 PROVE  Kept(part, i)'
      BY <2>1, <2>2 DEF CertifiedUnlessLost, Kept
    <3>1. Kept(part, i)
      BY DEF LossInv, CertifiedUnlessLost, Kept
    <3>2. i \in Nat /\ i <= Upcoming
      BY VerdictsCounted
    <3> QED  BY <1>6, <3>1, <3>2, KeptStays
  <2> QED  BY <2>2, <2>3, <2>4, <2>5 DEF LossInv
<1>7. CASE UNCHANGED vars
  BY <1>7
  DEF vars, LossInv, CertifiedUnlessLost, Kept, PartsOf, Present, LostSince, VenvMarked, Executing,
      Verifying, Upcoming, plan
<1> QED  BY <1>1, <1>2, <1>3, <1>4, <1>5, <1>6, <1>7, IdleKinds

LEMMA LossInvariance == Spec => []LossInv
<1>1. Init => LossInv
  BY DEF Init, LossInv, CertifiedUnlessLost, Verifying
<1> QED  BY <1>1, LossStep, Invariance, PTL DEF Spec

\* Types of the executor's and the machine's state, whatever the handlers do.
THEOREM TypeCorrect == Spec => []TypeOK
<1>1. Inv /\ LossInv => TypeOK
  BY DEF Inv, ExecutorInv, ExecutorTypes, MachineInv, MachineTypes, LossInv, TypeOK
<1> QED  BY <1>1, Invariance, LossInvariance, PTL

\* While verdicts are collected, each part of what is certified is still there, or
\* was lost no sooner than its own verifier began, whatever came in between.
THEOREM CertifiedStillThere == Spec => []CertifiedUnlessLost
<1>1. LossInv => CertifiedUnlessLost
  BY DEF LossInv
<1> QED  BY <1>1, LossInvariance, PTL

=============================================================================
