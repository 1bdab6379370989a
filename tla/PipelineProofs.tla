--------------------------- MODULE PipelineProofs ---------------------------
(***************************************************************************)
(* Proofs about Pipeline, for every set of plans and candidates, any       *)
(* callers, and any number of attempts and replans.                        *)
(***************************************************************************)
EXTENDS Pipeline, FiniteSetTheorems, SequenceTheorems, WellFoundedInduction, TLAPS

-----------------------------------------------------------------------------
(* The requests of one plan                                                *)

LEMMA LeastElement ==
    ASSUME NEW T \in SUBSET Nat, T # {}
    PROVE  \E x \in T : \A y \in T : x <= y
<1>1. \E x \in T : \A y \in T : ~ (<<y, x>> \in OpToRel(<, Nat))
  BY WFMin, NatLessThanWellFounded
<1>2. PICK x \in T : \A y \in T : ~ (<<y, x>> \in OpToRel(<, Nat))
  BY <1>1
<1>3. \A y \in T : ~(y < x)
  BY <1>2 DEF OpToRel
<1> QED  BY <1>3

\* The k-th position of a set of positions exists.
LEMMA NthExists ==
    ASSUME NEW n \in Nat, NEW S \in SUBSET (1..n), NEW k \in 1..Cardinality(S)
    PROVE  \E i \in S : Cardinality({j \in S : j <= i}) = k
<1> DEFINE count(i) == Cardinality({j \in S : j <= i})
           T == {i \in 0..n : k <= count(i)}
<1>0. \A j \in S : j \in Nat /\ 0 < j /\ j <= n
  BY S \subseteq 1..n
<1>1. IsFiniteSet(S) /\ Cardinality(S) \in Nat
  <2>1. IsFiniteSet(1..n)
    BY FS_Interval, 1 \in Int, n \in Int
  <2> QED  BY <2>1, FS_Subset, FS_CardinalityType
<1>2. \A i \in 0..n : IsFiniteSet({j \in S : j <= i}) /\ count(i) \in Nat
  <2>1. \A i \in 0..n : {j \in S : j <= i} \in SUBSET S
    OBVIOUS
  <2> QED  BY <2>1, <1>1, FS_Subset, FS_CardinalityType
<1>3. n \in T
  <2>1. {j \in S : j <= n} = S
    BY <1>0
  <2>2. count(n) = Cardinality(S)
    BY <2>1
  <2> QED  BY <2>2, <1>1
<1>4. \E i \in T : \A y \in T : i <= y
  <2>1. T \in SUBSET Nat
    OBVIOUS
  <2> QED  BY <2>1, <1>3, LeastElement
<1>5. PICK i \in 0..n : k <= count(i) /\ \A y \in 0..n : k <= count(y) => i <= y
  BY <1>4
<1>6. k \in Nat /\ 0 < k
  BY <1>1
<1>7. count(0) = 0
  <2>1. \A j \in S : ~(j <= 0)
    BY <1>0
  <2>2. {j \in S : j <= 0} = {}
    BY <2>1
  <2> QED  BY <2>2, FS_EmptySet
<1>8. i - 1 \in 0..n /\ ~(k <= count(i - 1))
  <2> HIDE DEF count, T
  <2>1. i # 0
    BY <1>5, <1>6, <1>7
  <2>2. i - 1 \in 0..n /\ ~(i <= i - 1)
    BY <2>1
  <2> QED  BY <2>2, <1>5
<1>9. \A j \in S : j <= i <=> j <= i - 1 \/ j = i
  BY <1>5
<1>10. i \in S
  <2>1. SUFFICES ASSUME i \notin S  PROVE FALSE
    OBVIOUS
  <2>2. {j \in S : j <= i} = {j \in S : j <= i - 1}
    BY <2>1, <1>9
  <2> QED  BY <2>2, <1>5, <1>8
<1>11. count(i) <= count(i - 1) + 1
  <2>1. {j \in S : j <= i} = {j \in S : j <= i - 1} \cup {i}
    BY <1>5, <1>9, <1>10
  <2>2. IsFiniteSet({j \in S : j <= i - 1}) /\ Cardinality({j \in S : j <= i - 1}) \in Nat
    BY <1>2, <1>8
  <2> DEFINE D == {j \in S : j <= i - 1}
  <2> HIDE DEF D
  <2>3. Cardinality(D \cup {i}) <= Cardinality(D) + 1
    <3>1. IsFiniteSet(D) /\ Cardinality(D) \in Nat
      BY <2>2 DEF D
    <3>2. Cardinality(D \cup {i}) = IF i \in D THEN Cardinality(D) ELSE Cardinality(D) + 1
      BY <3>1, FS_AddElement, Zenon
    <3> QED  BY <3>1, <3>2
  <2>4. D = {j \in S : j <= i - 1} /\ D \cup {i} = {j \in S : j <= i}
    BY <2>1 DEF D
  <2> QED  BY <2>3, <2>4
<1>12. count(i) = k
  <2> HIDE DEF count, T
  <2>1. count(i) \in Nat /\ count(i - 1) \in Nat
    BY <1>2, <1>5, <1>8
  <2> QED  BY <2>1, <1>5, <1>6, <1>8, <1>11
<1> QED  BY <1>10, <1>12

-----------------------------------------------------------------------------
(* Types                                                                   *)

\* The loop is inside an iteration.
Working == {"call", "execute", "verify", "recover", "returned"}

AtWork == pc \in Working => at \in DOMAIN plan

\* A recovery plan is only asked for while one more is allowed.
RoomToReplan == pc = "recover" => call.replans < MaxReplans

TypeInv == TypeOK /\ AtWork /\ RoomToReplan

LEMMA PlansAreSequences == \A p \in Plans \cup Candidates : p \in Seq(Actions)
BY PlansAssumption

LEMMA RequestsType ==
    ASSUME TypeInv, NEW p \in Seq(Actions)
    PROVE  NewRequests(call, p) \in Seq(Request)
<1> DEFINE ask == AskedBy(call, p)
           nth(k) == CHOOSE i \in ask : Cardinality({j \in ask : j <= i}) = k
<1>1. ask \in SUBSET (1..Len(p)) /\ Len(p) \in Nat
  <2>1. ask \subseteq DOMAIN p
    BY DEF AskedBy, NeedApproval
  <2> QED  BY <2>1
<1>2. \A k \in 1..Cardinality(ask) : nth(k) \in ask
  <2> HIDE DEF ask
  <2> TAKE k \in 1..Cardinality(ask)
  <2>1. \E i \in ask : Cardinality({j \in ask : j <= i}) = k
    BY <1>1, NthExists
  <2> QED  BY <2>1
<1>3. at \in Nat
  BY DEF TypeInv, TypeOK
<1>4. \A k \in 1..Cardinality(ask) :
         [id |-> p[nth(k)].id, plan |-> p, run |-> at, status |-> "pending"] \in Request
  <2> HIDE DEF ask, nth
  <2> TAKE k \in 1..Cardinality(ask)
  <2>1. nth(k) \in 1..Len(p)
    BY <1>1, <1>2
  <2>2. p[nth(k)] \in Actions
    BY <2>1
  <2> QED  BY <2>2, <1>3 DEF Request, Actions
<1>5. Cardinality(ask) \in Nat
  BY <1>1, FS_Interval, FS_Subset, FS_CardinalityType, 1 \in Int, Len(p) \in Int
<1>6. NewRequests(call, p) =
        [k \in 1..Cardinality(ask) |->
           [id |-> p[nth(k)].id, plan |-> p, run |-> at, status |-> "pending"]]
  BY DEF NewRequests
<1> HIDE DEF ask, nth
<1> QED  BY <1>4, <1>5, <1>6

LEMMA HandlerResultsType ==
    ASSUME NEW a \in Actions, NEW m \in Modes
    PROVE  HandlerResults(a, m) \subseteq ActionResult
<1>1. a.id \in ActionIds
  BY DEF Actions
<1> SUFFICES ASSUME NEW r \in HandlerResults(a, m)  PROVE r \in ActionResult
  OBVIOUS
<1>2. \/ r = Result(a, "skipped", FALSE, FALSE)
      \/ r = Result(a, "failed", FALSE, TRUE)
      \/ r = Result(a, "success", FALSE, FALSE)
      \/ r \in [id : {a.id}, status : {"failed"}, retryable : BOOLEAN, replan : BOOLEAN]
  BY DEF HandlerResults
<1>3. ASSUME r \in [id : {a.id}, status : {"failed"}, retryable : BOOLEAN, replan : BOOLEAN]
      PROVE  r \in ActionResult
  BY <1>1, <1>3 DEF ActionResult
<1>4. /\ Result(a, "skipped", FALSE, FALSE) \in ActionResult
      /\ Result(a, "failed", FALSE, TRUE) \in ActionResult
      /\ Result(a, "success", FALSE, FALSE) \in ActionResult
  BY <1>1 DEF Result, ActionResult
<1> QED  BY <1>2, <1>3, <1>4

LEMMA FreshCallType ==
    ASSUME NEW ph \in {"ask", "resume", "plain"}, NEW a \in Actions, NEW g \in Nat
    PROVE  FreshCall(ph, a, g) \in Calls
<1>1. <<a>> \in Seq(Actions) /\ <<>> \in Seq(ActionResult)
  OBVIOUS
<1> QED  BY <1>1 DEF FreshCall, Calls

LEMMA KeepType ==
    ASSUME TypeInv, NEW r \in ActionResult
    PROVE  /\ Keep(r) \in Calls
           /\ Keep(r) = [call EXCEPT !.results = Append(call.results, r), !.attempt = 1]
           /\ Keep(r).given = call.given /\ Keep(r).attempt = 1 /\ Keep(r).replans = call.replans
<1>1. call \in Calls
  BY DEF TypeInv, TypeOK
<1>2. call.results \in Seq(ActionResult)
  BY <1>1 DEF Calls
<1>3. Append(call.results, r) \in Seq(ActionResult)
  BY <1>2
<1> QED  BY <1>1, <1>3 DEF Keep, Calls

LEMMA ItemsType ==
    ASSUME TypeInv
    PROVE  Items(call) \in Seq(Evidence)
<1>1. call.results \in Seq(ActionResult)
  BY DEF TypeInv, TypeOK, Calls
<1>2. \A i \in 1..Len(call.results) :
         [id |-> call.results[i].id, ok |-> call.results[i].status = "success"] \in Evidence
  <2> TAKE i \in 1..Len(call.results)
  <2>1. call.results[i] \in ActionResult
    BY <1>1
  <2>2. call.results[i].id \in ActionIds
    BY <2>1 DEF ActionResult
  <2> QED  BY <2>2 DEF Evidence
<1> QED  BY <1>1, <1>2 DEF Items

\* The last request, answered.
LEMMA AnsweredType ==
    ASSUME NEW s \in Seq(Request), NEW answer \in {"approved", "rejected"}
    PROVE  /\ [s EXCEPT ![Len(s)].status = answer] \in Seq(Request)
           /\ Len([s EXCEPT ![Len(s)].status = answer]) = Len(s)
<1> DEFINE t == [i \in 1..Len(s) |-> IF i = Len(s) THEN [s[i] EXCEPT !.status = answer]
                                                  ELSE s[i]]
<1>1. [s EXCEPT ![Len(s)].status = answer] = t
  OBVIOUS
<1>2. \A i \in 1..Len(s) : t[i] \in Request
  <2> TAKE i \in 1..Len(s)
  <2>1. s[i] \in Request
    OBVIOUS
  <2>2. [s[i] EXCEPT !.status = answer] \in Request
    BY <2>1 DEF Request
  <2> QED  BY <2>1, <2>2
<1>3. t \in Seq(Request) /\ Len(t) = Len(s)
  <2>1. Len(s) \in Nat /\ t \in [1..Len(s) -> Request]
    BY <1>2
  <2> HIDE DEF t
  <2> QED  BY <2>1
<1> QED  BY <1>1, <1>3

LEMMA InitTypes == Init => TypeInv
<1> SUFFICES ASSUME Init  PROVE TypeInv
  OBVIOUS
<1>1. plan \in Seq(Actions) /\ mode \in Modes /\ attended \in BOOLEAN
  BY PlansAssumption, CallersAssumption DEF Init
<1>2. call \in Calls /\ call.given = 0 /\ call.attempt = 1 /\ call.replans = 0
  <2>1. <<>> \in Seq(Actions) /\ <<>> \in Seq(ActionResult)
    OBVIOUS
  <2> QED  BY <2>1 DEF Init, FreshCall, Calls
<1>3. 1 \in 1..Len(plan) + 1
  BY <1>1
<1>4. /\ store = <<>> /\ collected = <<>> /\ evidence = <<>>
      /\ pc = "next" /\ plan \in Plans /\ at = 1
      /\ refused = {} /\ unverified = FALSE /\ invoked = {}
  BY DEF Init
<1>5. 1 \in 1..MaxAttempts /\ 0 \in 0..MaxReplans
  BY BoundsAssumption
<1>6. /\ store \in Seq(Request) /\ collected \in Seq([run : Nat, ok : BOOLEAN])
      /\ evidence \in Seq(Evidence) /\ call.given \in 0..Len(store)
  <2>1. <<>> \in Seq(Request) /\ Len(<<>>) = 0 /\ <<>> \in Seq(Evidence)
    OBVIOUS
  <2>2. <<>> \in Seq([run : Nat, ok : BOOLEAN])
    OBVIOUS
  <2> QED  BY <1>2, <1>4, <2>1, <2>2
<1>7. TypeOK
  BY <1>1, <1>2, <1>3, <1>4, <1>5, <1>6 DEF TypeOK, PCs
<1> QED  BY <1>4, <1>7 DEF TypeInv, AtWork, RoomToReplan, Working

\* What one action at a time leaves of the typing; the inputs never change.
LEMMA TypeStep == TypeInv /\ [Next]_vars => TypeInv'
<1> SUFFICES ASSUME TypeInv, [Next]_vars  PROVE TypeInv'
  OBVIOUS
<1>0. /\ mode \in Modes /\ attended \in BOOLEAN /\ plan \in Plans /\ plan \in Seq(Actions)
      /\ at \in 1..Len(plan) + 1 /\ pc \in PCs /\ call \in Calls
      /\ call.given \in 0..Len(store) /\ call.attempt \in 1..MaxAttempts
      /\ call.replans \in 0..MaxReplans /\ store \in Seq(Request)
      /\ collected \in Seq([run : Nat, ok : BOOLEAN]) /\ evidence \in Seq(Evidence)
      /\ refused \subseteq DOMAIN plan /\ unverified \in BOOLEAN
      /\ invoked \subseteq [run : Nat, plan : Seq(Actions), pos : Nat]
      /\ pc \in Working => at \in DOMAIN plan
      /\ pc = "recover" => call.replans < MaxReplans
      /\ MaxAttempts \in Nat \ {0} /\ MaxReplans \in Nat
  BY PlansAssumption, BoundsAssumption DEF TypeInv, TypeOK, AtWork, RoomToReplan
<1>1. CASE NextAction
  <2>1. CASE at \in DOMAIN plan
    <3>1. plan[at] \in Actions
      BY <1>0, <2>1
    <3>2. call' \in Calls
      BY <1>1, <2>1, <3>1, FreshCallType DEF NextAction
    <3>3. call'.given = 0 /\ call'.attempt = 1 /\ call'.replans = 0 /\ pc' = "call"
      BY <1>1, <2>1 DEF NextAction, FreshCall
    <3> QED
      BY <1>0, <1>1, <2>1, <3>2, <3>3
      DEF NextAction, TypeInv, TypeOK, AtWork, RoomToReplan, PCs, Working, inputs, outputs
  <2>2. CASE at \notin DOMAIN plan
    BY <1>0, <1>1, <2>2
    DEF NextAction, TypeInv, TypeOK, AtWork, RoomToReplan, PCs, LoopLeft, Working, inputs, outputs
  <2> QED  BY <2>1, <2>2
<1>2. CASE EnterInvalid
  BY <1>0, <1>2 DEF EnterInvalid, TypeInv, TypeOK, AtWork, RoomToReplan, PCs, Working, inputs, outputs
<1>3. CASE EnterPending
  <2>1. call.current \in Seq(Actions)
    BY <1>0 DEF Calls
  <2>2. store' \in Seq(Request) /\ Len(store') >= Len(store)
    BY <1>0, <1>3, <2>1, RequestsType DEF EnterPending
  <2>3. /\ call' \in Calls /\ call'.given = call.given /\ call'.attempt = call.attempt
        /\ call'.replans = call.replans
    BY <1>0, <1>3 DEF EnterPending, Calls
  <2>4. call'.given \in 0..Len(store')
    BY <1>0, <2>2, <2>3
  <2> QED
    BY <1>0, <1>3, <2>2, <2>3, <2>4
    DEF EnterPending, TypeInv, TypeOK, AtWork, RoomToReplan, PCs, Working, inputs, outputs
<1>4. CASE Enter
  <2>1. RejectedBy(call, call.current) \subseteq Nat
    <3>1. call.current \in Seq(Actions)
      BY <1>0 DEF Calls
    <3> QED  BY <3>1 DEF RejectedBy, Claims, NeedApproval
  <2>2. /\ call' \in Calls /\ call'.given = call.given /\ call'.attempt = call.attempt
        /\ call'.replans = call.replans
    BY <1>0, <1>4, <2>1 DEF Enter, Calls
  <2> QED
    BY <1>0, <1>4, <2>2 DEF Enter, TypeInv, TypeOK, AtWork, RoomToReplan, PCs, Working, inputs, outputs
<1>5. CASE SkipRejected
  <2>1. call.current \in Seq(Actions) /\ call.results \in Seq(ActionResult)
    BY <1>0 DEF Calls
  <2>2. call.current[Position] \in Actions
    BY <1>5, <2>1 DEF SkipRejected
  <2>3. Result(call.current[Position], "skipped", FALSE, FALSE) \in ActionResult
    BY <2>2 DEF Result, ActionResult, Actions
  <2>4. /\ call' \in Calls /\ call'.given = call.given /\ call'.attempt \in 1..MaxAttempts
        /\ call'.replans = call.replans
    <3>1. PICK r \in ActionResult : call' = Keep(r)
      BY <1>5, <2>3 DEF SkipRejected
    <3>2. /\ Keep(r) \in Calls /\ Keep(r).given = call.given /\ Keep(r).attempt = 1
          /\ Keep(r).replans = call.replans
      BY KeepType
    <3>3. 1 \in 1..MaxAttempts
      BY <1>0
    <3> QED  BY <3>1, <3>2, <3>3
  <2> QED
    BY <1>0, <1>5, <2>4 DEF SkipRejected, TypeInv, TypeOK, AtWork, RoomToReplan, inputs, outputs
<1>6. CASE Deny
  <2>1. call.current \in Seq(Actions) /\ call.results \in Seq(ActionResult)
    BY <1>0 DEF Calls
  <2>2. call.current[Position] \in Actions
    BY <1>6, <2>1 DEF Deny
  <2>3. Result(call.current[Position], "failed", FALSE, FALSE) \in ActionResult
    BY <2>2 DEF Result, ActionResult, Actions
  <2>4. /\ call' \in Calls /\ call'.given = call.given /\ call'.attempt \in 1..MaxAttempts
        /\ call'.replans = call.replans
    <3>1. PICK r \in ActionResult : call' = Keep(r)
      BY <1>6, <2>3 DEF Deny
    <3>2. /\ Keep(r) \in Calls /\ Keep(r).given = call.given /\ Keep(r).attempt = 1
          /\ Keep(r).replans = call.replans
      BY KeepType
    <3>3. 1 \in 1..MaxAttempts
      BY <1>0
    <3> QED  BY <3>1, <3>2, <3>3
  <2> QED
    BY <1>0, <1>6, <2>4 DEF Deny, TypeInv, TypeOK, AtWork, RoomToReplan, inputs, outputs
<1>7. CASE Handle
  <2>1. call.current \in Seq(Actions) /\ call.results \in Seq(ActionResult)
    BY <1>0 DEF Calls
  <2>2. Position \in DOMAIN call.current /\ call.current[Position] \in Actions
    BY <1>7, <2>1 DEF Handle
  <2>3. PICK r \in HandlerResults(call.current[Position], mode) :
           call' = IF r.retryable /\ call.attempt < MaxAttempts
                   THEN [call EXCEPT !.attempt = @ + 1]
                   ELSE Keep(r)
    BY <1>7 DEF Handle
  <2>4. r \in ActionResult
    BY <1>0, <2>2, HandlerResultsType
  <2>5. /\ call' \in Calls /\ call'.given = call.given /\ call'.attempt \in 1..MaxAttempts
        /\ call'.replans = call.replans
    <3>1. CASE r.retryable /\ call.attempt < MaxAttempts
      <4>1. call.attempt + 1 \in 1..MaxAttempts /\ call.attempt + 1 \in Nat
        BY <1>0, <3>1
      <4>2. call' = [call EXCEPT !.attempt = call.attempt + 1]
        BY <2>3, <3>1
      <4> QED  BY <1>0, <4>1, <4>2 DEF Calls
    <3>2. CASE ~(r.retryable /\ call.attempt < MaxAttempts)
      <4>1. call' = Keep(r) /\ 1 \in 1..MaxAttempts
        BY <1>0, <2>3, <3>2
      <4>2. /\ Keep(r) \in Calls /\ Keep(r).given = call.given /\ Keep(r).attempt = 1
            /\ Keep(r).replans = call.replans
        BY <2>4, KeepType
      <4> QED  BY <4>1, <4>2
    <3> QED  BY <3>1, <3>2
  <2>6. invoked' \subseteq [run : Nat, plan : Seq(Actions), pos : Nat]
    <3>1. at \in Nat /\ Position \in Nat
      BY <1>0, <2>1, <2>2
    <3>2. [run |-> at, plan |-> call.current, pos |-> Position] \in
             [run : Nat, plan : Seq(Actions), pos : Nat]
      BY <2>1, <3>1
    <3> QED  BY <1>0, <1>7, <3>2 DEF Handle
  <2> QED
    BY <1>0, <1>7, <2>5, <2>6 DEF Handle, TypeInv, TypeOK, AtWork, RoomToReplan, inputs, outputs
<1>8. CASE EndExecution
  BY <1>0, <1>8 DEF EndExecution, TypeInv, TypeOK, AtWork, RoomToReplan, PCs, Working, inputs, outputs
<1>9. CASE Verify
  <2>1. PICK bad \in BOOLEAN : call' = [call EXCEPT !.unverified = bad]
    BY <1>9 DEF Verify
  <2>2. /\ call' \in Calls /\ call'.given = call.given /\ call'.attempt = call.attempt
        /\ call'.replans = call.replans
    BY <1>0, <2>1 DEF Calls
  <2>3. /\ pc' \in {"recover", "returned"} /\ pc = "verify"
        /\ pc' = "recover" => call'.replans < MaxReplans
    BY <1>9 DEF Verify, MayReplan
  <2> QED
    BY <1>0, <1>9, <2>2, <2>3 DEF Verify, TypeInv, TypeOK, AtWork, RoomToReplan, PCs, Working, inputs, outputs
<1>10. CASE \E p \in Candidates : RecoverInvalid(p)
  <2>1. call.replans + 1 \in 0..MaxReplans /\ call.replans + 1 \in Nat
    BY <1>0, <1>10 DEF RecoverInvalid
  <2>2. call' = [call EXCEPT !.replans = call.replans + 1]
    BY <1>10 DEF RecoverInvalid, NextCount
  <2>3. /\ call' \in Calls /\ call'.given = call.given /\ call'.attempt = call.attempt
        /\ call'.replans \in 0..MaxReplans
    BY <1>0, <2>1, <2>2 DEF Calls
  <2> QED
    BY <1>0, <1>10, <2>3
    DEF RecoverInvalid, TypeInv, TypeOK, AtWork, RoomToReplan, PCs, Working, inputs, outputs
<1>11. CASE \E p \in Candidates : RecoverPending(p)
  <2>1. PICK p \in Candidates : RecoverPending(p)
    BY <1>11
  <2>2. store' \in Seq(Request) /\ Len(store') >= Len(store)
    <3>1. NewRequests(call, p) \in Seq(Request)
      BY PlansAreSequences, RequestsType
    <3> QED  BY <1>0, <2>1, <3>1 DEF RecoverPending
  <2>3. call.replans + 1 \in 0..MaxReplans /\ call.replans + 1 \in Nat
    BY <1>0, <2>1 DEF RecoverPending
  <2>4. call' = [call EXCEPT !.replans = call.replans + 1, !.pending = TRUE]
    BY <2>1 DEF RecoverPending, NextCount
  <2>5. /\ call' \in Calls /\ call'.given = call.given /\ call'.attempt = call.attempt
        /\ call'.replans \in 0..MaxReplans
    BY <1>0, <2>3, <2>4 DEF Calls
  <2>6. call'.given \in 0..Len(store')
    BY <1>0, <2>2, <2>5
  <2> QED
    BY <1>0, <2>1, <2>2, <2>5, <2>6
    DEF RecoverPending, TypeInv, TypeOK, AtWork, RoomToReplan, PCs, Working, inputs, outputs
<1>12. CASE \E p \in Candidates : Recover(p)
  <2>1. PICK p \in Candidates : Recover(p)
    BY <1>12
  <2>2. p \in Seq(Actions) /\ RejectedBy(call, p) \subseteq Nat /\ <<>> \in Seq(ActionResult)
    <3>1. p \in Seq(Actions)
      BY PlansAreSequences
    <3>2. RejectedBy(call, p) \subseteq DOMAIN p
      BY DEF RejectedBy, Claims, NeedApproval
    <3> QED  BY <3>1, <3>2
  <2>3. call.replans + 1 \in 0..MaxReplans /\ call.replans + 1 \in Nat
    BY <1>0, <2>1 DEF Recover
  <2>4. call' = [call EXCEPT !.replans = call.replans + 1, !.current = p,
                             !.rejected = RejectedBy(call, p), !.results = <<>>,
                             !.unverified = FALSE]
    BY <2>1 DEF Recover, NextCount
  <2>5. /\ call' \in Calls /\ call'.given = call.given /\ call'.attempt = call.attempt
        /\ call'.replans \in 0..MaxReplans
    BY <1>0, <2>2, <2>3, <2>4 DEF Calls
  <2> QED
    BY <1>0, <2>1, <2>5
    DEF Recover, TypeInv, TypeOK, AtWork, RoomToReplan, PCs, Working, inputs, outputs
<1>13. CASE Blocked
  <2>1. collected' \in Seq([run : Nat, ok : BOOLEAN]) /\ evidence' \in Seq(Evidence)
    <3>1. [run |-> at, ok |-> FALSE] \in [run : Nat, ok : BOOLEAN]
      BY <1>0
    <3>2. evidence \o <<>> = evidence
      BY <1>0
    <3> QED  BY <1>0, <1>13, <3>1, <3>2 DEF Blocked, Collect
  <2>2. at + 1 \in 1..Len(plan) + 1
    BY <1>0, <1>13 DEF Blocked, Working
  <2> QED
    BY <1>0, <1>13, <2>1, <2>2
    DEF Blocked, Advance, TypeInv, TypeOK, AtWork, RoomToReplan, PCs, Working, inputs
<1>14. CASE Unattended
  BY <1>0, <1>14
  DEF Unattended, TypeInv, TypeOK, AtWork, RoomToReplan, PCs, LoopLeft, Working, inputs
<1>15. CASE Refuse
  <2>1. store' \in Seq(Request) /\ Len(store') = Len(store)
    <3>1. store' = [store EXCEPT ![Len(store)].status = "rejected"]
      BY <1>15 DEF Refuse
    <3> QED  BY <1>0, <3>1, AnsweredType
  <2>2. at + 1 \in 1..Len(plan) + 1 /\ at \in DOMAIN plan
    BY <1>0, <1>15 DEF Refuse, Working
  <2> QED
    BY <1>0, <1>15, <2>1, <2>2
    DEF Refuse, Advance, TypeInv, TypeOK, AtWork, RoomToReplan, PCs, Working, inputs
<1>16. CASE Approve
  <2>1. store' \in Seq(Request) /\ Len(store') = Len(store)
    <3>1. store' = [store EXCEPT ![Len(store)].status = "approved"]
      BY <1>16 DEF Approve
    <3> QED  BY <1>0, <3>1, AnsweredType
  <2>2. at \in DOMAIN plan /\ plan[at] \in Actions
    BY <1>0, <1>16 DEF Approve, Working
  <2>3. call' = FreshCall("resume", plan[at], Len(store)) /\ Len(store) \in Nat
    BY <1>0, <1>16 DEF Approve
  <2>4. call' \in Calls
    BY <2>2, <2>3, FreshCallType
  <2>5. call'.given = Len(store) /\ call'.attempt = 1 /\ call'.replans = 0
    BY <2>3 DEF FreshCall
  <2>6. call'.given \in 0..Len(store') /\ call'.attempt \in 1..MaxAttempts
        /\ call'.replans \in 0..MaxReplans
    BY <1>0, <2>1, <2>3, <2>5
  <2> QED
    BY <1>0, <1>16, <2>1, <2>2, <2>4, <2>6
    DEF Approve, TypeInv, TypeOK, AtWork, RoomToReplan, PCs, Working, inputs, outputs
<1>17. CASE Record
  <2>1. collected' \in Seq([run : Nat, ok : BOOLEAN]) /\ evidence' \in Seq(Evidence)
    <3>1. Items(call) \in Seq(Evidence)
      BY ItemsType
    <3>2. [run |-> at, ok |-> Succeeded(call)] \in [run : Nat, ok : BOOLEAN]
      BY <1>0 DEF Succeeded
    <3>3. CASE Records(call)
      <4>1. /\ collected' = Append(collected, [run |-> at, ok |-> Succeeded(call)])
            /\ evidence' = evidence \o Items(call)
        BY <1>17, <3>3 DEF Record, Collect
      <4> QED  BY <1>0, <3>1, <3>2, <4>1
    <3>4. CASE ~Records(call)
      BY <1>0, <1>17, <3>4 DEF Record
    <3> QED  BY <3>3, <3>4
  <2>2. at + 1 \in 1..Len(plan) + 1
    BY <1>0, <1>17 DEF Record, Working
  <2>3. unverified' \in BOOLEAN
    BY <1>0, <1>17 DEF Record, Calls
  <2>4. at' \in {at, at + 1} /\ pc' \in {"next", "report"}
    BY <1>17 DEF Record, Advance
  <2> QED
    BY <1>0, <1>17, <2>1, <2>2, <2>3, <2>4
    DEF Record, TypeInv, TypeOK, AtWork, RoomToReplan, PCs, LoopLeft, Working, inputs
<1>18. CASE Report
  BY <1>0, <1>18
  DEF Report, TypeInv, TypeOK, AtWork, RoomToReplan, PCs, LoopLeft, Working, inputs, outputs
<1>19. CASE Raises
  BY <1>0, <1>19
  DEF Raises, TypeInv, TypeOK, AtWork, RoomToReplan, PCs, LoopLeft, Working, inputs, outputs
<1>20. CASE UNCHANGED vars
  BY <1>0, <1>20
  DEF vars, inputs, outputs, TypeInv, TypeOK, AtWork, RoomToReplan
<1> QED
  BY <1>1, <1>2, <1>3, <1>4, <1>5, <1>6, <1>7, <1>8, <1>9, <1>10, <1>11, <1>12, <1>13,
     <1>14, <1>15, <1>16, <1>17, <1>18, <1>19, <1>20 DEF Next

\* The model's types: the locals of a call, the approval store, the collected results
\* and the attempts and replans within their bounds.
THEOREM TypeCorrect == Spec => []TypeOK
<1>1. TypeInv => TypeOK
  BY DEF TypeInv
<1> QED  BY <1>1, InitTypes, TypeStep, PTL DEF Spec

-----------------------------------------------------------------------------
(* The call that asks                                                      *)

\* The call that asks for the approval of an action never executes anything: it
\* starts with the one action that needs it, and without an approval.
AskOnly ==
    call.phase = "ask" =>
        /\ pc \notin {"execute", "verify", "recover"}
        /\ pc \in {"call", "returned"} =>
              /\ call.current = <<plan[at]>> /\ call.given = 0
              /\ RequiresHumanApproval(plan[at].id)
        /\ pc = "call" => ~call.pending

LEMMA AskedIsFirst ==
    ASSUME TypeInv, AskOnly, call.phase = "ask", pc = "call"
    PROVE  /\ AskedBy(call, call.current) = {1}
           /\ NewRequests(call, call.current) =
                 <<[id |-> plan[at].id, plan |-> <<plan[at]>>, run |-> at,
                    status |-> "pending"]>>
<1>1. /\ call.current = <<plan[at]>> /\ call.given = 0
      /\ RequiresHumanApproval(plan[at].id)
  BY DEF AskOnly
<1>2. NeedApproval(call.current) = {1}
  BY <1>1 DEF NeedApproval
<1>3. AskedBy(call, call.current) = {1}
  BY <1>1, <1>2 DEF AskedBy, HasProvider, Claims
<1>4. Cardinality({1}) = 1 /\ {j \in {1} : j <= 1} = {1}
  <2>1. Cardinality({1}) = 1
    BY FS_Singleton
  <2>2. {j \in {1} : j <= 1} = {1}
    OBVIOUS
  <2> QED  BY <2>1, <2>2
<1>5. (CHOOSE i \in {1} : Cardinality({j \in {1} : j <= i}) = 1) = 1
  BY <1>4
<1> DEFINE nth(k) == CHOOSE i \in {1} : Cardinality({j \in {1} : j <= i}) = k
           new == [k \in 1..Cardinality({1}) |->
                      [id |-> <<plan[at]>>[nth(k)].id, plan |-> <<plan[at]>>, run |-> at,
                       status |-> "pending"]]
<1>6. NewRequests(call, call.current) = new
  BY <1>1, <1>3 DEF NewRequests
<1>7. new = [k \in 1..1 |-> [id |-> plan[at].id, plan |-> <<plan[at]>>, run |-> at,
                             status |-> "pending"]]
  <2>1. \A k \in 1..1 : k = 1
    OBVIOUS
  <2>2. nth(1) = 1
    BY <1>5
  <2>3. <<plan[at]>>[1] = plan[at]
    OBVIOUS
  <2>4. \A k \in 1..1 : <<plan[at]>>[nth(k)] = plan[at]
    <3> HIDE DEF nth
    <3> QED  BY <2>1, <2>2, <2>3
  <2> HIDE DEF nth
  <2> QED  BY <1>4, <2>4
<1>8. [k \in 1..1 |-> [id |-> plan[at].id, plan |-> <<plan[at]>>, run |-> at,
                       status |-> "pending"]] =
      <<[id |-> plan[at].id, plan |-> <<plan[at]>>, run |-> at, status |-> "pending"]>>
  OBVIOUS
<1> QED  BY <1>3, <1>6, <1>7, <1>8

LEMMA AskStep == TypeInv /\ AskOnly /\ [Next]_vars => AskOnly'
<1> SUFFICES ASSUME TypeInv, AskOnly, [Next]_vars  PROVE AskOnly'
  OBVIOUS
<1>0. call \in Calls /\ (call.phase = "ask" => pc \notin {"execute", "verify", "recover"})
  BY DEF TypeInv, TypeOK, AskOnly
<1>1. CASE NextAction
  <2>1. CASE at \in DOMAIN plan
    <3>1. /\ call' = FreshCall(IF mode = "real" /\ RequiresHumanApproval(plan[at].id)
                               THEN "ask" ELSE "plain", plan[at], 0)
          /\ UNCHANGED <<plan, at>>
      BY <1>1, <2>1 DEF NextAction, inputs
    <3>2. /\ call'.current = <<plan[at]>> /\ call'.given = 0 /\ ~call'.pending
          /\ call'.phase = "ask" => RequiresHumanApproval(plan[at].id)
      BY <3>1 DEF FreshCall
    <3>3. pc' = "call"
      BY <1>1, <2>1 DEF NextAction
    <3> QED  BY <3>1, <3>2, <3>3 DEF AskOnly
  <2>2. CASE at \notin DOMAIN plan
    BY <1>1, <2>2 DEF NextAction, AskOnly
  <2> QED  BY <2>1, <2>2
<1>2. CASE EnterInvalid
  BY <1>2 DEF EnterInvalid, AskOnly, inputs
<1>3. CASE EnterPending
  <2>1. call' = [call EXCEPT !.pending = TRUE]
    BY <1>3 DEF EnterPending
  <2>2. call'.phase = call.phase /\ call'.current = call.current /\ call'.given = call.given
    BY <1>0, <2>1 DEF Calls
  <2> QED  BY <1>3, <2>2 DEF EnterPending, AskOnly, inputs
<1>4. CASE Enter
  <2>1. call.phase # "ask"
    BY <1>4, AskedIsFirst DEF Enter
  <2>2. call' = [call EXCEPT !.rejected = RejectedBy(call, call.current), !.executed = TRUE]
    BY <1>4 DEF Enter
  <2>3. call'.phase = call.phase
    BY <1>0, <2>2 DEF Calls
  <2> QED  BY <2>1, <2>3 DEF AskOnly
<1>5. CASE pc \in {"execute", "verify", "recover"} /\ call'.phase = call.phase
  BY <1>0, <1>5 DEF AskOnly
<1>6. CASE SkipRejected \/ Deny \/ Handle \/ EndExecution \/ Verify
  <2>1. pc \in {"execute", "verify", "recover"}
    BY <1>6 DEF SkipRejected, Deny, Handle, EndExecution, Verify
  <2>2. call'.phase = call.phase
    BY <1>0, <1>6 DEF SkipRejected, Deny, Handle, EndExecution, Verify, Keep, Calls
  <2> QED  BY <2>1, <2>2, <1>5
<1>7. CASE \E p \in Candidates : RecoverInvalid(p) \/ RecoverPending(p) \/ Recover(p)
  <2>1. pc \in {"execute", "verify", "recover"}
    BY <1>7 DEF RecoverInvalid, RecoverPending, Recover
  <2>2. call'.phase = call.phase
    BY <1>0, <1>7 DEF RecoverInvalid, RecoverPending, Recover, Calls
  <2> QED  BY <2>1, <2>2, <1>5
<1>8. CASE Blocked \/ Refuse
  BY <1>8 DEF Blocked, Refuse, Advance, AskOnly
<1>9. CASE Unattended
  BY <1>9 DEF Unattended, AskOnly
<1>10. CASE Approve
  <2>1. call'.phase = "resume"
    BY <1>10 DEF Approve, FreshCall
  <2> QED  BY <2>1 DEF AskOnly
<1>11. CASE Record
  BY <1>11 DEF Record, AskOnly
<1>12. CASE Report \/ Raises
  BY <1>12 DEF Report, Raises, AskOnly
<1>13. CASE UNCHANGED vars
  BY <1>13 DEF vars, AskOnly
<1> QED
  BY <1>1, <1>2, <1>3, <1>4, <1>6, <1>7, <1>8, <1>9, <1>10, <1>11, <1>12, <1>13 DEF Next

-----------------------------------------------------------------------------
(* What the loop has collected                                             *)

\* What was refused or collected belongs to earlier iterations, or to the one in
\* which the loop stopped.
ResultsBehind ==
    /\ \A j \in refused : j < at
    /\ \A k \in DOMAIN collected :
          collected[k].run <= at /\ (pc \notin LoopLeft => collected[k].run < at)

\* So does what was called, until the iteration has the approval it needs.
CallsBehind ==
    \A x \in invoked :
        /\ x.run <= at
        /\ pc = "next" \/ (call.phase = "ask" /\ pc \in {"call", "returned"}) => x.run < at

\* A failure of an action whose handler was called is the last thing collected.
FailuresAreLast ==
    \A k \in DOMAIN collected :
        /\ ~collected[k].ok
        /\ \E x \in invoked : x.run = collected[k].run
        => pc \in LoopLeft /\ collected[k].run = at

LoopInv == AskOnly /\ ResultsBehind /\ CallsBehind /\ FailuresAreLast /\ NothingDropped

LEMMA CollectedRuns == TypeInv => \A k \in DOMAIN collected : collected[k].run \in Nat
<1> SUFFICES ASSUME TypeInv, NEW k \in DOMAIN collected  PROVE collected[k].run \in Nat
  OBVIOUS
<1>1. collected \in Seq([run : Nat, ok : BOOLEAN])
  BY DEF TypeInv, TypeOK
<1>2. k \in 1..Len(collected)
  BY <1>1
<1>3. collected[k] \in [run : Nat, ok : BOOLEAN]
  BY <1>1, <1>2, ElementOfSeq
<1> QED  BY <1>3

\* A step that neither moves the loop nor collects leaves all of it alone.
LEMMA LoopKept ==
    ASSUME LoopInv, pc \notin LoopLeft \/ UNCHANGED pc,
           UNCHANGED <<plan, at, collected, refused, invoked>>,
           pc' = "next" \/ (call'.phase = "ask" /\ pc' \in {"call", "returned"}) =>
              pc = "next" \/ (call.phase = "ask" /\ pc \in {"call", "returned"})
    PROVE  ResultsBehind' /\ CallsBehind' /\ FailuresAreLast' /\ NothingDropped'
<1>1. ResultsBehind'
  BY DEF LoopInv, ResultsBehind
<1>2. CallsBehind'
  BY DEF LoopInv, CallsBehind
<1>3. FailuresAreLast'
  BY DEF LoopInv, FailuresAreLast
<1>4. NothingDropped'
  BY DEF LoopInv, NothingDropped
<1> QED  BY <1>1, <1>2, <1>3, <1>4

\* The end of an iteration that is collected.
LEMMA LoopCollects ==
    ASSUME TypeInv, LoopInv, pc = "returned", NEW ok \in BOOLEAN,
           collected' = Append(collected, [run |-> at, ok |-> ok]),
           UNCHANGED <<plan, refused, invoked>>,
           \/ pc' = "report" /\ at' = at
           \/ pc' = "next" /\ at' = at + 1 /\ (ok \/ \A x \in invoked : x.run < at)
    PROVE  ResultsBehind' /\ CallsBehind' /\ FailuresAreLast' /\ NothingDropped'
<1>1. /\ collected \in Seq([run : Nat, ok : BOOLEAN]) /\ at \in Nat /\ plan \in Seq(Actions)
      /\ \A x \in invoked : x.run \in Nat
      /\ \A j \in refused : j \in Nat
  BY PlansAssumption DEF TypeInv, TypeOK
<1>2. /\ DOMAIN collected' = DOMAIN collected \cup {Len(collected) + 1}
      /\ collected'[Len(collected) + 1] = [run |-> at, ok |-> ok]
      /\ \A k \in DOMAIN collected : collected'[k] = collected[k] /\ k # Len(collected) + 1
      /\ \A k \in DOMAIN collected : collected[k].run \in Nat
  <2>1. collected' = Append(collected, [run |-> at, ok |-> ok])
    OBVIOUS
  <2>2. /\ DOMAIN collected' = 1..Len(collected) + 1 /\ DOMAIN collected = 1..Len(collected)
        /\ Len(collected) \in Nat
    BY <1>1, <2>1
  <2>3. DOMAIN collected' = DOMAIN collected \cup {Len(collected) + 1}
    BY <2>2
  <2> QED  BY <1>1, <2>1, <2>2, <2>3, CollectedRuns
<1>3. \A k \in DOMAIN collected : collected[k].run < at
  BY DEF LoopInv, ResultsBehind, LoopLeft
<1>4. ResultsBehind'
  BY <1>1, <1>2, <1>3 DEF LoopInv, ResultsBehind, LoopLeft
<1>5. CallsBehind'
  BY <1>1 DEF LoopInv, CallsBehind
<1>6. FailuresAreLast'
  BY <1>1, <1>2, <1>3 DEF LoopInv, FailuresAreLast, LoopLeft
<1>7. NothingDropped'
  <2> SUFFICES ASSUME NEW j \in DOMAIN plan, j < at'
               PROVE  j \in refused <=> ~ \E k \in DOMAIN collected' : collected'[k].run = j
    BY DEF NothingDropped
  <2>1. j < at \/ j = at
    BY <1>1
  <2>2. CASE j < at
    BY <1>1, <1>2, <2>2 DEF LoopInv, NothingDropped
  <2>3. CASE j = at
    BY <1>1, <1>2, <2>3 DEF LoopInv, ResultsBehind
  <2> QED  BY <2>1, <2>2, <2>3
<1> QED  BY <1>4, <1>5, <1>6, <1>7

LEMMA InitLoop == Init => LoopInv
<1> SUFFICES ASSUME Init  PROVE LoopInv
  OBVIOUS
<1>1. pc = "next" /\ at = 1 /\ collected = <<>> /\ refused = {} /\ invoked = {}
  BY DEF Init
<1>2. plan \in Seq(Actions)
  BY PlansAssumption DEF Init
<1>3. NothingDropped
  BY <1>1, <1>2 DEF NothingDropped
<1>4. AskOnly
  BY <1>1 DEF AskOnly
<1> QED  BY <1>1, <1>3, <1>4 DEF LoopInv, ResultsBehind, CallsBehind, FailuresAreLast

LEMMA LoopStep == TypeInv /\ LoopInv /\ [Next]_vars => LoopInv'
<1> SUFFICES ASSUME TypeInv, LoopInv, [Next]_vars
             PROVE  ResultsBehind' /\ CallsBehind' /\ FailuresAreLast' /\ NothingDropped'
  BY AskStep DEF LoopInv
<1>0. /\ call \in Calls /\ at \in Nat /\ plan \in Seq(Actions)
      /\ collected \in Seq([run : Nat, ok : BOOLEAN])
      /\ \A x \in invoked : x.run \in Nat
      /\ (call.phase = "ask" => pc \notin {"execute", "verify", "recover"})
  BY PlansAssumption DEF TypeInv, TypeOK, LoopInv, AskOnly
<1>1. CASE NextAction
  BY <1>1, LoopKept DEF NextAction, LoopLeft, inputs, outputs
<1>2. CASE EnterInvalid \/ Enter
  <2>1. Enter => call'.phase = call.phase
    BY <1>0 DEF Enter, Calls
  <2> QED  BY <1>2, <2>1, LoopKept DEF EnterInvalid, Enter, LoopLeft, inputs, outputs
<1>3. CASE EnterPending
  <2>1. call'.phase = call.phase
    BY <1>0, <1>3 DEF EnterPending, Calls
  <2> QED  BY <1>3, <2>1, LoopKept DEF EnterPending, LoopLeft, inputs, outputs
<1>4. CASE SkipRejected \/ Deny \/ EndExecution \/ Verify
  <2>1. call'.phase = call.phase /\ call'.phase # "ask"
    BY <1>0, <1>4 DEF SkipRejected, Deny, EndExecution, Verify, Keep, Calls
  <2>2. pc' # "next" /\ pc \notin LoopLeft
    BY <1>4 DEF SkipRejected, Deny, EndExecution, Verify, LoopLeft
  <2>3. UNCHANGED <<plan, at, collected, refused, invoked>>
    BY <1>4 DEF SkipRejected, Deny, EndExecution, Verify, inputs, outputs
  <2> QED  BY <2>1, <2>2, <2>3, LoopKept
<1>5. CASE Handle
  <2>1. /\ pc = "execute" /\ pc' = "execute"
        /\ UNCHANGED <<plan, at, collected, refused>>
        /\ \A x \in invoked' : x \in invoked \/ x.run = at
        /\ invoked \subseteq invoked'
    BY <1>5 DEF Handle, inputs, outputs
  <2>2. \A k \in DOMAIN collected : collected[k].run < at /\ collected[k].run \in Nat
    BY <2>1, CollectedRuns DEF LoopInv, ResultsBehind, LoopLeft
  <2>3. ResultsBehind'
    BY <2>1 DEF LoopInv, ResultsBehind, LoopLeft
  <2>4. CallsBehind'
    <3>1. call'.phase # "ask"
      <4>1. call.phase # "ask"
        BY <1>0, <2>1
      <4>2. call'.phase = call.phase
        BY <1>0, <1>5 DEF Handle, Keep, Calls
      <4> QED  BY <4>1, <4>2
    <3> QED  BY <1>0, <2>1, <3>1 DEF LoopInv, CallsBehind
  <2>5. FailuresAreLast'
    BY <1>0, <2>1, <2>2 DEF LoopInv, FailuresAreLast
  <2>6. NothingDropped'
    BY <2>1 DEF LoopInv, NothingDropped
  <2> QED  BY <2>3, <2>4, <2>5, <2>6
<1>6. CASE \E p \in Candidates : RecoverInvalid(p) \/ RecoverPending(p) \/ Recover(p)
  <2>1. call'.phase = call.phase /\ call'.phase # "ask"
    BY <1>0, <1>6 DEF RecoverInvalid, RecoverPending, Recover, Calls
  <2>2. pc' # "next" /\ pc \notin LoopLeft
    BY <1>6 DEF RecoverInvalid, RecoverPending, Recover, LoopLeft
  <2>3. UNCHANGED <<plan, at, collected, refused, invoked>>
    BY <1>6 DEF RecoverInvalid, RecoverPending, Recover, inputs, outputs
  <2> QED  BY <2>1, <2>2, <2>3, LoopKept
<1>7. CASE Blocked
  <2>1. \A x \in invoked : x.run < at
    BY <1>7 DEF Blocked, LoopInv, CallsBehind
  <2> QED  BY <1>7, <2>1, LoopCollects DEF Blocked, Collect, Advance, inputs
<1>8. CASE Unattended
  BY <1>8, LoopKept DEF Unattended, LoopLeft, inputs
<1>9. CASE Refuse
  <2>1. /\ refused' = refused \cup {at} /\ at' = at + 1 /\ pc' = "next" /\ pc = "returned"
        /\ UNCHANGED <<plan, collected, invoked>> /\ call.phase = "ask"
    BY <1>9 DEF Refuse, Advance, inputs
  <2>2. \A k \in DOMAIN collected : collected[k].run < at /\ collected[k].run \in Nat
    BY <2>1, CollectedRuns DEF LoopInv, ResultsBehind, LoopLeft
  <2>3. \A j \in refused : j \in Nat
    BY <1>0 DEF TypeInv, TypeOK
  <2>4. ResultsBehind'
    BY <1>0, <2>1, <2>2, <2>3 DEF LoopInv, ResultsBehind
  <2>5. CallsBehind'
    BY <1>0, <2>1 DEF LoopInv, CallsBehind
  <2>6. FailuresAreLast'
    BY <1>0, <2>1 DEF LoopInv, FailuresAreLast, LoopLeft
  <2>7. NothingDropped'
    <3> SUFFICES ASSUME NEW j \in DOMAIN plan, j < at + 1
                 PROVE  j \in refused' <=> ~ \E k \in DOMAIN collected : collected[k].run = j
      BY <2>1 DEF NothingDropped
    <3>1. j < at \/ j = at
      BY <1>0
    <3>2. CASE j < at
      BY <1>0, <2>1, <3>2 DEF LoopInv, NothingDropped
    <3>3. CASE j = at
      BY <1>0, <2>1, <2>2, <3>3
    <3> QED  BY <3>1, <3>2, <3>3
  <2> QED  BY <2>4, <2>5, <2>6, <2>7
<1>10. CASE Approve
  <2>1. call'.phase = "resume"
    BY <1>10 DEF Approve, FreshCall
  <2> QED  BY <1>10, <2>1, LoopKept DEF Approve, LoopLeft, inputs, outputs
<1>11. CASE Record
  <2>1. PipelineSuccess(call) => Records(call) /\ Succeeded(call)
    BY DEF PipelineSuccess, Records
  <2>2. CASE Records(call)
    <3>1. Succeeded(call) \in BOOLEAN
      BY DEF Succeeded
    <3>2. /\ collected' = Append(collected, [run |-> at, ok |-> Succeeded(call)])
          /\ pc = "returned" /\ UNCHANGED <<plan, refused, invoked>>
      BY <1>11, <2>2 DEF Record, Collect, inputs
    <3>3. \/ pc' = "report" /\ at' = at
          \/ pc' = "next" /\ at' = at + 1 /\ Succeeded(call)
      BY <1>11, <2>1 DEF Record, Advance, GoesOn
    <3> QED  BY <3>1, <3>2, <3>3, LoopCollects
  <2>3. CASE ~Records(call)
    <3>1. pc = "returned" /\ pc' = "report" /\ UNCHANGED <<plan, at, collected, refused, invoked>>
      BY <1>11, <2>1, <2>3 DEF Record, GoesOn, inputs
    <3> QED  BY <3>1, LoopKept DEF LoopLeft
  <2> QED  BY <2>2, <2>3
<1>12. CASE Report \/ Raises
  <2>1. UNCHANGED <<plan, at, collected, refused, invoked>>
    BY <1>12 DEF Report, Raises, inputs, outputs
  <2>2. pc' \in LoopLeft \cup {"raised"} /\ (pc \in LoopLeft => pc' \in LoopLeft)
    BY <1>12 DEF Report, Raises, LoopLeft
  <2>3. pc' # "next" /\ pc' \notin {"call", "returned"}
    BY <2>2 DEF LoopLeft
  <2> QED
    BY <2>1, <2>2, <2>3
    DEF LoopInv, ResultsBehind, CallsBehind, FailuresAreLast, NothingDropped
<1>13. CASE UNCHANGED vars
  BY <1>13, LoopKept DEF vars, inputs, outputs
<1> QED
  BY <1>1, <1>2, <1>3, <1>4, <1>5, <1>6, <1>7, <1>8, <1>9, <1>10, <1>11, <1>12, <1>13 DEF Next

LEMMA LoopAlways == Spec => []LoopInv
<1>1. TypeInv /\ LoopInv /\ [Next]_vars => TypeInv' /\ LoopInv'
  BY TypeStep, LoopStep
<1> QED  BY <1>1, InitTypes, InitLoop, PTL DEF Spec

\* The loop drops nothing: an action left behind was refused or collected, not both.
THEOREM NothingIsDropped == Spec => []NothingDropped
<1>1. LoopInv => NothingDropped
  BY DEF LoopInv
<1> QED  BY <1>1, LoopAlways, PTL

\* After a collected failure of an action whose handler was called, no later action
\* is touched.
THEOREM FailureIsLast == Spec => []FailureStops
<1>1. LoopInv => FailureStops
  BY DEF LoopInv, CallsBehind, FailuresAreLast, FailureStops
<1> QED  BY <1>1, LoopAlways, PTL

-----------------------------------------------------------------------------
(* Consent                                                                 *)

\* The last request is the one the user is being asked about.
LastIsAsked ==
    call.phase = "ask" /\ pc = "returned" /\ call.pending =>
        /\ Len(store) # 0
        /\ store[Len(store)] = [id |-> plan[at].id, plan |-> <<plan[at]>>, run |-> at,
                                status |-> "pending"]

\* A resumed call was given a request that the user approved.
ResumesApproved ==
    call.phase = "resume" => call.given \in DOMAIN store /\ store[call.given].status = "approved"

\* Whatever is executed was validated, and its approval is for this very plan.
ExecutesAnswered ==
    pc = "execute" =>
        /\ Valid(call.current)
        /\ call.phase = "resume" =>
              \A i \in NeedApproval(call.current) \ call.rejected :
                  Matches(store[call.given], call.current, i)

ConsentInv == LastIsAsked /\ ResumesApproved /\ ExecutesAnswered /\ ConsentBeforeInvocation

\* The canonical name of a validated action needs an approval if its identifier does.
LEMMA CanonicalNeedsApproval ==
    ASSUME NEW p \in Seq(Actions), Valid(p), NEW i \in DOMAIN p,
           RequiresHumanApproval(ExecutorId(p[i]))
    PROVE  i \in NeedApproval(p)
<1>1. ActionAccepted(p[i])
  BY DEF Valid
<1>2. GateCanonical(p[i].id).subject = Bare
  BY <1>1 DEF ActionAccepted, ValidatorCanonical, GateCanonical
<1>3. p[i].id.name \in HumanApprovalNames
  BY DEF RequiresHumanApproval, ExecutorId, Canonical
<1> QED  BY <1>2, <1>3 DEF NeedApproval, RequiresHumanApproval, HasPolicy

\* Requests are appended, and only a pending one is answered: an approved request
\* stays what it is.
LEMMA ConsentKept ==
    ASSUME ConsentBeforeInvocation, UNCHANGED invoked,
           \A k \in DOMAIN store :
               store[k].status = "approved" => k \in DOMAIN store' /\ store'[k] = store[k]
    PROVE  ConsentBeforeInvocation'
<1> SUFFICES ASSUME NEW x \in invoked, RequiresHumanApproval(ExecutorId(x.plan[x.pos]))
             PROVE  \E k \in DOMAIN store' :
                       store'[k] = [id |-> x.plan[x.pos].id, plan |-> x.plan, run |-> x.run,
                                    status |-> "approved"]
  BY DEF ConsentBeforeInvocation
<1>1. PICK k \in DOMAIN store :
          store[k] = [id |-> x.plan[x.pos].id, plan |-> x.plan, run |-> x.run,
                      status |-> "approved"]
  BY DEF ConsentBeforeInvocation
<1>2. k \in DOMAIN store' /\ store'[k] = store[k]
  BY <1>1
<1> QED  BY <1>1, <1>2

LEMMA AppendedKept ==
    ASSUME TypeInv, NEW p \in Seq(Actions), store' = store \o NewRequests(call, p)
    PROVE  \A k \in DOMAIN store : k \in DOMAIN store' /\ store'[k] = store[k]
<1>1. store \in Seq(Request) /\ NewRequests(call, p) \in Seq(Request)
  BY RequestsType DEF TypeInv, TypeOK
<1> QED  BY <1>1

LEMMA InitConsent == Init => ConsentInv
<1> SUFFICES ASSUME Init  PROVE ConsentInv
  OBVIOUS
<1>1. pc = "next" /\ invoked = {}
  BY DEF Init
<1>2. call.phase = "plain"
  BY DEF Init, FreshCall
<1> QED
  BY <1>1, <1>2
  DEF ConsentInv, LastIsAsked, ResumesApproved, ExecutesAnswered, ConsentBeforeInvocation

\* What a plan without further approvals to ask for has: an approved request for this
\* very plan, or a rejection, for each position that needs one.
LEMMA EnteredIsAnswered ==
    ASSUME TypeInv, ResumesApproved, NEW p \in Seq(Actions), AskedBy(call, p) = {},
           call.phase = "resume", NEW i \in NeedApproval(p) \ RejectedBy(call, p)
    PROVE  Matches(store[call.given], p, i)
<1>1. i \in Claims(call, p)
  BY DEF AskedBy, HasProvider
<1> QED  BY <1>1 DEF RejectedBy, HasProvider

LEMMA EnterConsents ==
    ASSUME TypeInv, ConsentInv, NEW p \in Seq(Actions), Valid(p), AskedBy(call, p) = {},
           pc' = "execute", call'.current = p, call'.rejected = RejectedBy(call, p),
           call'.phase = call.phase, call'.given = call.given,
           UNCHANGED <<at, store, invoked>>
    PROVE  ConsentInv'
<1>1. LastIsAsked'
  BY DEF LastIsAsked
<1>2. ResumesApproved'
  BY DEF ConsentInv, ResumesApproved
<1>3. ExecutesAnswered'
  <2>1. Valid(call'.current)
    OBVIOUS
  <2>2. ASSUME call'.phase = "resume", NEW i \in NeedApproval(call'.current) \ call'.rejected
        PROVE  Matches(store[call.given], call.current, i)'
    <3>1. Matches(store[call.given], p, i)
      BY <2>2, EnteredIsAnswered DEF ConsentInv
    <3> QED  BY <3>1 DEF Matches
  <2> QED  BY <2>1, <2>2 DEF ExecutesAnswered
<1>4. ConsentBeforeInvocation'
  BY ConsentKept DEF ConsentInv
<1> QED  BY <1>1, <1>2, <1>3, <1>4 DEF ConsentInv

\* A step that neither executes nor leaves anything to be answered.
LEMMA ConsentIdle ==
    ASSUME ConsentInv, pc' # "execute", pc' # "returned" \/ ~call'.pending,
           call'.phase = "resume" => call.phase = "resume" /\ call'.given = call.given,
           UNCHANGED <<store, invoked>>
    PROVE  ConsentInv'
<1>1. LastIsAsked' /\ ExecutesAnswered'
  BY DEF LastIsAsked, ExecutesAnswered
<1>2. ResumesApproved'
  BY DEF ConsentInv, ResumesApproved
<1>3. ConsentBeforeInvocation'
  BY ConsentKept DEF ConsentInv
<1> QED  BY <1>1, <1>2, <1>3 DEF ConsentInv

\* A step of the executor that calls no real handler.
LEMMA ConsentExecutes ==
    ASSUME ConsentInv, pc = "execute", pc' = "execute", call'.phase = call.phase,
           call'.current = call.current, call'.rejected = call.rejected,
           call'.given = call.given, UNCHANGED <<at, store>>
    PROVE  LastIsAsked' /\ ResumesApproved' /\ ExecutesAnswered'
<1>1. LastIsAsked'
  BY DEF LastIsAsked
<1>2. ResumesApproved'
  BY DEF ConsentInv, ResumesApproved
<1>3. ExecutesAnswered'
  BY DEF ConsentInv, ExecutesAnswered, Matches
<1> QED  BY <1>1, <1>2, <1>3

\* The handler that is called has the consent it needs.
LEMMA HandleConsents ==
    ASSUME TypeInv, AskOnly, ConsentInv, Handle
    PROVE  ConsentBeforeInvocation'
<1>1. /\ pc = "execute" /\ Position \in DOMAIN call.current /\ Position \notin call.rejected
      /\ Allowed(call, call.current[Position]) /\ UNCHANGED store
  BY DEF Handle
<1>2. /\ call.phase \in {"resume", "plain"} /\ call.current \in Seq(Actions)
      /\ store \in Seq(Request)
  BY <1>1 DEF TypeInv, TypeOK, Calls, AskOnly
<1> SUFFICES ASSUME NEW x \in invoked', RequiresHumanApproval(ExecutorId(x.plan[x.pos]))
             PROVE  \E k \in DOMAIN store :
                       store[k] = [id |-> x.plan[x.pos].id, plan |-> x.plan, run |-> x.run,
                                   status |-> "approved"]
  BY <1>1 DEF ConsentBeforeInvocation
<1>3. CASE x \in invoked
  BY <1>3 DEF ConsentInv, ConsentBeforeInvocation
<1>4. CASE x \notin invoked
  <2>1. mode = "real" /\ x = [run |-> at, plan |-> call.current, pos |-> Position]
    BY <1>4 DEF Handle
  <2>2. Valid(call.current)
    BY <1>1 DEF ConsentInv, ExecutesAnswered
  <2>3. RequiresHumanApproval(ExecutorId(call.current[Position]))
    BY <2>1
  <2>4. Position \in NeedApproval(call.current)
    BY <1>1, <1>2, <2>2, <2>3, CanonicalNeedsApproval
  <2>5. call.phase = "resume"
    BY <1>1, <1>2, <2>1, <2>3
    DEF Allowed, GateAllows, IsApproved, HasProvider, ExecutorId, Canonical,
        RequiresHumanApproval
  <2>6. Matches(store[call.given], call.current, Position)
    BY <1>1, <2>4, <2>5 DEF ConsentInv, ExecutesAnswered
  <2>7. call.given \in DOMAIN store /\ store[call.given].status = "approved"
    BY <2>5 DEF ConsentInv, ResumesApproved
  <2>8. store[call.given] \in Request
    <3>1. call.given \in 1..Len(store)
      BY <1>2, <2>7
    <3> QED  BY <1>2, <3>1
  <2>9. store[call.given] = [id |-> call.current[Position].id, plan |-> call.current,
                             run |-> at, status |-> "approved"]
    BY <2>6, <2>7, <2>8 DEF Matches, Request
  <2> QED  BY <2>1, <2>7, <2>9
<1> QED  BY <1>3, <1>4

\* Answering the pending request leaves the answered ones alone.
LEMMA AnswerKeeps ==
    ASSUME TypeInv, LastIsAsked, call.phase = "ask", pc = "returned", call.pending,
           NEW answer \in {"approved", "rejected"},
           store' = [store EXCEPT ![Len(store)].status = answer]
    PROVE  /\ \A k \in DOMAIN store :
                 store[k].status = "approved" => k \in DOMAIN store' /\ store'[k] = store[k]
           /\ Len(store) \in DOMAIN store' /\ store'[Len(store)].status = answer
<1>1. store \in Seq(Request)
  BY DEF TypeInv, TypeOK
<1>2. Len(store) # 0 /\ store[Len(store)].status = "pending"
  BY DEF LastIsAsked
<1>3. Len(store) \in DOMAIN store /\ store[Len(store)] \in Request
  BY <1>1, <1>2
<1>4. DOMAIN store' = DOMAIN store
  OBVIOUS
<1>5. \A k \in DOMAIN store : k # Len(store) => store'[k] = store[k]
  OBVIOUS
<1>6. store'[Len(store)] = [store[Len(store)] EXCEPT !.status = answer]
  BY <1>3
<1>7. store'[Len(store)].status = answer
  BY <1>3, <1>6 DEF Request
<1> QED  BY <1>2, <1>3, <1>4, <1>5, <1>7

LEMMA ConsentStep == TypeInv /\ AskOnly /\ ConsentInv /\ [Next]_vars => ConsentInv'
<1> SUFFICES ASSUME TypeInv, AskOnly, ConsentInv, [Next]_vars  PROVE ConsentInv'
  OBVIOUS
<1>0. call \in Calls /\ call.current \in Seq(Actions) /\ store \in Seq(Request)
  BY DEF TypeInv, TypeOK, Calls
<1>1. CASE NextAction
  <2>1. at \in DOMAIN plan => call'.phase # "resume"
    BY <1>1 DEF NextAction, FreshCall
  <2>2. at \notin DOMAIN plan => UNCHANGED call
    BY <1>1 DEF NextAction
  <2>3. pc' \in {"call", "report"} /\ UNCHANGED <<store, invoked>>
    BY <1>1 DEF NextAction
  <2> QED  BY <2>1, <2>2, <2>3, ConsentIdle
<1>2. CASE EnterInvalid
  <2>1. pc = "call" /\ pc' = "returned" /\ UNCHANGED <<call, store, invoked>>
    BY <1>2 DEF EnterInvalid
  <2>2. LastIsAsked'
    BY <2>1 DEF LastIsAsked, AskOnly
  <2>3. ResumesApproved' /\ ExecutesAnswered'
    BY <2>1 DEF ConsentInv, ResumesApproved, ExecutesAnswered
  <2>4. ConsentBeforeInvocation'
    BY <2>1, ConsentKept DEF ConsentInv
  <2> QED  BY <2>2, <2>3, <2>4 DEF ConsentInv
<1>3. CASE EnterPending
  <2>1. /\ pc = "call" /\ pc' = "returned" /\ UNCHANGED <<plan, at, invoked>>
        /\ store' = store \o NewRequests(call, call.current)
        /\ call'.phase = call.phase /\ call'.given = call.given
    BY <1>0, <1>3 DEF EnterPending, inputs, Calls
  <2>2. \A k \in DOMAIN store : k \in DOMAIN store' /\ store'[k] = store[k]
    BY <1>0, <2>1, AppendedKept
  <2>3. LastIsAsked'
    <3>1. SUFFICES ASSUME call.phase = "ask"
                   PROVE  /\ Len(store') # 0
                          /\ store'[Len(store')] =
                                [id |-> plan[at].id, plan |-> <<plan[at]>>, run |-> at,
                                 status |-> "pending"]
      BY <2>1 DEF LastIsAsked
    <3> DEFINE new == [id |-> plan[at].id, plan |-> <<plan[at]>>, run |-> at,
                       status |-> "pending"]
    <3>2. store' = store \o <<new>>
      BY <2>1, <3>1, AskedIsFirst
    <3> HIDE DEF new
    <3>3. Len(store') = Len(store) + 1 /\ store'[Len(store')] = new
      BY <1>0, <3>2
    <3> QED  BY <1>0, <3>3 DEF new
  <2>4. ResumesApproved' /\ ExecutesAnswered'
    BY <2>1, <2>2 DEF ConsentInv, ResumesApproved, ExecutesAnswered
  <2>5. ConsentBeforeInvocation'
    BY <2>1, <2>2, ConsentKept DEF ConsentInv
  <2> QED  BY <2>3, <2>4, <2>5 DEF ConsentInv
<1>4. CASE Enter
  <2>1. /\ call'.phase = call.phase /\ call'.given = call.given
        /\ call'.current = call.current /\ call'.rejected = RejectedBy(call, call.current)
    BY <1>0, <1>4 DEF Enter, Calls
  <2> QED  BY <1>0, <1>4, <2>1, EnterConsents DEF Enter
<1>5. CASE SkipRejected \/ Deny
  <2>1. /\ call'.phase = call.phase /\ call'.given = call.given
        /\ call'.current = call.current /\ call'.rejected = call.rejected
    BY <1>0, <1>5 DEF SkipRejected, Deny, Keep, Calls
  <2>2. pc = "execute" /\ pc' = "execute" /\ UNCHANGED <<at, store, invoked>>
    BY <1>5 DEF SkipRejected, Deny
  <2>3. LastIsAsked' /\ ResumesApproved' /\ ExecutesAnswered'
    BY <2>1, <2>2, ConsentExecutes
  <2> QED  BY <2>2, <2>3, ConsentKept DEF ConsentInv
<1>6. CASE Handle
  <2>1. /\ call'.phase = call.phase /\ call'.given = call.given
        /\ call'.current = call.current /\ call'.rejected = call.rejected
    BY <1>0, <1>6 DEF Handle, Keep, Calls
  <2>2. pc = "execute" /\ pc' = "execute" /\ UNCHANGED <<at, store>>
    BY <1>6 DEF Handle
  <2>3. LastIsAsked' /\ ResumesApproved' /\ ExecutesAnswered'
    BY <2>1, <2>2, ConsentExecutes
  <2> QED  BY <1>6, <2>3, HandleConsents DEF ConsentInv
<1>7. CASE EndExecution
  BY <1>7, ConsentIdle DEF EndExecution
<1>8. CASE Verify
  <2>1. call'.phase = call.phase /\ call'.given = call.given /\ pc = "verify"
    BY <1>0, <1>8 DEF Verify, Calls
  <2>2. pc' \in {"recover", "returned"} /\ UNCHANGED <<store, invoked>>
    BY <1>8 DEF Verify
  <2>3. call.phase # "ask"
    BY <2>1 DEF AskOnly
  <2>4. LastIsAsked' /\ ResumesApproved' /\ ExecutesAnswered'
    BY <2>1, <2>2, <2>3 DEF ConsentInv, LastIsAsked, ResumesApproved, ExecutesAnswered
  <2> QED  BY <2>2, <2>4, ConsentKept DEF ConsentInv
<1>9. CASE \E p \in Candidates : RecoverInvalid(p)
  <2>1. call'.phase = call.phase /\ call'.given = call.given /\ pc = "recover"
    BY <1>0, <1>9 DEF RecoverInvalid, Calls
  <2>2. pc' = "returned" /\ UNCHANGED <<store, invoked>>
    BY <1>9 DEF RecoverInvalid
  <2>3. call.phase # "ask"
    BY <2>1 DEF AskOnly
  <2>4. LastIsAsked' /\ ResumesApproved' /\ ExecutesAnswered'
    BY <2>1, <2>2, <2>3 DEF ConsentInv, LastIsAsked, ResumesApproved, ExecutesAnswered
  <2> QED  BY <2>2, <2>4, ConsentKept DEF ConsentInv
<1>10. CASE \E p \in Candidates : RecoverPending(p)
  <2>1. PICK p \in Candidates : RecoverPending(p)
    BY <1>10
  <2>2. call'.phase = call.phase /\ call'.given = call.given /\ pc = "recover"
    BY <1>0, <2>1 DEF RecoverPending, Calls
  <2>3. /\ pc' = "returned" /\ UNCHANGED invoked
        /\ store' = store \o NewRequests(call, p)
    BY <2>1 DEF RecoverPending
  <2>4. call.phase # "ask"
    BY <2>2 DEF AskOnly
  <2>5. \A k \in DOMAIN store : k \in DOMAIN store' /\ store'[k] = store[k]
    BY <2>3, AppendedKept, PlansAreSequences
  <2>6. LastIsAsked' /\ ResumesApproved' /\ ExecutesAnswered'
    BY <2>2, <2>3, <2>4, <2>5 DEF ConsentInv, LastIsAsked, ResumesApproved, ExecutesAnswered
  <2> QED  BY <2>3, <2>5, <2>6, ConsentKept DEF ConsentInv
<1>11. CASE \E p \in Candidates : Recover(p)
  <2>1. PICK p \in Candidates : Recover(p)
    BY <1>11
  <2>2. /\ call'.phase = call.phase /\ call'.given = call.given
        /\ call'.current = p /\ call'.rejected = RejectedBy(call, p)
    BY <1>0, <2>1 DEF Recover, Calls
  <2> QED  BY <2>1, <2>2, EnterConsents, PlansAreSequences DEF Recover
<1>12. CASE Blocked
  BY <1>12, ConsentIdle DEF Blocked, Advance
<1>13. CASE Unattended
  BY <1>13, ConsentIdle DEF Unattended
<1>14. CASE Refuse
  <2>1. /\ pc' = "next" /\ call.phase = "ask" /\ pc = "returned" /\ call.pending
        /\ UNCHANGED <<call, invoked>>
        /\ store' = [store EXCEPT ![Len(store)].status = "rejected"]
    BY <1>14 DEF Refuse, Advance
  <2>2. \A k \in DOMAIN store :
           store[k].status = "approved" => k \in DOMAIN store' /\ store'[k] = store[k]
    BY <2>1, AnswerKeeps DEF ConsentInv
  <2>3. ConsentBeforeInvocation'
    BY <2>1, <2>2, ConsentKept DEF ConsentInv
  <2> QED
    BY <2>1, <2>3 DEF ConsentInv, LastIsAsked, ResumesApproved, ExecutesAnswered
<1>15. CASE Approve
  <2>1. /\ pc' = "call" /\ call.phase = "ask" /\ pc = "returned" /\ call.pending
        /\ UNCHANGED invoked /\ call'.given = Len(store)
        /\ store' = [store EXCEPT ![Len(store)].status = "approved"]
    BY <1>15 DEF Approve, FreshCall
  <2>2. /\ \A k \in DOMAIN store :
              store[k].status = "approved" => k \in DOMAIN store' /\ store'[k] = store[k]
        /\ Len(store) \in DOMAIN store' /\ store'[Len(store)].status = "approved"
    BY <2>1, AnswerKeeps DEF ConsentInv
  <2>3. ConsentBeforeInvocation'
    BY <2>1, <2>2, ConsentKept DEF ConsentInv
  <2> QED
    BY <2>1, <2>2, <2>3 DEF ConsentInv, LastIsAsked, ResumesApproved, ExecutesAnswered
<1>16. CASE Record
  <2>1. pc' \in {"next", "report"} /\ UNCHANGED <<call, store, invoked>>
    BY <1>16 DEF Record, Advance
  <2> QED  BY <2>1, ConsentIdle
<1>17. CASE Report \/ Raises
  <2>1. pc' \in {"done", "unreported", "raised"} /\ UNCHANGED <<call, store, invoked>>
    BY <1>17 DEF Report, Raises
  <2> QED  BY <2>1, ConsentIdle
<1>18. CASE UNCHANGED vars
  BY <1>18
  DEF vars, inputs, outputs, ConsentInv, LastIsAsked, ResumesApproved, ExecutesAnswered,
      ConsentBeforeInvocation, Matches
<1> QED
  BY <1>1, <1>2, <1>3, <1>4, <1>5, <1>6, <1>7, <1>8, <1>9, <1>10, <1>11, <1>12, <1>13,
     <1>14, <1>15, <1>16, <1>17, <1>18 DEF Next

\* Default deny and human consent: a real handler that needs an approval is called only
\* after the user approved this action of this plan in this iteration, whatever recovery
\* plans are proposed and however often it is retried.
THEOREM ConsentPrecedes == Spec => []ConsentBeforeInvocation
<1>1. TypeInv /\ LoopInv /\ ConsentInv /\ [Next]_vars => ConsentInv'
  BY ConsentStep DEF LoopInv
<1>2. Init => TypeInv /\ LoopInv /\ ConsentInv
  BY InitTypes, InitLoop, InitConsent
<1>3. ConsentInv => ConsentBeforeInvocation
  BY DEF ConsentInv
<1> QED  BY <1>1, <1>2, <1>3, TypeStep, LoopStep, PTL DEF Spec

-----------------------------------------------------------------------------
(* The executor inside the pipeline                                        *)

Phase == IF pc \in {"execute", "verify"} THEN pc ELSE "idle"

Exec == INSTANCE ExecutorContract WITH
    Plans <- Seq(Actions),
    plan <- call.current,
    mode <- mode,
    approved <- IsApproved(call),
    rejected <- call.rejected,
    phase <- Phase,
    attempt <- call.attempt,
    results <- call.results,
    unverified <- call.unverified

\* What an executor leaves alone in the call that it serves, and around it.
CallFrame ==
    call' = [call EXCEPT !.results = call'.results, !.attempt = call'.attempt,
                         !.unverified = call'.unverified]

Frame == CallFrame /\ UNCHANGED <<inputs, at, store, outputs>>

Counted == invoked' = IF mode = "real"
                      THEN invoked \cup {[run |-> at, plan |-> call.current, pos |-> Position]}
                      ELSE invoked

\* The steps of the executor in Pipeline are the steps of ExecutorContract, none
\* more and none less.
SameSteps ==
    /\ SkipRejected <=> Exec!SkipRejected /\ Frame /\ UNCHANGED invoked
    /\ Deny <=> Exec!Deny /\ Frame /\ UNCHANGED invoked
    /\ Handle <=> Exec!Attempt /\ Frame /\ Counted
    /\ EndExecution <=> Exec!EndExecution /\ Frame /\ UNCHANGED invoked
    /\ Verify <=> /\ Exec!Verify /\ Frame /\ UNCHANGED invoked
                  /\ pc' = IF MayReplan(call') THEN "recover" ELSE "returned"

\* A call enters the executor with nothing left over from an earlier execution.
CleanEntry ==
    /\ call.attempt > 1 => pc = "execute" /\ Position \in DOMAIN call.current \ call.rejected
    /\ pc = "call" => call.results = <<>>
    /\ pc \in {"call", "execute", "verify"} => ~call.unverified

\* Each step of the pipeline is one of the contract, one between two executions,
\* or an exception out of the verification.
RunsExecutor ==
    [][\/ Exec!Next
       \/ Phase = "idle" /\ Phase' = "idle"
       \/ Raises]_vars

\* The contract reads the tables that the pipeline reads.
LEMMA ContractTables ==
    /\ Exec!Modes = Modes /\ Exec!VerifierNames = VerifierNames
    /\ \A n : Exec!Canonical(n) = Canonical(n)
    /\ \A id, m, ok : Exec!GateAllows(id, m, ok) <=> GateAllows(id, m, ok)
    /\ \A a, status, x, y : Exec!Result(a, status, x, y) = Result(a, status, x, y)
    /\ \A a, m : Exec!HandlerResults(a, m) = HandlerResults(a, m)
<1>1. /\ Exec!Modes = Modes /\ Exec!VerifierNames = VerifierNames
      /\ \A n : Exec!Canonical(n) = Canonical(n)
      /\ \A a, status, x, y : Exec!Result(a, status, x, y) = Result(a, status, x, y)
  BY DEF Modes, VerifierNames, Canonical, Bare, Result, Exec!Modes, Exec!VerifierNames,
         Exec!Canonical, Exec!Bare, Exec!Result
<1>2. \A id, m, ok : Exec!GateAllows(id, m, ok) <=> GateAllows(id, m, ok)
  BY DEF GateAllows, HasPolicy, GateCanonical, Canonical, Bare, SafeOnlyNames, HumanApprovalNames,
         Exec!GateAllows, Exec!HasPolicy, Exec!GateCanonical, Exec!Canonical, Exec!Bare,
         Exec!SafeOnlyNames, Exec!HumanApprovalNames
<1>3. \A n, m : Exec!HasHandler(n, m) <=> HasHandler(n, m)
  BY DEF HasHandler, SafeHandlerNames, RealHandlerNames, CanonicalNames, Exec!HasHandler,
         Exec!SafeHandlerNames, Exec!RealHandlerNames, Exec!CanonicalNames
<1>4. \A a, m : Exec!HandlerResults(a, m) = HandlerResults(a, m)
  BY <1>1, <1>3, Zenon DEF HandlerResults, Exec!HandlerResults
<1> QED  BY <1>1, <1>2, <1>4

LEMMA SameView ==
    /\ Exec!Position = Position
    /\ \A a : Exec!Allowed(a) <=> Allowed(call, a)
    /\ Exec!Verifiable = Verifiable(call)
BY ContractTables
DEF Exec!Position, Position, Exec!Allowed, Allowed, ExecutorId, Exec!Verifiable, Verifiable

\* What a report does to a call.
LEMMA KeepIsReport ==
    ASSUME TypeInv, TypeInv', NEW r
    PROVE  call' = Keep(r) <=> Exec!Report(r) /\ CallFrame /\ call'.unverified = call.unverified
<1>1. call \in Calls /\ call' \in Calls
  BY DEF TypeInv, TypeOK
<1>2. Exec!Report(r) <=> call'.results = Append(call.results, r) /\ call'.attempt = 1
  BY DEF Exec!Report
<1>3. ASSUME call' = Keep(r)
      PROVE  Exec!Report(r) /\ CallFrame /\ call'.unverified = call.unverified
  BY <1>1, <1>2, <1>3 DEF Keep, CallFrame, Calls
<1>4. ASSUME Exec!Report(r), CallFrame, call'.unverified = call.unverified
      PROVE  call' = Keep(r)
  BY <1>1, <1>2, <1>4 DEF Keep, CallFrame, Calls
<1> QED  BY <1>3, <1>4

\* The frame of a call, field by field.
LEMMA CallFields ==
    ASSUME TypeInv, TypeInv'
    PROVE  CallFrame <=>
              /\ call'.phase = call.phase /\ call'.current = call.current
              /\ call'.given = call.given /\ call'.rejected = call.rejected
              /\ call'.executed = call.executed /\ call'.pending = call.pending
              /\ call'.replans = call.replans
<1>1. call \in Calls /\ call' \in Calls
  BY DEF TypeInv, TypeOK
<1> QED  BY <1>1 DEF CallFrame, Calls

LEMMA CallStays ==
    ASSUME TypeInv, TypeInv', CallFrame
    PROVE  /\ call'.current = call.current /\ call'.rejected = call.rejected
           /\ HasProvider(call') = HasProvider(call)
BY CallFields DEF HasProvider

LEMMA SkipIsContract ==
    ASSUME TypeInv, TypeInv'
    PROVE  SkipRejected <=> Exec!SkipRejected /\ Frame /\ UNCHANGED invoked
<1> DEFINE r == Result(call.current[Position], "skipped", FALSE, FALSE)
<1>1. ASSUME SkipRejected
      PROVE  Exec!SkipRejected /\ Frame /\ UNCHANGED invoked
  <2>1. /\ pc = "execute" /\ pc' = "execute" /\ Position \in DOMAIN call.current \cap call.rejected
        /\ call' = Keep(r) /\ UNCHANGED <<inputs, at, store, outputs, invoked>>
    BY <1>1 DEF SkipRejected
  <2>2. Exec!Report(r) /\ CallFrame /\ call'.unverified = call.unverified
    BY <2>1, KeepIsReport
  <2>3. mode' = mode
    BY <2>1 DEF inputs
  <2>4. UNCHANGED Exec!job
    BY <2>2, <2>3, CallStays DEF Exec!job, IsApproved
  <2> QED
    BY <2>1, <2>2, <2>4, SameView, ContractTables DEF Exec!SkipRejected, Frame, Phase
<1>2. ASSUME Exec!SkipRejected, Frame, UNCHANGED invoked
      PROVE  SkipRejected
  <2>1. /\ pc = "execute" /\ pc' = "execute" /\ Position \in DOMAIN call.current \cap call.rejected
        /\ Exec!Report(r) /\ call'.unverified = call.unverified
    BY <1>2, SameView, ContractTables DEF Exec!SkipRejected, Phase
  <2>2. call' = Keep(r)
    BY <1>2, <2>1, KeepIsReport DEF Frame
  <2> QED  BY <1>2, <2>1, <2>2 DEF SkipRejected, Frame
<1> QED  BY <1>1, <1>2

LEMMA DenyIsContract ==
    ASSUME TypeInv, TypeInv'
    PROVE  Deny <=> Exec!Deny /\ Frame /\ UNCHANGED invoked
<1> DEFINE r == Result(call.current[Position], "failed", FALSE, FALSE)
<1>1. ASSUME Deny
      PROVE  Exec!Deny /\ Frame /\ UNCHANGED invoked
  <2>1. /\ pc = "execute" /\ pc' = "execute" /\ Position \in DOMAIN call.current \ call.rejected
        /\ ~Allowed(call, call.current[Position])
        /\ call' = Keep(r) /\ UNCHANGED <<inputs, at, store, outputs, invoked>>
    BY <1>1 DEF Deny
  <2>2. Exec!Report(r) /\ CallFrame /\ call'.unverified = call.unverified
    BY <2>1, KeepIsReport
  <2>3. mode' = mode
    BY <2>1 DEF inputs
  <2>4. UNCHANGED Exec!job
    BY <2>2, <2>3, CallStays DEF Exec!job, IsApproved
  <2> QED
    BY <2>1, <2>2, <2>4, SameView, ContractTables DEF Exec!Deny, Frame, Phase
<1>2. ASSUME Exec!Deny, Frame, UNCHANGED invoked
      PROVE  Deny
  <2>1. /\ pc = "execute" /\ pc' = "execute" /\ Position \in DOMAIN call.current \ call.rejected
        /\ ~Allowed(call, call.current[Position])
        /\ Exec!Report(r) /\ call'.unverified = call.unverified
    BY <1>2, SameView, ContractTables DEF Exec!Deny, Phase
  <2>2. call' = Keep(r)
    BY <1>2, <2>1, KeepIsReport DEF Frame
  <2> QED  BY <1>2, <2>1, <2>2 DEF Deny, Frame
<1> QED  BY <1>1, <1>2

LEMMA RetryIsContract ==
    ASSUME TypeInv, TypeInv'
    PROVE  call' = [call EXCEPT !.attempt = @ + 1] <=>
              /\ call'.attempt = call.attempt + 1 /\ call'.results = call.results
              /\ CallFrame /\ call'.unverified = call.unverified
<1>1. call \in Calls /\ call' \in Calls
  BY DEF TypeInv, TypeOK
<1>2. ASSUME call' = [call EXCEPT !.attempt = @ + 1]
      PROVE  /\ call'.attempt = call.attempt + 1 /\ call'.results = call.results
             /\ CallFrame /\ call'.unverified = call.unverified
  BY <1>1, <1>2 DEF CallFrame, Calls
<1>3. ASSUME call'.attempt = call.attempt + 1, call'.results = call.results,
             CallFrame, call'.unverified = call.unverified
      PROVE  call' = [call EXCEPT !.attempt = @ + 1]
  BY <1>1, <1>3 DEF CallFrame, Calls
<1> QED  BY <1>2, <1>3

LEMMA HandleIsContract ==
    ASSUME TypeInv, TypeInv'
    PROVE  Handle <=> Exec!Attempt /\ Frame /\ Counted
<1> DEFINE a == call.current[Position]
           Tried(r) == call' = IF r.retryable /\ call.attempt < MaxAttempts
                               THEN [call EXCEPT !.attempt = @ + 1]
                               ELSE Keep(r)
           TriedBy(r) == IF r.retryable /\ call.attempt < MaxAttempts
                         THEN call'.attempt = call.attempt + 1 /\ call'.results = call.results
                         ELSE Exec!Report(r)
<1>1. \A r : Tried(r) <=> TriedBy(r) /\ CallFrame /\ call'.unverified = call.unverified
  BY KeepIsReport, RetryIsContract
<1>2. Handle <=> /\ pc = "execute" /\ pc' = "execute"
                 /\ Position \in DOMAIN call.current \ call.rejected
                 /\ Allowed(call, a)
                 /\ \E r \in HandlerResults(a, mode) : Tried(r)
                 /\ UNCHANGED <<inputs, at, store, outputs>> /\ Counted
  BY DEF Handle, Counted
<1>3. Exec!Attempt <=> /\ pc = "execute" /\ pc' = "execute"
                       /\ Position \in DOMAIN call.current \ call.rejected
                       /\ Allowed(call, a)
                       /\ \E r \in HandlerResults(a, mode) : TriedBy(r)
                       /\ UNCHANGED Exec!job /\ call'.unverified = call.unverified
  BY SameView, ContractTables DEF Exec!Attempt, Phase
<1>4. CallFrame /\ call'.unverified = call.unverified /\ UNCHANGED inputs => UNCHANGED Exec!job
  BY CallStays DEF Exec!job, IsApproved, inputs
<1> HIDE DEF Tried, TriedBy
<1> QED  BY <1>1, <1>2, <1>3, <1>4 DEF Frame

LEMMA EndIsContract ==
    ASSUME TypeInv, TypeInv'
    PROVE  EndExecution <=> Exec!EndExecution /\ Frame /\ UNCHANGED invoked
<1>1. call \in Calls /\ call' \in Calls
  BY DEF TypeInv, TypeOK
<1>2. call' = call <=> /\ CallFrame /\ call'.unverified = call.unverified
                       /\ call'.results = call.results /\ call'.attempt = call.attempt
  <2>1. ASSUME call' = call  PROVE CallFrame
    BY <2>1, CallFields
  <2>2. ASSUME CallFrame, call'.unverified = call.unverified,
               call'.results = call.results, call'.attempt = call.attempt
        PROVE  call' = call
    BY <1>1, <2>2, CallFields DEF Calls
  <2> QED  BY <2>1, <2>2
<1>3. call' = call /\ UNCHANGED inputs => UNCHANGED Exec!job
  BY DEF Exec!job, IsApproved, HasProvider, inputs
<1>4. Exec!EndExecution <=> /\ pc = "execute" /\ pc' = "verify" /\ Position \notin DOMAIN call.current
                            /\ UNCHANGED Exec!job /\ call'.attempt = call.attempt
                            /\ call'.results = call.results /\ call'.unverified = call.unverified
  BY SameView DEF Exec!EndExecution, Phase
<1> QED  BY <1>2, <1>3, <1>4 DEF EndExecution, Frame

LEMMA VerifyIsContract ==
    ASSUME TypeInv, TypeInv'
    PROVE  Verify <=> /\ Exec!Verify /\ Frame /\ UNCHANGED invoked
                      /\ pc' = IF MayReplan(call') THEN "recover" ELSE "returned"
<1> DEFINE Bad == IF Verifiable(call) = {} THEN {FALSE} ELSE BOOLEAN
<1>1. call \in Calls /\ call' \in Calls
  BY DEF TypeInv, TypeOK
<1>2. (\E bad \in Bad : call' = [call EXCEPT !.unverified = bad]) <=>
         /\ CallFrame /\ call'.unverified \in Bad
         /\ call'.results = call.results /\ call'.attempt = call.attempt
  <2>1. ASSUME NEW bad \in BOOLEAN, call' = [call EXCEPT !.unverified = bad]
        PROVE  /\ CallFrame /\ call'.unverified = bad
               /\ call'.results = call.results /\ call'.attempt = call.attempt
    BY <1>1, <2>1, CallFields DEF Calls
  <2>2. ASSUME CallFrame, call'.results = call.results, call'.attempt = call.attempt
        PROVE  call' = [call EXCEPT !.unverified = call'.unverified]
    BY <1>1, <2>2, CallFields DEF Calls
  <2>3. Bad \subseteq BOOLEAN
    OBVIOUS
  <2> HIDE DEF Bad
  <2> QED  BY <2>1, <2>2, <2>3
<1>3. CallFrame /\ UNCHANGED inputs => UNCHANGED Exec!job
  BY CallStays DEF Exec!job, IsApproved, inputs
<1>4. ASSUME pc' \in {"recover", "returned"}
      PROVE  Exec!Verify <=> /\ pc = "verify" /\ call'.unverified \in Bad
                             /\ UNCHANGED Exec!job /\ call'.attempt = call.attempt
                             /\ call'.results = call.results
  BY <1>4, SameView DEF Exec!Verify, Phase
<1>5. Verify <=> /\ pc = "verify" /\ \E bad \in Bad : call' = [call EXCEPT !.unverified = bad]
                 /\ pc' = IF MayReplan(call') THEN "recover" ELSE "returned"
                 /\ UNCHANGED <<inputs, at, store, outputs, invoked>>
  BY DEF Verify
<1> HIDE DEF Bad
<1> QED  BY <1>2, <1>3, <1>4, <1>5 DEF Frame

LEMMA InitClean == Init => CleanEntry
<1> SUFFICES ASSUME Init  PROVE CleanEntry
  OBVIOUS
<1>1. call.attempt = 1 /\ pc = "next"
  BY DEF Init, FreshCall
<1> QED  BY <1>1 DEF CleanEntry

LEMMA CleanStep == TypeInv /\ TypeInv' /\ CleanEntry /\ [Next]_vars => CleanEntry'
<1> SUFFICES ASSUME TypeInv, TypeInv', CleanEntry, [Next]_vars  PROVE CleanEntry'
  OBVIOUS
<1>0. call \in Calls /\ call' \in Calls /\ call.attempt \in Nat /\ 1 <= call.attempt
  BY DEF TypeInv, TypeOK
<1>1. CASE NextAction
  <2>1. CASE at \in DOMAIN plan
    <3>1. call'.attempt = 1 /\ call'.results = <<>> /\ call'.unverified = FALSE
      BY <1>1, <2>1 DEF NextAction, FreshCall
    <3> QED  BY <3>1 DEF CleanEntry
  <2>2. CASE at \notin DOMAIN plan
    BY <1>1, <2>2 DEF NextAction, CleanEntry
  <2> QED  BY <2>1, <2>2
<1>2. CASE EnterInvalid
  BY <1>2 DEF EnterInvalid, CleanEntry
<1>3. CASE EnterPending
  <2>1. call'.attempt = call.attempt /\ pc' = "returned" /\ pc = "call"
    BY <1>0, <1>3 DEF EnterPending, Calls
  <2> QED  BY <1>0, <2>1 DEF CleanEntry
<1>4. CASE Enter
  <2>1. /\ call'.attempt = call.attempt /\ call'.unverified = call.unverified
        /\ pc' = "execute" /\ pc = "call"
    BY <1>0, <1>4 DEF Enter, Calls
  <2> QED  BY <1>0, <2>1 DEF CleanEntry
<1>5. CASE SkipRejected \/ Deny
  <2>1. PICK r : call' = Keep(r)
    BY <1>5 DEF SkipRejected, Deny
  <2>2. call'.attempt = 1 /\ call'.unverified = call.unverified /\ pc' = "execute" /\ pc = "execute"
    BY <1>5, <2>1, KeepIsReport DEF SkipRejected, Deny, Exec!Report
  <2> QED  BY <2>2 DEF CleanEntry
<1>6. CASE Handle
  <2>1. /\ pc = "execute" /\ pc' = "execute" /\ Position \in DOMAIN call.current \ call.rejected
        /\ \E r : call' = [call EXCEPT !.attempt = @ + 1] \/ call' = Keep(r)
    BY <1>6 DEF Handle
  <2>2. CASE call' = [call EXCEPT !.attempt = @ + 1]
    <3>1. /\ call'.unverified = call.unverified /\ call'.results = call.results
          /\ call'.current = call.current /\ call'.rejected = call.rejected
      BY <2>2, RetryIsContract, CallStays
    <3> QED  BY <2>1, <3>1 DEF CleanEntry, Position
  <2>3. CASE \E r : call' = Keep(r)
    <3>1. call'.attempt = 1 /\ call'.unverified = call.unverified
      BY <2>3, KeepIsReport DEF Exec!Report
    <3> QED  BY <2>1, <3>1 DEF CleanEntry
  <2> QED  BY <2>1, <2>2, <2>3
<1>7. CASE EndExecution
  <2>1. pc' = "verify" /\ pc = "execute" /\ call' = call /\ Position \notin DOMAIN call.current
    BY <1>7 DEF EndExecution
  <2>2. ~(call.attempt > 1) /\ ~call.unverified
    BY <2>1 DEF CleanEntry
  <2> QED  BY <2>1, <2>2 DEF CleanEntry
<1>8. CASE Verify
  <2>1. pc = "verify" /\ pc' \in {"recover", "returned"} /\ call'.attempt = call.attempt
    BY <1>0, <1>8 DEF Verify, Calls
  <2> QED  BY <2>1 DEF CleanEntry
<1>9. ASSUME NEW p \in Candidates, RecoverInvalid(p) \/ RecoverPending(p)
      PROVE  CleanEntry'
  <2>1. pc = "recover" /\ pc' = "returned" /\ call'.attempt = call.attempt
    BY <1>0, <1>9 DEF RecoverInvalid, RecoverPending, Calls
  <2> QED  BY <2>1 DEF CleanEntry
<1>10. ASSUME NEW p \in Candidates, Recover(p)
       PROVE  CleanEntry'
  <2>1. /\ pc = "recover" /\ pc' = "execute" /\ call'.attempt = call.attempt
        /\ call'.unverified = FALSE
    BY <1>0, <1>10 DEF Recover, Calls
  <2> QED  BY <2>1 DEF CleanEntry
<1>11. CASE Approve
  <2>1. call'.attempt = 1 /\ call'.results = <<>> /\ call'.unverified = FALSE
    BY <1>11 DEF Approve, FreshCall
  <2> QED  BY <2>1 DEF CleanEntry
<1>12. CASE Blocked \/ Unattended \/ Refuse \/ Record \/ Report \/ Raises
  <2>1. call' = call /\ pc # "execute" /\ pc' \notin {"call", "execute", "verify"}
    BY <1>12 DEF Blocked, Unattended, Refuse, Record, Report, Raises, Advance
  <2> QED  BY <2>1 DEF CleanEntry
<1>13. CASE UNCHANGED vars
  <2>1. call' = call /\ pc' = pc
    BY <1>13 DEF vars
  <2> QED  BY <2>1 DEF CleanEntry, Position
<1> QED
  BY <1>1, <1>2, <1>3, <1>4, <1>5, <1>6, <1>7, <1>8, <1>9, <1>10, <1>11, <1>12, <1>13 DEF Next

\* A plan goes to the executor: the first of a call, or one that a recovery proposed.
LEMMA EnterIsExecute ==
    ASSUME TypeInv, TypeInv', CleanEntry, NEW p \in Seq(Actions),
           \/ Enter /\ p = call.current
           \/ Recover(p)
    PROVE  Exec!Execute
<1>0. call \in Calls /\ call' \in Calls /\ call.attempt \in Nat /\ 1 <= call.attempt /\ mode' \in Modes
  BY DEF TypeInv, TypeOK
<1>1. /\ pc \in {"call", "recover"} /\ pc' = "execute"
      /\ call'.rejected = RejectedBy(call, p)
      /\ call'.current = p /\ call'.attempt = call.attempt
      /\ call'.results = <<>> /\ call'.unverified = FALSE
  BY <1>0 DEF Enter, Recover, Calls, CleanEntry
<1>2. RejectedBy(call, p) \subseteq DOMAIN p
  BY DEF RejectedBy, Claims, NeedApproval
<1>3. call.attempt = 1
  BY <1>0, <1>1 DEF CleanEntry
<1>4. IsApproved(call') \in BOOLEAN /\ IsApproved(call)' = (mode' = "real" /\ HasProvider(call'))
  BY DEF IsApproved
<1> QED  BY <1>0, <1>1, <1>2, <1>3, <1>4, ContractTables DEF Exec!Execute, Phase

\* Neither more nor less than ExecutorContract: what Handlers implements is what
\* Pipeline runs on, and Pipeline leaves out nothing that the contract allows.
THEOREM ExecutorIsContract == Spec => [][SameSteps]_vars
<1>1. TypeInv /\ TypeInv' => SameSteps
  BY SkipIsContract, DenyIsContract, HandleIsContract, EndIsContract, VerifyIsContract DEF SameSteps
<1>2. Spec => []TypeInv
  BY InitTypes, TypeStep, PTL DEF Spec
<1> QED  BY <1>1, <1>2, PTL

\* Whatever the pipeline does while it has an executor at work is a step of the
\* contract, or an exception, and it hands over each plan, first or recovered, with
\* nothing left of the attempts and results of the plan before.
THEOREM ExecutorIsRun == Spec => RunsExecutor
<1>1. ASSUME TypeInv, TypeInv', CleanEntry, Next
      PROVE  \/ Exec!Next \/ Raises
             \/ Phase = "idle" /\ Phase' = "idle"
  <2>1. CASE SkipRejected \/ Deny \/ Handle \/ EndExecution \/ Verify
    BY <1>1, <2>1, SkipIsContract, DenyIsContract, HandleIsContract, EndIsContract,
       VerifyIsContract DEF Exec!Next
  <2>2. CASE Enter
    <3>1. call.current \in Seq(Actions)
      BY <1>1 DEF TypeInv, TypeOK, Calls
    <3> QED  BY <1>1, <2>2, <3>1, EnterIsExecute DEF Exec!Next
  <2>3. ASSUME NEW p \in Candidates, Recover(p)
        PROVE  Exec!Next
    BY <1>1, <2>3, PlansAreSequences, EnterIsExecute DEF Exec!Next
  <2>4. CASE \/ NextAction \/ EnterInvalid \/ EnterPending \/ Blocked \/ Unattended \/ Refuse
             \/ Approve \/ Record \/ Report
             \/ \E p \in Candidates : RecoverInvalid(p) \/ RecoverPending(p)
    BY <2>4
    DEF NextAction, EnterInvalid, EnterPending, Blocked, Unattended, Refuse, Approve, Record,
        Report, RecoverInvalid, RecoverPending, Advance, Phase
  <2> QED  BY <1>1, <2>1, <2>2, <2>3, <2>4 DEF Next
<1>2. Spec => []TypeInv
  BY InitTypes, TypeStep, PTL DEF Spec
<1>3. Spec => []CleanEntry
  BY <1>2, InitClean, CleanStep, PTL DEF Spec
<1> QED  BY <1>1, <1>2, <1>3, PTL DEF Spec, RunsExecutor

-----------------------------------------------------------------------------
(* Recovery is bounded                                                     *)

ResultsInPlan == Len(call.results) <= Len(call.current)

LEMMA InitInPlan == Init => ResultsInPlan
<1> SUFFICES ASSUME Init  PROVE ResultsInPlan
  OBVIOUS
<1>1. call.results = <<>> /\ call.current = <<>>
  BY DEF Init, FreshCall
<1> QED  BY <1>1 DEF ResultsInPlan

\* What each step does to the call, as far as its position is concerned.
LEMMA ResultsMove ==
    ASSUME TypeInv, TypeInv', [Next]_vars
    PROVE  \/ call'.results = <<>>
           \/ call'.results = call.results /\ call'.current = call.current
           \/ /\ Position \in DOMAIN call.current
              /\ \E r : call'.results = Append(call.results, r)
              /\ call'.current = call.current
<1>0. call \in Calls /\ call' \in Calls
  BY DEF TypeInv, TypeOK
<1>1. CASE NextAction
  BY <1>1 DEF NextAction, FreshCall
<1>2. CASE Approve
  BY <1>2 DEF Approve, FreshCall
<1>3. CASE SkipRejected \/ Deny \/ Handle
  <2>1. /\ Position \in DOMAIN call.current
        /\ \/ \E r : call' = Keep(r)
           \/ call' = [call EXCEPT !.attempt = @ + 1]
    BY <1>3 DEF SkipRejected, Deny, Handle
  <2>2. CASE \E r : call' = Keep(r)
    <3>1. PICK r : call' = Keep(r)
      BY <2>2
    <3>2. call'.results = Append(call.results, r) /\ call'.current = call.current
      BY <3>1, KeepIsReport, CallStays DEF Exec!Report
    <3> QED  BY <2>1, <3>2
  <2>3. CASE call' = [call EXCEPT !.attempt = @ + 1]
    BY <2>3, RetryIsContract, CallStays
  <2> QED  BY <2>1, <2>2, <2>3
<1>4. CASE Enter \/ EnterPending \/ Verify
  BY <1>0, <1>4 DEF Enter, EnterPending, Verify, Calls
<1>5. ASSUME NEW p \in Candidates, RecoverInvalid(p) \/ RecoverPending(p) \/ Recover(p)
      PROVE  \/ call'.results = <<>>
             \/ call'.results = call.results /\ call'.current = call.current
  BY <1>0, <1>5 DEF RecoverInvalid, RecoverPending, Recover, Calls
<1>6. CASE \/ EnterInvalid \/ EndExecution \/ Blocked \/ Unattended \/ Refuse \/ Record \/ Report
           \/ Raises \/ UNCHANGED vars
  BY <1>6 DEF EnterInvalid, EndExecution, Blocked, Unattended, Refuse, Record, Report, Raises, vars
<1> QED  BY <1>1, <1>2, <1>3, <1>4, <1>5, <1>6 DEF Next

LEMMA InPlanStep == TypeInv /\ TypeInv' /\ ResultsInPlan /\ [Next]_vars => ResultsInPlan'
<1> SUFFICES ASSUME TypeInv, TypeInv', ResultsInPlan, [Next]_vars  PROVE ResultsInPlan'
  OBVIOUS
<1>1. /\ call.results \in Seq(ActionResult) /\ call'.results \in Seq(ActionResult)
      /\ call.current \in Seq(Actions) /\ call'.current \in Seq(Actions)
  BY DEF TypeInv, TypeOK, Calls
<1>2. CASE call'.results = <<>>
  BY <1>1, <1>2 DEF ResultsInPlan
<1>3. CASE call'.results = call.results /\ call'.current = call.current
  BY <1>3 DEF ResultsInPlan
<1>4. ASSUME Position \in DOMAIN call.current, NEW r, call'.results = Append(call.results, r),
             call'.current = call.current
      PROVE  ResultsInPlan'
  <2>1. Len(call'.results) = Len(call.results) + 1
    BY <1>1, <1>4
  <2> QED  BY <1>1, <1>4, <2>1 DEF ResultsInPlan, Position
<1> QED  BY <1>2, <1>3, <1>4, ResultsMove

LEMMA SixNaturals ==
    ASSUME NEW a \in Nat, NEW b \in Nat, NEW c \in Nat, NEW d \in Nat, NEW e \in Nat, NEW f \in Nat
    PROVE  <<a, b, c, d, e, f>> \in [1..6 -> Nat]
<1> DEFINE t == <<a, b, c, d, e, f>>
<1>1. t = [i \in 1..6 |-> t[i]]
  OBVIOUS
<1>2. \A i \in 1..6 : t[i] \in Nat
  <2>1. /\ t[1] \in Nat /\ t[2] \in Nat /\ t[3] \in Nat
        /\ t[4] \in Nat /\ t[5] \in Nat /\ t[6] \in Nat
    OBVIOUS
  <2>2. \A i \in 1..6 : i = 1 \/ i = 2 \/ i = 3 \/ i = 4 \/ i = 5 \/ i = 6
    OBVIOUS
  <2> HIDE DEF t
  <2> QED  BY <2>1, <2>2
<1> HIDE DEF t
<1>3. t \in [1..6 -> Nat]
  BY <1>1, <1>2
<1> QED  BY <1>3 DEF t

LEMMA RemainingType ==
    ASSUME TypeInv, ResultsInPlan
    PROVE  Remaining \in [1..6 -> Nat]
<1>1. Len(plan) + 1 - at \in Nat
  BY PlansAssumption DEF TypeInv, TypeOK
<1>2. Level \in Nat /\ Stage \in Nat
  BY DEF Level, Stage
<1>3. MaxReplans - call.replans \in Nat /\ MaxAttempts - call.attempt \in Nat
  BY BoundsAssumption DEF TypeInv, TypeOK
<1>4. Len(call.current) - Len(call.results) \in Nat
  <2>1. Len(call.current) \in Nat /\ Len(call.results) \in Nat
    BY DEF TypeInv, TypeOK, Calls
  <2> QED  BY <2>1 DEF ResultsInPlan
<1> QED  BY <1>1, <1>2, <1>3, <1>4, SixNaturals DEF Remaining

LEMMA RemainingParts ==
    /\ Remaining[1] = Len(plan) + 1 - at /\ Remaining[2] = Level
    /\ Remaining[3] = MaxReplans - call.replans /\ Remaining[4] = Stage
    /\ Remaining[5] = Len(call.current) - Len(call.results)
    /\ Remaining[6] = MaxAttempts - call.attempt
BY DEF Remaining

LEMMA EarlierAt ==
    ASSUME NEW x, NEW y, NEW k \in 1..6, x[k] < y[k], \A j \in 1..k - 1 : x[j] = y[j]
    PROVE  Earlier(x, y)
BY DEF Earlier

\* One lemma for each hand that can move.
LEMMA NextPosition ==
    ASSUME TypeInv, plan' = plan, at' = at + 1
    PROVE  Earlier(Remaining', Remaining)
<1>1. Remaining'[1] < Remaining[1]
  BY RemainingParts, PlansAssumption DEF TypeInv, TypeOK, Remaining
<1> QED  BY <1>1, EarlierAt

LEMMA LowerLevel ==
    ASSUME plan' = plan, at' = at, Level' < Level
    PROVE  Earlier(Remaining', Remaining)
<1>1. Remaining'[2] < Remaining[2] /\ Remaining'[1] = Remaining[1]
  BY DEF Remaining
<1> QED  BY <1>1, EarlierAt

LEMMA OneMoreReplan ==
    ASSUME TypeInv, plan' = plan, at' = at, Level' = Level, call'.replans = call.replans + 1
    PROVE  Earlier(Remaining', Remaining)
<1>1. call.replans \in Nat /\ MaxReplans \in Nat
  BY BoundsAssumption DEF TypeInv, TypeOK
<1>2. MaxReplans - call'.replans < MaxReplans - call.replans
  BY <1>1
<1>3. /\ Remaining'[3] < Remaining[3]
      /\ Remaining'[1] = Remaining[1] /\ Remaining'[2] = Remaining[2]
  BY <1>2 DEF Remaining
<1> QED  BY <1>3, EarlierAt

LEMMA LaterStage ==
    ASSUME plan' = plan, at' = at, Level' = Level, call'.replans = call.replans, Stage' < Stage
    PROVE  Earlier(Remaining', Remaining)
<1>1. /\ Remaining'[4] < Remaining[4] /\ Remaining'[1] = Remaining[1]
      /\ Remaining'[2] = Remaining[2] /\ Remaining'[3] = Remaining[3]
  BY DEF Remaining
<1> QED  BY <1>1, EarlierAt

LEMMA OneMoreResult ==
    ASSUME TypeInv, plan' = plan, at' = at, pc' = pc, call'.phase = call.phase,
           call'.replans = call.replans, call'.current = call.current,
           NEW r, call'.results = Append(call.results, r)
    PROVE  Earlier(Remaining', Remaining)
<1>1. Level' = Level /\ Stage' = Stage
  BY DEF Level, Stage, LoopLeft
<1>2. /\ Len(call'.results) = Len(call.results) + 1
      /\ Len(call.results) \in Nat /\ Len(call.current) \in Nat
  BY DEF TypeInv, TypeOK, Calls
<1>3. Len(call.current) - Len(call'.results) < Len(call.current) - Len(call.results)
  <2>1. \A m, n \in Nat : m - (n + 1) < m - n
    OBVIOUS
  <2> QED  BY <1>2, <2>1
<1>4. /\ Remaining'[5] < Remaining[5] /\ Remaining'[1] = Remaining[1]
      /\ Remaining'[2] = Remaining[2] /\ Remaining'[3] = Remaining[3]
      /\ Remaining'[4] = Remaining[4]
  BY <1>1, <1>3 DEF Remaining
<1> QED  BY <1>4, EarlierAt

LEMMA OneMoreAttempt ==
    ASSUME TypeInv, plan' = plan, at' = at, pc' = pc, call' = [call EXCEPT !.attempt = @ + 1]
    PROVE  Earlier(Remaining', Remaining)
<1>0. call \in Calls /\ call.attempt \in Nat /\ MaxAttempts \in Nat
  BY BoundsAssumption DEF TypeInv, TypeOK
<1>1. /\ call'.attempt = call.attempt + 1 /\ call'.phase = call.phase
      /\ call'.replans = call.replans /\ call'.current = call.current
      /\ call'.results = call.results
  BY <1>0 DEF Calls
<1>2. Level' = Level /\ Stage' = Stage
  BY <1>1 DEF Level, Stage
<1>3. MaxAttempts - call'.attempt < MaxAttempts - call.attempt
  BY <1>0, <1>1
<1>4. /\ Remaining'[6] < Remaining[6] /\ Remaining'[1] = Remaining[1]
      /\ Remaining'[2] = Remaining[2] /\ Remaining'[3] = Remaining[3]
      /\ Remaining'[4] = Remaining[4] /\ Remaining'[5] = Remaining[5]
  BY <1>1, <1>2, <1>3 DEF Remaining
<1> QED  BY <1>4, EarlierAt

\* The phase of a call decides its level while the pipeline is at work.
LEMMA LevelAtWork ==
    ASSUME pc \in Working
    PROVE  Level = IF call.phase = "ask" THEN 4 ELSE 3
BY DEF Working, Level

LEMMA StepUsesUp ==
    ASSUME TypeInv, TypeInv', Next
    PROVE  Earlier(Remaining', Remaining)
<1>0. call \in Calls /\ call' \in Calls
  BY DEF TypeInv, TypeOK
<1>1. CASE NextAction
  <2>1. plan' = plan /\ at' = at /\ Level = 5
    BY <1>1 DEF NextAction, inputs, Level
  <2>2. Level' \in {2, 3, 4}
    BY <1>1 DEF NextAction, Level
  <2> QED  BY <2>1, <2>2, LowerLevel
<1>2. CASE EnterInvalid
  <2>1. plan' = plan /\ at' = at /\ call' = call /\ pc = "call" /\ pc' = "returned"
    BY <1>2 DEF EnterInvalid, inputs
  <2> QED  BY <2>1, LaterStage DEF Level, Stage
<1>3. CASE EnterPending \/ Enter \/ Verify
  <2>1. /\ plan' = plan /\ at' = at /\ call'.phase = call.phase /\ call'.replans = call.replans
        /\ \/ pc = "call" /\ pc' \in {"execute", "returned"}
           \/ pc = "verify" /\ pc' \in {"recover", "returned"}
    BY <1>0, <1>3 DEF EnterPending, Enter, Verify, inputs, Calls
  <2> QED  BY <2>1, LaterStage DEF Level, Stage
<1>4. CASE SkipRejected \/ Deny \/ Handle
  <2>1. /\ plan' = plan /\ at' = at /\ pc' = pc
        /\ (\E r : call' = Keep(r)) \/ call' = [call EXCEPT !.attempt = @ + 1]
    BY <1>4 DEF SkipRejected, Deny, Handle, inputs
  <2>2. ASSUME NEW r, call' = Keep(r)  PROVE Earlier(Remaining', Remaining)
    <3>1. /\ call'.results = Append(call.results, r) /\ call'.current = call.current
          /\ call'.phase = call.phase /\ call'.replans = call.replans
      BY <2>2, KeepIsReport, CallFields DEF Exec!Report
    <3> QED  BY <2>1, <3>1, OneMoreResult
  <2> QED  BY <2>1, <2>2, OneMoreAttempt
<1>5. CASE EndExecution
  <2>1. plan' = plan /\ at' = at /\ call' = call /\ pc = "execute" /\ pc' = "verify"
    BY <1>5 DEF EndExecution, inputs
  <2> QED  BY <2>1, LaterStage DEF Level, Stage
<1>6. ASSUME NEW p \in Candidates, RecoverInvalid(p) \/ RecoverPending(p) \/ Recover(p)
      PROVE  Earlier(Remaining', Remaining)
  <2>1. /\ plan' = plan /\ at' = at /\ call'.phase = call.phase
        /\ call'.replans = call.replans + 1
        /\ pc = "recover" /\ pc' \in {"execute", "returned"}
    BY <1>0, <1>6 DEF RecoverInvalid, RecoverPending, Recover, inputs, Calls, NextCount
  <2> QED  BY <2>1, OneMoreReplan DEF Level
<1>7. CASE Blocked \/ Refuse
  BY <1>7, NextPosition DEF Blocked, Refuse, Advance, inputs
<1>8. CASE Unattended
  <2>1. plan' = plan /\ at' = at /\ call.phase = "ask" /\ pc = "returned" /\ pc' = "report"
    BY <1>8 DEF Unattended, inputs
  <2> QED  BY <2>1, LowerLevel DEF Level
<1>9. CASE Approve
  <2>1. /\ plan' = plan /\ at' = at /\ call.phase = "ask" /\ pc = "returned" /\ pc' = "call"
        /\ call'.phase = "resume"
    BY <1>9 DEF Approve, inputs, FreshCall
  <2> QED  BY <2>1, LowerLevel DEF Level
<1>10. CASE Record
  <2>1. CASE GoesOn(call)
    BY <1>10, <2>1, NextPosition DEF Record, Advance, inputs
  <2>2. CASE ~GoesOn(call)
    <3>1. plan' = plan /\ at' = at /\ pc = "returned" /\ pc' = "report"
      BY <1>10, <2>2 DEF Record, inputs
    <3> QED  BY <3>1, LowerLevel DEF Level
  <2> QED  BY <2>1, <2>2
<1>11. CASE Report
  <2>1. plan' = plan /\ at' = at /\ pc = "report" /\ pc' = "done"
    BY <1>11 DEF Report, inputs
  <2> QED  BY <2>1, LowerLevel DEF Level
<1>12. CASE Raises
  <2>1. /\ plan' = plan /\ at' = at /\ pc \in {"call", "verify", "recover", "report"}
        /\ pc' \in {"unreported", "raised"}
    BY <1>12 DEF Raises, inputs
  <2>2. Level' = 0 /\ Level > 0
    BY <2>1 DEF Level
  <2> QED  BY <2>1, <2>2, LowerLevel
<1> QED
  BY <1>1, <1>2, <1>3, <1>4, <1>5, <1>6, <1>7, <1>8, <1>9, <1>10, <1>11, <1>12 DEF Next

\* No bootstrap goes round in circles: each step lowers a measure that cannot be
\* lowered for ever, for any number of attempts and replans, any handlers and any
\* recovery plans.  What is left to fairness is that the next step is taken.
THEOREM RecoveryIsBounded == Spec => EveryStepUsesUp
<1> DEFINE Natural == Remaining \in [1..6 -> Nat]
<1>1. TypeInv /\ TypeInv' /\ [Next]_vars => [Earlier(Remaining', Remaining)]_vars
  BY StepUsesUp
<1>2. Spec => []TypeInv
  BY InitTypes, TypeStep, PTL DEF Spec
<1>3. Spec => []ResultsInPlan
  BY <1>2, InitInPlan, InPlanStep, PTL DEF Spec
<1>4. TypeInv /\ ResultsInPlan => Natural
  BY RemainingType
<1>5. Spec => []Natural
  BY <1>2, <1>3, <1>4, PTL
<1>6. Natural' /\ [Earlier(Remaining', Remaining)]_vars =>
         [Remaining' \in [1..6 -> Nat] /\ Earlier(Remaining', Remaining)]_vars
  OBVIOUS
<1> HIDE DEF Natural
<1> QED  BY <1>1, <1>2, <1>5, <1>6, PTL DEF Spec, EveryStepUsesUp

=============================================================================
