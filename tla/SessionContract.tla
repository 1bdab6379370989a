--------------------------- MODULE SessionContract ---------------------------
(***************************************************************************)
(* What the session service promises whoever talks to it, with every       *)
(* request and every step of a run as one atomic step about one session.   *)
(* A session has at most one run, and only a REAL run executes.  A real    *)
(* handler is called only in an executing run, for an action that this     *)
(* very run has found approved.  Evidence claims what was called, and a    *)
(* run that completes claims nothing else.  A status changes by a run, or  *)
(* by a cancel that was asked for while the session was not terminal.      *)
(* SessionService is shown to implement it, for all its threads.           *)
(***************************************************************************)
EXTENDS Naturals

CONSTANTS
    Sessions,       \* session identifiers
    Clients,        \* who may ask for a cancel
    Ids,            \* the identifiers of actions
    Actions         \* actions, each with an id

VARIABLES
    status,         \* session.status
    standing,       \* the ids whose decision stands at approved
    stage,          \* of the session's run: none, started, executing or ended
    real,           \* the sessions whose run is a REAL one
    heard,          \* the ids that the run has found approved
    called,         \* <<s, a>> whose real handler was called
    evidence,       \* what the session reports of its actions, oldest first
    cancels         \* the cancel requests under way

runs == <<stage, real, heard>>
vars == <<status, standing, runs, called, evidence, cancels>>

Terminal == {"completed", "failed", "cancelled"}

Shows(s, value) == status' = [status EXCEPT ![s] = value]

Enters(s, value) == stage' = [stage EXCEPT ![s] = value]

-----------------------------------------------------------------------------
Init ==
    /\ status = [s \in Sessions |-> "absent"]
    /\ standing = [s \in Sessions |-> {}]
    /\ stage = [s \in Sessions |-> "none"]
    /\ real = {}
    /\ heard = [s \in Sessions |-> {}]
    /\ called = {}
    /\ evidence = [s \in Sessions |-> <<>>]
    /\ cancels = {}

Create(s) ==
    /\ status[s] = "absent"
    /\ Shows(s, "created")
    /\ UNCHANGED <<standing, runs, called, evidence, cancels>>

\* A decision, in any status and whatever runs.
Decide(s) ==
    /\ UNCHANGED <<status, runs, called, evidence, cancels>>
    /\ \E id \in Ids :
          standing' = [standing EXCEPT ![s] = @ \ {id}] \/ standing' = [standing EXCEPT ![s] = @ \cup {id}]

RequestCancel(c, s) ==
    /\ status[s] \notin Terminal \cup {"absent"}
    /\ cancels' = cancels \cup {<<c, s>>}
    /\ UNCHANGED <<status, standing, runs, called, evidence>>

Cancel(c, s) ==
    /\ <<c, s>> \in cancels
    /\ cancels' = cancels \ {<<c, s>>}
    /\ Shows(s, "cancelled")
    /\ UNCHANGED <<standing, runs, called, evidence>>

Start(s) ==
    /\ status[s] \notin Terminal \cup {"absent"}
    /\ stage[s] = "none"
    /\ Enters(s, "started")
    /\ real' \in {real, real \cup {s}}
    /\ UNCHANGED <<status, standing, heard, called, evidence, cancels>>

\* The run reads a decision.
Hear(s) ==
    /\ stage[s] = "started" /\ s \in real
    /\ \E id \in standing[s] : heard' = [heard EXCEPT ![s] = @ \cup {id}]
    /\ UNCHANGED <<status, standing, stage, real, called, evidence, cancels>>

\* No plan: the run ends, and nothing is said.
Block(s) ==
    /\ stage[s] = "started"
    /\ Enters(s, "ended")
    /\ UNCHANGED <<status, standing, real, heard, called, evidence, cancels>>

\* There are decisions missing.
Await(s) ==
    /\ stage[s] = "started" /\ s \in real
    /\ Shows(s, "awaiting_approval")
    /\ stage' = stage \/ Enters(s, "ended")
    /\ UNCHANGED <<standing, real, heard, called, evidence, cancels>>

\* There is nothing to do.
CompleteEmpty(s) ==
    /\ stage[s] = "started"
    /\ Shows(s, "completed")
    /\ Enters(s, "ended")
    /\ UNCHANGED <<standing, real, heard, called, evidence, cancels>>

Execute(s) ==
    /\ stage[s] = "started" /\ s \in real
    /\ heard[s] # {}
    /\ Shows(s, "executing")
    /\ Enters(s, "executing")
    /\ UNCHANGED <<standing, real, heard, called, evidence, cancels>>

Call(s) ==
    /\ stage[s] = "executing"
    /\ \E a \in Actions : a.id \in heard[s] /\ called' = called \cup {<<s, a>>}
    /\ UNCHANGED <<status, standing, runs, evidence, cancels>>

\* A run may complete, or fail, with evidence of what it did; what it claims done
\* was called, and a run that completes admits no failure.
Finish(s) ==
    /\ stage[s] = "executing"
    /\ Enters(s, "ended")
    /\ evidence' = [evidence EXCEPT ![s] = evidence'[s]]
    /\ LET old == DOMAIN evidence[s]
           new == DOMAIN evidence'[s] \ old
       IN  /\ old \subseteq DOMAIN evidence'[s]
           /\ \A i \in old : evidence'[s][i] = evidence[s][i]
           /\ \A i \in new : evidence'[s][i].ok =>
                 \E x \in called : x[1] = s /\ x[2].id = evidence'[s][i].id
           /\ \/ Shows(s, "completed") /\ \A i \in new : evidence'[s][i].ok
              \/ Shows(s, "failed")
    /\ UNCHANGED <<standing, real, heard, called, cancels>>

\* An exception ends a run wherever it is, and its evidence is lost.
Fail(s) ==
    /\ stage[s] \in {"started", "executing"}
    /\ Shows(s, "failed")
    /\ Enters(s, "ended")
    /\ UNCHANGED <<standing, real, heard, called, evidence, cancels>>

\* Another run may start from here on.
Leave(s) ==
    /\ stage[s] = "ended"
    /\ Enters(s, "none")
    /\ real' = real \ {s}
    /\ heard' = [heard EXCEPT ![s] = {}]
    /\ UNCHANGED <<status, standing, called, evidence, cancels>>

SessionStep(s) ==
    \/ Create(s) \/ Decide(s)
    \/ \E c \in Clients : RequestCancel(c, s) \/ Cancel(c, s)
    \/ Start(s) \/ Hear(s) \/ Block(s) \/ Await(s) \/ CompleteEmpty(s)
    \/ Execute(s) \/ Call(s) \/ Finish(s) \/ Fail(s) \/ Leave(s)

Next == \E s \in Sessions : SessionStep(s)

Spec == Init /\ [][Next]_vars

=============================================================================
