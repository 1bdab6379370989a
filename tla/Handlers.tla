------------------------------ MODULE Handlers ------------------------------
(***************************************************************************)
(* ExecutorEngine.execute and verify with the real handlers and verifiers  *)
(* under them, on one machine.  A handler is followed command by command:  *)
(* a command may end, fail, or outlive its timeout and take effect after   *)
(* the failure was reported; the machine may change between a handler and  *)
(* its verifier.  Several executions follow one another.                   *)
(*                                                                         *)
(* Pipeline abstracts an attempt of a handler to HandlerResults; this      *)
(* module refines it.  Action positions count from 1.                      *)
(***************************************************************************)
EXTENDS HandlerContract, FailureClassification

CONSTANTS
    Plans,              \* the plans the executor is given
    OfficialContexts,   \* contexts with no download_url, or with Cursor's own
    WordsIn,            \* the trigger words in a context's names and paths
    MaxAttempts,        \* max_attempts
    MaxRuns             \* bound: executions

ASSUME PlansAssumption == Plans \subseteq Seq(Actions)
ASSUME OfficialAssumption == OfficialContexts \subseteq Contexts
ASSUME WordsAssumption == WordsIn \in [Contexts -> SUBSET Words]
ASSUME BoundsAssumption == MaxAttempts \in Nat \ {0} /\ MaxRuns \in Nat

VARIABLES
    job,        \* what the current execution was given
    pc,         \* where the executor is
    at,         \* action_index
    attempt,    \* the attempt at the current action, from 1
    results,    \* ExecutionResult.results
    verdicts,   \* the VerificationResults
    machine,    \* what is installed, and how far the virtual environment is
    left,       \* commands that outlived their timeout
    changed,    \* ghost: the orders whose commands changed the machine
    lost,       \* ghost: what was removed since the execution, and at which verdict
    runs        \* executions begun

vars == <<job, pc, at, attempt, results, verdicts, machine, left, changed, lost, runs>>

Commands == {"apt", "service", "download", "deb", "pip", "venv"}
PCs == {"idle", "attempt", "verify", "daemon"} \cup Commands

\* platform.system, apt-get and sudo, as _platform_error looks at them.
Hosts == {"ubuntu", "other"}

Jobs == [plan : Plans, mode : Modes, approved : BOOLEAN, rejected : SUBSET Nat,
         host : Hosts]

\* What a command installs; a Python package is named by its context.
Software == ({"docker", "daemon", "cursor", "project"} \X {Bare}) \cup ({"package"} \X Contexts)

\* A path that is no directory; a directory; one with pyvenv.cfg; one with pip too.
VenvStates == {"absent", "file", "directory", "marker", "complete"}

Machines == [software : SUBSET Software, venv : VenvStates]

\* Who gave a command: an action of an execution, and what that was told.
Orders == [run : Nat, pos : Nat, mode : Modes, approved : BOOLEAN, rejected : SUBSET Nat]

Left == [item : Software, order : Orders]

\* What a verifier asks about; a virtual environment is asked for as a whole.
Parts == Software \cup {<<"venv", Bare>>}

Losses == [part : Parts, at : Nat]

Verdicts == [id : ActionIds, verdict : {"verified", "failed", "skipped"}]

-----------------------------------------------------------------------------
(* The executor's view of its current action                               *)

plan == job.plan
Current == plan[at]
Name == Current.id.name

\* mutant: the approval gate's indexes count from 0, the executor's from 1
IsRejectedByIndex(i) == i \in {n + 1 : n \in job.rejected}

IsRejected(i) == i \in job.rejected

\* ExecutorEngine.execute is at work, or verify.
Executing == pc \in {"attempt"} \cup Commands
Verifying == pc \in {"verify", "daemon"}

Allowed == GateAllows(Canonical(Name), job.mode, job.approved)

\* pc = "attempt" at an action that the gate lets through.
At(names) ==
    /\ pc = "attempt"
    /\ at \in DOMAIN plan /\ ~IsRejected(at)
    /\ Allowed /\ HasHandler(Name, job.mode)
    /\ Name \in names

\* The same for a real handler.
Real(names) == job.mode = "real" /\ At(names)

TheOrder == [run |-> runs, pos |-> at, mode |-> job.mode, approved |-> job.approved,
             rejected |-> job.rejected]

Installs(command) ==
    CASE command = "apt" -> <<"docker", Bare>>
      [] command = "service" -> <<"daemon", Bare>>
      [] command = "deb" -> <<"cursor", Bare>>
      [] command = "pip" /\ Name = "install_python_package" -> <<"package", Current.context>>
      [] OTHER -> <<"project", Bare>>

\* The message of a failure, as a FailureRecord.
Failed(words, hint) ==
    Result(Current, "failed", Retryable(words), Replans(words) \/ hint)

Success == Result(Current, "success", FALSE, FALSE)

\* mutant: one attempt too many
ConcludeOneMore(r) ==
    /\ pc' = "attempt"
    /\ IF r.retryable /\ attempt <= MaxAttempts
       THEN attempt' = attempt + 1 /\ UNCHANGED <<at, results>>
       ELSE attempt' = 1 /\ at' = at + 1 /\ results' = Append(results, r)
    /\ UNCHANGED <<job, verdicts, lost, runs>>

\* The end of an attempt: a retryable failure is tried again.
Conclude(r) ==
    /\ pc' = "attempt"
    /\ IF r.retryable /\ attempt < MaxAttempts
       THEN attempt' = attempt + 1 /\ UNCHANGED <<at, results>>
       ELSE attempt' = 1 /\ at' = at + 1 /\ results' = Append(results, r)
    /\ UNCHANGED <<job, verdicts, lost, runs>>

Goto(place) == pc' = place /\ UNCHANGED <<job, at, attempt, results, verdicts, lost, runs>>

MachineUnchanged == UNCHANGED <<machine, left, changed>>

Takes(item) ==
    /\ machine' = [machine EXCEPT !.software = @ \cup {item}]
    /\ changed' = IF item \in machine.software THEN changed ELSE changed \cup {TheOrder}

-----------------------------------------------------------------------------
Init ==
    /\ job \in [plan : {<<>>}, mode : {"safe"}, approved : {FALSE}, rejected : {{}}, host : Hosts]
    /\ pc = "idle"
    /\ at = 1
    /\ attempt = 1
    /\ results = <<>>
    /\ verdicts = <<>>
    /\ machine \in [software : {{}}, venv : {"absent", "file"}]
    /\ left = {}
    /\ changed = {}
    /\ lost = {}
    /\ runs = 0

\* ExecutorEngine(mode, is_approved, rejected_action_indexes).execute(plan)
Execute ==
    /\ pc = "idle"
    /\ runs < MaxRuns
    /\ \E p \in Plans, m \in Modes, ok \in BOOLEAN : \E no \in SUBSET DOMAIN p :
          job' = [job EXCEPT !.plan = p, !.mode = m, !.approved = ok, !.rejected = no]
    /\ pc' = "attempt"
    /\ at' = 1 /\ attempt' = 1 /\ results' = <<>> /\ verdicts' = <<>> /\ lost' = {}
    /\ runs' = runs + 1
    /\ MachineUnchanged

\* mutant: a rejected action leaves no result
SkipSilently ==
    /\ pc = "attempt"
    /\ at \in DOMAIN plan /\ IsRejected(at)
    /\ at' = at + 1
    /\ UNCHANGED <<job, pc, attempt, results, verdicts, lost, runs>>
    /\ MachineUnchanged

SkipRejected ==
    /\ pc = "attempt"
    /\ at \in DOMAIN plan /\ IsRejected(at)
    /\ at' = at + 1
    /\ results' = Append(results, Result(Current, "skipped", FALSE, FALSE))
    /\ UNCHANGED <<job, pc, attempt, verdicts, lost, runs>>
    /\ MachineUnchanged

\* A denial breaks out of the attempts; its message says "Denied".
Deny ==
    /\ pc = "attempt"
    /\ at \in DOMAIN plan /\ ~IsRejected(at)
    /\ ~Allowed
    /\ Conclude(Failed({"denied"}, FALSE))
    /\ MachineUnchanged

\* mutant: a simulation counts as done
SimulateSuccess ==
    /\ job.mode = "safe" /\ At(SafeHandlerNames)
    /\ Conclude(Success)
    /\ MachineUnchanged

\* In SAFE mode the registry knows the simulations only.
Simulate ==
    /\ job.mode = "safe" /\ At(SafeHandlerNames)
    /\ Conclude(Result(Current, "skipped", FALSE, FALSE))
    /\ MachineUnchanged

-----------------------------------------------------------------------------
(* The real handlers up to their first command                             *)

AptNames == {"install_docker", "install_cursor"}
PipNames == {"install_python_package", "install_project_dependencies"}

\* The interpreter that runs this program satisfies the check.
CheckPython ==
    /\ Real({"check_python_version_real"})
    /\ Conclude(Success)
    /\ MachineUnchanged

\* No Linux, no apt-get or no sudo; a foreign download_url; a package context
\* that security.py refuses; a target that is no directory.
Refuse ==
    /\ \/ Real(AptNames) /\ job.host # "ubuntu"
       \/ Real({"install_cursor"}) /\ Current.context \notin OfficialContexts
       \/ Real({"install_python_package"}) /\ Current.context \notin ValidContexts
       \/ Real({"create_virtualenv"}) /\ machine.venv = "file"
    /\ Conclude(Failed({}, FALSE))
    /\ MachineUnchanged

\* pyproject.toml may be gone since the plan was validated.
RefuseProject ==
    /\ Real({"install_project_dependencies"})
    /\ Conclude(Failed(WordsIn[Current.context], FALSE))
    /\ MachineUnchanged

\* "Virtual environment already exists.": pyvenv.cfg is all it takes.
VenvExists ==
    /\ Real({"create_virtualenv"})
    /\ machine.venv \in {"marker", "complete"}
    /\ Conclude(Success)
    /\ MachineUnchanged

BeginDocker ==
    /\ Real({"install_docker"}) /\ job.host = "ubuntu"
    /\ Goto("apt")
    /\ MachineUnchanged

BeginCursor ==
    /\ Real({"install_cursor"}) /\ job.host = "ubuntu"
    /\ Current.context \in OfficialContexts
    /\ Goto("download")
    /\ MachineUnchanged

BeginPackage ==
    /\ Real({"install_python_package"}) /\ Current.context \in ValidContexts
    /\ Goto("pip")
    /\ MachineUnchanged

BeginProject ==
    /\ Real({"install_project_dependencies"})
    /\ Goto("pip")
    /\ MachineUnchanged

BeginVenv ==
    /\ Real({"create_virtualenv"}) /\ machine.venv \in {"absent", "directory"}
    /\ Goto("venv")
    /\ MachineUnchanged

-----------------------------------------------------------------------------
(* The commands                                                            *)

\* apt-get does not wait for the package lock.
LockHeld == \E l \in left : l.item[1] \in {"docker", "cursor"}

Locks(command) == command \in {"apt", "deb"}

\* Return code 0.  Docker's service is started next.
CommandOk ==
    /\ pc \in {"apt", "service", "deb", "pip"}
    /\ Locks(pc) => ~LockHeld
    /\ Takes(Installs(pc))
    /\ IF pc = "apt" THEN Goto("service") ELSE Conclude(Success)
    /\ UNCHANGED left

\* Another return code, with or without an effect.  Only pip's message has
\* names in it, those of a package.
CommandFails ==
    /\ pc \in {"apt", "service", "deb", "pip"}
    /\ \/ MachineUnchanged
       \/ pc \in {"apt", "deb"} /\ ~LockHeld /\ Takes(Installs(pc)) /\ UNCHANGED left
    /\ Conclude(Failed(IF Name = "install_python_package" THEN WordsIn[Current.context] ELSE {},
                       FALSE))

\* The command cannot be started.
CommandNotStarted ==
    /\ pc \in {"apt", "service", "deb", "pip"}
    /\ \E words \in {{}, {"denied"}} \cup (IF pc = "pip" THEN {WordsIn[Current.context]} ELSE {}) :
          Conclude(Failed(words, FALSE))
    /\ MachineUnchanged

\* The timeout: pip is killed, before or after it had its effect.  Killing sudo
\* fails, or does not reach the installer below it: that ends before the failure
\* is reported, or goes on.  The message quotes the command, or is that of the
\* failed kill, which no rule knows either.
CommandTimesOut ==
    /\ pc \in {"apt", "service", "deb", "pip"}
    /\ \/ MachineUnchanged
       \/ (Locks(pc) => ~LockHeld) /\ Takes(Installs(pc)) /\ UNCHANGED left
       \/ /\ pc # "pip" /\ (Locks(pc) => ~LockHeld)
          /\ left' = left \cup {[item |-> Installs(pc), order |-> TheOrder]}
          /\ UNCHANGED <<machine, changed>>
    /\ Conclude(Failed({"timed out"} \cup IF pc = "pip" THEN WordsIn[Current.context] ELSE {},
                       FALSE))

\* Cursor's metadata and package.
DownloadOk == pc = "download" /\ Goto("deb") /\ MachineUnchanged

\* No approved URL in the metadata: a RuntimeError, and a replan is recommended;
\* an answer that is no JSON object reaches the executor's own handler; the
\* server's reason phrase is in the message of an HTTP error.
DownloadFails ==
    /\ pc = "download"
    /\ \/ Conclude(Failed({}, TRUE))
       \/ \E words \in {{}, {"timeout"}, {"unavailable"}, {"not supported"}, {"timed out"}} :
              Conclude(Failed(words, FALSE))
    /\ MachineUnchanged

\* EnvBuilder.create writes pyvenv.cfg before it runs ensurepip.
CreateVenv ==
    /\ pc = "venv"
    /\ \E state \in {"directory", "marker", "complete"} \cup {machine.venv} :
          /\ machine' = [machine EXCEPT !.venv = state]
          /\ changed' = IF state = machine.venv THEN changed ELSE changed \cup {TheOrder}
          /\ IF state = "complete" THEN Conclude(Success)
             ELSE \E words \in {{}, {"denied"}, WordsIn[Current.context]} :
                     Conclude(Failed(words, FALSE))
    /\ UNCHANGED left

-----------------------------------------------------------------------------
(* The verifiers                                                           *)

EndExecution ==
    /\ pc = "attempt"
    /\ at \notin DOMAIN plan
    /\ Goto("verify")
    /\ MachineUnchanged

\* shutil.which and the executable's --version: that it was found is only known
\* once it has run, so the two are one look at the machine.
ExecutableFound(tool) == <<tool, Bare>> \in machine.software

PackageFound(context) == <<"package", context>> \in machine.software

VenvMarked == machine.venv \in {"marker", "complete"}

\* What the first look of a verifier finds.  The project's verifier asks for this
\* program's own distribution unless the context names another, and that of the
\* Python version for its interpreter.
Observable(a) ==
    CASE a.id.name = "install_docker" -> ExecutableFound("docker")
      [] a.id.name = "install_cursor" -> ExecutableFound("cursor")
      [] a.id.name = "install_python_package" -> PackageFound(a.context)
      [] a.id.name = "create_virtualenv" -> VenvMarked
      [] OTHER -> TRUE

\* What can be asked of a file or of this interpreter needs no command.
Certain(a) == a.id.name \in {"create_virtualenv", "check_python_version_real"}

\* The verifiers look at a success only.
Judged(i) == i \in DOMAIN results /\ results[i].status = "success"

\* ExecutorEngine.verify judges one action after the other: the next of them.
Upcoming == Len(verdicts) + 1

HasJudge == plan[Upcoming].id.name \in VerifierNames /\ Judged(Upcoming)

Decide(v) ==
    /\ pc' = "verify"
    /\ verdicts' = Append(verdicts, [id |-> plan[Upcoming].id, verdict |-> v])
    /\ UNCHANGED <<job, at, attempt, results, lost, runs>>
    /\ MachineUnchanged

\* The verdicts that take one look at most; a change of the machine between the
\* look and its verdict changes neither.
Verify ==
    /\ pc = "verify"
    /\ Upcoming \in DOMAIN plan
    /\ \/ ~HasJudge /\ Decide("skipped")
       \/ HasJudge /\ ~(Observable(plan[Upcoming]) /\ Certain(plan[Upcoming])) /\ Decide("failed")
       \/ /\ HasJudge /\ Observable(plan[Upcoming])
          /\ plan[Upcoming].id.name # "install_docker"
          /\ Decide("verified")

\* DockerServiceVerifier, once its parent has verified the executable ...
DockerAsked ==
    /\ pc = "verify"
    /\ Upcoming \in DOMAIN plan
    /\ HasJudge /\ plan[Upcoming].id.name = "install_docker"
    /\ ExecutableFound("docker")

\* mutant: the Docker verifier stops at its parent's verdict
AskDockerOnly == DockerAsked /\ Decide("verified")

\* ... goes on to "systemctl is-active docker", which looks at the machine anew.
AskDocker ==
    /\ DockerAsked
    /\ Goto("daemon")
    /\ MachineUnchanged

AskDaemon ==
    /\ pc = "daemon"
    /\ \/ <<"daemon", Bare>> \in machine.software /\ Decide("verified")
       \/ Decide("failed")

EndVerification ==
    /\ pc = "verify"
    /\ Len(verdicts) = Len(plan)
    /\ Goto("idle")
    /\ MachineUnchanged

-----------------------------------------------------------------------------
(* The machine by itself                                                   *)

\* A command that outlived its timeout ends.
Land ==
    /\ \E l \in left :
          /\ left' = left \ {l}
          /\ \/ UNCHANGED <<machine, changed>>
             \/ /\ machine' = [machine EXCEPT !.software = @ \cup {l.item}]
                /\ changed' = IF l.item \in machine.software THEN changed
                              ELSE changed \cup {l.order}
    /\ UNCHANGED <<job, pc, at, attempt, results, verdicts, lost, runs>>

\* The losses that a verdict may have come before.
Loses(part) ==
    lost' = IF Verifying THEN lost \cup {[part |-> part, at |-> Upcoming]} ELSE lost

\* The user removes something, or a daemon stops.
Remove ==
    /\ \/ \E item \in machine.software :
              /\ machine' = [machine EXCEPT !.software = @ \ {item}]
              /\ Loses(item)
       \/ /\ machine.venv # "absent"
          /\ machine' = [machine EXCEPT !.venv = "absent"]
          /\ Loses(<<"venv", Bare>>)
    /\ UNCHANGED <<job, pc, at, attempt, results, verdicts, left, changed, runs>>

Next ==
    \/ Execute
    \/ SkipRejected
    \/ Deny
    \/ Simulate
    \/ CheckPython
    \/ Refuse
    \/ RefuseProject
    \/ VenvExists
    \/ BeginDocker
    \/ BeginCursor
    \/ BeginPackage
    \/ BeginProject
    \/ BeginVenv
    \/ CommandOk
    \/ CommandFails
    \/ CommandNotStarted
    \/ CommandTimesOut
    \/ DownloadOk
    \/ DownloadFails
    \/ CreateVenv
    \/ EndExecution
    \/ Verify
    \/ AskDocker
    \/ AskDaemon
    \/ EndVerification
    \/ Land
    \/ Remove

Spec == Init /\ [][Next]_vars

-----------------------------------------------------------------------------
(* Properties                                                              *)

TypeOK ==
    /\ job \in [plan : Plans \cup {<<>>}, mode : Modes, approved : BOOLEAN,
                rejected : SUBSET Nat, host : Hosts]
    /\ pc \in PCs
    /\ at \in 1..Len(plan) + 1
    /\ attempt \in 1..MaxAttempts
    /\ results \in Seq(ActionResult)
    /\ verdicts \in Seq(Verdicts)
    /\ machine \in Machines
    /\ left \subseteq Left
    /\ changed \subseteq Orders
    /\ lost \subseteq Losses
    /\ runs \in 0..MaxRuns

\* The retries never overlap what they repeat: while an action is attempted, no
\* command of an earlier attempt at it is still at work.  The executor gets this
\* from RetryPolicy, which takes no message of a timeout for a transient failure.
RetriesNeverOverlap ==
    Executing =>
        \A l \in left : ~(l.order.run = runs /\ l.order.pos = at)

\* Whatever a command does to the machine, late or in time, whole or in part, was
\* ordered by a REAL execution for an action the user did not reject, with the
\* approval that the policies ask of every handler that has commands.
OnlyConsentedChange ==
    \A o \in changed \cup {l.order : l \in left} :
        o.mode = "real" /\ o.approved /\ o.pos \notin o.rejected

\* A verdict is about the action it names and its own result: nothing that was
\* rejected, denied, simulated or failed is certified, though it be there.
VerdictsMatchResults ==
    \A i \in DOMAIN verdicts :
        /\ verdicts[i].id = plan[i].id
        /\ verdicts[i].verdict = "verified" =>
              i \in DOMAIN results /\ results[i] = Result(plan[i], "success", FALSE, FALSE)

PartsOf(a) ==
    CASE a.id.name = "install_docker" -> {<<"docker", Bare>>, <<"daemon", Bare>>}
      [] a.id.name = "install_cursor" -> {<<"cursor", Bare>>}
      [] a.id.name = "install_python_package" -> {<<"package", a.context>>}
      [] a.id.name = "create_virtualenv" -> {<<"venv", Bare>>}
      [] OTHER -> {}

Present(part) == IF part = <<"venv", Bare>> THEN VenvMarked ELSE part \in machine.software

\* Something that the verification of the action at i, or one later, has lost.
LostSince(part, i) == \E l \in lost : l.part = part /\ l.at >= i

\* "A successful handler result is not considered proof": while the verdicts are
\* collected, each part of a certified installation is still there, or was lost
\* when its own verifier had begun or later, between the verifier's two commands
\* or beside the verifiers of later actions.  Nothing is certified that was gone
\* before, and of what is lost later the verdicts know nothing.
CertifiedUnlessLost ==
    Verifying =>
        \A i \in DOMAIN verdicts : verdicts[i].verdict = "verified" =>
            \A part \in PartsOf(plan[i]) :
                Present(part) \/ LostSince(part, i)

-----------------------------------------------------------------------------
(* The refinement                                                          *)

\* However a handler goes about an attempt, command by command, ...
Executor == INSTANCE ExecutorContract WITH
    plan <- plan,
    mode <- job.mode,
    approved <- job.approved,
    rejected <- job.rejected,
    phase <- IF Executing THEN "execute" ELSE IF Verifying THEN "verify" ELSE "idle",
    unverified <- pc = "idle" /\ \E i \in DOMAIN verdicts : verdicts[i].verdict = "failed"

\* ... the pipeline sees an executor that keeps ExecutorContract: it skips what was
\* rejected, denies what the gate forbids, reports on each action once, in order
\* and within HandlerResults, and fails only the verification of a success.
ImplementsExecutor == Executor!Spec

=============================================================================
