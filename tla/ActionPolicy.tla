---------------------------- MODULE ActionPolicy ----------------------------
(***************************************************************************)
(* The tables that decide whether an action may run: the SafetyGate's      *)
(* policies, the validator's allow-list, the handler registries, and the   *)
(* three different ways in which the code reduces an instance identifier   *)
(* such as "install_cursor:cursor" to the canonical name "install_cursor". *)
(* No state: SessionService and Pipeline both EXTEND this module.          *)
(***************************************************************************)
EXTENDS Naturals, FiniteSets, Sequences

CONSTANTS
    Subjects,       \* what an instance identifier names after the colon
    Contexts,       \* the payload of an action: version, requirement, args
    ValidContexts   \* the payloads security.py accepts for a package action

ASSUME ContextsAssumption == ValidContexts \subseteq Contexts

Modes == {"safe", "real"}

\* The subject of an identifier that has no colon.
Bare == ""

ASSUME SubjectsAssumption == Bare \notin Subjects

\* Canonical action names the policy table, the validator and the registries know.
CanonicalNames ==
    {"check_python_version_real", "create_virtualenv", "install_python_package",
     "install_project_dependencies", "fix_editable", "install_git",
     "install_docker", "install_cursor", "fix_venv", "upgrade_python"}

\* An action identifier: a canonical name, or an instance "<name>:<subject>".
ActionIds == [name : CanonicalNames, subject : Subjects \cup {Bare}]

Canonical(n) == [name |-> n, subject |-> Bare]

\* An action of an execution plan; its executor_action_id is always id.name.
Actions == [id : ActionIds, context : Contexts]

-----------------------------------------------------------------------------
(* The SafetyGate                                                          *)

\* SafetyGate.canonical_action_id: only package installs are reduced.
GateCanonical(id) ==
    IF id.name = "install_python_package" THEN Canonical(id.name) ELSE id

SafeOnlyNames == {"install_git", "fix_venv", "fix_editable", "upgrade_python"}

\* fix_editable is registered with HUMAN approval first, and the loop at the
\* end of _load_default_policies overwrites it with NONE.
HumanApprovalNames ==
    {"create_virtualenv", "install_python_package", "install_project_dependencies",
     "install_git", "install_docker", "install_cursor"}

HasPolicy(id) == GateCanonical(id).subject = Bare

RequiresHumanApproval(id) == HasPolicy(id) /\ id.name \in HumanApprovalNames

\* SafetyGate.evaluate: default deny, then the mode, then the approval.
GateAllows(id, mode, isApproved) ==
    /\ HasPolicy(id)
    /\ mode = "real" => id.name \notin SafeOnlyNames
    /\ mode = "real" /\ id.name \in HumanApprovalNames => isApproved

-----------------------------------------------------------------------------
(* The validator and the registries                                        *)

\* ExecutionPlanValidator.canonical_action_id, the same rule as the gate's.
ValidatorCanonical(id) ==
    IF id.name = "install_python_package" THEN Canonical(id.name) ELSE id

\* One action passes the allow-list and the typed context check.
ActionAccepted(a) ==
    /\ ValidatorCanonical(a.id).subject = Bare
    /\ a.id.name \in {"install_python_package", "install_project_dependencies",
                      "create_virtualenv"} => a.context \in ValidContexts

SafeHandlerNames == CanonicalNames

RealHandlerNames ==
    {"install_docker", "install_cursor", "check_python_version_real",
     "create_virtualenv", "install_python_package", "install_project_dependencies"}

HasHandler(n, mode) == n \in IF mode = "real" THEN RealHandlerNames ELSE SafeHandlerNames

VerifierNames ==
    {"check_python_version_real", "create_virtualenv", "install_python_package",
     "install_project_dependencies", "install_git", "install_docker", "install_cursor"}

-----------------------------------------------------------------------------
(* The session layer                                                       *)

\* The names ExecutionPlanBuilder emits; the identifier is always an instance.
BuilderNames == {"install_cursor", "install_git", "install_docker", "install_python_package"}

InstanceIds == [name : BuilderNames, subject : Subjects]

SessionActions == [id : InstanceIds, context : Contexts]

\* EnvironmentSessionService._requires_approval: by executor_action_id.
SessionRequiresApproval(a) ==
    a.id.name \in {"install_cursor", "install_git", "install_docker",
                   "install_python_package", "install_project_dependencies"}

=============================================================================
