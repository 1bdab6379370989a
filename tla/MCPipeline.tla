----------------------------- MODULE MCPipeline -----------------------------
(* Small instances of Pipeline for TLC. *)
EXTENDS Pipeline, TLC

MCSubjects == {"ruff", "cursor"}
MCContexts == {"v1", "v2", "bad"}
MCValidContexts == {"v1", "v2"}
MCPackageOf == [c \in MCContexts |-> IF c = "bad" THEN "" ELSE "ruff"]

Named(n, c) == [id |-> Canonical(n), context |-> c]
Instance(n, s, c) == [id |-> [name |-> n, subject |-> s], context |-> c]

\* The command line: plans of the planner (or the agent), with names the
\* policies keep SAFE-only, a context the validator refuses, and no action.
CliPlans ==
    {<<Named("install_cursor", "v1"), Named("install_docker", "v1")>>,
     <<Named("install_python_package", "bad"), Named("check_python_version_real", "v1"),
       Named("install_docker", "v1")>>,
     <<Named("fix_venv", "v1"), Named("install_git", "v1")>>,
     <<>>}

\* Recovery plans: the same action again, the same with other contents, one
\* that needs another approval, one without approval, invalid ones and an empty one.
CliCandidates ==
    {<<Named("install_cursor", "v1")>>,
     <<Named("install_cursor", "v2")>>,
     <<Named("install_docker", "v1"), Named("install_cursor", "v1")>>,
     <<Named("check_python_version_real", "v1"), Named("install_cursor", "v2")>>,
     <<Named("check_python_version_real", "v1")>>,
     <<Named("install_python_package", "bad")>>,
     <<Named("install_docker", "v1"), Named("install_docker", "v1")>>,
     <<Named("install_python_package", "v1"), Named("install_python_package", "v2")>>,
     <<>>}

\* Sessions: plans of the plan builder, recovery plans of the planner.
SessionPlans ==
    {<<Instance("install_python_package", "ruff", "v1"),
       Instance("install_python_package", "cursor", "v1"),
       Instance("install_cursor", "cursor", "v1")>>,
     <<Instance("install_python_package", "ruff", "bad"),
       Instance("install_python_package", "ruff", "v2")>>,
     <<Instance("install_cursor", "cursor", "v1"),
       Instance("install_python_package", "ruff", "v1")>>,
     <<>>}

SessionCandidates ==
    {<<Named("fix_venv", "v1")>>,
     <<Named("fix_venv", "v1"), Named("install_docker", "v1")>>,
     <<Named("install_python_package", "v1")>>,
     <<Named("install_python_package", "bad")>>,
     <<>>}

\* The session instance is one to which the theorem about ImplementsLoop applies.
ASSUME SessionInstance == Plans = SessionPlans => SessionCallers
=============================================================================
