----------------------------- MODULE MCHandlers -----------------------------
(* A small instance of Handlers for TLC. *)
EXTENDS Handlers, TLC

MCSubjects == {"ruff"}

\* Ordinary payloads; a distribution with a trigger word in its name, such as
\* async-timeout; a payload that security.py, or Cursor's URL check, refuses.
MCContexts == {"plain", "async-timeout", "bad"}
MCValidContexts == {"plain", "async-timeout"}
MCWordsIn == [c \in MCContexts |-> IF c = "async-timeout" THEN {"timeout"} ELSE {}]

Named(n, c) == [id |-> Canonical(n), context |-> c]

\* The installers that share the package lock; the handlers of the Python
\* environment; refused contexts and SAFE-only names.
MCPlans ==
    {<<Named("install_docker", "plain"), Named("install_cursor", "plain")>>,
     <<Named("create_virtualenv", "plain"), Named("install_python_package", "async-timeout")>>,
     <<Named("install_project_dependencies", "async-timeout"),
       Named("check_python_version_real", "plain")>>,
     <<Named("install_python_package", "bad"), Named("install_cursor", "bad"),
       Named("install_git", "plain")>>}
=============================================================================
