----------------------------- MODULE MCSession -----------------------------
(* Small instances of SessionService for TLC. *)
EXTENDS SessionService, TLC

MCSubjects == {"ruff", "cursor"}
MCContexts == {"v1", "v2", "bad"}
MCValidContexts == {"v1", "v2"}

Package(c) == [id |-> [name |-> "install_python_package", subject |-> "ruff"], context |-> c]
Tool == [id |-> [name |-> "install_cursor", subject |-> "cursor"], context |-> "v1"]

\* A package before a tool, the same package in another version, a package
\* whose context the validator refuses, and nothing to do.
MCPlans == {<<Package("v1"), Tool>>, <<Package("v2")>>, <<Package("bad"), Package("v1")>>, <<>>}

\* Without the packages the validator refuses, for the liveness run.
MCShortPlans == {<<Package("v1"), Tool>>, <<>>}

ThreadSymmetry == Permutations(Clients) \cup Permutations(Workers)
=============================================================================
