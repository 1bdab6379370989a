--------------------------- MODULE MCPlanBuilding ---------------------------
(* A small catalog, with one tool of every kind, for TLC. *)
EXTENDS PlanBuilding, TLC

\* docker has a handler of its own, ruff and uv are pip tools, gh has a strategy
\* no handler implements, npm has none; flask, uvicorn and github-cli are no tools.
MCTools == {"docker", "ruff", "uv", "gh", "npm"}
MCSubjects == MCTools \cup {"flask", "uvicorn", "github-cli"}
MCNames == MCSubjects \cup {"another"}
MCContexts == PlanContexts
MCValidContexts == {c \in PlanContexts : SafePackage(c)}

MCMentions == [n \in MCSubjects |-> IF n \in MCTools THEN {n} ELSE IF n = "uvicorn" THEN {"uv"} ELSE {}]
MCResolved == [n \in MCSubjects |-> IF n \in MCTools THEN n ELSE "no tool"]
MCKnownAlias == MCTools \cup {"github-cli"}

\* cursor_deb_linux and cursor_arm64_linux stand here under docker's name.
Strategy(i, p, h, k) == [id |-> i, public |-> p, here |-> h, package |-> k]
MCStrategies ==
    [t \in MCTools |->
        CASE t = "docker" -> <<Strategy("docker_arm64", "docker_arm64", FALSE, "docker"),
                               Strategy("docker_apt", "apt_install", TRUE, "docker")>>
          [] t = "gh"     -> <<Strategy("gh_apt", "apt_install", TRUE, "gh")>>
          [] t = "npm"    -> <<>>
          [] OTHER        -> <<Strategy("pip", "pip_install", TRUE, t)>>]

Ask(required, optional, excluded, deps, exPackages, force) ==
    [required |-> required, optional |-> optional, excluded |-> excluded,
     deps |-> deps, exPackages |-> exPackages, force |-> force]

MCRequests ==
    {Ask({}, {}, {}, {}, {}, FALSE),
     Ask({"docker", "ruff"}, {"npm"}, {}, {}, {}, FALSE),
     Ask({"docker", "ruff"}, {"uv"}, {"docker"}, {"flask"}, {"flask"}, TRUE),
     Ask({"gh"}, {"ruff"}, {}, {"ruff"}, {}, TRUE)}

Clause(n, t) == [negative |-> n, targets |-> t]
MCGoals ==
    {<<>>,
     <<Clause(FALSE, <<"ruff", "flask">>)>>,
     <<Clause(FALSE, <<"uvicorn">>), Clause(TRUE, <<"github-cli", "gh">>)>>,
     <<Clause(TRUE, <<"docker">>)>>,
     <<Clause(TRUE, <<"flask", "ruff">>), Clause(FALSE, <<"docker">>)>>,
     <<Clause(FALSE, <<"docker">>), Clause(TRUE, <<"docker", "uv">>)>>}

Found(passed, failed) ==
    [n \in MCSubjects |-> IF n \in passed THEN "passed" ELSE IF n \in failed THEN "failed" ELSE "unprobed"]
MCReports == {Found({"docker"}, {}), Found({}, {"docker"}), Found({"ruff"}, {"docker", "flask"})}

MCLlmIntents ==
    {Ask({"docker", "uv"}, {"ruff"}, {}, {"flask", "ruff"}, {}, TRUE),
     Ask({"gh", "flask"}, {}, {"ruff"}, {}, {"uvicorn"}, FALSE)}

Pip(t, args, version, rest) ==
    [tool |-> t, strategy |-> "pip", args |-> args, version |-> version, rest |-> rest,
     trusted |-> TRUE]
Item(t, s) == [Pip(t, <<>>, "", "llm1") EXCEPT !.strategy = s]

\* One tool and two; strategies under both kinds of name, of another platform,
\* of another tool or none; an answer for no tool, and one that is not trusted.
\* Then the package arguments: none, each alone, and both that pip's package
\* depends on, with and without the name of another package.
MCLlmAnswers ==
    {<<Item("ruff", "pip")>>,
     <<Item("ruff", "pip_install"), Pip("ruff", <<>>, "", "llm2")>>,
     <<Item("docker", "docker_apt"), Item("uv", "pip")>>,
     <<Item("docker", "docker_arm64")>>,
     <<Item("docker", "pip_install")>>,
     <<[Item("ruff", "pip") EXCEPT !.trusted = FALSE]>>,
     <<Item("flask", "pip")>>,
     <<Item("gh", "gh_apt"), Item("ruff", "pip")>>,
     <<Item("gh", "pip_install")>>}
    \cup
    {<<Pip("ruff", args, v, "llm1")>> : v \in {"", "1"}, args \in
        {[package_name |-> Text("another")],
         [package |-> Text("another")],
         [requirement |-> Text("another")],
         [requirement |-> [name |-> "ruff", version |-> "1"]],
         [package_name |-> NoText, package |-> NoText],
         [package_name |-> NoText, package |-> Text("another")],
         [package_name |-> Text("another"), requirement |-> NoText],
         [package_name |-> Text("another"), requirement |-> Text("another")]}}
=============================================================================
