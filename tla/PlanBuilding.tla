---------------------------- MODULE PlanBuilding ----------------------------
(***************************************************************************)
(* One session from the request to its plan: RuntimeSessionService.create  *)
(* (parse, normalise, merge, audit, reconcile) and                         *)
(* EnvironmentSessionService.plan (strategies from the catalog or from an  *)
(* LLM, then the plan builder).  Its plans are the Plans that              *)
(* SessionService leaves open.  Lists without repetition are sets; of an   *)
(* action's context, what pip is given is modelled and the rest is one     *)
(* value.  Priorities, confidence and summaries are left out.              *)
(***************************************************************************)
EXTENDS Intent

CONSTANTS
    Requests,       \* what callers ask for besides the goal
    Goals,          \* the goals; <<>> is an empty one
    Reports,        \* what the audit finds: [Subjects -> Findings]
    LlmIntents,     \* the intents an LLM may answer
    LlmAnswers,     \* the sequences of strategies an LLM may answer
    Strategies,     \* the catalog: Strategies[t] is the sequence of t's strategies
    Names,          \* what may stand for a package: packages, tools, and others
    Versions,       \* version constraints
    Rests,          \* what else a context holds: artifact, source, other arguments
    CatalogRest, PackageRest

\* A probe passes, does not pass, or there is no probe of that name.
Findings == {"passed", "failed", "unprobed"}

\* A requirement as security.py takes it apart; "" where there is nothing.
Texts == [name : Names \cup {""}, version : Versions \cup {""}]
Text(n) == [name |-> n, version |-> ""]

\* "here": for linux on x86_64, the platform plan() always asks for.  "package":
\* its package_name, or the tool.  The catalog's strategies whose public name is
\* pip_install are those of the pip format.
StrategyRecords == [id : STRING, public : STRING, here : BOOLEAN, package : Names]

\* The arguments that decide what pip is given; each may be missing.
PipArgs == {"package_name", "package", "requirement"}
Args == UNION {[S -> Texts] : S \in SUBSET PipArgs}

\* One strategy of an LLM's answer; "trusted" when it names no artifact or one
\* on a host of the tool, and no other source label.
Items == [tool : Subjects, strategy : STRING, args : Args, version : Versions \cup {""},
          rest : Rests, trusted : BOOLEAN]

\* The context of an action; NoText where it is none of the package handler's.
NoText == Text("")
PlanContexts == [rest : Rests, package : Texts, requirement : Texts]

ASSUME InputsAssumption ==
    /\ Requests \subseteq Wishes /\ LlmIntents \subseteq Wishes
    /\ \A g \in Goals : g \in Seq(Clauses)
    /\ \A m \in Reports : m \in [Subjects -> Findings]
    /\ \A a \in LlmAnswers : a \in Seq(Items)
ASSUME CatalogAssumption ==
    /\ DOMAIN Strategies = Tools
    /\ \A t \in Tools : Strategies[t] \in Seq(StrategyRecords)
    /\ {CatalogRest, PackageRest} \subseteq Rests
ASSUME NamesAssumption == Subjects \subseteq Names /\ "" \notin Names \cup Versions
ASSUME PlanContextsAssumption == PlanContexts \subseteq Contexts

VARIABLES
    asked,      \* the caller's request
    goal,       \* its natural-language goal
    report,     \* the audit of the machine when the session was created
    request,    \* session.request: asked, with the parsed intent merged in
    delta,      \* session.delta
    plan,       \* session.plan, as the set of its actions
    status,     \* "none" before create, "created", "blocked" or "planned"
    by,         \* who chose the strategies: "nobody", "catalog" or "llm"
    answered    \* the LLM's answer that session.plan was made from, or <<>>

vars == <<asked, goal, report, request, delta, plan, status, by, answered>>

Nothing == [required |-> {}, optional |-> {}, excluded |-> {},
            deps |-> {}, exPackages |-> {}, force |-> FALSE]

-----------------------------------------------------------------------------
(* create: from the request to the delta                                   *)

\* What IntentParser.parse may return: any failure of the LLM falls back.
Intents(g) == {DeterministicParse(g)} \cup {LlmParse(g, a) : a \in LlmIntents}

\* Mutant of DesiredState: only the optional tools are filtered.
DesiredStateKeepsRequired(r) ==
    [tools |-> r.required \cup (r.optional \ r.excluded),
     packages |-> r.deps \ r.exPackages,
     force |-> r.force]

\* EnvironmentRequest.to_desired_state.
DesiredState(r) ==
    [tools |-> (r.required \cup r.optional) \ r.excluded,
     packages |-> r.deps \ r.exPackages,
     force |-> r.force]

\* Mutant of ActualState: the checks that passed are the ones forgotten.
ActualStateFailedOnly(m) == [t \in {n \in Subjects : m[n] = "failed"} |-> "missing"]

\* EnvironmentSessionService._actual_state: every check becomes a tool, the
\* failed ones too.
ActualState(m) ==
    [t \in {n \in Subjects : m[n] # "unprobed"} |->
        IF m[t] = "passed" THEN "installed" ELSE "missing"]

\* EnvironmentReconciler.reconcile for the states create() builds: no version
\* constraint, no absent level, no actual packages.
Reconcile(actual, desired) ==
    [tools |-> {t \in desired.tools :
                    \/ t \notin DOMAIN actual
                    \/ desired.force
                    \/ actual[t] = "error"},
     packages |-> desired.packages]

Create ==
    /\ status = "none"
    /\ \E r \in Requests, g \in Goals, m \in Reports :
        /\ asked' = r /\ goal' = g /\ report' = m
        /\ \/ /\ g = <<>>
              /\ request' = r
           \/ /\ g # <<>>
              /\ \E i \in Intents(g) : request' = Merge(r, Normalize(g, i), g)
        /\ delta' = Reconcile(ActualState(m), DesiredState(request'))
    /\ status' = "created"
    /\ UNCHANGED <<plan, by, answered>>

-----------------------------------------------------------------------------
(* plan: from the delta to strategies                                      *)

\* The first of some strategies of a tool, given by their positions.
First(t, positions) == Strategies[t][CHOOSE i \in positions : \A j \in positions : i <= j]

\* Where a tool has a strategy under an id or a public name.
Match(t, name) ==
    {i \in DOMAIN Strategies[t] : name \in {Strategies[t][i].id, Strategies[t][i].public}}

Chosen(item) == First(item.tool, Match(item.tool, item.strategy))

\* StrategyDecisionValidator: the strategy found by the public name fits the platform.
FitsHere(t, public) == Match(t, public) # {} /\ First(t, Match(t, public)).here

\* _select_strategy_deterministic.
Fitting(t) == {i \in DOMAIN Strategies[t] : Strategies[t][i].here}
Selected(t) == First(t, Fitting(t))

HasStrategy(t) ==
    t \in Tools /\ Fitting(t) # {} /\ FitsHere(t, Selected(t).public)

\* Mutant of Defaulted: the requirement is given no default.
DefaultedNames(args, s) ==
    IF s.public # "pip_install" THEN args
    ELSE [k \in DOMAIN args \cup {"package_name", "package"} |->
             IF k \in DOMAIN args THEN args[k] ELSE Text(s.package)]

\* args.setdefault: the catalog's package stands only where nothing is named.
Defaulted(args, s) ==
    IF s.public # "pip_install" THEN args
    ELSE [k \in PipArgs |-> IF k \in DOMAIN args THEN args[k] ELSE Text(s.package)]

\* _deterministic_plan: what has no catalog entry or no strategy is left out.
CatalogDecisions(tools) ==
    {[tool |-> t, strategy |-> Selected(t).public, args |-> Defaulted(<<>>, Selected(t)),
      version |-> "", rest |-> CatalogRest] :
        t \in {u \in tools : HasStrategy(u)}}

\* The checks _llm_plan makes of one item, the validator's included.
Accepts(item) ==
    /\ item.tool \in Tools
    /\ Match(item.tool, item.strategy) # {}
    /\ FitsHere(item.tool, Chosen(item).public)
    /\ item.trusted

\* _llm_plan: every item is checked against the catalog; against the delta,
\* only their number is.
LlmUsable(answer, tools) ==
    /\ \A i \in DOMAIN answer : Accepts(answer[i])
    /\ Len(answer) = Cardinality(tools)

LlmDecisions(answer) ==
    {[tool |-> item.tool, strategy |-> Chosen(item).public,
      args |-> Defaulted(item.args, Chosen(item)), version |-> item.version,
      rest |-> item.rest] : item \in Range(answer)}

-----------------------------------------------------------------------------
(* plan: from strategies to actions                                        *)

NoAction == "none"

DirectAction == [cursor |-> "install_cursor", git |-> "install_git", docker |-> "install_docker"]

\* ExecutionPlanBuilder._resolve_action_id; NoAction where it raises.
ExecutorAction(d) ==
    IF d.tool \in DOMAIN DirectAction THEN DirectAction[d.tool]
    ELSE IF d.strategy = "pip_install" THEN "install_python_package" ELSE NoAction

\* The actions the default capability registry knows.
Capabilities ==
    {"check_python_version_real", "create_virtualenv", "install_python_package",
     "install_project_dependencies", "install_git", "install_docker",
     "install_cursor", "fix_editable"}

\* Mutant of Buildable: _require_capability is not called.
BuildableAlways(decisions) == TRUE

Buildable(decisions) == \A d \in decisions : ExecutorAction(d) \in Capabilities

\* An argument as _pip_context reads it: an empty one counts as missing.
Given(d, k, otherwise) ==
    IF k \in DOMAIN d.args /\ d.args[k] # NoText THEN d.args[k] ELSE otherwise

\* _pip_context: the name, and the requirement with the decision's version.
PipPackage(d) == Given(d, "package_name", Given(d, "package", Text(d.tool)))

PipRequirement(d) ==
    LET requirement == Given(d, "requirement", PipPackage(d))
    IN  IF requirement = PipPackage(d) /\ d.version # ""
        THEN [requirement EXCEPT !.version = d.version] ELSE requirement

Context(d) ==
    IF ExecutorAction(d) = "install_python_package"
    THEN [rest |-> d.rest, package |-> PipPackage(d), requirement |-> PipRequirement(d)]
    ELSE [rest |-> d.rest, package |-> NoText, requirement |-> NoText]

\* The action of a package of the delta.
PackageAction(p) ==
    [id |-> [name |-> "install_python_package", subject |-> p],
     context |-> [rest |-> PackageRest, package |-> Text(p), requirement |-> Text(p)]]

\* Mutant of BuiltActions: deduplication by identifier, not by content.
BuiltActionsById(decisions, packages) ==
    {[id |-> [name |-> ExecutorAction(d), subject |-> d.tool], context |-> Context(d)] :
        d \in decisions}
    \cup {PackageAction(p) : p \in packages \ {d.tool : d \in decisions}}

\* build: one action per decision and per package, equal ones once.
BuiltActions(decisions, packages) ==
    {[id |-> [name |-> ExecutorAction(d), subject |-> d.tool], context |-> Context(d)] :
        d \in decisions}
    \cup {PackageAction(p) : p \in packages}

\* The end of plan(): the builder's ValueError leaves session.plan None.
Build(decisions, source, answer) ==
    /\ by' = source
    /\ answered' = answer
    /\ \/ /\ Buildable(decisions)
          /\ plan' = BuiltActions(decisions, delta.packages)
          /\ status' = "planned"
       \/ /\ ~Buildable(decisions)
          /\ status' = "blocked"
          /\ UNCHANGED plan
    /\ UNCHANGED <<asked, goal, report, request, delta>>

\* A plan without an LLM, or after it failed.  A blocked session may ask again.
PlanByCatalog ==
    /\ status \in {"created", "blocked"}
    /\ Build(CatalogDecisions(delta.tools), "catalog", <<>>)

\* A plan with an LLM, which is asked only when there is something to install.
PlanByLlm ==
    /\ status \in {"created", "blocked"}
    /\ delta.tools # {}
    /\ \E answer \in LlmAnswers :
        /\ LlmUsable(answer, delta.tools)
        /\ Build(LlmDecisions(answer), "llm", answer)

Init ==
    /\ asked = Nothing /\ request = Nothing
    /\ goal = <<>>
    /\ report = [n \in Subjects |-> "unprobed"]
    /\ delta = [tools |-> {}, packages |-> {}]
    /\ plan = {}
    /\ status = "none"
    /\ by = "nobody"
    /\ answered = <<>>

Next == Create \/ PlanByCatalog \/ PlanByLlm

Spec == Init /\ [][Next]_vars

-----------------------------------------------------------------------------
(* Properties                                                              *)

\* Types; in particular a plan is made of actions that SessionService accepts.
TypeOK ==
    /\ {asked, request} \subseteq Wishes
    /\ goal \in Goals \cup {<<>>}
    /\ report \in [Subjects -> Findings]
    /\ delta \in [tools : SUBSET Subjects, packages : SUBSET Subjects]
    /\ plan \subseteq SessionActions
    /\ status \in {"none", "created", "blocked", "planned"}
    /\ by \in {"nobody", "catalog", "llm"}
    /\ answered \in LlmAnswers \cup {<<>>}

\* The tools the caller lists as excluded, or a "do not install" of the goal
\* names exactly.
RefusedTools == asked.excluded \cup ToolsAmong(Named(goal, TRUE))

\* Whatever the LLM answered, whatever is forced, and whichever list or clause
\* also asks for it: reconciliation installs no tool the user refused
\* (normalize, _merge_request and to_desired_state together).
RefusedToolHasNoDelta == delta.tools \cap RefusedTools = {}

\* A request that forces nothing does not reinstall a tool whose probe passed
\* (_actual_state and reconcile).
HealthyLeftAlone ==
    ~request.force => \A t \in delta.tools : report[t] # "passed"

\* A plan made from the catalog has an action for every delta that the catalog
\* knows a strategy for, and for every package: a tool whose strategy no
\* handler implements blocks the plan and is never dropped from it.
CatalogCoversDelta ==
    status = "planned" /\ by = "catalog" =>
        /\ \A t \in delta.tools : HasStrategy(t) => \E a \in plan : a.id.subject = t
        /\ \A p \in delta.packages : PackageAction(p) \in plan

\* What validate_python_package_context lets through, names being well formed.
SafePackage(context) ==
    /\ context.package.name # "" /\ context.package.version = ""
    /\ context.requirement.name = context.package.name

\* The tool has a pip strategy in the catalog, and this is its package.
IsCatalogPackage(tool, package) ==
    \E s \in Range(Strategies[tool]) : s.public = "pip_install" /\ package = Text(s.package)

\* An item may replace the catalog's package: both names are its own.
Replaces(item) == {"package_name", "requirement"} \subseteq DOMAIN item.args

\* A package action that security.py accepts has pip install a package of the
\* request, or what the catalog has for its tool: _llm_plan checks no argument,
\* and the two checks further on stop an answer that names another package,
\* unless it names it both as package_name and as requirement.
PackageIsTheTools ==
    \A a \in plan : a.id.name = "install_python_package" /\ SafePackage(a.context) =>
        \/ a.id.subject \in delta.packages /\ a.context.package = Text(a.id.subject)
        \/ /\ a.id.subject \in Tools
           /\ by = "catalog" => a.id.subject \in delta.tools
           /\ \/ IsCatalogPackage(a.id.subject, a.context.package)
              \/ \E item \in Range(answered) :
                     item.tool = a.id.subject /\ Replaces(item)

\* "Negative instructions override positive mentions": no action of a plan made
\* without an LLM is about a name the goal says not to install.  Violated:
\* "do not install docker" becomes the Python package docker.
NegatedNeverPlanned ==
    by = "catalog" => \A a \in plan : a.id.subject \notin Named(goal, TRUE)

\* A required tool whose probe failed is in the delta.  Violated: a failed check
\* is an entry of the actual state, and reconcile installs what has no entry.
MissingToolHasDelta ==
    status # "none" =>
        \A t \in request.required \ request.excluded :
            report[t] = "failed" => t \in delta.tools
=============================================================================
