-------------------------- MODULE PlanBuildingProofs --------------------------
(***************************************************************************)
(* The invariants of PlanBuilding, for every catalog, lexicon, set of      *)
(* requests, goals and audits, and every answer of an LLM.                 *)
(*                                                                         *)
(* The inductive invariant is Made /\ TypeOK: before create there is no    *)
(* plan, so create may replace the delta without touching what a plan is   *)
(* compared with.  RefusedToolHasNoDelta and HealthyLeftAlone are settled  *)
(* by create alone, from two lemmas on Merge and Reconcile; the other two  *)
(* by Build.  PackageIsTheTools also rests on DefaultsHold, which follows  *)
(* an LLM's arguments through setdefault, _pip_context and security.py.    *)
(***************************************************************************)
EXTENDS PlanBuilding, WellFoundedInduction, TLAPS

\* No plan before there is a session, none while it is blocked.
Made == status # "planned" => plan = {}

-----------------------------------------------------------------------------
(* Lemmas about the operators                                              *)

\* What the parsers return is a wish, whatever the goal.
LEMMA NamedType ==
    ASSUME NEW g \in Seq(Clauses), NEW b \in BOOLEAN
    PROVE  Named(g, b) \subseteq Subjects
<1>1. ASSUME NEW c \in DOMAIN g PROVE Range(g[c].targets) \subseteq Subjects
  <2>1. g[c] \in Clauses OBVIOUS
  <2>2. g[c].targets \in Seq(Subjects) BY <2>1 DEF Clauses
  <2> QED BY <2>2 DEF Range
<1> QED BY <1>1 DEF Named

LEMMA MentionsType ==
    ASSUME NEW S, S \subseteq Subjects
    PROVE  UNION {Mentions[n] : n \in S} \subseteq Tools
BY LexiconAssumption

LEMMA IntentsType ==
    ASSUME NEW g \in Seq(Clauses), NEW i \in Intents(g)
    PROVE  i \in Wishes
<1>1. Named(g, TRUE) \subseteq Subjects /\ Named(g, FALSE) \subseteq Subjects
  BY NamedType
<1>2. ExcludedTools(g) \subseteq Subjects /\ MentionedTools(g) \subseteq Subjects
  BY <1>1, MentionsType, ToolsAssumption DEF ExcludedTools, MentionedTools
<1>3. ExcludedPackages(g) \subseteq Subjects
  BY <1>1 DEF ExcludedPackages
<1>4. CASE i = DeterministicParse(g)
  BY <1>1, <1>2, <1>3, <1>4 DEF DeterministicParse, Wishes
<1>5. CASE \E a \in LlmIntents : i = LlmParse(g, a)
  <2>1. PICK a \in LlmIntents : i = LlmParse(g, a)
    BY <1>5
  <2>2. a \in Wishes
    BY InputsAssumption
  <2> QED
    BY <1>2, <1>3, <2>1, <2>2, ToolsAssumption DEF LlmParse, Wishes
<1> QED
  BY <1>4, <1>5 DEF Intents

LEMMA NormalizeType ==
    ASSUME NEW g \in Seq(Clauses), NEW i \in Wishes
    PROVE  /\ Normalize(g, i) \in Wishes
           /\ ToolsAmong(Named(g, TRUE)) \subseteq Normalize(g, i).excluded
<1>1. Named(g, TRUE) \subseteq Subjects /\ Named(g, FALSE) \subseteq Subjects
  BY NamedType
<1>2. /\ ToolsAmong(Named(g, TRUE)) \subseteq Subjects
      /\ ToolsAmong(Named(g, FALSE)) \subseteq Subjects
  BY <1>1, LexiconAssumption, ToolsAssumption DEF ToolsAmong
<1>3. /\ PackagesAmong(Named(g, TRUE)) \subseteq Subjects
      /\ PackagesAmong(Named(g, FALSE)) \subseteq Subjects
  BY <1>1 DEF PackagesAmong
<1> QED
  BY <1>2, <1>3 DEF Normalize, Wishes

\* What a merge returns, and that it keeps every exclusion of both sides.
LEMMA MergeType ==
    ASSUME NEW g \in Seq(Clauses), NEW r \in Wishes, NEW i \in Wishes
    PROVE  /\ Merge(r, i, g) \in Wishes
           /\ r.excluded \cup i.excluded \subseteq Merge(r, i, g).excluded
<1>1. InstallTokens(g) \subseteq Subjects
  <2>1. ASSUME NEW c \in DOMAIN g, NEW k \in DOMAIN g[c].targets
        PROVE  g[c].targets[k] \in Subjects
    <3>1. g[c] \in Clauses OBVIOUS
    <3>2. g[c].targets \in Seq(Subjects) BY <3>1 DEF Clauses
    <3> QED BY <3>2
  <2> QED BY <2>1 DEF InstallTokens
<1> QED
  BY <1>1 DEF Merge, Wishes

\* The reconciler never goes beyond what is desired, nor, unless forced, to a
\* tool with an entry that is no error.
LEMMA ReconcileBounds ==
    ASSUME NEW r \in Wishes, NEW m \in [Subjects -> Findings]
    PROVE  LET d == Reconcile(ActualState(m), DesiredState(r))
           IN  /\ d \in [tools : SUBSET Subjects, packages : SUBSET Subjects]
               /\ d.tools \cap r.excluded = {}
               /\ ~r.force => \A t \in d.tools : m[t] # "passed"
<1> DEFINE d == Reconcile(ActualState(m), DesiredState(r))
<1>1. d.tools \subseteq (r.required \cup r.optional) \ r.excluded
  BY DEF Reconcile, DesiredState
<1>2. d.packages = r.deps \ r.exPackages
  BY DEF Reconcile, DesiredState
<1>3. d \in [tools : SUBSET Subjects, packages : SUBSET Subjects]
  <2>1. d = [tools |-> d.tools, packages |-> d.packages]
    BY DEF Reconcile
  <2>2. r.required \subseteq Subjects /\ r.optional \subseteq Subjects /\ r.deps \subseteq Subjects
    BY DEF Wishes
  <2> QED BY <1>1, <1>2, <2>1, <2>2
<1>4. ASSUME ~r.force, NEW t \in d.tools PROVE m[t] # "passed"
  <2>1. t \in Subjects
    BY <1>3
  <2>2. t \notin DOMAIN ActualState(m) \/ ActualState(m)[t] = "error"
    BY <1>4 DEF Reconcile, DesiredState
  <2>3. t \in DOMAIN ActualState(m) => ActualState(m)[t] \in {"installed", "missing"}
    BY DEF ActualState
  <2>4. t \notin DOMAIN ActualState(m)
    BY <2>2, <2>3
  <2> QED BY <2>1, <2>4 DEF ActualState
<1> QED
  BY <1>1, <1>3, <1>4

\* The first of some strategies is one of them.
LEMMA FirstIsOne ==
    ASSUME NEW t \in Tools, NEW S, S \subseteq DOMAIN Strategies[t], S # {}
    PROVE  /\ \E i \in S : First(t, S) = Strategies[t][i]
           /\ First(t, S) \in Range(Strategies[t])
           /\ First(t, S) \in StrategyRecords
<1>1. Strategies[t] \in Seq(StrategyRecords)
  BY CatalogAssumption
<1>2. S \subseteq Nat
  BY <1>1
<1>3. \E x \in S : \A y \in S : <<y, x>> \notin OpToRel(<, Nat)
  BY <1>2, WFMin, NatLessThanWellFounded
<1>4. \E i \in S : \A j \in S : i <= j
  <2>1. PICK x \in S : \A y \in S : <<y, x>> \notin OpToRel(<, Nat)
    BY <1>3
  <2>2. ASSUME NEW y \in S PROVE x <= y
    <3>1. ~(y < x)
      BY <1>2, <2>1 DEF OpToRel
    <3> QED BY <1>2, <3>1
  <2> QED BY <2>2
<1> DEFINE first == CHOOSE i \in S : \A j \in S : i <= j
<1>5. first \in S /\ first \in DOMAIN Strategies[t]
  BY <1>4
<1>6. First(t, S) = Strategies[t][first]
  BY DEF First
<1>7. Strategies[t][first] \in StrategyRecords
  <2> HIDE DEF first
  <2> QED BY <1>1, <1>5
<1> HIDE DEF first
<1> QED
  BY <1>5, <1>6, <1>7 DEF Range

\* What setdefault makes of arguments are arguments.
LEMMA DefaultedType ==
    ASSUME NEW args \in Args, NEW s \in StrategyRecords
    PROVE  Defaulted(args, s) \in Args
<1>1. PICK S \in SUBSET PipArgs : args \in [S -> Texts]
  BY DEF Args
<1>2. Text(s.package) \in Texts
  BY DEF StrategyRecords, Texts, Text
<1>3. [k \in PipArgs |-> IF k \in DOMAIN args THEN args[k] ELSE Text(s.package)]
        \in [PipArgs -> Texts]
  BY <1>1, <1>2
<1>4. [PipArgs -> Texts] \subseteq Args
  BY DEF Args
<1> QED
  BY <1>3, <1>4 DEF Defaulted

LEMMA NoArgs == <<>> \in Args
<1>1. <<>> \in [{} -> Texts]
  OBVIOUS
<1> QED
  BY <1>1 DEF Args

\* An argument that is given, or its default.
LEMMA GivenType ==
    ASSUME NEW d, d.args \in Args, NEW k, NEW otherwise \in Texts
    PROVE  Given(d, k, otherwise) \in Texts
<1>1. PICK S \in SUBSET PipArgs : d.args \in [S -> Texts]
  BY DEF Args
<1> QED
  BY <1>1 DEF Given

\* Whatever is decided about a tool, its context is one of an action.
LEMMA ContextType ==
    ASSUME NEW d, d.tool \in Subjects, d.args \in Args, d.version \in Versions \cup {""},
           d.rest \in Rests
    PROVE  Context(d) \in PlanContexts
<1>1. Text(d.tool) \in Texts /\ NoText \in Texts
  BY NamesAssumption DEF Text, Texts, NoText
<1>2. PipPackage(d) \in Texts
  BY <1>1, GivenType DEF PipPackage
<1>3. PipRequirement(d) \in Texts
  <2>1. Given(d, "requirement", PipPackage(d)) \in Texts
    BY <1>2, GivenType
  <2> QED BY <2>1 DEF PipRequirement, Texts
<1> QED
  BY <1>1, <1>2, <1>3 DEF Context, PlanContexts

\* A decision that an executor action exists for becomes an action of that name.
LEMMA BuiltType ==
    ASSUME NEW decisions, NEW packages \in SUBSET Subjects,
           \A d \in decisions : d.tool \in Subjects /\ Context(d) \in PlanContexts,
           Buildable(decisions)
    PROVE  BuiltActions(decisions, packages) \subseteq SessionActions
<1>1. ASSUME NEW d \in decisions PROVE ExecutorAction(d) \in BuilderNames
  <2>1. ExecutorAction(d) # NoAction
    BY DEF Buildable, Capabilities, NoAction
  <2>2. DOMAIN DirectAction = {"cursor", "git", "docker"}
    BY DEF DirectAction
  <2>3. \A t \in DOMAIN DirectAction : DirectAction[t] \in BuilderNames
    BY DEF DirectAction, BuilderNames
  <2> QED BY <2>1, <2>3 DEF ExecutorAction, BuilderNames
<1>2. ASSUME NEW p \in packages PROVE PackageAction(p) \in SessionActions
  <2>1. Text(p) \in Texts
    BY NamesAssumption DEF Text, Texts
  <2>2. [rest |-> PackageRest, package |-> Text(p), requirement |-> Text(p)] \in Contexts
    BY <2>1, CatalogAssumption, PlanContextsAssumption DEF PlanContexts
  <2> QED BY <2>2 DEF PackageAction, SessionActions, InstanceIds, BuilderNames
<1> QED
  BY <1>1, <1>2, PlanContextsAssumption DEF BuiltActions, SessionActions, InstanceIds

\* Where a decision comes from: a strategy of its tool that fits, and arguments
\* that left to that strategy what they did not name.
ComesFrom(d, args, s) ==
    /\ args \in Args
    /\ s \in Range(Strategies[d.tool]) /\ s \in StrategyRecords
    /\ d.strategy = s.public
    /\ d.args = Defaulted(args, s)

\* The decisions of both planners are about subjects, and whoever made them, a
\* strategy is one the catalog has here.
Decided(d) ==
    /\ d.tool \in Subjects /\ d.tool \in Tools
    /\ d.args \in Args /\ d.version \in Versions \cup {""} /\ d.rest \in Rests

LEMMA CatalogDecisionsSound ==
    ASSUME NEW tools \in SUBSET Subjects, NEW d \in CatalogDecisions(tools)
    PROVE  /\ Decided(d)
           /\ d.tool \in tools
           /\ \E s : ComesFrom(d, <<>>, s)
<1>1. PICK t \in tools :
        /\ HasStrategy(t)
        /\ d = [tool |-> t, strategy |-> Selected(t).public,
                args |-> Defaulted(<<>>, Selected(t)), version |-> "", rest |-> CatalogRest]
  BY DEF CatalogDecisions
<1>2. t \in Tools /\ Fitting(t) # {} /\ Fitting(t) \subseteq DOMAIN Strategies[t]
  BY <1>1 DEF HasStrategy, Fitting
<1>3. Selected(t) \in Range(Strategies[t]) /\ Selected(t) \in StrategyRecords
  BY <1>2, FirstIsOne DEF Selected
<1>4. d.args \in Args
  BY <1>1, <1>3, NoArgs, DefaultedType
<1>5. ComesFrom(d, <<>>, Selected(t))
  BY <1>1, <1>3, NoArgs DEF ComesFrom
<1> QED
  BY <1>1, <1>2, <1>4, <1>5, CatalogAssumption DEF Decided

LEMMA LlmDecisionsSound ==
    ASSUME NEW answer \in LlmAnswers, NEW tools, LlmUsable(answer, tools),
           NEW d \in LlmDecisions(answer)
    PROVE  /\ Decided(d)
           /\ \E item \in Range(answer) :
                 item.tool = d.tool /\ \E s : ComesFrom(d, item.args, s)
<1>1. answer \in Seq(Items)
  BY InputsAssumption
<1>2. PICK k \in DOMAIN answer :
        d = [tool |-> answer[k].tool, strategy |-> Chosen(answer[k]).public,
             args |-> Defaulted(answer[k].args, Chosen(answer[k])),
             version |-> answer[k].version, rest |-> answer[k].rest]
  BY DEF LlmDecisions, Range
<1> DEFINE item == answer[k]
<1>3. item \in Items
  BY <1>1
<1>4. Accepts(item)
  BY DEF LlmUsable
<1>5. /\ item.tool \in Tools
      /\ Match(item.tool, item.strategy) # {}
      /\ Match(item.tool, item.strategy) \subseteq DOMAIN Strategies[item.tool]
  BY <1>4 DEF Accepts, Match
<1>6. Chosen(item) \in Range(Strategies[item.tool]) /\ Chosen(item) \in StrategyRecords
  BY <1>5, FirstIsOne DEF Chosen
<1>7. item.args \in Args
  BY <1>3 DEF Items
<1>8. ComesFrom(d, item.args, Chosen(item))
  BY <1>2, <1>6, <1>7 DEF ComesFrom
<1>9. Decided(d)
  BY <1>2, <1>3, <1>5, <1>6, <1>7, DefaultedType DEF Decided, Items
<1>10. item \in Range(answer) /\ item.tool = d.tool
  BY <1>2 DEF Range
<1> QED
  BY <1>8, <1>9, <1>10

\* Arguments that do not name both package_name and requirement leave pip the
\* catalog's package, or security.py refuses the action.
LEMMA DefaultsHold ==
    ASSUME NEW d, NEW args, NEW s, ComesFrom(d, args, s), d.strategy = "pip_install",
           ~({"package_name", "requirement"} \subseteq DOMAIN args),
           NEW context, context.package = PipPackage(d),
           context.requirement = PipRequirement(d), SafePackage(context)
    PROVE  context.package = Text(s.package)
<1>1. d.args = [k \in PipArgs |-> IF k \in DOMAIN args THEN args[k] ELSE Text(s.package)]
  BY DEF ComesFrom, Defaulted
<1>2. PICK S \in SUBSET PipArgs : args \in [S -> Texts]
  BY DEF ComesFrom, Args
<1>3. s.package # "" /\ Text(s.package) # NoText
  BY NamesAssumption DEF ComesFrom, StrategyRecords, Text, NoText
<1>4. \A k \in PipArgs : k \notin DOMAIN args => \A otherwise :
         Given(d, k, otherwise) = Text(s.package)
  BY <1>1, <1>3 DEF Given
<1>5. CASE "package_name" \notin DOMAIN args
  BY <1>4, <1>5 DEF PipPackage, PipArgs
<1>6. CASE "requirement" \notin DOMAIN args
  <2>1. Given(d, "requirement", PipPackage(d)) = Text(s.package)
    BY <1>4, <1>6 DEF PipArgs
  <2>2. PipRequirement(d).name = s.package
    <3>1. Text(s.package).name = s.package
      BY DEF Text
    <3>2. [Text(s.package) EXCEPT !.version = d.version].name = s.package
      BY DEF Text
    <3>3. PipRequirement(d) \in {Text(s.package), [Text(s.package) EXCEPT !.version = d.version]}
      BY <2>1 DEF PipRequirement
    <3> QED BY <3>1, <3>2, <3>3
  <2>3. context.package.name = s.package /\ context.package.version = ""
    BY <2>2 DEF SafePackage
  <2>4. PipPackage(d) \in Texts
    <3>1. d.args \in [PipArgs -> Texts]
      <4>1. Text(s.package) \in Texts
        BY DEF ComesFrom, StrategyRecords, Texts, Text
      <4>2. \A k \in PipArgs : (IF k \in DOMAIN args THEN args[k] ELSE Text(s.package)) \in Texts
        BY <1>2, <4>1
      <4> QED BY <1>1, <4>2
    <3>2. d.args["package_name"] \in Texts /\ d.args["package"] \in Texts
      BY <3>1 DEF PipArgs
    <3>3. DOMAIN d.args = PipArgs
      BY <3>1
    <3>4. CASE PipPackage(d) = Text(d.tool)
      BY <2>3, <3>4 DEF Text, Texts, ComesFrom, StrategyRecords
    <3> QED BY <3>2, <3>3, <3>4 DEF PipPackage, Given
  <2> QED BY <2>3, <2>4 DEF Texts, Text
<1> QED
  BY <1>5, <1>6

-----------------------------------------------------------------------------
(* The steps                                                               *)

\* What create leaves behind: a typed delta without refused tools and, unless
\* forced, without healthy ones.
LEMMA CreateStep ==
    ASSUME Create
    PROVE  /\ {asked', request'} \subseteq Wishes
           /\ goal' \in Goals
           /\ report' \in [Subjects -> Findings]
           /\ delta' \in [tools : SUBSET Subjects, packages : SUBSET Subjects]
           /\ RefusedToolHasNoDelta'
           /\ HealthyLeftAlone'
<1>1. PICK r \in Requests, g \in Goals, m \in Reports :
        /\ asked' = r /\ goal' = g /\ report' = m
        /\ \/ g = <<>> /\ request' = r
           \/ g # <<>> /\ \E i \in Intents(g) : request' = Merge(r, Normalize(g, i), g)
        /\ delta' = Reconcile(ActualState(m), DesiredState(request'))
  BY DEF Create
<1>2. r \in Wishes /\ g \in Seq(Clauses) /\ m \in [Subjects -> Findings]
  BY InputsAssumption
<1>3. /\ request' \in Wishes
      /\ r.excluded \cup ToolsAmong(Named(g, TRUE)) \subseteq request'.excluded
  <2>1. CASE g = <<>> /\ request' = r
    <3>1. Named(g, TRUE) = {}
      BY <2>1 DEF Named
    <3>2. ToolsAmong({}) = {}
      BY DEF ToolsAmong
    <3> QED BY <1>2, <2>1, <3>1, <3>2
  <2>2. CASE \E i \in Intents(g) : request' = Merge(r, Normalize(g, i), g)
    <3>1. PICK i \in Intents(g) : request' = Merge(r, Normalize(g, i), g)
      BY <2>2
    <3>2. i \in Wishes
      BY <1>2, <3>1, IntentsType
    <3>3. /\ Normalize(g, i) \in Wishes
          /\ ToolsAmong(Named(g, TRUE)) \subseteq Normalize(g, i).excluded
      BY <1>2, <3>2, NormalizeType
    <3>4. /\ request' \in Wishes
          /\ r.excluded \cup Normalize(g, i).excluded \subseteq request'.excluded
      BY <1>2, <3>1, <3>3, MergeType
    <3> QED BY <3>3, <3>4
  <2> QED BY <1>1, <2>1, <2>2
<1>4. /\ delta' \in [tools : SUBSET Subjects, packages : SUBSET Subjects]
      /\ delta'.tools \cap request'.excluded = {}
      /\ ~request'.force => \A t \in delta'.tools : m[t] # "passed"
  BY <1>1, <1>2, <1>3, ReconcileBounds
<1>5. RefusedToolHasNoDelta'
  <2>1. RefusedTools' = r.excluded \cup ToolsAmong(Named(g, TRUE))
    BY <1>1 DEF RefusedTools
  <2> QED BY <1>3, <1>4, <2>1 DEF RefusedToolHasNoDelta
<1>6. HealthyLeftAlone'
  BY <1>1, <1>4 DEF HealthyLeftAlone
<1> QED
  BY <1>1, <1>2, <1>3, <1>4, <1>5, <1>6

\* What a plan step does to the plan.
LEMMA PlanStep ==
    ASSUME TypeOK, PlanByCatalog \/ PlanByLlm
    PROVE  /\ status \in {"created", "blocked"}
           /\ UNCHANGED <<asked, goal, report, request, delta>>
           /\ by' \in {"catalog", "llm"}
           /\ answered' \in LlmAnswers \cup {<<>>}
           /\ \E decisions :
                /\ \A d \in decisions : Decided(d)
                /\ by' = "catalog" => decisions = CatalogDecisions(delta.tools)
                /\ by' = "llm" => /\ decisions = LlmDecisions(answered')
                                  /\ answered' \in LlmAnswers
                                  /\ LlmUsable(answered', delta.tools)
                /\ \/ /\ Buildable(decisions)
                      /\ plan' = BuiltActions(decisions, delta.packages)
                      /\ status' = "planned"
                   \/ plan' = plan /\ status' = "blocked"
<1>1. delta.tools \subseteq Subjects
  BY DEF TypeOK
<1>2. CASE PlanByCatalog
  <2>1. \A d \in CatalogDecisions(delta.tools) : Decided(d)
    BY <1>1, CatalogDecisionsSound
  <2> QED BY <1>2, <2>1 DEF PlanByCatalog, Build
<1>3. CASE PlanByLlm
  <2>1. PICK answer \in LlmAnswers :
          LlmUsable(answer, delta.tools) /\ Build(LlmDecisions(answer), "llm", answer)
    BY <1>3 DEF PlanByLlm
  <2>2. \A d \in LlmDecisions(answer) : Decided(d)
    BY <2>1, LlmDecisionsSound
  <2> QED BY <1>3, <2>1, <2>2 DEF PlanByLlm, Build
<1> QED
  BY <1>2, <1>3

-----------------------------------------------------------------------------
(* Theorems                                                                *)

\* Every plan built is made of actions of the type SessionService assumes of
\* its Plans, and only a planned session has one.
THEOREM PlanTypeCorrect == Spec => [](TypeOK /\ Made)
<1>1. Init => TypeOK /\ Made
  BY DEF Init, TypeOK, Made, Nothing, Wishes, Findings
<1>2. TypeOK /\ Made /\ [Next]_vars => (TypeOK /\ Made)'
  <2> SUFFICES ASSUME TypeOK, Made, [Next]_vars PROVE (TypeOK /\ Made)'
    OBVIOUS
  <2>1. CASE Create
    <3>1. plan = {} /\ plan' = {} /\ status' = "created" /\ by' = by /\ answered' = answered
      BY <2>1 DEF Create, Made
    <3> QED BY <2>1, <3>1, CreateStep DEF TypeOK, Made
  <2>2. CASE PlanByCatalog \/ PlanByLlm
    <3>1. PICK decisions :
            /\ \A d \in decisions : Decided(d)
            /\ \/ /\ Buildable(decisions)
                  /\ plan' = BuiltActions(decisions, delta.packages)
                  /\ status' = "planned"
               \/ plan' = plan /\ status' = "blocked"
      BY <2>2, PlanStep
    <3>2. CASE Buildable(decisions) /\ plan' = BuiltActions(decisions, delta.packages)
      <4>1. delta.packages \in SUBSET Subjects
        BY DEF TypeOK
      <4>2. \A d \in decisions : d.tool \in Subjects /\ Context(d) \in PlanContexts
        BY <3>1, ContextType DEF Decided
      <4>3. plan' \subseteq SessionActions
        BY <3>2, <4>1, <4>2, BuiltType
      <4> QED BY <2>2, <3>1, <3>2, <4>3, PlanStep DEF TypeOK, Made
    <3>3. CASE plan' = plan /\ status' = "blocked"
      BY <2>2, <3>3, PlanStep DEF TypeOK, Made
    <3> QED BY <3>1, <3>2, <3>3
  <2>3. CASE UNCHANGED vars
    BY <2>3 DEF vars, TypeOK, Made
  <2> QED BY <2>1, <2>2, <2>3 DEF Next
<1> QED
  BY <1>1, <1>2, PTL DEF Spec

\* Reconciliation installs no tool that the caller or the goal refused.
THEOREM RefusedToolsStayOut == Spec => []RefusedToolHasNoDelta
<1>1. Init => RefusedToolHasNoDelta
  BY DEF Init, RefusedToolHasNoDelta
<1>2. TypeOK /\ RefusedToolHasNoDelta /\ [Next]_vars => RefusedToolHasNoDelta'
  <2> SUFFICES ASSUME TypeOK, RefusedToolHasNoDelta, [Next]_vars
               PROVE  RefusedToolHasNoDelta'
    OBVIOUS
  <2>1. CASE Create
    BY <2>1, CreateStep
  <2>2. CASE PlanByCatalog \/ PlanByLlm
    <3>1. UNCHANGED <<asked, goal, delta>>
      BY <2>2, PlanStep
    <3> QED BY <3>1 DEF RefusedToolHasNoDelta, RefusedTools
  <2>3. CASE UNCHANGED vars
    BY <2>3 DEF vars, RefusedToolHasNoDelta, RefusedTools
  <2> QED BY <2>1, <2>2, <2>3 DEF Next
<1> QED
  BY <1>1, <1>2, PlanTypeCorrect, PTL DEF Spec

\* An unforced request has no delta for a tool whose probe passed.
THEOREM HealthyToolsStay == Spec => []HealthyLeftAlone
<1>1. Init => HealthyLeftAlone
  BY DEF Init, HealthyLeftAlone
<1>2. TypeOK /\ HealthyLeftAlone /\ [Next]_vars => HealthyLeftAlone'
  <2> SUFFICES ASSUME TypeOK, HealthyLeftAlone, [Next]_vars
               PROVE  HealthyLeftAlone'
    OBVIOUS
  <2>1. CASE Create
    BY <2>1, CreateStep
  <2>2. CASE PlanByCatalog \/ PlanByLlm
    <3>1. UNCHANGED <<report, request, delta>>
      BY <2>2, PlanStep
    <3> QED BY <3>1 DEF HealthyLeftAlone
  <2>3. CASE UNCHANGED vars
    BY <2>3 DEF vars, HealthyLeftAlone
  <2> QED BY <2>1, <2>2, <2>3 DEF Next
<1> QED
  BY <1>1, <1>2, PlanTypeCorrect, PTL DEF Spec

\* A plan made without an LLM has an action for every delta of the catalog's.
THEOREM CatalogPlansCover == Spec => []CatalogCoversDelta
<1>1. Init => CatalogCoversDelta
  BY DEF Init, CatalogCoversDelta
<1>2. TypeOK /\ CatalogCoversDelta /\ [Next]_vars => CatalogCoversDelta'
  <2> SUFFICES ASSUME TypeOK, CatalogCoversDelta, [Next]_vars
               PROVE  CatalogCoversDelta'
    OBVIOUS
  <2>1. CASE Create
    BY <2>1 DEF Create, CatalogCoversDelta
  <2>2. CASE PlanByCatalog \/ PlanByLlm
    <3> SUFFICES ASSUME status' = "planned", by' = "catalog"
                 PROVE  CatalogCoversDelta'
      BY DEF CatalogCoversDelta
    <3>1. /\ delta' = delta
          /\ plan' = BuiltActions(CatalogDecisions(delta.tools), delta.packages)
      BY <2>2, PlanStep
    <3>2. ASSUME NEW t \in delta.tools, HasStrategy(t)
          PROVE  \E a \in plan' : a.id.subject = t
      <4>1. PICK d \in CatalogDecisions(delta.tools) : d.tool = t
        <5>1. [tool |-> t, strategy |-> Selected(t).public,
               args |-> Defaulted(<<>>, Selected(t)), version |-> "", rest |-> CatalogRest]
                \in CatalogDecisions(delta.tools)
          BY <3>2, Zenon DEF CatalogDecisions
        <5> QED BY <5>1
      <4>2. [id |-> [name |-> ExecutorAction(d), subject |-> d.tool],
             context |-> Context(d)] \in plan'
        BY <3>1 DEF BuiltActions
      <4> QED BY <4>1, <4>2
    <3>3. ASSUME NEW p \in delta.packages
          PROVE  PackageAction(p) \in plan'
      BY <3>1 DEF BuiltActions
    <3> QED BY <3>1, <3>2, <3>3 DEF CatalogCoversDelta
  <2>3. CASE UNCHANGED vars
    BY <2>3 DEF vars, CatalogCoversDelta
  <2> QED BY <2>1, <2>2, <2>3 DEF Next
<1> QED
  BY <1>1, <1>2, PlanTypeCorrect, PTL DEF Spec

\* A safe package action that a decision became is the tool's.
LEMMA DecisionPackage ==
    ASSUME NEW d, Decided(d), NEW args, NEW s, ComesFrom(d, args, s),
           ExecutorAction(d) = "install_python_package", SafePackage(Context(d))
    PROVE  \/ IsCatalogPackage(d.tool, Context(d).package)
           \/ {"package_name", "requirement"} \subseteq DOMAIN args
<1>1. d.strategy = "pip_install"
  <2>1. \A t \in DOMAIN DirectAction : DirectAction[t] # "install_python_package"
    BY DEF DirectAction
  <2> QED BY <2>1 DEF ExecutorAction, NoAction
<1>2. Context(d).package = PipPackage(d) /\ Context(d).requirement = PipRequirement(d)
  BY DEF Context
<1>3. ASSUME ~({"package_name", "requirement"} \subseteq DOMAIN args)
      PROVE  Context(d).package = Text(s.package)
  BY <1>1, <1>2, <1>3, DefaultsHold
<1>4. s \in Range(Strategies[d.tool]) /\ s.public = "pip_install"
  BY <1>1 DEF ComesFrom
<1> QED
  BY <1>3, <1>4 DEF IsCatalogPackage

\* Pip is given the packages of the request and of the catalog, and another one
\* only where an LLM named it in both places.
THEOREM PipInstallsTheTool == Spec => []PackageIsTheTools
<1>1. Init => PackageIsTheTools
  BY DEF Init, PackageIsTheTools
<1>2. TypeOK /\ Made /\ PackageIsTheTools /\ [Next]_vars => PackageIsTheTools'
  <2> SUFFICES ASSUME TypeOK, Made, PackageIsTheTools, [Next]_vars
               PROVE  PackageIsTheTools'
    OBVIOUS
  <2>1. CASE Create
    <3>1. plan' = {}
      BY <2>1 DEF Create, Made
    <3> QED BY <3>1 DEF PackageIsTheTools
  <2>2. CASE PlanByCatalog \/ PlanByLlm
    <3>1. PICK decisions :
            /\ \A d \in decisions : Decided(d)
            /\ by' = "catalog" => decisions = CatalogDecisions(delta.tools)
            /\ by' = "llm" => /\ decisions = LlmDecisions(answered')
                              /\ answered' \in LlmAnswers
                              /\ LlmUsable(answered', delta.tools)
            /\ plan' = BuiltActions(decisions, delta.packages) \/ plan' = plan
      BY <2>2, PlanStep
    <3>2. /\ delta' = delta /\ by' \in {"catalog", "llm"}
          /\ delta.tools \in SUBSET Subjects
          /\ plan = {}
      BY <2>2, PlanStep DEF TypeOK, Made
    <3>3. CASE plan' = BuiltActions(decisions, delta.packages)
      <4> SUFFICES ASSUME NEW a \in plan', a.id.name = "install_python_package",
                          SafePackage(a.context)
                   PROVE  \/ /\ a.id.subject \in delta.packages
                             /\ a.context.package = Text(a.id.subject)
                          \/ /\ a.id.subject \in Tools
                             /\ by' = "catalog" => a.id.subject \in delta.tools
                             /\ \/ IsCatalogPackage(a.id.subject, a.context.package)
                                \/ \E item \in Range(answered') :
                                       item.tool = a.id.subject /\ Replaces(item)
        BY <3>2 DEF PackageIsTheTools
      <4>1. CASE \E p \in delta.packages : a = PackageAction(p)
        BY <4>1 DEF PackageAction
      <4>2. ASSUME NEW d \in decisions,
                   a = [id |-> [name |-> ExecutorAction(d), subject |-> d.tool],
                        context |-> Context(d)]
            PROVE  /\ d.tool \in Tools
                   /\ by' = "catalog" => d.tool \in delta.tools
                   /\ \/ IsCatalogPackage(d.tool, Context(d).package)
                      \/ \E item \in Range(answered') :
                             item.tool = d.tool /\ Replaces(item)
        <5>1. /\ Decided(d) /\ d.tool \in Tools
              /\ ExecutorAction(d) = "install_python_package"
              /\ SafePackage(Context(d))
          BY <3>1, <4>2 DEF Decided
        <5>2. CASE by' = "catalog"
          <6>1. d \in CatalogDecisions(delta.tools)
            BY <3>1, <4>2, <5>2
          <6>2. d.tool \in delta.tools /\ \E s : ComesFrom(d, <<>>, s)
            BY <3>2, <6>1, CatalogDecisionsSound
          <6>3. ~({"package_name", "requirement"} \subseteq DOMAIN <<>>)
            OBVIOUS
          <6>4. IsCatalogPackage(d.tool, Context(d).package)
            BY <5>1, <6>2, <6>3, DecisionPackage
          <6> QED BY <5>1, <6>2, <6>4
        <5>3. CASE by' = "llm"
          <6>1. PICK item \in Range(answered') :
                  item.tool = d.tool /\ \E s : ComesFrom(d, item.args, s)
            BY <3>1, <4>2, <5>3, LlmDecisionsSound
          <6>2. IsCatalogPackage(d.tool, Context(d).package) \/ Replaces(item)
            BY <5>1, <6>1, DecisionPackage DEF Replaces
          <6> QED BY <5>1, <5>3, <6>1, <6>2
        <5> QED BY <3>2, <5>2, <5>3
      <4>3. \/ \E p \in delta.packages : a = PackageAction(p)
            \/ \E d \in decisions :
                  a = [id |-> [name |-> ExecutorAction(d), subject |-> d.tool],
                       context |-> Context(d)]
        BY <3>3 DEF BuiltActions
      <4> QED BY <4>1, <4>2, <4>3
    <3>4. CASE plan' = plan
      BY <3>2, <3>4 DEF PackageIsTheTools
    <3> QED BY <3>1, <3>3, <3>4
  <2>3. CASE UNCHANGED vars
    BY <2>3 DEF vars, PackageIsTheTools
  <2> QED BY <2>1, <2>2, <2>3 DEF Next
<1> QED
  BY <1>1, <1>2, PlanTypeCorrect, PTL DEF Spec
=============================================================================
