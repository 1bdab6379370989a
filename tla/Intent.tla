------------------------------- MODULE Intent -------------------------------
(***************************************************************************)
(* From the words of a goal to the lists of a request: IntentParser,       *)
(* IntentNormalizer and RuntimeSessionService._merge_request.              *)
(*                                                                         *)
(* A goal is a sequence of clauses "[do not] install a and b and ...",     *)
(* joined by "but": text the three parsers, which split it in three        *)
(* different ways, all accept.  Names stand for themselves in lower case,  *)
(* as the code compares them nearly everywhere.  The lists of the code     *)
(* hold no name twice (dict.fromkeys) and their order decides nothing, so  *)
(* they are sets here.  No state: PlanBuilding EXTENDS this module.        *)
(***************************************************************************)
EXTENDS ActionPolicy, Functions

CONSTANTS
    Tools,      \* the identifiers of the tool catalog
    Mentions,   \* Mentions[n]: the tools one of whose aliases is a substring of n
    Resolved,   \* Resolved[n]: the tool n is an exact alias of, or NoTool
    KnownAlias, \* the names the parser never takes for a package
    NoTool

ASSUME ToolsAssumption == Tools \subseteq Subjects /\ NoTool \notin Tools
ASSUME LexiconAssumption ==
    /\ Mentions \in [Subjects -> SUBSET Tools]
    /\ Resolved \in [Subjects -> Tools \cup {NoTool}]

Clauses == [negative : BOOLEAN, targets : Seq(Subjects) \ {<<>>}]

\* A ParsedIntent, and an EnvironmentRequest without its goal.
Wishes == [required : SUBSET Subjects, optional : SUBSET Subjects, excluded : SUBSET Subjects,
           deps : SUBSET Subjects, exPackages : SUBSET Subjects, force : BOOLEAN]

\* What the clauses of one polarity name.
Named(goal, negative) ==
    UNION {Range(goal[c].targets) : c \in {d \in DOMAIN goal : goal[d].negative = negative}}

-----------------------------------------------------------------------------
(* IntentParser                                                            *)

\* _deterministic_exclusions: tools by substring, packages by token.
ExcludedTools(goal) == UNION {Mentions[n] : n \in Named(goal, TRUE)}
ExcludedPackages(goal) == Named(goal, TRUE) \ KnownAlias

\* _deterministic_explicit_tool_mentions looks at the whole text, negative
\* clauses included, for any tool that is not excluded.
MentionedTools(goal) ==
    UNION {Mentions[n] : n \in Named(goal, TRUE) \cup Named(goal, FALSE)} \ ExcludedTools(goal)

DeterministicParse(goal) ==
    [required   |-> MentionedTools(goal),
     optional   |-> {},
     excluded   |-> ExcludedTools(goal),
     deps       |-> (Named(goal, FALSE) \ MentionedTools(goal)) \ ExcludedPackages(goal),
     exPackages |-> ExcludedPackages(goal),
     force      |-> FALSE]

\* _llm_parse: the answer, corrected by the deterministic exclusions and mentions.
LlmParse(goal, answer) ==
    LET excluded   == ExcludedTools(goal) \cup (answer.excluded \cap Tools)
        exPackages == ExcludedPackages(goal) \cup answer.exPackages
        required   == ((answer.required \cap Tools) \cup MentionedTools(goal)) \ excluded
    IN  [required   |-> required,
         optional   |-> ((answer.optional \cap Tools) \ excluded) \ required,
         excluded   |-> excluded,
         deps       |-> answer.deps \ exPackages,
         exPackages |-> exPackages,
         force      |-> answer.force]

-----------------------------------------------------------------------------
(* IntentNormalizer                                                        *)

\* The tools and the package names that a set of targets resolves to.
ToolsAmong(names) == {Resolved[n] : n \in names} \ {NoTool}
PackagesAmong(names) == {n \in names : Resolved[n] = NoTool}

\* normalize: the final filters remove what a negative clause excludes wherever
\* it stands, so the order of the clauses has no effect.
Normalize(goal, intent) ==
    LET excluded   == intent.excluded \cup ToolsAmong(Named(goal, TRUE))
        exPackages == intent.exPackages \cup PackagesAmong(Named(goal, TRUE))
        fresh      == PackagesAmong(Named(goal, FALSE)) \ intent.required
    IN  [intent EXCEPT
            !.required   = (@ \cup ToolsAmong(Named(goal, FALSE))) \ excluded,
            !.excluded   = excluded,
            !.deps       = (@ \cup fresh) \ exPackages,
            !.exPackages = exPackages]

-----------------------------------------------------------------------------
(* RuntimeSessionService._merge_request                                    *)

\* _extract_install_packages: the text after the first install verb, cut at
\* every "and".  What stands next to a "but" is glued to the next clause and is
\* no token; everything else is one, whatever the polarity of its clause.
IsToken(goal, c, i) ==
    /\ i = 1 => c = 1
    /\ i = Len(goal[c].targets) => c = Len(goal)

InstallTokens(goal) ==
    UNION {{goal[c].targets[i] : i \in {j \in DOMAIN goal[c].targets : IsToken(goal, c, j)}} :
        c \in DOMAIN goal}

Merge(request, intent, goal) ==
    LET excluded   == request.excluded \cup intent.excluded
        required   == (request.required \cup intent.required) \ excluded
        exPackages == request.exPackages \cup intent.exPackages
        fresh      == ((intent.deps \cup InstallTokens(goal)) \ exPackages) \ required
    IN  [required   |-> required,
         optional   |-> ((request.optional \cup intent.optional) \ excluded) \ required,
         excluded   |-> excluded,
         deps       |-> (request.deps \ exPackages) \cup fresh,
         exPackages |-> exPackages,
         force      |-> request.force \/ intent.force]

=============================================================================
