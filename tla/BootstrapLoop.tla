---------------------------- MODULE BootstrapLoop ----------------------------
(***************************************************************************)
(* What EnvironmentBootstrapService.run promises to the session service    *)
(* for a REAL, fully approved plan: it takes the actions in order, hands   *)
(* back one of RealOutcomes for each, and stops early only when an outcome *)
(* says so.  SessionService!RunAction is this step; Pipeline is shown to   *)
(* implement it.                                                           *)
(***************************************************************************)
EXTENDS BootstrapOutcomes

CONSTANT Plans      \* the plans a session hands over

VARIABLES
    actions,        \* the plan
    todo,           \* its positions not reached yet
    results,        \* is_success of each entry of action_results
    items,          \* the action results in them
    unverified,     \* a verification of the last pipeline result failed
    invoked         \* positions whose real handler was called

vars == <<actions, todo, results, items, unverified, invoked>>

Init ==
    /\ actions \in Plans
    /\ todo = DOMAIN actions
    /\ results = <<>>
    /\ items = <<>>
    /\ unverified = FALSE
    /\ invoked = {}

Iterate(i, o) ==
    /\ todo' = IF o.goesOn THEN todo \ {i} ELSE {}
    /\ results' = results \o o.results
    /\ items' = items \o o.items
    /\ unverified' = o.unverified
    /\ invoked' = IF o.invoked THEN invoked \cup {i} ELSE invoked
    /\ UNCHANGED actions

Next ==
    \E i \in todo :
        /\ \A j \in todo : i <= j
        /\ \E o \in RealOutcomes(actions[i]) : Iterate(i, o)

Spec == Init /\ [][Next]_vars

=============================================================================
