------------------------ MODULE FailureClassification ------------------------
(***************************************************************************)
(* RetryPolicy.classify_failure: the class of a failed result is read off  *)
(* the words of its message.  A message is the set of the trigger words    *)
(* that occur in it, which is all that the classification looks at.        *)
(***************************************************************************)
EXTENDS Naturals, FiniteSets

\* "timed out" is what subprocess.TimeoutExpired and TimeoutError say; no rule
\* knows it.
Words ==
    {"policy", "denied", "not supported", "unknown", "no real handler", "unavailable",
     "verification", "timeout", "transient", "timed out"}

\* The rules, in the order in which they are tried.
Rules ==
    <<[words |-> {"policy", "denied"}, type |-> "policy_denied"],
      [words |-> {"not supported", "unknown"}, type |-> "unknown_action"],
      [words |-> {"no real handler", "unavailable"}, type |-> "handler_unavailable"],
      [words |-> {"verification"}, type |-> "verification_failed"],
      [words |-> {"timeout", "transient"}, type |-> "transient"]>>

\* FailureType of a FAILED result with these words in its message.
FailureType(words) ==
    LET hit(i) == Rules[i].words \cap words # {}
        first == {i \in DOMAIN Rules : hit(i) /\ \A j \in DOMAIN Rules : hit(j) => i <= j}
    IN  IF first = {} THEN "permanent" ELSE Rules[CHOOSE i \in first : TRUE].type

\* mutant: a command that timed out is taken for a transient failure
RetryableWhenTimedOut(words) ==
    FailureType(words) = "transient" \/ "timed out" \in words

\* FailureRecord.is_retryable
Retryable(words) == FailureType(words) = "transient"

\* FailureRecord.requires_replan, without the handler's own hint
Replans(words) ==
    FailureType(words) \in {"unknown_action", "handler_unavailable", "verification_failed"}

=============================================================================
