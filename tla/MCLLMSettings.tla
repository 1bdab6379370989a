--------------------------- MODULE MCLLMSettings ---------------------------
(* Two request threads; payloads that switch providers, drop and add keys.  *)
EXTENDS LLMSettings, TLC

CONSTANTS c1, c2, m1, u1, k1, k2, n1, n2

MCClients == {c1, c2}
MCNames == {n1, n2}
Symmetry == Permutations(MCClients) \cup Permutations(MCNames)

Env(provider, model, url, key) ==
    [provider |-> provider, model |-> model, base_url |-> url, api_key |-> key]

\* Nothing configured, a model without provider, a remote API without key, a
\* provider this program does not know.
MCEnvironments ==
    {Env("", "", "", ""), Env("", m1, "", ""), Env("remote_api", "", u1, ""),
     Env("other", m1, "", "")}

MCPayloads ==
    {[provider |-> "remote_api", base_url |-> u1, api_key |-> k1],
     [api_key |-> k2],
     [provider |-> "remote_api", model |-> m1, base_url |-> "", api_key |-> ""],
     [provider |-> "mock", model |-> ""],
     [provider |-> "in_process", model |-> m1]}
=============================================================================
