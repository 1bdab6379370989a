---------------------------- MODULE LLMSettings ----------------------------
(***************************************************************************)
(* LLMSettingsService and LLMSettingsStore: the request threads of the     *)
(* server share one settings file and the result of the last connection    *)
(* test (_last_probe), without a lock.  RuntimeStrategyPlanner and the     *)
(* intent parser factory of ApplicationBackend read the same settings,     *)
(* twice, to choose between an LLM and the deterministic code.             *)
(*                                                                         *)
(* A step makes at most one access to the file or to _last_probe.  Models, *)
(* URLs and keys are model values; "" is the empty string.                 *)
(***************************************************************************)
EXTENDS Naturals

CONSTANTS
    Clients,        \* HTTP request threads
    Models, Urls, Keys,     \* the non-empty strings of these fields
    Environments,   \* values of the AI_BOOTSTRAP_AGENT_* variables
    Payloads,       \* what update and test_connection may be sent
    Absent,         \* there is no settings file
    Corrupt,        \* a file that cannot be parsed: foreign, empty or torn
    Names,          \* what mkstemp may call a temporary file
    NoName,
    MaxRequests,    \* bound: requests issued in a behaviour
    MaxCrashes      \* bound: crashes of the server

SupportedProviders == {"local_server", "remote_api", "in_process", "mock"}
Fields == {"provider", "model", "base_url", "api_key"}

Variables ==
    [provider : SupportedProviders \cup {"other", ""}, model : Models \cup {""},
     base_url : Urls \cup {""}, api_key : Keys \cup {""}]

Settings == {s \in Variables : s.provider # ""}

\* What load() returns: the fields and the stored flag.
Values == [fields : Settings, enabled : BOOLEAN]

ASSUME EnvironmentsAssumption == Environments \subseteq Variables
ASSUME PayloadsAssumption ==
    \A p \in Payloads : /\ DOMAIN p \subseteq Fields
                        /\ \A f \in DOMAIN p : \E s \in Variables : s[f] = p[f]
ASSUME FilesAssumption ==
    Absent # Corrupt /\ {Absent, Corrupt} \cap Values = {} /\ NoName \notin Names
ASSUME BoundsAssumption == MaxRequests \in Nat /\ MaxCrashes \in Nat

VARIABLES
    file,       \* the settings file: its values, or Absent or Corrupt
    temps,      \* the temporary files beside it, by name
    held,       \* the name of the temporary file of each thread, or NoName
    env,        \* the legacy environment variables of the server
    probe,      \* _last_probe
    pc,         \* where each thread is
    local,      \* the values each thread loaded or is about to save
    answer,     \* what the last request of each thread returned
    issued, crashes,
    saves,      \* ghost: how often the file was replaced
    since,      \* ghost: saves when the thread loaded the file, then its own
    unforgotten,    \* ghost: the saves whose update raised before it forgot the probe
    tested      \* ghost: <<fingerprint, outcome>> of every test that ended

vars == <<file, temps, held, env, probe, pc, local, answer, issued, crashes,
          saves, since, unforgotten, tested>>

-----------------------------------------------------------------------------
(* The store and the rules of _normalize_values                            *)

Defaults ==
    [fields |-> [provider |-> "mock", model |-> "", base_url |-> "", api_key |-> ""],
     enabled |-> FALSE]

\* mutant: the legacy variables are not given a default provider
LegacyAsSet(s) ==
    IF \A f \in Fields : s[f] = "" THEN Defaults ELSE [fields |-> s, enabled |-> TRUE]

\* _load_legacy_environment: any variable that is set enables the provider.
Legacy(s) ==
    IF \A f \in Fields : s[f] = "" THEN Defaults
    ELSE [fields |-> [s EXCEPT !.provider = IF @ = "" THEN "mock" ELSE @],
          enabled |-> TRUE]

\* load(): a file that does not parse reads as {}, whose defaults are these.
Loaded ==
    CASE file = Absent -> Legacy(env)
      [] file = Corrupt -> Defaults
      [] OTHER -> file

\* mutant: the cases of in_process and remote_api are missing
EnabledForAnyUrl(s) == s.provider # "mock" /\ (s.model # "" \/ s.base_url # "")

EnabledFor(s) ==
    CASE s.provider = "in_process" -> s.model # ""
      [] s.provider = "remote_api" -> s.api_key # "" /\ s.base_url # ""
      [] OTHER -> s.provider # "mock" /\ (s.model # "" \/ s.base_url # "")

\* mutant: an empty key in the payload clears the stored one
KeepsWhenMissing == {"provider"}

\* An empty key in the payload keeps the stored one, as an empty provider does;
\* an empty model or URL replaces it.
KeepsWhenEmpty == {"provider", "api_key"}

Merged(p, s) ==
    LET merged(f) == IF f \notin DOMAIN p \/ (p[f] = "" /\ f \in KeepsWhenEmpty)
                     THEN s[f] ELSE p[f]
    IN  [provider |-> merged("provider"), model |-> merged("model"),
         base_url |-> merged("base_url"), api_key |-> merged("api_key")]

Normalised(p, v) ==
    LET s == Merged(p, v.fields) IN [fields |-> s, enabled |-> EnabledFor(s)]

Supported(v) == v.fields.provider \in SupportedProviders

\* _fingerprint: whether there is a key, not which.
Fingerprint(v) == [v.fields EXCEPT !.api_key = (@ # "")]

-----------------------------------------------------------------------------
(* Probes and answers                                                      *)

NoProbe == [ok |-> "untested"]
Outcomes == {"ok", "failed"}
Probes ==
    {NoProbe} \cup [ok : Outcomes, fingerprint : {Fingerprint(v) : v \in Values},
                    during : Nat]

\* mutant: the fingerprint is not compared
ConnectionShownAnyway(v) == probe.ok

\* The connection part of get(): the recorded result, if it is about values
\* like these.
ConnectionShown(v) ==
    IF probe # NoProbe /\ probe.fingerprint = Fingerprint(v) THEN probe.ok ELSE "untested"

\* build_provider: the type of the provider built, or the exception raised.
Built(v) ==
    CASE v.fields.provider = "remote_api" /\ v.fields.api_key = "" -> "ProviderConnectionError"
      [] ~Supported(v) -> "ValueError"
      [] OTHER -> v.fields.provider

\* The intent parser factory catches RuntimeError and ValueError only, the
\* strategy planner the provider's exceptions too.
Caught(caller) ==
    IF caller = "intent" THEN {"ValueError"} ELSE {"ValueError", "ProviderConnectionError"}

Callers == {"intent", "strategy"}

Answers ==
    {[kind |-> "none"], [kind |-> "raised"]}
        \cup [kind : {"shown"}, values : Values, connection : Outcomes \cup {"untested"}]
        \cup [kind : {"provider"}, caller : Callers, first : Values, second : Values,
              built : SupportedProviders \cup {"deterministic", "raised"}]

ConfigPC == [intent |-> "config_intent", strategy |-> "config_strategy"]

PCs == {"idle", "get", "save", "dump", "replace", "chmod", "forget", "reload", "network"}
        \cup {ConfigPC[k] : k \in Callers}

-----------------------------------------------------------------------------
Goto(c, label) == pc' = [pc EXCEPT ![c] = label]

Take(c) ==
    /\ pc[c] = "idle"
    /\ issued < MaxRequests
    /\ issued' = issued + 1

Reply(c, a) ==
    /\ answer' = [answer EXCEPT ![c] = a]
    /\ local' = [local EXCEPT ![c] = Defaults]
    /\ Goto(c, "idle")

Keep(c, v, label) ==
    /\ local' = [local EXCEPT ![c] = v]
    /\ answer' = [answer EXCEPT ![c] = [kind |-> "none"]]
    /\ Goto(c, label)

ghosts == <<saves, since, unforgotten, tested>>
world == <<env, crashes, temps, held>>

Init ==
    /\ env \in Environments
    /\ file \in {Absent, Corrupt}
    /\ temps = [n \in Names |-> Absent]
    /\ held = [c \in Clients |-> NoName]
    /\ probe = NoProbe
    /\ pc = [c \in Clients |-> "idle"]
    /\ local = [c \in Clients |-> Defaults]
    /\ answer = [c \in Clients |-> [kind |-> "none"]]
    /\ issued = 0
    /\ crashes = 0
    /\ saves = 0
    /\ since = [c \in Clients |-> 0]
    /\ unforgotten = {}
    /\ tested = {}

-----------------------------------------------------------------------------
(* get: load the file, then read _last_probe                               *)

Get(c) ==
    /\ Take(c)
    /\ Keep(c, Loaded, "get")
    /\ UNCHANGED <<file, probe, world, ghosts>>

GetProbe(c) ==
    /\ pc[c] = "get"
    /\ Reply(c, [kind |-> "shown", values |-> local[c],
                 connection |-> ConnectionShown(local[c])])
    /\ UNCHANGED <<file, probe, issued, world, ghosts>>

-----------------------------------------------------------------------------
(* update: load and merge, save (create a temporary file, write it, rename *)
(* it over the settings file, set its permissions), forget the probe, get  *)

Update(c, p) ==
    /\ Take(c)
    /\ LET v == Normalised(p, Loaded) IN
         IF Supported(v) THEN Keep(c, v, "save") ELSE Reply(c, [kind |-> "raised"])
    /\ since' = [since EXCEPT ![c] = saves]
    /\ UNCHANGED <<file, probe, world, saves, unforgotten, tested>>

\* A new temporary file is empty.
Creates(c, n) ==
    /\ pc[c] = "save"
    /\ temps' = [temps EXCEPT ![n] = Corrupt]
    /\ held' = [held EXCEPT ![c] = n]
    /\ Goto(c, "dump")
    /\ UNCHANGED <<file, env, probe, local, answer, issued, crashes, ghosts>>

\* mutant: every save uses the same temporary name
SharedTemporary(c) == Creates(c, CHOOSE n \in Names : TRUE)

\* mkstemp takes a name that does not exist; that it draws, of all random names,
\* the one a save in progress has just given up is left out.
Mkstemp(c) ==
    \E n \in Names : /\ temps[n] = Absent
                     /\ \A d \in Clients : held[d] # n
                     /\ Creates(c, n)

\* The JSON is complete; until then the file was cut short.
Dump(c) ==
    /\ pc[c] = "dump"
    /\ temps' = [temps EXCEPT ![held[c]] = local[c]]
    /\ Goto(c, "replace")
    /\ UNCHANGED <<file, held, env, probe, local, answer, issued, crashes, ghosts>>

\* Any call up to the replacement may raise OSError; the temporary file is then
\* removed, unless that raises too.
SaveFails(c) ==
    /\ pc[c] \in {"save", "dump", "replace"}
    /\ temps' \in {temps, [n \in Names |-> IF n = held[c] THEN Absent ELSE temps[n]]}
    /\ held' = [held EXCEPT ![c] = NoName]
    /\ Reply(c, [kind |-> "raised"])
    /\ UNCHANGED <<file, env, probe, issued, crashes, ghosts>>

\* os.replace.
Replace(c) ==
    /\ pc[c] = "replace"
    /\ file' = temps[held[c]]
    /\ temps' = [temps EXCEPT ![held[c]] = Absent]
    /\ saves' = saves + 1
    /\ since' = [since EXCEPT ![c] = saves']
    /\ Goto(c, "chmod")
    /\ UNCHANGED <<held, env, probe, local, answer, issued, crashes, unforgotten, tested>>

\* The permissions of the new file; the temporary one is gone.
Chmod(c) ==
    /\ pc[c] = "chmod"
    /\ held' = [held EXCEPT ![c] = NoName]
    /\ Goto(c, "forget")
    /\ UNCHANGED <<file, temps, env, probe, local, answer, issued, crashes, ghosts>>

\* The new settings are in place, and update() raises before it forgets the probe.
ChmodFails(c) ==
    /\ pc[c] = "chmod"
    /\ held' = [held EXCEPT ![c] = NoName]
    /\ unforgotten' = unforgotten \cup {since[c]}
    /\ Reply(c, [kind |-> "raised"])
    /\ UNCHANGED <<file, temps, env, probe, issued, crashes, saves, since, tested>>

\* mutant: update keeps the last probe
ForgetNothing(c) ==
    /\ pc[c] = "forget"
    /\ Goto(c, "reload")
    /\ UNCHANGED <<file, probe, local, answer, issued, world, ghosts>>

Forget(c) ==
    /\ pc[c] = "forget"
    /\ probe' = NoProbe
    /\ Goto(c, "reload")
    /\ UNCHANGED <<file, local, answer, issued, world, ghosts>>

\* The load of the get() that update returns.
Reload(c) ==
    /\ pc[c] = "reload"
    /\ Keep(c, Loaded, "get")
    /\ UNCHANGED <<file, probe, issued, world, ghosts>>

-----------------------------------------------------------------------------
(* test_connection: load and merge, ask the provider, record the result    *)

Test(c, p) ==
    /\ Take(c)
    /\ LET v == Normalised(p, Loaded) IN
         IF /\ Supported(v)
            /\ v.fields.provider \in {"local_server", "remote_api"} => v.fields.base_url # ""
         THEN Keep(c, v, "network") ELSE Reply(c, [kind |-> "raised"])
    /\ UNCHANGED <<file, probe, world, ghosts>>

\* Only servers are asked; the other results follow from the values.
PossibleOutcomes(v) ==
    CASE v.fields.provider = "mock" -> {"failed"}
      [] v.fields.provider = "in_process" -> IF v.fields.model # "" THEN {"ok"} ELSE {"failed"}
      [] OTHER -> Outcomes

Record(c) ==
    /\ pc[c] = "network"
    /\ \E outcome \in PossibleOutcomes(local[c]) :
         /\ probe' = [ok |-> outcome, fingerprint |-> Fingerprint(local[c]), during |-> saves]
         /\ tested' = tested \cup {<<Fingerprint(local[c]), outcome>>}
    /\ Reply(c, [kind |-> "none"])
    /\ UNCHANGED <<file, issued, world, saves, since, unforgotten>>

\* An answer that never comes raises TimeoutError, a malformed URL ValueError;
\* only URLError is caught, and nothing is recorded.
TestRaises(c) ==
    /\ pc[c] = "network"
    /\ local[c].fields.provider \in {"local_server", "remote_api"}
    /\ Reply(c, [kind |-> "raised"])
    /\ UNCHANGED <<file, probe, issued, world, ghosts>>

-----------------------------------------------------------------------------
(* The choice between an LLM and the deterministic code: get(), then       *)
(* provider_config(), which loads the file again                           *)

IsOffline(v) == ~v.enabled \/ v.fields.provider = "mock"

Choose(c, caller) ==
    /\ Take(c)
    /\ IF IsOffline(Loaded)
       THEN Reply(c, [kind |-> "provider", caller |-> caller, first |-> Loaded,
                      second |-> Loaded, built |-> "deterministic"])
       ELSE Keep(c, Loaded, ConfigPC[caller])
    /\ UNCHANGED <<file, probe, world, ghosts>>

BuildProvider(c, caller) ==
    /\ pc[c] = ConfigPC[caller]
    /\ LET b == Built(Loaded) IN
         Reply(c, [kind |-> "provider", caller |-> caller, first |-> local[c],
                   second |-> Loaded,
                   built |-> IF b \in SupportedProviders THEN b
                             ELSE IF b \in Caught(caller) THEN "deterministic" ELSE "raised"])
    /\ UNCHANGED <<file, probe, issued, world, ghosts>>

-----------------------------------------------------------------------------
\* The process dies and is started again with the same environment; temporary
\* files stay behind.
Crash ==
    /\ crashes < MaxCrashes
    /\ crashes' = crashes + 1
    /\ probe' = NoProbe
    /\ pc' = [c \in Clients |-> "idle"]
    /\ local' = [c \in Clients |-> Defaults]
    /\ answer' = [c \in Clients |-> [kind |-> "none"]]
    /\ held' = [c \in Clients |-> NoName]
    /\ UNCHANGED <<file, temps, env, issued, ghosts>>

Step(c) ==
    \/ Get(c) \/ GetProbe(c)
    \/ \E p \in Payloads : Update(c, p) \/ Test(c, p)
    \/ Mkstemp(c) \/ Dump(c) \/ SaveFails(c) \/ Replace(c) \/ Chmod(c) \/ ChmodFails(c)
    \/ Forget(c) \/ Reload(c)
    \/ Record(c) \/ TestRaises(c)
    \/ \E caller \in Callers : Choose(c, caller) \/ BuildProvider(c, caller)

Next == Crash \/ \E c \in Clients : Step(c)

Spec == Init /\ [][Next]_vars

-----------------------------------------------------------------------------
(* Properties                                                              *)

\* Every variable has its type.
TypeOK ==
    /\ file \in Values \cup {Absent, Corrupt}
    /\ temps \in [Names -> Values \cup {Absent, Corrupt}]
    /\ held \in [Clients -> Names \cup {NoName}]
    /\ env \in Environments
    /\ probe \in Probes
    /\ pc \in [Clients -> PCs]
    /\ local \in [Clients -> Values]
    /\ answer \in [Clients -> Answers]
    /\ issued \in 0..MaxRequests /\ crashes \in 0..MaxCrashes
    /\ saves \in Nat /\ since \in [Clients -> Nat] /\ unforgotten \subseteq Nat
    /\ tested \subseteq {Fingerprint(v) : v \in Values} \X Outcomes

\* The settings file only ever becomes the whole of what the update that replaces
\* it has computed, whatever crashed, failed or was saved at the same time: never a
\* file cut short, and never the settings of another thread.
Publishes ==
    file' # file =>
        \E c \in Clients : /\ pc[c] = "replace" /\ pc'[c] = "chmod"
                           /\ file' = local[c]

PublishesWhole == [][Publishes]_vars

\* A connection status that get() shows for some values was the outcome of a test
\* of values with the same fingerprint, whatever was tested and saved meanwhile.
ShownWasTested ==
    \A c \in Clients :
        answer[c].kind = "shown" /\ answer[c].connection # "untested" =>
            <<Fingerprint(answer[c].values), answer[c].connection>> \in tested

\* Once no update is on its way from the replacement to forgetting the probe, a
\* recorded result outlives only saves whose update raised in between (os.chmod): a
\* test that outlives an update may record what it learnt of the old settings, but
\* no result from before an update that returns survives it.
ProbeOutlivesNoUpdate ==
    probe # NoProbe /\ (\A c \in Clients : pc[c] \notin {"chmod", "forget"}) =>
        probe.during + 1 .. saves \subseteq unforgotten

\* A provider that update() saved as enabled can be built: a caller that found it
\* enabled gets a mock provider, an exception or the deterministic code only if
\* the settings changed between its two reads or came from the environment.
EnabledCanBeBuilt ==
    \A c \in Clients :
        LET a == answer[c] IN
        /\ a.kind = "provider" /\ a.first = a.second /\ a.first # Legacy(env)
        /\ a.first.enabled /\ a.first.fields.provider # "mock"
        => a.built = a.first.fields.provider

\* A stored key is only lost to a race: the update that replaces settings with a
\* key by settings without one had loaded the file before the last save.
KeepsKey ==
    \A c \in Clients :
        /\ pc[c] = "replace" /\ pc'[c] = "chmod" /\ since[c] = saves
        /\ Loaded.fields.api_key # ""
        => file'.fields.api_key # ""

KeyLostOnlyByRace == [][KeepsKey]_vars

=============================================================================
