------------------------- MODULE LLMSettingsProofs -------------------------
(***************************************************************************)
(* Proofs about LLMSettings, for any number of request threads, requests   *)
(* and crashes, and any models, URLs, keys, environments and payloads.     *)
(***************************************************************************)
EXTENDS LLMSettings, TLAPS

-----------------------------------------------------------------------------
(* What is loaded and what is saved                                        *)

\* What update() saves: the flag is computed, the provider is supported.
Sound(v) == v.enabled = EnabledFor(v.fields) /\ Supported(v)

LEMMA DefaultsType == Defaults \in Values
<1>1. [provider |-> "mock", model |-> "", base_url |-> "", api_key |-> ""] \in Variables
  BY DEF Variables, SupportedProviders
<1> QED  BY <1>1 DEF Defaults, Values, Settings

LEMMA VariablesShape ==
    ASSUME NEW s \in Variables
    PROVE  /\ s.provider \in SupportedProviders \cup {"other", ""}
           /\ s.model \in Models \cup {""}
           /\ s.base_url \in Urls \cup {""}
           /\ s.api_key \in Keys \cup {""}
           /\ s = [provider |-> s.provider, model |-> s.model, base_url |-> s.base_url,
                   api_key |-> s.api_key]
BY DEF Variables

LEMMA LegacyType == ASSUME NEW s \in Variables PROVE Legacy(s) \in Values
<1> DEFINE t == [s EXCEPT !.provider = IF @ = "" THEN "mock" ELSE @]
<1>1. t \in Variables /\ t.provider # ""
  BY DEF Variables, SupportedProviders
<1>2. [fields |-> t, enabled |-> TRUE] \in Values
  BY <1>1 DEF Values, Settings
<1> QED  BY <1>2, DefaultsType DEF Legacy

LEMMA LoadedType ==
    ASSUME file \in Values \cup {Absent, Corrupt}, env \in Environments
    PROVE  Loaded \in Values
<1>1. Legacy(env) \in Values
  BY LegacyType, EnvironmentsAssumption
<1> QED  BY <1>1, DefaultsType DEF Loaded

LEMMA MergedType ==
    ASSUME NEW p \in Payloads, NEW s \in Settings
    PROVE  /\ Merged(p, s) \in Settings
           /\ s.api_key # "" => Merged(p, s).api_key # ""
<1> DEFINE m == Merged(p, s)
<1>1. \A f \in DOMAIN p : f \in Fields /\ \E v \in Variables : v[f] = p[f]
  BY PayloadsAssumption
<1>2. s \in Variables /\ s.provider # ""
  BY DEF Settings
<1> DEFINE merged(f) == IF f \notin DOMAIN p \/ (p[f] = "" /\ f \in KeepsWhenEmpty)
                        THEN s[f] ELSE p[f]
<1>3. \A f \in Fields : m[f] = merged(f)
  <2>1. m = [provider |-> merged("provider"), model |-> merged("model"),
             base_url |-> merged("base_url"), api_key |-> merged("api_key")]
    BY DEF Merged
  <2> HIDE DEF m, merged
  <2>2. /\ m["provider"] = merged("provider") /\ m["model"] = merged("model")
        /\ m["base_url"] = merged("base_url") /\ m["api_key"] = merged("api_key")
    BY <2>1
  <2> QED  BY <2>2 DEF Fields
<1>4. \A f \in Fields : m[f] = s[f] \/ \E v \in Variables : m[f] = v[f]
  BY <1>1, <1>3
<1>5. \A f \in Fields : \E v \in Variables : m[f] = v[f]
  BY <1>2, <1>4
<1>6. /\ m.provider \in SupportedProviders \cup {"other", ""}
      /\ m.model \in Models \cup {""}
      /\ m.base_url \in Urls \cup {""}
      /\ m.api_key \in Keys \cup {""}
  BY <1>5, VariablesShape DEF Fields
<1>7. m = [provider |-> m.provider, model |-> m.model, base_url |-> m.base_url, api_key |-> m.api_key]
  BY DEF Merged, Fields
<1>8. m.provider # "" /\ (s.api_key # "" => m.api_key # "")
  BY <1>2, <1>3 DEF Fields, KeepsWhenEmpty
<1> HIDE DEF m
<1>9. m \in Settings
  BY <1>6, <1>7, <1>8 DEF Settings, Variables
<1> QED  BY <1>8, <1>9 DEF m

LEMMA NormalisedType ==
    ASSUME NEW p \in Payloads, NEW v \in Values, Supported(Normalised(p, v))
    PROVE  /\ Normalised(p, v) \in Values
           /\ Sound(Normalised(p, v))
           /\ v.fields.api_key # "" => Normalised(p, v).fields.api_key # ""
<1> DEFINE s == Merged(p, v.fields)
<1>1. s \in Settings /\ (v.fields.api_key # "" => s.api_key # "")
  BY MergedType DEF Values
<1> HIDE DEF s
<1>2. EnabledFor(s) \in BOOLEAN
  BY DEF EnabledFor
<1>3. Normalised(p, v) = [fields |-> s, enabled |-> EnabledFor(s)]
  BY DEF Normalised, s
<1>4. [fields |-> s, enabled |-> EnabledFor(s)] \in Values
  BY <1>1, <1>2 DEF Values
<1>5. Normalised(p, v).fields = s /\ Normalised(p, v).enabled = EnabledFor(s)
  BY <1>2, <1>3
<1>6. Sound(Normalised(p, v))
  BY <1>5, Zenon DEF Sound
<1> QED  BY <1>1, <1>3, <1>4, <1>5, <1>6

-----------------------------------------------------------------------------
(* The inductive invariant                                                 *)

\* What is in the file, or about to be, was computed by _normalize_values.
FileSound == file \notin {Absent, Corrupt} => Sound(file)

Saving(c) == pc[c] \in {"save", "dump", "replace"}

SaveSound == \A c \in Clients : Saving(c) => Sound(local[c])

\* A temporary file is the business of one thread, and complete when it is renamed.
TempsOwned ==
    \A c \in Clients :
        /\ pc[c] \in {"dump", "replace"} => held[c] \in Names
        /\ pc[c] = "replace" => temps[held[c]] = local[c]
        /\ \A d \in Clients \ {c} : held[c] # NoName => held[d] # held[c]

\* A recorded result was the outcome of a test of that fingerprint.
ProbeTested == probe # NoProbe => <<probe.fingerprint, probe.ok>> \in tested

\* A saver that loaded the present file has kept its key.
KeyKept ==
    \A c \in Clients :
        /\ since[c] <= saves
        /\ Saving(c) /\ since[c] = saves /\ Loaded.fields.api_key # "" =>
              local[c].fields.api_key # ""

\* A thread that has replaced the file, and not yet forgotten the probe or raised.
Forgetting(c) == pc[c] \in {"chmod", "forget"}

\* Every save since the recorded test is one whose update has yet to forget it, or
\* raised instead.
ProbeOutlives ==
    probe # NoProbe =>
        \A k \in probe.during + 1 .. saves :
            k \in unforgotten \/ \E c \in Clients : Forgetting(c) /\ since[c] = k

Inv ==
    /\ TypeOK /\ FileSound /\ SaveSound /\ TempsOwned /\ ProbeTested /\ KeyKept
    /\ ShownWasTested /\ ProbeOutlives /\ EnabledCanBeBuilt

-----------------------------------------------------------------------------
(* Types                                                                   *)

LEMMA FingerprintType ==
    ASSUME NEW v \in Values
    PROVE  Fingerprint(v) \in {Fingerprint(w) : w \in Values}
OBVIOUS

\* The three kinds of answers that carry values.
LEMMA AnswerType ==
    /\ [kind |-> "none"] \in Answers /\ [kind |-> "raised"] \in Answers
    /\ \A v \in Values, o \in Outcomes \cup {"untested"} :
          [kind |-> "shown", values |-> v, connection |-> o] \in Answers
    /\ \A k \in Callers, v, w \in Values, b \in SupportedProviders \cup {"deterministic", "raised"} :
          [kind |-> "provider", caller |-> k, first |-> v, second |-> w, built |-> b] \in Answers
BY DEF Answers

LEMMA ReplyType ==
    ASSUME TypeOK, NEW c \in Clients, NEW a \in Answers, Reply(c, a)
    PROVE  pc' \in [Clients -> PCs] /\ local' \in [Clients -> Values] /\ answer' \in [Clients -> Answers]
<1>1. "idle" \in PCs
  BY DEF PCs
<1> QED  BY <1>1, DefaultsType DEF TypeOK, Reply, Goto

LEMMA KeepType ==
    ASSUME TypeOK, NEW c \in Clients, NEW v \in Values, NEW label \in PCs, Keep(c, v, label)
    PROVE  pc' \in [Clients -> PCs] /\ local' \in [Clients -> Values] /\ answer' \in [Clients -> Answers]
BY AnswerType DEF TypeOK, Keep, Goto

LEMMA TakeType ==
    ASSUME TypeOK, NEW c \in Clients, Take(c)
    PROVE  issued' \in 0..MaxRequests
BY BoundsAssumption DEF TypeOK, Take

LEMMA PCsMembers ==
    /\ {"idle", "get", "save", "dump", "replace", "chmod", "forget", "reload", "network"}
          \subseteq PCs
    /\ \A k \in Callers : ConfigPC[k] \in PCs
    /\ \A k \in Callers :
          ConfigPC[k] \notin {"idle", "get", "save", "dump", "replace", "chmod", "forget",
                              "reload", "network"}
BY DEF PCs, Callers, ConfigPC

LEMMA BuiltType ==
    ASSUME NEW v \in Values, NEW k \in Callers, NEW b, b = Built(v)
    PROVE  (IF b \in SupportedProviders THEN b
            ELSE IF b \in Caught(k) THEN "deterministic" ELSE "raised")
           \in SupportedProviders \cup {"deterministic", "raised"}
OBVIOUS

LEMMA ConnectionType ==
    ASSUME TypeOK, NEW v \in Values
    PROVE  ConnectionShown(v) \in Outcomes \cup {"untested"}
BY DEF TypeOK, Probes, ConnectionShown

LEMMA InitInv == Init => Inv
<1> SUFFICES ASSUME Init PROVE Inv
  OBVIOUS
<1>1. TypeOK
  BY DefaultsType, AnswerType, PCsMembers, BoundsAssumption DEF Init, TypeOK, Probes
<1>2. FileSound /\ SaveSound /\ TempsOwned /\ ProbeTested /\ KeyKept
  BY DEF Init, FileSound, SaveSound, Saving, TempsOwned, ProbeTested, KeyKept
<1>3. ShownWasTested /\ ProbeOutlives /\ EnabledCanBeBuilt
  BY DEF Init, ShownWasTested, ProbeOutlives, EnabledCanBeBuilt
<1> QED  BY <1>1, <1>2, <1>3 DEF Inv

LEMMA UpdateType ==
    ASSUME Inv, NEW c \in Clients, NEW p \in Payloads, Update(c, p)
    PROVE  TypeOK'
<1>1. Loaded \in Values
  BY LoadedType DEF Inv, TypeOK
<1> DEFINE v == Normalised(p, Loaded)
<1>2. /\ pc' \in [Clients -> PCs] /\ local' \in [Clients -> Values]
      /\ answer' \in [Clients -> Answers]
  <2>1. CASE Supported(v) /\ Keep(c, v, "save")
    <3>1. v \in Values
      BY <1>1, <2>1, NormalisedType
    <3> HIDE DEF v
    <3> QED  BY <2>1, <3>1, KeepType, PCsMembers DEF Inv
  <2>2. CASE Reply(c, [kind |-> "raised"])
    BY <2>2, ReplyType, AnswerType DEF Inv
  <2> QED  BY <2>1, <2>2 DEF Update
<1>3. issued' \in 0..MaxRequests
  BY TakeType DEF Update, Inv
<1>4. since' \in [Clients -> Nat]
  BY DEF Update, Inv, TypeOK
<1> QED  BY <1>2, <1>3, <1>4 DEF Update, Inv, TypeOK, world

LEMMA TestType ==
    ASSUME Inv, NEW c \in Clients, NEW p \in Payloads, Test(c, p)
    PROVE  TypeOK'
<1>1. Loaded \in Values
  BY LoadedType DEF Inv, TypeOK
<1> DEFINE v == Normalised(p, Loaded)
<1>2. /\ pc' \in [Clients -> PCs] /\ local' \in [Clients -> Values]
      /\ answer' \in [Clients -> Answers]
  <2>1. CASE Supported(v) /\ Keep(c, v, "network")
    <3>1. v \in Values
      BY <1>1, <2>1, NormalisedType
    <3> HIDE DEF v
    <3> QED  BY <2>1, <3>1, KeepType, PCsMembers DEF Inv
  <2>2. CASE Reply(c, [kind |-> "raised"])
    BY <2>2, ReplyType, AnswerType DEF Inv
  <2> QED  BY <2>1, <2>2 DEF Test
<1>3. issued' \in 0..MaxRequests
  BY TakeType DEF Test, Inv
<1> QED  BY <1>2, <1>3 DEF Test, Inv, TypeOK, world, ghosts

LEMMA RecordType ==
    ASSUME Inv, NEW c \in Clients, Record(c)
    PROVE  TypeOK'
<1>1. PICK outcome \in PossibleOutcomes(local[c]) :
         /\ probe' = [ok |-> outcome, fingerprint |-> Fingerprint(local[c]), during |-> saves]
         /\ tested' = tested \cup {<<Fingerprint(local[c]), outcome>>}
  BY DEF Record
<1>2. outcome \in Outcomes
  BY <1>1 DEF PossibleOutcomes, Outcomes
<1>3. Fingerprint(local[c]) \in {Fingerprint(w) : w \in Values}
  BY DEF Inv, TypeOK
<1>4. probe' \in Probes /\ tested' \subseteq {Fingerprint(w) : w \in Values} \X Outcomes
  BY <1>1, <1>2, <1>3 DEF Inv, TypeOK, Probes
<1>5. /\ pc' \in [Clients -> PCs] /\ local' \in [Clients -> Values]
      /\ answer' \in [Clients -> Answers]
  BY ReplyType, AnswerType DEF Record, Inv
<1> QED  BY <1>4, <1>5 DEF Record, Inv, TypeOK, world

\* The requests that only read the file and the probe.
LEMMA ReadType ==
    ASSUME Inv, NEW c \in Clients, NEW k \in Callers,
           Get(c) \/ GetProbe(c) \/ Reload(c) \/ Choose(c, k) \/ BuildProvider(c, k)
    PROVE  TypeOK'
<1>1. Loaded \in Values /\ local[c] \in Values
  BY LoadedType DEF Inv, TypeOK
<1>2. /\ pc' \in [Clients -> PCs] /\ local' \in [Clients -> Values]
      /\ answer' \in [Clients -> Answers]
  <2>1. CASE Get(c) \/ Reload(c)
    BY <1>1, <2>1, KeepType, PCsMembers DEF Get, Reload, Inv
  <2>2. CASE GetProbe(c)
    BY <1>1, <2>2, ReplyType, AnswerType, ConnectionType DEF GetProbe, Inv
  <2>3. CASE Choose(c, k)
    <3>1. CASE Keep(c, Loaded, ConfigPC[k])
      BY <1>1, <3>1, KeepType, PCsMembers DEF Inv
    <3>2. CASE Reply(c, [kind |-> "provider", caller |-> k, first |-> Loaded,
                         second |-> Loaded, built |-> "deterministic"])
      BY <1>1, <3>2, ReplyType, AnswerType DEF Inv
    <3> QED  BY <2>3, <3>1, <3>2 DEF Choose
  <2>4. CASE BuildProvider(c, k)
    BY <1>1, <2>4, ReplyType, AnswerType DEF BuildProvider, Inv
  <2> QED  BY <2>1, <2>2, <2>3, <2>4
<1>3. issued' \in 0..MaxRequests
  BY TakeType DEF Get, GetProbe, Reload, Choose, BuildProvider, Inv, TypeOK
<1> QED
  BY <1>2, <1>3 DEF Get, GetProbe, Reload, Choose, BuildProvider, Inv, TypeOK, world, ghosts

\* The steps of a save, and a test that raises.
LEMMA SaveType ==
    ASSUME Inv, NEW c \in Clients,
           \/ Mkstemp(c) \/ Dump(c) \/ SaveFails(c) \/ Replace(c) \/ Chmod(c) \/ ChmodFails(c)
           \/ Forget(c) \/ TestRaises(c)
    PROVE  TypeOK'
<1>1. CASE SaveFails(c) \/ ChmodFails(c) \/ TestRaises(c)
  <2>1. /\ pc' \in [Clients -> PCs] /\ local' \in [Clients -> Values]
        /\ answer' \in [Clients -> Answers]
    BY <1>1, ReplyType, AnswerType DEF SaveFails, ChmodFails, TestRaises, Inv
  <2>2. /\ temps' \in [Names -> Values \cup {Absent, Corrupt}]
        /\ held' \in [Clients -> Names \cup {NoName}]
    BY <1>1 DEF SaveFails, ChmodFails, TestRaises, Inv, TypeOK, world
  <2>3. unforgotten' \subseteq Nat
    <3>1. unforgotten \subseteq Nat /\ since[c] \in Nat
      BY DEF Inv, TypeOK
    <3>2. unforgotten' \in {unforgotten, unforgotten \cup {since[c]}}
      BY <1>1 DEF SaveFails, ChmodFails, TestRaises, ghosts
    <3> QED  BY <3>1, <3>2
  <2> QED
    BY <1>1, <2>1, <2>2, <2>3
    DEF SaveFails, ChmodFails, TestRaises, Inv, TypeOK, world, ghosts
<1>2. CASE Mkstemp(c)
  <2>1. PICK n \in Names : Creates(c, n)
    BY <1>2 DEF Mkstemp
  <2> QED
    BY <2>1, PCsMembers DEF Creates, Goto, Inv, TypeOK, ghosts
<1>3. CASE Dump(c) \/ Chmod(c) \/ Forget(c)
  <2>1. /\ pc' \in [Clients -> PCs] /\ held' \in [Clients -> Names \cup {NoName}]
    BY <1>3, PCsMembers DEF Dump, Chmod, Forget, Goto, Inv, TypeOK, world
  <2>2. temps' \in [Names -> Values \cup {Absent, Corrupt}] /\ probe' \in Probes
    BY <1>3 DEF Dump, Chmod, Forget, Inv, TypeOK, Probes, world
  <2> QED
    BY <1>3, <2>1, <2>2 DEF Dump, Chmod, Forget, Inv, TypeOK, world, ghosts
<1>4. CASE Replace(c)
  <2>1. held[c] \in Names
    BY <1>4 DEF Replace, Inv, TempsOwned
  <2>2. /\ file' \in Values \cup {Absent, Corrupt}
        /\ temps' \in [Names -> Values \cup {Absent, Corrupt}]
    BY <1>4, <2>1 DEF Replace, Inv, TypeOK
  <2>3. pc' \in [Clients -> PCs]
    BY <1>4, PCsMembers DEF Replace, Goto, Inv, TypeOK
  <2>4. saves' \in Nat /\ since' \in [Clients -> Nat]
    BY <1>4 DEF Replace, Inv, TypeOK
  <2> QED
    BY <1>4, <2>2, <2>3, <2>4 DEF Replace, Inv, TypeOK
<1> QED  BY <1>1, <1>2, <1>3, <1>4

LEMMA CrashType == ASSUME Inv, Crash PROVE TypeOK'
BY DefaultsType, AnswerType, PCsMembers, BoundsAssumption DEF Inv, TypeOK, Crash, Probes, ghosts

LEMMA TypeStep == Inv /\ [Next]_vars => TypeOK'
<1> SUFFICES ASSUME Inv, [Next]_vars PROVE TypeOK'
  OBVIOUS
<1>1. CASE Crash  BY <1>1, CrashType
<1>2. ASSUME NEW c \in Clients, Step(c) PROVE TypeOK'
  <2>1. ASSUME NEW p \in Payloads, Update(c, p) \/ Test(c, p) PROVE TypeOK'
    BY <2>1, UpdateType, TestType
  <2>2. CASE Record(c)  BY <2>2, RecordType
  <2>3. CASE \/ Mkstemp(c) \/ Dump(c) \/ SaveFails(c) \/ Replace(c) \/ Chmod(c) \/ ChmodFails(c)
             \/ Forget(c) \/ TestRaises(c)
    BY <2>3, SaveType
  <2>4. ASSUME NEW k \in Callers,
               Get(c) \/ GetProbe(c) \/ Reload(c) \/ Choose(c, k) \/ BuildProvider(c, k)
        PROVE  TypeOK'
    BY <2>4, ReadType
  <2>5. "intent" \in Callers
    BY DEF Callers
  <2> QED  BY <1>2, <2>1, <2>2, <2>3, <2>4, <2>5 DEF Step
<1>3. CASE UNCHANGED vars
  BY <1>3 DEF Inv, TypeOK, vars
<1> QED  BY <1>1, <1>2, <1>3 DEF Next

-----------------------------------------------------------------------------
(* The file and what is about to be saved                                  *)

\* A thread that ends its request, or goes on to anything but a save.
LEMMA NotSaving ==
    ASSUME TypeOK, NEW c \in Clients, NEW v, NEW label, label \notin {"save", "dump", "replace"},
           pc' = [pc EXCEPT ![c] = label], local' \in {local, [local EXCEPT ![c] = v]}
    PROVE  \A d \in Clients : Saving(d)' => d # c /\ Saving(d) /\ local'[d] = local[d]
BY DEF TypeOK, Saving

\* The steps in which no thread becomes a saver: savers are as they were.
LEMMA SaversOnlyLeave ==
    ASSUME Inv, NEW c \in Clients, NEW k \in Callers,
           \/ Get(c) \/ GetProbe(c) \/ Reload(c) \/ Choose(c, k) \/ BuildProvider(c, k)
           \/ SaveFails(c) \/ Replace(c) \/ Chmod(c) \/ ChmodFails(c) \/ Forget(c)
           \/ TestRaises(c) \/ Record(c) \/ \E p \in Payloads : Test(c, p)
    PROVE  \A d \in Clients : Saving(d)' => Saving(d) /\ local'[d] = local[d]
<1> USE DEF Inv
<1>1. CASE Get(c) \/ Reload(c)
  BY <1>1, NotSaving DEF Get, Reload, Keep, Goto
<1>2. ASSUME NEW a, Reply(c, a) PROVE \A d \in Clients : Saving(d)' => Saving(d) /\ local'[d] = local[d]
  BY <1>2, NotSaving DEF Reply, Goto
<1>3. CASE \/ GetProbe(c) \/ SaveFails(c) \/ ChmodFails(c) \/ TestRaises(c) \/ Record(c)
           \/ BuildProvider(c, k)
  BY <1>2, <1>3 DEF GetProbe, SaveFails, ChmodFails, TestRaises, Record, BuildProvider
<1>4. CASE Choose(c, k)
  <2>1. CASE Keep(c, Loaded, ConfigPC[k])
    <3>1. ConfigPC[k] \notin {"save", "dump", "replace"}
      BY PCsMembers
    <3> QED  BY <2>1, <3>1, NotSaving DEF Keep, Goto
  <2> QED  BY <1>2, <1>4, <2>1 DEF Choose
<1>5. CASE Replace(c) \/ Chmod(c) \/ Forget(c)
  BY <1>5, NotSaving DEF Replace, Chmod, Forget, Goto
<1>6. ASSUME NEW p \in Payloads, Test(c, p)
      PROVE  \A d \in Clients : Saving(d)' => Saving(d) /\ local'[d] = local[d]
  <2>1. CASE Keep(c, Normalised(p, Loaded), "network")
    BY <2>1, NotSaving DEF Keep, Goto
  <2> QED  BY <1>2, <1>6, <2>1 DEF Test
<1> QED  BY <1>1, <1>3, <1>4, <1>5, <1>6

LEMMA SoundStep == Inv /\ [Next]_vars => FileSound' /\ SaveSound'
<1> SUFFICES ASSUME Inv, [Next]_vars PROVE FileSound' /\ SaveSound'
  OBVIOUS
<1>1. CASE Crash
  BY <1>1 DEF Crash, Inv, FileSound, SaveSound, Saving
<1>2. CASE UNCHANGED vars
  BY <1>2 DEF vars, Inv, FileSound, SaveSound, Saving
<1>3. ASSUME NEW c \in Clients, NEW p \in Payloads, Update(c, p) PROVE FileSound' /\ SaveSound'
  <2> DEFINE v == Normalised(p, Loaded)
  <2>1. FileSound'
    BY <1>3 DEF Update, Inv, FileSound
  <2>2. CASE Supported(v) /\ Keep(c, v, "save")
    <3>1. Loaded \in Values
      BY LoadedType DEF Inv, TypeOK
    <3>2. Sound(v)
      BY <2>2, <3>1, NormalisedType
    <3> HIDE DEF v
    <3>3. \A d \in Clients : Saving(d)' => local'[d] = v \/ (Saving(d) /\ local'[d] = local[d])
      BY <2>2 DEF Keep, Goto, Saving, Inv, TypeOK
    <3>4. SaveSound'
      <4> SUFFICES ASSUME NEW d \in Clients, Saving(d)' PROVE Sound(local'[d])
        BY Zenon DEF SaveSound, Sound
      <4>1. CASE local'[d] = v
        BY <3>2, <4>1
      <4>2. CASE Saving(d) /\ local'[d] = local[d]
        BY <4>2 DEF Inv, SaveSound
      <4> QED  BY <3>3, <4>1, <4>2
    <3> QED  BY <2>1, <3>4
  <2>3. CASE Reply(c, [kind |-> "raised"])
    <3>1. \A d \in Clients : Saving(d)' => Saving(d) /\ local'[d] = local[d]
      BY <2>3, NotSaving DEF Reply, Goto, Inv
    <3> QED  BY <2>1, <3>1 DEF Inv, SaveSound, Sound
  <2> QED  BY <1>3, <2>2, <2>3 DEF Update
<1>4. ASSUME NEW c \in Clients, NEW k \in Callers,
             \/ Get(c) \/ GetProbe(c) \/ Reload(c) \/ Choose(c, k) \/ BuildProvider(c, k)
             \/ SaveFails(c) \/ Chmod(c) \/ ChmodFails(c) \/ Forget(c) \/ TestRaises(c)
             \/ Record(c) \/ \E p \in Payloads : Test(c, p)
      PROVE  FileSound' /\ SaveSound'
  <2>1. file' = file
    BY <1>4 DEF Get, GetProbe, Reload, Choose, BuildProvider, SaveFails, Chmod, ChmodFails,
                Forget, TestRaises, Record, Test
  <2>2. \A d \in Clients : Saving(d)' => Saving(d) /\ local'[d] = local[d]
    BY <1>4, SaversOnlyLeave
  <2> QED  BY <2>1, <2>2 DEF Inv, FileSound, SaveSound, Sound
<1>5. ASSUME NEW c \in Clients, Replace(c) PROVE FileSound' /\ SaveSound'
  <2>1. Sound(local[c]) /\ file' = local[c] /\ local' = local
    BY <1>5 DEF Replace, Inv, SaveSound, Saving, TempsOwned
  <2>2. \A d \in Clients : Saving(d)' => Saving(d)
    BY <1>5, NotSaving DEF Replace, Goto, Inv
  <2> QED  BY <2>1, <2>2 DEF Inv, FileSound, SaveSound, Sound
<1>6. ASSUME NEW c \in Clients, Mkstemp(c) \/ Dump(c) PROVE FileSound' /\ SaveSound'
  <2>1. file' = file /\ local' = local
    BY <1>6 DEF Mkstemp, Creates, Dump
  <2>2. \A d \in Clients : Saving(d)' => Saving(d)
    BY <1>6 DEF Mkstemp, Creates, Dump, Goto, Saving, Inv, TypeOK
  <2> QED  BY <2>1, <2>2 DEF Inv, FileSound, SaveSound, Sound
<1>7. ASSUME NEW c \in Clients, Step(c) PROVE FileSound' /\ SaveSound'
  BY <1>3, <1>4, <1>5, <1>6, <1>7 DEF Step, Callers
<1> QED  BY <1>1, <1>2, <1>7 DEF Next

\* A saver's key goes with the file it loaded; a replacement makes every other
\* saver's copy an old one.
LEMMA KeyStep == Inv /\ [Next]_vars => KeyKept'
<1> SUFFICES ASSUME Inv, [Next]_vars PROVE KeyKept'
  OBVIOUS
<1> DEFINE Kept(d) == Saving(d) /\ since[d] = saves /\ Loaded.fields.api_key # "" =>
                        local[d].fields.api_key # ""
<1>0. /\ since \in [Clients -> Nat] /\ saves \in Nat
      /\ \A d \in Clients : since[d] <= saves /\ Kept(d)
  BY DEF Inv, TypeOK, KeyKept
<1>1. ASSUME UNCHANGED <<file, env, saves, since>>,
             \A d \in Clients : Saving(d)' => Saving(d) /\ local'[d] = local[d]
      PROVE  KeyKept'
  BY <1>0, <1>1 DEF KeyKept, Loaded
<1>2. CASE Crash
  BY <1>1, <1>2 DEF Crash, Saving, ghosts
<1>3. CASE UNCHANGED vars
  BY <1>1, <1>3 DEF vars, Saving
<1>4. ASSUME NEW c \in Clients, NEW k \in Callers,
             \/ Get(c) \/ GetProbe(c) \/ Reload(c) \/ Choose(c, k) \/ BuildProvider(c, k)
             \/ SaveFails(c) \/ Chmod(c) \/ ChmodFails(c) \/ Forget(c) \/ TestRaises(c)
             \/ Record(c) \/ \E p \in Payloads : Test(c, p)
      PROVE  KeyKept'
  <2>1. UNCHANGED <<file, env, saves, since>>
    BY <1>4 DEF Get, GetProbe, Reload, Choose, BuildProvider, SaveFails, Chmod, ChmodFails,
                Forget, TestRaises, Record, Test, world, ghosts
  <2>2. \A d \in Clients : Saving(d)' => Saving(d) /\ local'[d] = local[d]
    BY <1>4, SaversOnlyLeave
  <2> QED  BY <1>1, <2>1, <2>2
<1>5. ASSUME NEW c \in Clients, Mkstemp(c) \/ Dump(c) PROVE KeyKept'
  <2>1. UNCHANGED <<file, env, saves, since, local>>
    BY <1>5 DEF Mkstemp, Creates, Dump, ghosts
  <2>2. \A d \in Clients : Saving(d)' => Saving(d)
    BY <1>5 DEF Mkstemp, Creates, Dump, Goto, Saving, Inv, TypeOK
  <2> QED  BY <1>1, <2>1, <2>2
<1>6. ASSUME NEW c \in Clients, Replace(c) PROVE KeyKept'
  <2>1. saves' = saves + 1 /\ since' = [since EXCEPT ![c] = saves + 1]
    BY <1>6 DEF Replace
  <2>2. \A d \in Clients : since[d] \in Nat /\ since[d] <= saves
    BY <1>0
  <2>3. \A d \in Clients : since'[d] <= saves' /\ (d # c => since'[d] # saves')
    <3> HIDE DEF Kept
    <3> QED  BY <1>0, <2>1, <2>2
  <2>4. ~Saving(c)'
    BY <1>6 DEF Replace, Goto, Saving, Inv, TypeOK
  <2> QED  BY <2>3, <2>4 DEF KeyKept
<1>7. ASSUME NEW c \in Clients, NEW p \in Payloads, Update(c, p) PROVE KeyKept'
  <2> DEFINE v == Normalised(p, Loaded)
  <2>1. UNCHANGED <<file, env, saves>> /\ since' = [since EXCEPT ![c] = saves]
    BY <1>7 DEF Update, world
  <2>2. Loaded' = Loaded
    BY <2>1 DEF Loaded
  <2>3. \A d \in Clients : since'[d] <= saves' /\ (d # c => since'[d] = since[d])
    <3>1. since'[c] = saves /\ \A d \in Clients \ {c} : since'[d] = since[d]
      BY <1>0, <2>1
    <3>2. \A d \in Clients : since[d] <= saves
      BY <1>0
    <3> HIDE DEF Kept
    <3> QED  BY <1>0, <2>1, <3>1, <3>2
  <2>4. CASE Supported(v) /\ Keep(c, v, "save")
    <3>1. Loaded \in Values
      BY LoadedType DEF Inv, TypeOK
    <3>2. Loaded.fields.api_key # "" => v.fields.api_key # ""
      BY <2>4, <3>1, NormalisedType
    <3> HIDE DEF v
    <3>3. local'[c] = v /\ \A d \in Clients \ {c} : local'[d] = local[d] /\ (Saving(d)' => Saving(d))
      BY <2>4 DEF Keep, Goto, Saving, Inv, TypeOK
    <3>4. \A d \in Clients : /\ Saving(d)' /\ since'[d] = saves' /\ Loaded'.fields.api_key # ""
                             => local'[d].fields.api_key # ""
      <4> SUFFICES ASSUME NEW d \in Clients, Saving(d)', since'[d] = saves', Loaded.fields.api_key # ""
                   PROVE  local'[d].fields.api_key # ""
        BY <2>2
      <4>1. CASE d = c
        BY <3>2, <3>3, <4>1
      <4>2. CASE d # c
        BY <1>0, <2>1, <2>3, <3>3, <4>2
      <4> QED  BY <4>1, <4>2
    <3> QED  BY <2>3, <3>4 DEF KeyKept
  <2>5. CASE Reply(c, [kind |-> "raised"])
    <3>1. \A d \in Clients : Saving(d)' => d # c /\ Saving(d) /\ local'[d] = local[d]
      BY <2>5, NotSaving DEF Reply, Goto, Inv
    <3> QED  BY <1>0, <2>1, <2>2, <2>3, <3>1 DEF KeyKept
  <2> QED  BY <1>7, <2>4, <2>5 DEF Update
<1>8. ASSUME NEW c \in Clients, Step(c) PROVE KeyKept'
  BY <1>4, <1>5, <1>6, <1>7, <1>8 DEF Step, Callers
<1> QED  BY <1>2, <1>3, <1>8 DEF Next

-----------------------------------------------------------------------------
(* The recorded result of a test                                           *)

LEMMA ProbeStep == Inv /\ [Next]_vars => ProbeTested' /\ tested \subseteq tested'
<1> SUFFICES ASSUME Inv, [Next]_vars PROVE ProbeTested' /\ tested \subseteq tested'
  OBVIOUS
<1>1. ASSUME NEW c \in Clients, Record(c) PROVE ProbeTested' /\ tested \subseteq tested'
  <2>1. PICK outcome \in PossibleOutcomes(local[c]) :
           /\ probe' = [ok |-> outcome, fingerprint |-> Fingerprint(local[c]), during |-> saves]
           /\ tested' = tested \cup {<<Fingerprint(local[c]), outcome>>}
    BY <1>1 DEF Record
  <2>2. probe'.ok = outcome /\ probe'.fingerprint = Fingerprint(local[c])
    BY <2>1
  <2> QED  BY <2>1, <2>2 DEF ProbeTested
<1>2. CASE UNCHANGED <<probe, tested>>
  BY <1>2 DEF Inv, ProbeTested
<1>3. CASE probe' = NoProbe /\ UNCHANGED tested
  BY <1>3 DEF ProbeTested
<1>4. CASE Crash  BY <1>3, <1>4 DEF Crash, ghosts
<1>5. ASSUME NEW c \in Clients, Step(c), ~Record(c) PROVE ProbeTested' /\ tested \subseteq tested'
  BY <1>2, <1>3, <1>5
  DEF Step, Get, GetProbe, Update, Mkstemp, Creates, Dump, SaveFails, Replace, Chmod, ChmodFails,
      Forget, Reload, Test, TestRaises, Choose, BuildProvider, ghosts
<1> QED  BY <1>1, <1>2, <1>4, <1>5 DEF Next, vars

\* A replacement adds a save whose thread has yet to forget the probe; a thread only
\* gives that up by forgetting it or by raising.
LEMMA OutlivesStep == Inv /\ [Next]_vars => ProbeOutlives'
<1> SUFFICES ASSUME Inv, [Next]_vars PROVE ProbeOutlives'
  OBVIOUS
<1>0. /\ pc \in [Clients -> PCs] /\ since \in [Clients -> Nat] /\ saves \in Nat
      /\ probe # NoProbe => probe.during \in Nat
  BY DEF Inv, TypeOK, Probes
<1>1. CASE probe' = NoProbe
  BY <1>1 DEF ProbeOutlives
<1>2. ASSUME UNCHANGED <<probe, saves>>, unforgotten \subseteq unforgotten',
             \A d \in Clients : Forgetting(d) =>
                 \/ Forgetting(d)' /\ since'[d] = since[d]
                 \/ since[d] \in unforgotten'
      PROVE  ProbeOutlives'
  BY <1>2 DEF Inv, ProbeOutlives
<1>3. ASSUME NEW c \in Clients, NEW label, ~Forgetting(c), pc' = [pc EXCEPT ![c] = label],
             UNCHANGED <<probe, saves, unforgotten>>,
             \A d \in Clients \ {c} : since'[d] = since[d]
      PROVE  ProbeOutlives'
  <2>1. \A d \in Clients : Forgetting(d) => Forgetting(d)' /\ since'[d] = since[d]
    BY <1>0, <1>3 DEF Forgetting
  <2> QED  BY <1>2, <1>3, <2>1
<1>4. ASSUME NEW c \in Clients, Record(c) PROVE ProbeOutlives'
  <2>1. probe'.during = saves /\ saves' = saves
    BY <1>4 DEF Record
  <2>2. probe'.during + 1 .. saves' = {}
    BY <1>0, <2>1
  <2> QED  BY <2>2 DEF ProbeOutlives
<1>5. ASSUME NEW c \in Clients, Replace(c) PROVE ProbeOutlives'
  <2>1. /\ saves' = saves + 1 /\ since' = [since EXCEPT ![c] = saves + 1]
        /\ pc[c] = "replace" /\ pc' = [pc EXCEPT ![c] = "chmod"]
        /\ UNCHANGED <<probe, unforgotten>>
    BY <1>5 DEF Replace, Goto
  <2>2. Forgetting(c)' /\ since'[c] = saves'
    BY <1>0, <2>1 DEF Forgetting
  <2>3. \A d \in Clients : Forgetting(d) => Forgetting(d)' /\ since'[d] = since[d]
    BY <1>0, <2>1 DEF Forgetting
  <2> SUFFICES ASSUME probe' # NoProbe, NEW k \in probe.during + 1 .. saves + 1
               PROVE  k \in unforgotten' \/ \E d \in Clients : Forgetting(d)' /\ since'[d] = k
    BY <2>1 DEF ProbeOutlives
  <2>4. CASE k = saves + 1
    BY <2>1, <2>2, <2>4
  <2>5. CASE k # saves + 1
    <3>1. k \in probe.during + 1 .. saves /\ probe # NoProbe
      BY <1>0, <2>1, <2>5
    <3> QED  BY <2>1, <2>3, <3>1 DEF Inv, ProbeOutlives
  <2> QED  BY <2>4, <2>5
<1>6. ASSUME NEW c \in Clients, Forget(c) PROVE ProbeOutlives'
  BY <1>1, <1>6 DEF Forget
<1>7. ASSUME NEW c \in Clients, NEW k \in Callers,
             \/ Get(c) \/ GetProbe(c) \/ Reload(c) \/ Choose(c, k) \/ BuildProvider(c, k)
             \/ Mkstemp(c) \/ Dump(c) \/ SaveFails(c) \/ TestRaises(c)
             \/ \E p \in Payloads : Test(c, p) \/ Update(c, p)
      PROVE  ProbeOutlives'
  <2>1. UNCHANGED <<probe, saves, unforgotten>>
    BY <1>7 DEF Get, GetProbe, Reload, Choose, BuildProvider, Mkstemp, Creates, Dump, SaveFails,
                TestRaises, Test, Update, ghosts
  <2>2. ~Forgetting(c)
    BY <1>7, PCsMembers DEF Forgetting, Get, GetProbe, Reload, Choose, BuildProvider, Mkstemp,
                Creates, Dump, SaveFails, TestRaises, Test, Update, Take
  <2>3. \E label : pc' = [pc EXCEPT ![c] = label]
    BY <1>7 DEF Get, GetProbe, Reload, Choose, BuildProvider, Mkstemp, Creates, Dump, SaveFails,
                TestRaises, Test, Update, Keep, Reply, Goto
  <2>4. \A d \in Clients \ {c} : since'[d] = since[d]
    BY <1>0, <1>7 DEF Get, GetProbe, Reload, Choose, BuildProvider, Mkstemp, Creates, Dump,
                SaveFails, TestRaises, Test, Update, ghosts
  <2> QED  BY <1>3, <2>1, <2>2, <2>3, <2>4
<1>8. ASSUME NEW c \in Clients, Chmod(c) \/ ChmodFails(c) PROVE ProbeOutlives'
  <2>1. UNCHANGED <<probe, saves, since>> /\ unforgotten \subseteq unforgotten'
    BY <1>8 DEF Chmod, ChmodFails, ghosts
  <2>2. \A d \in Clients \ {c} : Forgetting(d) => Forgetting(d)'
    BY <1>0, <1>8 DEF Chmod, ChmodFails, Reply, Goto, Forgetting
  <2>3. Forgetting(c)' \/ since[c] \in unforgotten'
    BY <1>0, <1>8 DEF Chmod, ChmodFails, Goto, Forgetting
  <2> QED  BY <1>2, <2>1, <2>2, <2>3
<1>9. CASE Crash  BY <1>1, <1>9 DEF Crash
<1>10. CASE UNCHANGED vars  BY <1>2, <1>10 DEF vars, Forgetting
<1>11. ASSUME NEW c \in Clients, Step(c) PROVE ProbeOutlives'
  BY <1>4, <1>5, <1>6, <1>7, <1>8, <1>11 DEF Step, Callers
<1> QED  BY <1>9, <1>10, <1>11 DEF Next

-----------------------------------------------------------------------------
(* The temporary files                                                     *)

\* The steps that neither begin, write, rename nor remove a temporary file.
LEMMA TempsElsewhere ==
    ASSUME Inv, NEW c \in Clients, NEW label, label \notin {"dump", "replace"},
           pc' = [pc EXCEPT ![c] = label], UNCHANGED <<temps, held>>,
           \A d \in Clients \ {c} : local'[d] = local[d]
    PROVE  TempsOwned'
<1>1. \A d \in Clients : pc'[d] \in {"dump", "replace"} => d # c /\ pc'[d] = pc[d]
  BY DEF Inv, TypeOK
<1> QED  BY <1>1 DEF Inv, TempsOwned

LEMMA TempsStep == Inv /\ [Next]_vars => TempsOwned'
<1> SUFFICES ASSUME Inv, [Next]_vars PROVE TempsOwned'
  OBVIOUS
<1>0. /\ pc \in [Clients -> PCs] /\ held \in [Clients -> Names \cup {NoName}]
      /\ local \in [Clients -> Values] /\ DOMAIN temps = Names /\ NoName \notin Names
  BY FilesAssumption DEF Inv, TypeOK
<1>1. CASE Crash
  BY <1>1 DEF Crash, TempsOwned
<1>2. CASE UNCHANGED vars
  BY <1>2 DEF vars, Inv, TempsOwned
<1>3. ASSUME NEW c \in Clients, Mkstemp(c) PROVE TempsOwned'
  <2>1. PICK n \in Names : (\A d \in Clients : held[d] # n) /\ Creates(c, n)
    BY <1>3 DEF Mkstemp
  <2>2. /\ pc' = [pc EXCEPT ![c] = "dump"] /\ held' = [held EXCEPT ![c] = n]
        /\ temps' = [temps EXCEPT ![n] = Corrupt] /\ local' = local
    BY <2>1 DEF Creates, Goto
  <2> QED  BY <1>0, <2>1, <2>2 DEF Inv, TempsOwned
<1>4. ASSUME NEW c \in Clients, Dump(c) PROVE TempsOwned'
  <2>1. /\ pc[c] = "dump" /\ pc' = [pc EXCEPT ![c] = "replace"] /\ held' = held
        /\ temps' = [temps EXCEPT ![held[c]] = local[c]] /\ local' = local
    BY <1>4 DEF Dump, Goto
  <2> QED  BY <1>0, <2>1 DEF Inv, TempsOwned
<1>5. ASSUME NEW c \in Clients, SaveFails(c) PROVE TempsOwned'
  <2>1. /\ pc' = [pc EXCEPT ![c] = "idle"] /\ held' = [held EXCEPT ![c] = NoName]
        /\ local' = [local EXCEPT ![c] = Defaults]
        /\ \A n \in Names : n # held[c] => temps'[n] = temps[n]
    BY <1>0, <1>5 DEF SaveFails, Reply, Goto
  <2>2. \A d \in Clients : pc'[d] \in {"dump", "replace"} => d # c /\ pc'[d] = pc[d]
    BY <1>0, <2>1
  <2>3. \A d \in Clients \ {c} : held'[d] = held[d] /\ local'[d] = local[d]
    BY <1>0, <2>1
  <2>4. \A d \in Clients \ {c} : held[d] \in Names => held[d] # held[c]
    BY <1>0 DEF Inv, TempsOwned
  <2> QED  BY <1>0, <2>1, <2>2, <2>3, <2>4 DEF Inv, TempsOwned
<1>6. ASSUME NEW c \in Clients, Replace(c) PROVE TempsOwned'
  <2>1. /\ pc[c] = "replace" /\ pc' = [pc EXCEPT ![c] = "chmod"] /\ held' = held
        /\ temps' = [temps EXCEPT ![held[c]] = Absent] /\ local' = local
    BY <1>6 DEF Replace, Goto
  <2> QED  BY <1>0, <2>1 DEF Inv, TempsOwned
<1>7. ASSUME NEW c \in Clients, Chmod(c) \/ ChmodFails(c) PROVE TempsOwned'
  <2>1. /\ pc' \in {[pc EXCEPT ![c] = "forget"], [pc EXCEPT ![c] = "idle"]}
        /\ held' = [held EXCEPT ![c] = NoName] /\ temps' = temps
        /\ local' \in {local, [local EXCEPT ![c] = Defaults]}
    BY <1>7 DEF Chmod, ChmodFails, Reply, Goto
  <2>2. \A d \in Clients : pc'[d] \in {"dump", "replace"} => d # c /\ pc'[d] = pc[d]
    BY <1>0, <2>1
  <2>3. \A d \in Clients \ {c} : held'[d] = held[d] /\ local'[d] = local[d]
    BY <1>0, <2>1
  <2> QED  BY <1>0, <2>1, <2>2, <2>3 DEF Inv, TempsOwned
<1>8. ASSUME NEW c \in Clients, NEW k \in Callers,
             \/ Get(c) \/ GetProbe(c) \/ Reload(c) \/ Choose(c, k) \/ BuildProvider(c, k)
             \/ Forget(c) \/ TestRaises(c) \/ Record(c)
             \/ \E p \in Payloads : Test(c, p) \/ Update(c, p)
      PROVE  TempsOwned'
  <2>1. UNCHANGED <<temps, held>>
    BY <1>8 DEF Get, GetProbe, Reload, Choose, BuildProvider, Forget, TestRaises, Record, Test,
                Update, world
  <2>2. \E label : label \notin {"dump", "replace"} /\ pc' = [pc EXCEPT ![c] = label]
    BY <1>8, PCsMembers
    DEF Get, GetProbe, Reload, Choose, BuildProvider, Forget, TestRaises, Record, Test, Update,
        Keep, Reply, Goto
  <2>3. \A d \in Clients \ {c} : local'[d] = local[d]
    BY <1>0, <1>8
    DEF Get, GetProbe, Reload, Choose, BuildProvider, Forget, TestRaises, Record, Test, Update,
        Keep, Reply
  <2> QED  BY <2>1, <2>2, <2>3, TempsElsewhere
<1>9. ASSUME NEW c \in Clients, Step(c) PROVE TempsOwned'
  BY <1>3, <1>4, <1>5, <1>6, <1>7, <1>8, <1>9 DEF Step, Callers
<1> QED  BY <1>1, <1>2, <1>9 DEF Next

-----------------------------------------------------------------------------
(* The answers                                                             *)

\* What the three properties about answers ask of one.
ShownOk(a, t) ==
    a.kind = "shown" /\ a.connection # "untested" => <<Fingerprint(a.values), a.connection>> \in t

BuiltOk(a) ==
    /\ a.kind = "provider" /\ a.first = a.second /\ a.first # Legacy(env)
    /\ a.first.enabled /\ a.first.fields.provider # "mock"
    => a.built = a.first.fields.provider

\* Enabled settings that were saved, and not taken from the environment, can be built.
LEMMA SavedBuilds ==
    ASSUME Inv, Loaded # Legacy(env), Loaded.enabled, Loaded.fields.provider # "mock"
    PROVE  Built(Loaded) = Loaded.fields.provider /\ Loaded.fields.provider \in SupportedProviders
<1>1. Loaded = file /\ file \notin {Absent, Corrupt}
  <2>1. file # Absent
    BY FilesAssumption DEF Loaded
  <2>2. file # Corrupt
    BY FilesAssumption DEF Loaded, Defaults
  <2> QED  BY <2>1, <2>2 DEF Loaded
<1>2. EnabledFor(Loaded.fields) /\ Supported(Loaded)
  BY <1>1 DEF Inv, FileSound, Sound
<1>3. Loaded.fields.provider = "remote_api" => Loaded.fields.api_key # ""
  BY <1>2 DEF EnabledFor
<1> QED  BY <1>2, <1>3 DEF Built, Supported

\* Every answer is of a kind without a promise, or keeps it.
LEMMA AnswerStep ==
    ASSUME Inv, [Next]_vars
    PROVE  \A d \in Clients : \/ answer'[d] = answer[d]
                              \/ ShownOk(answer'[d], tested) /\ BuiltOk(answer'[d])
<1> DEFINE Good(d) == answer'[d] = answer[d] \/ (ShownOk(answer'[d], tested) /\ BuiltOk(answer'[d]))
<1>0. answer \in [Clients -> Answers] /\ Loaded \in Values
  BY LoadedType DEF Inv, TypeOK
<1>1. ASSUME NEW c \in Clients, NEW a, answer' = [answer EXCEPT ![c] = a],
             ShownOk(a, tested) /\ BuiltOk(a)
      PROVE  \A d \in Clients : Good(d)
  BY <1>0, <1>1
<1>2. ASSUME NEW c \in Clients, NEW k \in {"none", "raised"}, answer' = [answer EXCEPT ![c] = [kind |-> k]]
      PROVE  \A d \in Clients : Good(d)
  <2>1. ShownOk([kind |-> k], tested) /\ BuiltOk([kind |-> k])
    BY DEF ShownOk, BuiltOk
  <2> HIDE DEF Good
  <2> QED  BY <1>1, <1>2, <2>1
<1>3. CASE UNCHANGED answer
  BY <1>3
<1>4. ASSUME NEW c \in Clients, GetProbe(c) PROVE \A d \in Clients : Good(d)
  <2> DEFINE a == [kind |-> "shown", values |-> local[c], connection |-> ConnectionShown(local[c])]
  <2>1. ShownOk(a, tested) /\ BuiltOk(a)
    BY DEF ShownOk, BuiltOk, ConnectionShown, Inv, ProbeTested
  <2> HIDE DEF a, Good
  <2>2. answer' = [answer EXCEPT ![c] = a]
    BY <1>4 DEF GetProbe, Reply, a
  <2> QED  BY <1>1, <2>1, <2>2
<1>5. ASSUME NEW c \in Clients, NEW k \in Callers, Choose(c, k) PROVE \A d \in Clients : Good(d)
  <2> DEFINE a == [kind |-> "provider", caller |-> k, first |-> Loaded, second |-> Loaded,
                   built |-> "deterministic"]
  <2>1. CASE IsOffline(Loaded)
    <3>1. ShownOk(a, tested) /\ BuiltOk(a)
      BY <2>1 DEF ShownOk, BuiltOk, IsOffline
    <3>2. answer' = [answer EXCEPT ![c] = a]
      BY <1>5, <2>1 DEF Choose, Reply
    <3> HIDE DEF a, Good
    <3> QED  BY <1>1, <3>1, <3>2
  <2>2. CASE ~IsOffline(Loaded)
    <3> HIDE DEF Good
    <3> QED  BY <1>2, <1>5, <2>2 DEF Choose, Keep
  <2> QED  BY <2>1, <2>2
<1>6. ASSUME NEW c \in Clients, NEW k \in Callers, BuildProvider(c, k) PROVE \A d \in Clients : Good(d)
  <2> DEFINE b == Built(Loaded)
             built == IF b \in SupportedProviders THEN b
                      ELSE IF b \in Caught(k) THEN "deterministic" ELSE "raised"
             a == [kind |-> "provider", caller |-> k, first |-> local[c], second |-> Loaded,
                   built |-> built]
  <2>1. Loaded # Legacy(env) /\ Loaded.enabled /\ Loaded.fields.provider # "mock" =>
           built = Loaded.fields.provider
    BY SavedBuilds
  <2>2. answer' = [answer EXCEPT ![c] = a]
    BY <1>6 DEF BuildProvider, Reply
  <2> HIDE DEF built
  <2>3. ShownOk(a, tested) /\ BuiltOk(a)
    BY <2>1 DEF ShownOk, BuiltOk
  <2> HIDE DEF a, Good
  <2> QED  BY <1>1, <2>2, <2>3
<1> HIDE DEF Good
<1>7. ASSUME NEW c \in Clients,
             \/ Get(c) \/ Reload(c) \/ SaveFails(c) \/ ChmodFails(c) \/ TestRaises(c) \/ Record(c)
             \/ \E p \in Payloads : Test(c, p) \/ Update(c, p)
      PROVE  \A d \in Clients : Good(d)
  <2>1. \E k \in {"none", "raised"} : answer' = [answer EXCEPT ![c] = [kind |-> k]]
    BY <1>7 DEF Get, Reload, SaveFails, ChmodFails, TestRaises, Record, Test, Update, Keep, Reply
  <2> QED  BY <1>2, <2>1
<1>8. ASSUME NEW c \in Clients,
             Mkstemp(c) \/ Dump(c) \/ Replace(c) \/ Chmod(c) \/ Forget(c)
      PROVE  \A d \in Clients : Good(d)
  <2>1. answer' = answer
    BY <1>8 DEF Mkstemp, Creates, Dump, Replace, Chmod, Forget
  <2> QED  BY <1>3, <2>1 DEF Good
<1>9. CASE Crash
  <2>1. \A d \in Clients : answer'[d] = [kind |-> "none"]
    BY <1>9 DEF Crash
  <2>2. ShownOk([kind |-> "none"], tested) /\ BuiltOk([kind |-> "none"])
    BY DEF ShownOk, BuiltOk
  <2> QED  BY <2>1, <2>2 DEF Good
<1>10. CASE UNCHANGED vars
  BY <1>3, <1>10 DEF vars
<1>11. ASSUME NEW c \in Clients, Step(c) PROVE \A d \in Clients : Good(d)
  BY <1>4, <1>5, <1>6, <1>7, <1>8, <1>11 DEF Step
<1>12. \A d \in Clients : Good(d)
  <2>1. Crash \/ (\E c \in Clients : Step(c)) \/ UNCHANGED vars
    BY DEF Next
  <2> QED  BY <1>9, <1>10, <1>11, <2>1 DEF Good
<1> QED  BY <1>12 DEF Good

LEMMA AnswersStep == Inv /\ [Next]_vars => ShownWasTested' /\ EnabledCanBeBuilt'
<1> SUFFICES ASSUME Inv, [Next]_vars, NEW d \in Clients
             PROVE  (ShownOk(answer[d], tested) /\ BuiltOk(answer[d]))'
  BY DEF ShownWasTested, EnabledCanBeBuilt, ShownOk, BuiltOk
<1>1. tested \subseteq tested'
  BY ProbeStep
<1>2. env' = env
  BY DEF Next, Step, Crash, Get, GetProbe, Update, Mkstemp, Creates, Dump, SaveFails, Replace, Chmod, ChmodFails, Forget,
         Reload, Test, Record, TestRaises, Choose, BuildProvider, world, vars
<1>3. ShownOk(answer[d], tested) /\ BuiltOk(answer[d])
  BY DEF Inv, ShownWasTested, EnabledCanBeBuilt, ShownOk, BuiltOk
<1>4. ShownOk(answer'[d], tested) /\ BuiltOk(answer'[d])
  BY <1>3, AnswerStep
<1> QED  BY <1>1, <1>2, <1>4 DEF ShownOk, BuiltOk, Legacy, Defaults

-----------------------------------------------------------------------------
(* The theorems                                                            *)

LEMMA Invariance == Spec => []Inv
<1>1. Inv /\ [Next]_vars => Inv'
  BY TypeStep, SoundStep, TempsStep, KeyStep, ProbeStep, OutlivesStep, AnswersStep DEF Inv
<1> QED  BY <1>1, InitInv, PTL DEF Spec

\* Types of the file, the probe and the threads' copies.
THEOREM TypeCorrect == Spec => []TypeOK
<1>1. Inv => TypeOK
  BY DEF Inv
<1> QED  BY <1>1, Invariance, PTL

\* A connection status that get() shows was the outcome of a test of settings with
\* the fingerprint of those shown.
THEOREM StatusWasTested == Spec => []ShownWasTested
<1>1. Inv => ShownWasTested
  BY DEF Inv
<1> QED  BY <1>1, Invariance, PTL

\* No result recorded before an update that returns survives it.
THEOREM UpdateForgets == Spec => []ProbeOutlivesNoUpdate
<1>1. Inv => ProbeOutlivesNoUpdate
  BY DEF Inv, ProbeOutlives, ProbeOutlivesNoUpdate, Forgetting
<1> QED  BY <1>1, Invariance, PTL

\* A provider that update() saved as enabled can be built.
THEOREM EnabledBuilds == Spec => []EnabledCanBeBuilt
<1>1. Inv => EnabledCanBeBuilt
  BY DEF Inv
<1> QED  BY <1>1, Invariance, PTL

\* What a save publishes is all of what its own update computed: the temporary file
\* is no other thread's, and complete.
THEOREM SavesWhole == Spec => PublishesWhole
<1>1. Inv /\ [Next]_vars => [Publishes]_vars
  <2> SUFFICES ASSUME Inv, Next, file' # file
               PROVE  \E c \in Clients : /\ pc[c] = "replace" /\ pc'[c] = "chmod"
                                         /\ file' = local[c]
    BY DEF Publishes
  <2>1. ASSUME NEW c \in Clients, Step(c) PROVE Replace(c)
    BY <2>1 DEF Step, Get, GetProbe, Update, Mkstemp, Creates, Dump, SaveFails, Chmod, ChmodFails,
                Forget, Reload, Test, Record, TestRaises, Choose, BuildProvider
  <2>2. ~Crash
    BY DEF Crash
  <2>3. PICK c \in Clients : Replace(c)
    BY <2>1, <2>2 DEF Next
  <2>4. file' = local[c]
    BY <2>3 DEF Replace, Inv, TempsOwned
  <2>5. pc[c] = "replace" /\ pc'[c] = "chmod"
    BY <2>3 DEF Replace, Goto, Inv, TypeOK
  <2> QED  BY <2>4, <2>5
<1> QED  BY <1>1, Invariance, PTL DEF Spec, PublishesWhole

\* Only an update that loaded an older file replaces settings with a key by
\* settings without one.
THEOREM KeySurvives == Spec => KeyLostOnlyByRace
<1>1. Inv /\ [Next]_vars => [KeepsKey]_vars
  <2> SUFFICES ASSUME Inv, Next, NEW c \in Clients, pc[c] = "replace", pc'[c] = "chmod",
                      since[c] = saves, Loaded.fields.api_key # ""
               PROVE  file'.fields.api_key # ""
    BY DEF KeepsKey
  <2>1. local[c].fields.api_key # ""
    BY DEF Inv, KeyKept, Saving
  <2>2. ASSUME NEW d \in Clients, Step(d) PROVE d = c /\ Replace(c)
    <3>1. pc \in [Clients -> PCs]
      BY DEF Inv, TypeOK
    <3>2. d = c
      <4>1. \E label : pc' = [pc EXCEPT ![d] = label]
        BY <2>2 DEF Step, Get, GetProbe, Update, Mkstemp, Creates, Dump, SaveFails, Replace, Chmod, ChmodFails, Forget, Reload,
                    Test, Record, TestRaises, Choose, BuildProvider, Keep, Reply, Goto
      <4> QED  BY <3>1, <4>1
    <3>3. pc'[d] # "chmod" \/ Replace(d)
      BY <2>2, <3>1, <3>2, PCsMembers
      DEF Step, Get, GetProbe, Update, Mkstemp, Creates, Dump, SaveFails, Chmod, ChmodFails, Forget, Reload,
          Test, Record, TestRaises, Choose, BuildProvider, Keep, Reply, Goto, Take
    <3> QED  BY <3>2, <3>3
  <2>3. ~Crash
    BY DEF Crash
  <2>4. temps[held[c]] = local[c]
    BY DEF Inv, TempsOwned
  <2> QED  BY <2>1, <2>2, <2>3, <2>4 DEF Next, Replace
<1> QED  BY <1>1, Invariance, PTL DEF Spec, KeyLostOnlyByRace

=============================================================================
