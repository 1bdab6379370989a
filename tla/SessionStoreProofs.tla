------------------------- MODULE SessionStoreProofs -------------------------
(***************************************************************************)
(* Proofs about SessionStore, for any identifiers and any number of        *)
(* events, operations and crashes.                                         *)
(***************************************************************************)
EXTENDS SessionStore, TLAPS

-----------------------------------------------------------------------------
(* Where an operation is                                                   *)

Kinds == {"create", "update", "delete"}

\* The next step of an operation of this kind is its n-th.
Doing(kind, n) == job.kind = kind /\ job.at = n

LEMMA StepsTable ==
    /\ Len(Steps["create"]) = 5 /\ Len(Steps["update"]) = 2 /\ Len(Steps["delete"]) = 4
    /\ DOMAIN Steps["create"] = 1..5 /\ DOMAIN Steps["update"] = 1..2 /\ DOMAIN Steps["delete"] = 1..4
    /\ Steps["create"][1] = "truncate" /\ Steps["create"][2] = "write" /\ Steps["create"][3] = "enter"
    /\ Steps["create"][4] = "clear_index" /\ Steps["create"][5] = "save_index"
    /\ Steps["update"][1] = "truncate" /\ Steps["update"][2] = "write"
    /\ Steps["delete"][1] = "unlink" /\ Steps["delete"][2] = "drop"
    /\ Steps["delete"][3] = "clear_index" /\ Steps["delete"][4] = "save_index"
BY DEF Steps

LEMMA JobType ==
    ASSUME TypeOK
    PROVE  /\ job.kind \in Kinds \cup {"idle"}
           /\ job.at \in Nat
           /\ job.kind = "idle" => job = Idle
           /\ job.kind = "create" => job.id \in Ids /\ job.object \in Objects /\ job.at \in 1..6
           /\ job.kind = "update" => job.id \in Ids /\ job.object \in Objects /\ job.at \in 1..3
           /\ job.kind = "delete" => job.id \in Ids /\ job.object = None /\ job.at \in 1..5
<1>1. CASE job = Idle
  BY <1>1 DEF Idle
<1>2. ASSUME NEW kind \in Kinds, job \in Jobs(kind)
      PROVE  /\ job.kind = kind /\ job.id \in Ids
             /\ kind = "delete" => job.object = None
             /\ kind # "delete" => job.object \in Objects
             /\ job.at \in 1..Len(Steps[kind]) + 1
  BY <1>2 DEF Jobs
<1>3. ASSUME NEW kind \in Kinds, job \in Jobs(kind)
      PROVE  /\ kind = "create" => job.at \in 1..6
             /\ kind = "update" => job.at \in 1..3
             /\ kind = "delete" => job.at \in 1..5
  <2>1. job.at \in 1..Len(Steps[kind]) + 1
    BY <1>2, <1>3
  <2>2. CASE kind = "create"
    BY <2>1, <2>2, StepsTable
  <2>3. CASE kind = "update"
    BY <2>1, <2>3, StepsTable
  <2>4. CASE kind = "delete"
    BY <2>1, <2>4, StepsTable
  <2> QED  BY <2>2, <2>3, <2>4
<1>4. CASE job # Idle
  <2>1. PICK kind \in Kinds : job \in Jobs(kind)
    BY <1>4 DEF TypeOK, Kinds
  <2>2. job.kind = kind /\ job.at \in Nat
    BY <1>2, <1>3, <2>1 DEF Kinds
  <2> QED  BY <1>2, <1>3, <2>1, <2>2 DEF Kinds
<1> QED  BY <1>1, <1>4

\* The steps, by the place of the operation.
LEMMA Places ==
    ASSUME TypeOK
    PROVE  /\ At("truncate") => Doing("create", 1) \/ Doing("update", 1)
           /\ At("write") => Doing("create", 2) \/ Doing("update", 2)
           /\ At("enter") => Doing("create", 3)
           /\ At("clear_index") => Doing("create", 4) \/ Doing("delete", 3)
           /\ At("save_index") => Doing("create", 5) \/ Doing("delete", 4)
           /\ At("unlink") => Doing("delete", 1)
           /\ At("drop") => Doing("delete", 2)
           /\ job.kind # "idle" /\ job.at = Len(Steps[job.kind]) + 1 =>
                 Doing("create", 6) \/ Doing("update", 3) \/ Doing("delete", 5)
<1>1. CASE job.kind = "create"
  <2>1. job.at \in 1..6
    BY <1>1, JobType
  <2>2. job.at = 1 \/ job.at = 2 \/ job.at = 3 \/ job.at = 4 \/ job.at = 5 \/ job.at = 6
    BY <2>1
  <2> QED  BY <1>1, <2>2, StepsTable DEF At, Doing
<1>2. CASE job.kind = "update"
  <2>1. job.at \in 1..3
    BY <1>2, JobType
  <2>2. job.at = 1 \/ job.at = 2 \/ job.at = 3
    BY <2>1
  <2> QED  BY <1>2, <2>2, StepsTable DEF At, Doing
<1>3. CASE job.kind = "delete"
  <2>1. job.at \in 1..5
    BY <1>3, JobType
  <2>2. job.at = 1 \/ job.at = 2 \/ job.at = 3 \/ job.at = 4 \/ job.at = 5
    BY <2>1
  <2> QED  BY <1>3, <2>2, StepsTable DEF At, Doing
<1>4. CASE job.kind = "idle"
  BY <1>4 DEF At
<1> QED  BY <1>1, <1>2, <1>3, <1>4, JobType DEF Kinds

LEMMA AdvanceShape ==
    ASSUME TypeOK, NEW kind \in Kinds, NEW n \in Nat, Doing(kind, n), n <= Len(Steps[kind]), Advance
    PROVE  /\ job' = Idle \/ \E k \in Kinds : job' \in Jobs(k)
           /\ job'.kind = kind /\ job'.at = n + 1 /\ job'.id = job.id /\ job'.object = job.object
<1>1. job \in Jobs(kind)
  <2>1. job # Idle
    BY DEF Doing, Idle, Kinds
  <2>2. PICK k \in Kinds : job \in Jobs(k)
    BY <2>1 DEF TypeOK, Kinds
  <2>3. k = kind
    BY <2>2 DEF Jobs, Doing
  <2> QED  BY <2>2, <2>3
<1>2. Len(Steps[kind]) \in Nat
  BY StepsTable DEF Kinds
<1>3. job' \in Jobs(kind) /\ job'.kind = kind /\ job'.at = n + 1 /\ job'.id = job.id /\ job'.object = job.object
  BY <1>1, <1>2 DEF Jobs, Advance, Doing
<1> QED  BY <1>3

-----------------------------------------------------------------------------
(* The inductive invariant                                                 *)

\* The steps between which an operation has a session's file in its hands.
Rewriting == Doing("create", 2) \/ Doing("update", 2)

Rewritten == job.kind \in {"create", "update"} /\ job.at >= 3

Removing == job.kind = "delete" /\ job.at >= 2

\* The sessions that the index on disk names.
Named == IF index = None THEN {} ELSE index

\* Memory and index agree, but for what a create or a delete has not written to the
\* index; a create that rewrites the file of a session cut off enters it next.
IndexFollows ==
    /\ up /\ index # Torn =>
          /\ known \ Named \subseteq unindexed
          /\ Named \ known \subseteq cut \cup (IF Doing("create", 3) THEN {job.id} ELSE {})
    /\ Doing("create", 6) \/ Doing("delete", 5) => index = known

\* The ghosts about the session of the operation in progress.
JobFollows ==
    /\ Rewriting \/ Rewritten => acked[job.id] = None /\ job.id \notin deleted
    /\ Rewritten => files[job.id] = Saved(job.object) /\ job.id \in written
    /\ Removing => acked[job.id] = None /\ files[job.id] = None /\ job.id \in cut
    /\ job.kind = "delete" /\ job.at >= 3 => job.id \notin known
    /\ job.kind = "create" /\ job.at >= 4 => job.id \in known
    /\ job.kind = "update" => job.id \in known

\* What memory knows was written and not deleted, and all that was acknowledged is
\* known, but for what an update saved after its create failed on the index.
KnownFollows ==
    /\ known \subseteq written
    /\ known \cap deleted = {}
    /\ up => \A id \in Ids : acked[id] # None => id \in known \cup unindexed

\* What memory or the index names has a file, or a delete was cut off.
FilesFollow ==
    /\ \A id \in known : files[id] # None \/ id \in cut
    /\ index # Torn => \A id \in Named : files[id] # None \/ id \in cut
    /\ ~up => known = {} /\ job = Idle

Inv ==
    /\ TypeOK /\ IndexFollows /\ JobFollows /\ KnownFollows /\ FilesFollow
    /\ AcknowledgedSurvives /\ DeletedStaysDeleted /\ IndexNamesWritten

-----------------------------------------------------------------------------
(* Operations begin and end                                                *)

LEMMA ContentsFacts ==
    /\ None \notin Contents /\ Torn \notin Contents /\ None # Torn
    /\ None \notin Objects
    /\ \A o \in Objects : Saved(o) \in Contents
    /\ \A c \in Contents : Reloaded(c) \in Objects
<1>1. \A o \in Objects : Saved(o) \in Contents
  BY DEF Objects, Contents, Saved
<1>2. \A c \in Contents : Reloaded(c) \in Objects
  BY DEF Objects, Contents, Reloaded
<1> QED  BY <1>1, <1>2, MarksAssumption

LEMMA InitInv == Init => Inv
<1> SUFFICES ASSUME Init PROVE Inv
  OBVIOUS
<1>1. TypeOK
  BY BoundsAssumption DEF Init, TypeOK
<1>2. job.kind = "idle" /\ job.at = 1
  BY DEF Init, Idle
<1>3. IndexFollows /\ JobFollows /\ KnownFollows /\ FilesFollow
  BY <1>2 DEF Init, IndexFollows, Named, JobFollows, KnownFollows, FilesFollow, Rewriting, Rewritten,
              Removing, Doing
<1>4. AcknowledgedSurvives /\ DeletedStaysDeleted /\ IndexNamesWritten
  BY <1>2 DEF Init, AcknowledgedSurvives, DeletedStaysDeleted, IndexNamesWritten
<1> QED  BY <1>1, <1>3, <1>4 DEF Inv

\* The program changes the sessions it holds, and nothing of the store.
LEMMA HeldStep ==
    ASSUME Inv, held' \in [Ids -> Objects \cup {None}],
           UNCHANGED <<disk, known, up, job, bounds, ghosts>>
    PROVE  Inv'
<1>1. /\ files' = files /\ index' = index /\ known' = known /\ up' = up /\ job' = job
      /\ issued' = issued /\ crashes' = crashes
      /\ written' = written /\ acked' = acked /\ deleted' = deleted
      /\ cut' = cut /\ unindexed' = unindexed
  BY DEF disk, bounds, ghosts
<1>2. TypeOK'
  BY <1>1 DEF Inv, TypeOK
<1>3. IndexFollows' /\ JobFollows'
  BY <1>1 DEF Inv, IndexFollows, Named, JobFollows, Doing, Rewriting, Rewritten, Removing
<1>4. KnownFollows' /\ FilesFollow'
  BY <1>1 DEF Inv, KnownFollows, FilesFollow, Named, Doing
<1>5. AcknowledgedSurvives' /\ DeletedStaysDeleted' /\ IndexNamesWritten'
  BY <1>1 DEF Inv, AcknowledgedSurvives, DeletedStaysDeleted, IndexNamesWritten, InIndex
<1> QED  BY <1>2, <1>3, <1>4, <1>5 DEF Inv

LEMMA ProgramStep ==
    ASSUME Inv, NEW id \in Ids, New(id) \/ AddEvent(id) \/ Decide(id) \/ Get(id)
    PROVE  Inv'
<1>0. held \in [Ids -> Objects \cup {None}]
  BY DEF Inv, TypeOK
<1>1. CASE New(id)
  <2>1. held' \in [Ids -> Objects \cup {None}]
    BY <1>0, <1>1 DEF New
  <2> QED  BY <1>1, <2>1, HeldStep DEF New
<1>2. CASE AddEvent(id)
  <2>1. held[id] \in Objects
    BY <1>0, <1>2 DEF AddEvent
  <2>2. [held[id] EXCEPT !.events = @ + 1] \in Objects
    BY <1>2, <2>1, BoundsAssumption DEF Objects, AddEvent
  <2>3. held' = [held EXCEPT ![id] = [held[id] EXCEPT !.events = @ + 1]]
    BY <1>0, <1>2 DEF AddEvent
  <2> HIDE DEF AddEvent
  <2>4. held' \in [Ids -> Objects \cup {None}]
    BY <1>0, <2>2, <2>3
  <2> QED  BY <1>2, <2>4, HeldStep DEF AddEvent
<1>3. CASE Get(id)
  <2>1. Reloaded(files[id]) \in Objects
    BY <1>3, ContentsFacts DEF Get, Readable
  <2>2. held' \in [Ids -> Objects \cup {None}]
    BY <1>0, <1>3, <2>1 DEF Get
  <2> QED  BY <1>3, <2>2, HeldStep DEF Get
<1>4. CASE Decide(id)
  <2>1. held[id] \in Objects
    BY <1>0, <1>4 DEF Decide
  <2>2. PICK textual \in {held[id].textual, held[id].textual \ {"decisions"}} :
          held' = [held EXCEPT ![id] = [held[id] EXCEPT !.decided = TRUE, !.textual = textual]]
    BY <1>0, <1>4 DEF Decide
  <2>3. [held[id] EXCEPT !.decided = TRUE, !.textual = textual] \in Objects
    BY <2>1 DEF Objects
  <2>4. held' \in [Ids -> Objects \cup {None}]
    BY <1>0, <2>2, <2>3
  <2> QED  BY <1>4, <2>4, HeldStep DEF Decide
<1> QED  BY <1>1, <1>2, <1>3, <1>4

LEMMA BeginStep ==
    ASSUME Inv, NEW kind \in Kinds, NEW id \in Ids, NEW o, Begin(kind, id, o),
           kind = "delete" => o = None, kind # "delete" => o \in Objects,
           kind = "update" => id \in known
    PROVE  Inv'
<1>1. /\ files' = files /\ index' = index /\ known' = known /\ up' = up /\ held' = held
      /\ crashes' = crashes /\ written' = written /\ acked' = acked /\ deleted' = deleted
      /\ cut' = cut /\ unindexed' = unindexed
      /\ up /\ job.kind = "idle"
  BY DEF Begin, IsIdle, disk, ghosts
<1>2. job'.kind = kind /\ job'.at = 1 /\ job'.id = id
  BY DEF Begin
<1>3. TypeOK'
  <2>1. job' \in Jobs(kind)
    <3>1. 1 \in 1..Len(Steps[kind]) + 1
      BY StepsTable DEF Kinds
    <3> QED  BY <3>1 DEF Begin, Jobs
  <2>2. issued' \in 0..MaxRequests
    BY BoundsAssumption DEF Begin, Inv, TypeOK
  <2> QED  BY <1>1, <2>1, <2>2 DEF Inv, TypeOK, Kinds
<1>4. IndexFollows'
  BY <1>1, <1>2 DEF Inv, IndexFollows, Named, Doing
<1>5. JobFollows'
  BY <1>1, <1>2 DEF Inv, JobFollows, Doing, Rewriting, Rewritten, Removing
<1>6. KnownFollows' /\ FilesFollow'
  BY <1>1, <1>2 DEF Inv, KnownFollows, FilesFollow, Named, Doing
<1>7. AcknowledgedSurvives' /\ DeletedStaysDeleted' /\ IndexNamesWritten'
  BY <1>1 DEF Inv, AcknowledgedSurvives, DeletedStaysDeleted, IndexNamesWritten, InIndex
<1> QED  BY <1>3, <1>4, <1>5, <1>6, <1>7 DEF Inv

LEMMA OperationStep == ASSUME Inv, NEW id \in Ids, Operation(id) PROVE Inv'
<1>1. CASE New(id) \/ AddEvent(id) \/ Decide(id) \/ Get(id)
  BY <1>1, ProgramStep
<1>2. CASE Create(id) \/ Update(id)
  <2>1. held[id] \in Objects
    BY <1>2 DEF Inv, TypeOK, Create, Update
  <2> QED  BY <1>2, <2>1, BeginStep DEF Create, Update, Kinds
<1>3. CASE AppendEvent(id)
  <2> DEFINE o == [Reloaded(files[id]) EXCEPT !.events = @ + 1]
  <2>1. o \in Objects
    <3>1. files[id] \in Contents /\ files[id].events < MaxEvents
      BY <1>3 DEF AppendEvent, Readable
    <3>2. Reloaded(files[id]) \in Objects /\ Reloaded(files[id]).events = files[id].events
      BY <3>1, ContentsFacts DEF Reloaded
    <3>3. files[id].events + 1 \in 0..MaxEvents
      BY <3>1, BoundsAssumption DEF Contents
    <3> QED  BY <3>2, <3>3 DEF Objects
  <2> HIDE DEF o
  <2>2. Begin("update", id, o) /\ id \in known
    BY <1>3 DEF AppendEvent, Readable, o
  <2> QED  BY <2>1, <2>2, BeginStep DEF Kinds
<1>4. CASE Delete(id)
  BY <1>4, BeginStep DEF Delete, Kinds
<1> QED  BY <1>1, <1>2, <1>3, <1>4 DEF Operation

-----------------------------------------------------------------------------
(* The steps of the operations                                             *)

\* What every step of an operation leaves alone, and where it goes.
LEMMA StepShape ==
    ASSUME Inv, NEW kind \in Kinds, NEW n \in Nat, Doing(kind, n), n <= Len(Steps[kind]), Advance
    PROVE  /\ job' = Idle \/ \E k \in {"create", "update", "delete"} : job' \in Jobs(k)
           /\ job.kind = kind /\ job.at = n
           /\ job'.kind = kind /\ job'.at = n + 1 /\ job'.id = job.id /\ job'.object = job.object
           /\ job.id \in Ids
           /\ kind # "delete" => job.object \in Objects
           /\ up
<1>1. up
  BY DEF Inv, FilesFollow, Named, Doing, Idle, Kinds
<1>2. job.id \in Ids /\ (kind # "delete" => job.object \in Objects)
  BY JobType DEF Inv, Doing, Kinds
<1>3. job.kind = kind /\ job.at = n
  BY DEF Doing
<1> QED  BY <1>1, <1>2, <1>3, AdvanceShape DEF Inv, Kinds

LEMMA TruncateStep == ASSUME Inv, Truncate PROVE Inv'
<1>1. PICK kind \in {"create", "update"} : Doing(kind, 1)
  BY Places DEF Truncate, Inv
<1>2. /\ job' = Idle \/ \E k \in {"create", "update", "delete"} : job' \in Jobs(k)
      /\ job.kind = kind /\ job.at = 1 /\ job'.kind = kind /\ job'.at = 2 /\ job'.id = job.id
      /\ job.id \in Ids /\ up
  <2>1. kind \in Kinds /\ 1 <= Len(Steps[kind]) /\ Advance
    BY StepsTable DEF Kinds, Truncate
  <2> QED  BY <1>1, <2>1, StepShape
<1>3. /\ files' = [files EXCEPT ![job.id] = Torn] /\ acked' = [acked EXCEPT ![job.id] = None]
      /\ deleted' = deleted \ {job.id}
      /\ index' = index /\ known' = known /\ held' = held /\ up' = up /\ written' = written
      /\ issued' = issued /\ crashes' = crashes
      /\ cut' = cut /\ unindexed' = unindexed
  BY DEF Truncate, bounds
<1>4. TypeOK'
  BY <1>2, <1>3 DEF Inv, TypeOK
<1>5. IndexFollows'
  BY <1>2, <1>3 DEF Inv, IndexFollows, Named, Doing
<1>6. JobFollows'
  BY <1>2, <1>3 DEF Inv, TypeOK, JobFollows, Doing, Rewriting, Rewritten, Removing
<1>7. KnownFollows' /\ FilesFollow'
  BY <1>2, <1>3, ContentsFacts DEF Inv, TypeOK, KnownFollows, FilesFollow, Named, Doing
<1>8. AcknowledgedSurvives' /\ DeletedStaysDeleted' /\ IndexNamesWritten'
  BY <1>2, <1>3
  DEF Inv, TypeOK, AcknowledgedSurvives, DeletedStaysDeleted, IndexNamesWritten, InIndex
<1> QED  BY <1>4, <1>5, <1>6, <1>7, <1>8 DEF Inv

LEMMA WriteStep == ASSUME Inv, Write PROVE Inv'
<1>1. PICK kind \in {"create", "update"} : Doing(kind, 2)
  BY Places DEF Write, Inv
<1>2. /\ job' = Idle \/ \E k \in {"create", "update", "delete"} : job' \in Jobs(k)
      /\ job.kind = kind /\ job.at = 2 /\ job'.kind = kind /\ job'.at = 3 /\ job'.id = job.id
      /\ job'.object = job.object /\ job.id \in Ids /\ job.object \in Objects /\ up
  <2>1. kind \in Kinds /\ 2 <= Len(Steps[kind]) /\ Advance
    BY StepsTable DEF Kinds, Write
  <2> QED  BY <1>1, <2>1, StepShape
<1>3. /\ files' = [files EXCEPT ![job.id] = Saved(job.object)]
      /\ written' = written \cup {job.id}
      /\ acked' = acked /\ deleted' = deleted
      /\ index' = index /\ known' = known /\ held' = held /\ up' = up
      /\ issued' = issued /\ crashes' = crashes
      /\ cut' = cut \ {job.id} /\ unindexed' = unindexed
  BY DEF Write, bounds
<1>4. acked[job.id] = None /\ job.id \notin deleted
  BY <1>1 DEF Inv, JobFollows, Rewriting
<1>5. Saved(job.object) \in Contents
  BY <1>2, ContentsFacts
<1>6. TypeOK'
  BY <1>2, <1>3, <1>5 DEF Inv, TypeOK
<1>7. IndexFollows'
  <2>1. kind = "create" \/ job.id \in known
    BY <1>2 DEF Inv, JobFollows
  <2>2. up /\ index # Torn => known \ Named \subseteq unindexed /\ Named \ known \subseteq cut
    BY <1>2 DEF Inv, IndexFollows, Doing
  <2> QED  BY <1>2, <1>3, <2>1, <2>2 DEF IndexFollows, Named, Doing
<1>8. JobFollows'
  BY <1>2, <1>3, <1>4 DEF Inv, TypeOK, JobFollows, Doing, Rewriting, Rewritten, Removing
<1>9. KnownFollows' /\ FilesFollow'
  BY <1>2, <1>3, <1>5, ContentsFacts DEF Inv, TypeOK, KnownFollows, FilesFollow, Named, Doing
<1>10. AcknowledgedSurvives' /\ DeletedStaysDeleted' /\ IndexNamesWritten'
  BY <1>2, <1>3, <1>4
  DEF Inv, TypeOK, AcknowledgedSurvives, DeletedStaysDeleted, IndexNamesWritten, InIndex
<1> QED  BY <1>6, <1>7, <1>8, <1>9, <1>10 DEF Inv

LEMMA FailStep == ASSUME Inv, WriteRaises \/ OSFails PROVE Inv'
<1>1. /\ up
      /\ ~Doing("create", 3)
  BY Places, StepsTable DEF WriteRaises, OSFails, Inv, FilesFollow, Doing, At, Idle
<1>2. /\ files' = files /\ index' = index /\ known' = known /\ held' = held /\ up' = up
      /\ issued' = issued /\ crashes' = crashes
      /\ written' = written /\ acked' = acked /\ deleted' = deleted
      /\ cut' = cut /\ unindexed' = unindexed
      /\ job' = Idle /\ job'.kind = "idle" /\ job'.at = 1
  BY DEF WriteRaises, OSFails, disk, bounds, ghosts, Idle
<1>4. TypeOK'
  BY <1>2 DEF Inv, TypeOK
<1>5. IndexFollows' /\ JobFollows'
  BY <1>1, <1>2 DEF Inv, IndexFollows, Named, JobFollows, Doing, Rewriting, Rewritten, Removing
<1>6. KnownFollows' /\ FilesFollow'
  BY <1>1, <1>2 DEF Inv, KnownFollows, FilesFollow, Named, Doing
<1>7. AcknowledgedSurvives' /\ DeletedStaysDeleted' /\ IndexNamesWritten'
  BY <1>2 DEF Inv, AcknowledgedSurvives, DeletedStaysDeleted, IndexNamesWritten, InIndex
<1> QED  BY <1>4, <1>5, <1>6, <1>7 DEF Inv

LEMMA EnterStep == ASSUME Inv, Enter PROVE Inv'
<1>1. Doing("create", 3)
  BY Places DEF Enter, Inv
<1>2. /\ job' = Idle \/ \E k \in {"create", "update", "delete"} : job' \in Jobs(k)
      /\ job.kind = "create" /\ job.at = 3 /\ job'.kind = "create" /\ job'.at = 4
      /\ job'.id = job.id /\ job'.object = job.object /\ job.id \in Ids /\ up
  <2>1. "create" \in Kinds /\ 3 <= Len(Steps["create"]) /\ Advance
    BY StepsTable DEF Kinds, Enter
  <2> QED  BY <1>1, <2>1, StepShape
<1>3. /\ known' = known \cup {job.id}
      /\ files' = files /\ index' = index /\ held' = held /\ up' = up
      /\ issued' = issued /\ crashes' = crashes
      /\ written' = written /\ acked' = acked /\ deleted' = deleted
      /\ cut' = cut /\ unindexed' = unindexed \cup {job.id}
  BY DEF Enter, disk, bounds
<1>4. /\ acked[job.id] = None /\ job.id \notin deleted /\ job.id \in written
      /\ files[job.id] = Saved(job.object)
  BY <1>2 DEF Inv, JobFollows, Rewritten
<1>5. Saved(job.object) # None
  BY <1>2, ContentsFacts, JobType DEF Inv
<1>6. TypeOK'
  BY <1>2, <1>3 DEF Inv, TypeOK
<1>7. IndexFollows'
  BY <1>2, <1>3 DEF Inv, TypeOK, IndexFollows, Named, Doing
<1>8. JobFollows'
  BY <1>2, <1>3, <1>4 DEF Inv, JobFollows, Doing, Rewriting, Rewritten, Removing
<1>9. KnownFollows' /\ FilesFollow'
  BY <1>2, <1>3, <1>4, <1>5 DEF Inv, TypeOK, KnownFollows, FilesFollow, Named, Doing
<1>10. AcknowledgedSurvives' /\ DeletedStaysDeleted' /\ IndexNamesWritten'
  BY <1>3 DEF Inv, AcknowledgedSurvives, DeletedStaysDeleted, IndexNamesWritten, InIndex
<1> QED  BY <1>6, <1>7, <1>8, <1>9, <1>10 DEF Inv

LEMMA UnlinkStep == ASSUME Inv, Unlink PROVE Inv'
<1>1. Doing("delete", 1)
  BY Places DEF Unlink, Inv
<1>2. /\ job' = Idle \/ \E k \in {"create", "update", "delete"} : job' \in Jobs(k)
      /\ job.kind = "delete" /\ job.at = 1 /\ job'.kind = "delete" /\ job'.at = 2
      /\ job'.id = job.id /\ job'.object = job.object /\ job.id \in Ids /\ up
  <2>1. "delete" \in Kinds /\ 1 <= Len(Steps["delete"]) /\ Advance
    BY StepsTable DEF Kinds, Unlink
  <2> QED  BY <1>1, <2>1, StepShape
<1>3. /\ files' = [files EXCEPT ![job.id] = None] /\ acked' = [acked EXCEPT ![job.id] = None]
      /\ index' = index /\ known' = known /\ held' = held /\ up' = up
      /\ issued' = issued /\ crashes' = crashes
      /\ written' = written /\ deleted' = deleted
      /\ cut' = cut \cup {job.id} /\ unindexed' = unindexed
  BY DEF Unlink, bounds
<1>4. TypeOK'
  BY <1>2, <1>3 DEF Inv, TypeOK
<1>5. IndexFollows'
  BY <1>2, <1>3 DEF Inv, TypeOK, IndexFollows, Named, Doing
<1>6. JobFollows'
  BY <1>2, <1>3 DEF Inv, TypeOK, JobFollows, Doing, Rewriting, Rewritten, Removing
<1>7. KnownFollows' /\ FilesFollow'
  BY <1>2, <1>3 DEF Inv, TypeOK, KnownFollows, FilesFollow, Named, Doing
<1>8. AcknowledgedSurvives' /\ DeletedStaysDeleted' /\ IndexNamesWritten'
  BY <1>2, <1>3
  DEF Inv, TypeOK, AcknowledgedSurvives, DeletedStaysDeleted, IndexNamesWritten, InIndex
<1> QED  BY <1>4, <1>5, <1>6, <1>7, <1>8 DEF Inv

LEMMA DropStep == ASSUME Inv, Drop PROVE Inv'
<1>1. Doing("delete", 2)
  BY Places DEF Drop, Inv
<1>2. /\ job' = Idle \/ \E k \in {"create", "update", "delete"} : job' \in Jobs(k)
      /\ job.kind = "delete" /\ job.at = 2 /\ job'.kind = "delete" /\ job'.at = 3
      /\ job'.id = job.id /\ job'.object = job.object /\ job.id \in Ids /\ up
  <2>1. "delete" \in Kinds /\ 2 <= Len(Steps["delete"]) /\ Advance
    BY StepsTable DEF Kinds, Drop
  <2> QED  BY <1>1, <2>1, StepShape
<1>3. /\ known' = known \ {job.id}
      /\ files' = files /\ index' = index /\ held' = held /\ up' = up
      /\ issued' = issued /\ crashes' = crashes
      /\ written' = written /\ acked' = acked /\ deleted' = deleted
      /\ cut' = cut /\ unindexed' = unindexed
  BY DEF Drop, disk, bounds, ghosts
<1>4. acked[job.id] = None /\ files[job.id] = None /\ job.id \in cut
  BY <1>2 DEF Inv, JobFollows, Removing
<1>5. TypeOK'
  BY <1>2, <1>3 DEF Inv, TypeOK
<1>6. IndexFollows'
  BY <1>2, <1>3, <1>4 DEF Inv, TypeOK, IndexFollows, Named, Doing
<1>7. JobFollows'
  BY <1>2, <1>3, <1>4 DEF Inv, JobFollows, Doing, Rewriting, Rewritten, Removing
<1>8. KnownFollows' /\ FilesFollow'
  BY <1>2, <1>3, <1>4 DEF Inv, TypeOK, KnownFollows, FilesFollow, Named, Doing
<1>9. AcknowledgedSurvives' /\ DeletedStaysDeleted' /\ IndexNamesWritten'
  BY <1>3 DEF Inv, AcknowledgedSurvives, DeletedStaysDeleted, IndexNamesWritten, InIndex
<1> QED  BY <1>5, <1>6, <1>7, <1>8, <1>9 DEF Inv

LEMMA ClearIndexStep == ASSUME Inv, ClearIndex PROVE Inv'
<1>1. Doing("create", 4) \/ Doing("delete", 3)
  BY Places DEF ClearIndex, Inv
<1>2. /\ job' = Idle \/ \E k \in {"create", "update", "delete"} : job' \in Jobs(k)
      /\ \/ job.kind = "create" /\ job.at = 4 /\ job'.kind = "create" /\ job'.at = 5
         \/ job.kind = "delete" /\ job.at = 3 /\ job'.kind = "delete" /\ job'.at = 4
      /\ job'.id = job.id /\ job'.object = job.object /\ job.id \in Ids /\ up
  <2>1. {"create", "delete"} \subseteq Kinds /\ 4 <= Len(Steps["create"]) /\ 3 <= Len(Steps["delete"]) /\ Advance
    BY StepsTable DEF Kinds, ClearIndex
  <2> QED  BY <1>1, <2>1, StepShape
<1>3. /\ index' = Torn
      /\ files' = files /\ known' = known /\ held' = held /\ up' = up
      /\ issued' = issued /\ crashes' = crashes
      /\ written' = written /\ acked' = acked /\ deleted' = deleted
      /\ cut' = cut /\ unindexed' = unindexed
  BY DEF ClearIndex, bounds, ghosts
<1>4. TypeOK'
  BY <1>2, <1>3 DEF Inv, TypeOK
<1>5. IndexFollows'
  BY <1>2, <1>3 DEF IndexFollows, Named, Doing
<1>6. JobFollows'
  BY <1>2, <1>3 DEF Inv, JobFollows, Doing, Rewriting, Rewritten, Removing
<1>7. KnownFollows' /\ FilesFollow'
  BY <1>2, <1>3 DEF Inv, KnownFollows, FilesFollow, Named, Doing
<1>8. AcknowledgedSurvives' /\ DeletedStaysDeleted' /\ IndexNamesWritten'
  BY <1>3 DEF Inv, AcknowledgedSurvives, DeletedStaysDeleted, IndexNamesWritten, InIndex
<1> QED  BY <1>4, <1>5, <1>6, <1>7, <1>8 DEF Inv

\* The index takes over what memory knows, which is what was acknowledged,
\* written and not deleted.
LEMMA SaveIndexStep == ASSUME Inv, SaveIndex PROVE Inv'
<1>1. Doing("create", 5) \/ Doing("delete", 4)
  BY Places DEF SaveIndex, Inv
<1>2. /\ job' = Idle \/ \E k \in {"create", "update", "delete"} : job' \in Jobs(k)
      /\ \/ job.kind = "create" /\ job.at = 5 /\ job'.kind = "create" /\ job'.at = 6
         \/ job.kind = "delete" /\ job.at = 4 /\ job'.kind = "delete" /\ job'.at = 5
      /\ job'.id = job.id /\ job'.object = job.object /\ job.id \in Ids /\ up
  <2>1. {"create", "delete"} \subseteq Kinds /\ 5 <= Len(Steps["create"]) /\ 4 <= Len(Steps["delete"]) /\ Advance
    BY StepsTable DEF Kinds, SaveIndex
  <2> QED  BY <1>1, <2>1, StepShape
<1>3. /\ index' = known
      /\ files' = files /\ known' = known /\ held' = held /\ up' = up
      /\ issued' = issued /\ crashes' = crashes
      /\ written' = written /\ acked' = acked /\ deleted' = deleted
      /\ cut' = cut /\ unindexed' = unindexed \ known
  BY DEF SaveIndex, bounds
<1>9. known \notin {None, Torn}
  BY MarksAssumption DEF Inv, TypeOK
<1>4. TypeOK'
  BY <1>2, <1>3 DEF Inv, TypeOK
<1>5. IndexFollows'
  BY <1>2, <1>3, <1>9 DEF IndexFollows, Named, Doing
<1>6. JobFollows'
  BY <1>2, <1>3 DEF Inv, JobFollows, Doing, Rewriting, Rewritten, Removing
<1>7. KnownFollows' /\ FilesFollow'
  BY <1>2, <1>3, <1>9 DEF Inv, KnownFollows, FilesFollow, Named, Doing
<1>8. known \subseteq written /\ known \cap deleted = {} /\ \A id \in Ids : acked[id] # None => id \in known \cup unindexed
  BY <1>2 DEF Inv, KnownFollows
<1>10. AcknowledgedSurvives' /\ DeletedStaysDeleted' /\ IndexNamesWritten'
  <2>1. \A id \in Ids : acked[id] # None => files[id] = acked[id]
    BY DEF Inv, AcknowledgedSurvives
  <2>2. \A id \in deleted : files[id] = None
    BY DEF Inv, DeletedStaysDeleted
  <2>3. AcknowledgedSurvives'
    BY <1>3, <1>8, <1>9, <2>1 DEF AcknowledgedSurvives, InIndex
  <2>4. DeletedStaysDeleted'
    BY <1>3, <1>8, <2>2 DEF DeletedStaysDeleted, InIndex
  <2>5. IndexNamesWritten'
    BY <1>3, <1>8 DEF IndexNamesWritten
  <2> QED  BY <2>3, <2>4, <2>5
<1> QED  BY <1>4, <1>5, <1>6, <1>7, <1>10 DEF Inv

\* What returns was done completely: the file holds what was saved, or is gone.
LEMMA ReturnStep == ASSUME Inv, Return PROVE Inv'
<1>1. Doing("create", 6) \/ Doing("update", 3) \/ Doing("delete", 5)
  BY Places DEF Return, Inv
<1>2. /\ files' = files /\ index' = index /\ known' = known /\ held' = held /\ up' = up
      /\ issued' = issued /\ crashes' = crashes /\ written' = written
      /\ job' = Idle /\ job'.kind = "idle" /\ job'.at = 1
  BY DEF Return, disk, bounds, Idle
<1>3. up
  BY <1>1 DEF Inv, FilesFollow, Named, Doing, Idle
<1>4. job.kind # "update" => index = known
  BY <1>1 DEF Inv, IndexFollows, Doing
<1>5. job.id \in Ids /\ (job.kind # "delete" => job.object \in Objects)
  BY <1>1, JobType DEF Inv, Doing, Kinds
<1>6. known \notin {None, Torn}
  BY MarksAssumption DEF Inv, TypeOK
<1>7. JobFollows'
  BY <1>2 DEF JobFollows, Doing, Rewriting, Rewritten, Removing
<1>9. CASE job.kind = "delete"
  <2>1. /\ acked' = acked /\ deleted' = deleted \cup {job.id}
        /\ cut' = cut \ {job.id} /\ unindexed' = unindexed
    BY <1>9 DEF Return
  <2>2. files[job.id] = None /\ job.id \notin known
    BY <1>1, <1>9 DEF Inv, JobFollows, Removing, Doing
  <2>3. TypeOK'
    BY <1>2, <1>5, <2>1 DEF Inv, TypeOK
  <2>4. KnownFollows'
    BY <1>2, <2>1, <2>2 DEF Inv, KnownFollows
  <2>5. DeletedStaysDeleted'
    BY <1>2, <1>4, <1>9, <2>1, <2>2 DEF Inv, DeletedStaysDeleted, InIndex
  <2>6. AcknowledgedSurvives' /\ IndexNamesWritten'
    BY <1>2, <2>1 DEF Inv, AcknowledgedSurvives, IndexNamesWritten, InIndex
  <2>7. IndexFollows'
    BY <1>2, <1>4, <1>6, <1>9, <2>1 DEF IndexFollows, Named, Doing
  <2>8. FilesFollow'
    BY <1>2, <1>3, <1>4, <1>6, <1>9, <2>1, <2>2 DEF Inv, FilesFollow, Named
  <2> QED  BY <1>7, <2>3, <2>4, <2>5, <2>6, <2>7, <2>8 DEF Inv
<1>10. CASE job.kind # "delete"
  <2>1. /\ acked' = [acked EXCEPT ![job.id] = Saved(job.object)] /\ deleted' = deleted
        /\ cut' = cut /\ unindexed' = IF job.kind = "create" THEN unindexed \ {job.id} ELSE unindexed
    BY <1>10 DEF Return
  <2>2. Saved(job.object) \in Contents
    BY <1>5, <1>10, ContentsFacts
  <2>3. files[job.id] = Saved(job.object) /\ job.id \in known
    BY <1>1, <1>10 DEF Inv, JobFollows, Rewritten, Doing
  <2>4. \A id \in Ids : id \in known \cup unindexed => InIndex(id) \/ index = Torn \/ id \in unindexed'
    <3>1. CASE job.kind = "create"
      BY <1>4, <1>6, <2>1, <2>3, <3>1 DEF InIndex
    <3>2. CASE job.kind # "create"
      BY <1>3, <2>1, <3>2 DEF Inv, IndexFollows, Named, InIndex
    <3> QED  BY <3>1, <3>2
  <2>5. TypeOK'
    BY <1>2, <1>5, <2>1, <2>2 DEF Inv, TypeOK
  <2>6. KnownFollows'
    BY <1>2, <2>1, <2>3 DEF Inv, TypeOK, KnownFollows
  <2>7. AcknowledgedSurvives'
    <3>1. ASSUME NEW id \in Ids, acked'[id] # None
          PROVE  files[id] = acked'[id] /\ id \in known \cup unindexed
      <4>1. CASE id = job.id
        BY <1>5, <2>1, <2>3, <4>1 DEF Inv, TypeOK
      <4>2. CASE id # job.id
        <5>1. acked'[id] = acked[id]
          BY <2>1, <4>2 DEF Inv, TypeOK
        <5> QED  BY <1>3, <3>1, <5>1 DEF Inv, AcknowledgedSurvives, KnownFollows
      <4> QED  BY <4>1, <4>2
    <3> QED  BY <1>2, <2>4, <3>1 DEF AcknowledgedSurvives, InIndex
  <2>8. DeletedStaysDeleted' /\ IndexNamesWritten'
    BY <1>2, <2>1 DEF Inv, DeletedStaysDeleted, IndexNamesWritten, InIndex
  <2>9. IndexFollows' /\ FilesFollow'
    BY <1>2, <1>3, <1>4, <1>6, <2>1 DEF Inv, IndexFollows, FilesFollow, Named, Doing
  <2> QED  BY <1>7, <2>5, <2>6, <2>7, <2>8, <2>9 DEF Inv
<1> QED  BY <1>9, <1>10

-----------------------------------------------------------------------------
(* Crash and restart                                                       *)

\* A crash takes memory; what it leaves on disk was enough all along.
LEMMA CrashStep == ASSUME Inv, Crash PROVE Inv'
<1>1. /\ files' = files /\ index' = index /\ issued' = issued
      /\ written' = written /\ acked' = acked /\ deleted' = deleted
      /\ cut' = cut /\ unindexed' = unindexed
      /\ known' = {} /\ held' = [id \in Ids |-> None] /\ up' = FALSE
      /\ job' = Idle /\ job'.kind = "idle" /\ job'.at = 1
  BY DEF Crash, disk, ghosts, Idle
<1>2. crashes' \in 0..MaxCrashes
  BY BoundsAssumption DEF Crash, Inv, TypeOK
<1>3. TypeOK'
  BY <1>1, <1>2 DEF Inv, TypeOK
<1>4. IndexFollows' /\ JobFollows'
  BY <1>1 DEF IndexFollows, Named, JobFollows, Doing, Rewriting, Rewritten, Removing
<1>5. KnownFollows' /\ FilesFollow'
  BY <1>1 DEF Inv, KnownFollows, FilesFollow, Named
<1>6. AcknowledgedSurvives' /\ DeletedStaysDeleted' /\ IndexNamesWritten'
  BY <1>1 DEF Inv, AcknowledgedSurvives, DeletedStaysDeleted, IndexNamesWritten, InIndex
<1> QED  BY <1>3, <1>4, <1>5, <1>6 DEF Inv

\* What the index names was acknowledged, written, and not deleted.
LEMMA RestartStep == ASSUME Inv, Restart PROVE Inv'
<1>1. /\ files' = files /\ index' = index /\ held' = held /\ job' = job
      /\ issued' = issued /\ crashes' = crashes
      /\ written' = written /\ acked' = acked /\ deleted' = deleted
      /\ cut' = cut /\ unindexed' = unindexed
      /\ up' = TRUE /\ index # Torn
      /\ known' = (IF index = None THEN {} ELSE index)
  BY DEF Restart, disk, bounds, ghosts
<1>2. job = Idle
  BY DEF Restart, Inv, FilesFollow, Named
<1>3. job.kind = "idle" /\ job.at = 1
  BY <1>2 DEF Idle
<1>4. known' \in SUBSET Ids
  BY <1>1 DEF Inv, TypeOK
<1>5. TypeOK'
  BY <1>1, <1>4 DEF Inv, TypeOK
<1>6. IndexFollows'
  BY <1>1, <1>3 DEF IndexFollows, Named, Doing
<1>7. JobFollows'
  BY <1>1, <1>3 DEF JobFollows, Doing, Rewriting, Rewritten, Removing
<1>8. KnownFollows'
  BY <1>1 DEF Inv, TypeOK, KnownFollows, AcknowledgedSurvives, DeletedStaysDeleted,
              IndexNamesWritten, InIndex
<1>9. FilesFollow'
  BY <1>1 DEF Inv, FilesFollow, Named
<1>10. AcknowledgedSurvives' /\ DeletedStaysDeleted' /\ IndexNamesWritten'
  BY <1>1 DEF Inv, AcknowledgedSurvives, DeletedStaysDeleted, IndexNamesWritten, InIndex
<1> QED  BY <1>5, <1>6, <1>7, <1>8, <1>9, <1>10 DEF Inv

-----------------------------------------------------------------------------
(* The theorems                                                            *)

LEMMA StutterStep == ASSUME Inv, UNCHANGED vars PROVE Inv'
<1>1. held' = held /\ UNCHANGED <<disk, known, up, job, bounds, ghosts>>
  BY DEF vars
<1>2. held \in [Ids -> Objects \cup {None}]
  BY DEF Inv, TypeOK
<1> QED  BY <1>1, <1>2, HeldStep

LEMMA NextInv == ASSUME Inv, [Next]_vars PROVE Inv'
<1>1. CASE \E id \in Ids : Operation(id)
  BY <1>1, OperationStep
<1>2. CASE DiskStep
  BY <1>2, TruncateStep, WriteStep, FailStep, EnterStep, UnlinkStep, DropStep,
     ClearIndexStep, SaveIndexStep, ReturnStep DEF DiskStep
<1>3. CASE Crash
  BY <1>3, CrashStep
<1>4. CASE Restart
  BY <1>4, RestartStep
<1>5. CASE UNCHANGED vars
  BY <1>5, StutterStep
<1> QED  BY <1>1, <1>2, <1>3, <1>4, <1>5 DEF Next

LEMMA Invariance == Spec => []Inv
<1>1. Init => Inv
  BY InitInv
<1>2. Inv /\ [Next]_vars => Inv'
  BY NextInv
<1> QED  BY <1>1, <1>2, PTL DEF Spec

\* Every variable of the store keeps its type.
THEOREM TypeCorrect == Spec => []TypeOK
<1>1. Inv => TypeOK
  BY DEF Inv
<1> QED  BY <1>1, Invariance, PTL

\* What create and update saved stays on disk, through crashes and the operations
\* on other sessions; its entry is lost only with the whole index, or missing because
\* its create failed on the index.
THEOREM SavedSurvives == Spec => []AcknowledgedSurvives
<1>1. Inv => AcknowledgedSurvives
  BY DEF Inv
<1> QED  BY <1>1, Invariance, PTL

\* No crash and no restart brings a deleted session back.
THEOREM DeletedIsGone == Spec => []DeletedStaysDeleted
<1>1. Inv => DeletedStaysDeleted
  BY DEF Inv
<1> QED  BY <1>1, Invariance, PTL

\* The index names only sessions whose file was written completely once.
THEOREM IndexIsBacked == Spec => []IndexNamesWritten
<1>1. Inv => IndexNamesWritten
  BY DEF Inv
<1> QED  BY <1>1, Invariance, PTL

\* Between operations a restart would find the sessions the store knows, but for
\* creates and deletes that failed on the index.
THEOREM RestartFindsAll == Spec => []IndexInStep
<1>1. Inv => IndexInStep
  BY DEF Inv, IndexFollows, Named, IndexInStep, IsIdle, Doing
<1> QED  BY <1>1, Invariance, PTL

\* Entries without a file are the work of a delete that failed or crashed after it
\* removed the file.
THEOREM OnlyCutDeletesLeaveZombies == Spec => []KnownHasFile
<1>1. Inv => KnownHasFile
  BY DEF Inv, FilesFollow, Named, KnownHasFile, IsIdle, Doing
<1> QED  BY <1>1, Invariance, PTL

=============================================================================
