---------------------------- MODULE SessionStore ---------------------------
(***************************************************************************)
(* JSONSessionStore: one file for each session and an index file, written  *)
(* by one process that may crash between, or in the middle of, two writes  *)
(* and be started again on what it left.  Any call on the disk may raise   *)
(* OSError.                                                                *)
(*                                                                         *)
(* A session is what decides whether it can be written and what is read    *)
(* back: how many events it has, whether it holds a dated decision (an     *)
(* approval or an agent's), which of these have timestamps that are        *)
(* strings (after a reload they are), and whether there is an object       *)
(* without to_dict in it (a request, a delta or a plan).                   *)
(***************************************************************************)
EXTENDS Naturals, Sequences

CONSTANTS
    Ids,            \* session identifiers
    None,           \* no object, no file
    Torn,           \* a file that is empty or only half written
    MaxEvents,      \* bound: events of a session
    MaxRequests,    \* bound: operations issued
    MaxCrashes      \* bound: crashes of the process

Objects ==
    [events : 0..MaxEvents, decided : BOOLEAN, textual : SUBSET {"events", "decisions"},
     opaque : BOOLEAN]

\* What a file holds of a session.
Contents == [events : 0..MaxEvents, decided : BOOLEAN]

ASSUME BoundsAssumption == MaxEvents \in Nat /\ MaxRequests \in Nat /\ MaxCrashes \in Nat
ASSUME MarksAssumption ==
    /\ None # Torn
    /\ {None, Torn} \cap (Objects \cup Contents) = {}
    /\ \A ids \in SUBSET Ids : ids # None /\ ids # Torn

VARIABLES
    files,      \* the session files
    index,      \* index.json: the identifiers in it
    known,      \* _index in memory
    held,       \* the session objects the program holds
    up,         \* the store is open
    job,        \* the operation in progress and its next step
    issued, crashes,
    written,    \* ghost: sessions that were written completely at some time
    acked,      \* ghost: what the last create or update that returned has saved
    deleted,    \* ghost: sessions whose delete returned, not written since
    cut,        \* ghost: sessions whose file a delete removed without returning
    unindexed   \* ghost: sessions entered since the index was last written

disk == <<files, index>>
bounds == <<issued, crashes>>
ghosts == <<written, acked, deleted, cut, unindexed>>
vars == <<disk, known, held, up, job, bounds, ghosts>>

-----------------------------------------------------------------------------
\* to_dict raises AttributeError on an object that has no to_dict, and on a
\* timestamp that is a string.
Serialisable(o) == ~o.opaque /\ o.textual = {}

\* mutant: the object is kept instead of its fields
SavedWhole(o) == o

Saved(o) == [events |-> o.events, decided |-> o.decided]

\* _dict_to_session: timestamps stay strings; objects without to_dict never get this far.
Reloaded(content) ==
    [events |-> content.events, decided |-> content.decided,
     textual |-> (IF content.events > 0 THEN {"events"} ELSE {})
                    \cup (IF content.decided THEN {"decisions"} ELSE {}),
     opaque |-> FALSE]

InIndex(id) == index \notin {None, Torn} /\ id \in index

\* get returns a session: not None, and without raising.
Readable(id) == id \in known /\ files[id] \in Contents

-----------------------------------------------------------------------------
(* The steps of each operation, in the order of the code                   *)

\* mutant: create enters the session before it writes it
StepsIndexFirst ==
    [create |-> <<"enter", "clear_index", "save_index", "truncate", "write">>,
     update |-> <<"truncate", "write">>,
     delete |-> <<"unlink", "drop", "clear_index", "save_index">>]

\* mutant: create and delete change the index in memory only
StepsInMemory ==
    [create |-> <<"truncate", "write", "enter">>,
     update |-> <<"truncate", "write">>,
     delete |-> <<"unlink", "drop">>]

\* mutant: delete does not save the index
StepsUnsavedDelete ==
    [create |-> <<"truncate", "write", "enter", "clear_index", "save_index">>,
     update |-> <<"truncate", "write">>,
     delete |-> <<"unlink", "drop">>]

\* mutant: delete forgets to drop the entry
StepsUnlinkOnly ==
    [create |-> <<"truncate", "write", "enter", "clear_index", "save_index">>,
     update |-> <<"truncate", "write">>,
     delete |-> <<"unlink", "clear_index", "save_index">>]

\* open(..., "w") truncates a file before it is known what to write.
Steps ==
    [create |-> <<"truncate", "write", "enter", "clear_index", "save_index">>,
     update |-> <<"truncate", "write">>,
     delete |-> <<"unlink", "drop", "clear_index", "save_index">>]

\* An operation in progress; delete has an identifier only.
Jobs(kind) ==
    [kind : {kind}, id : Ids, object : IF kind = "delete" THEN {None} ELSE Objects,
     at : 1..Len(Steps[kind]) + 1]

Idle == [kind |-> "idle", id |-> None, object |-> None, at |-> 1]

IsIdle == up /\ job.kind = "idle"

Begin(kind, id, o) ==
    /\ IsIdle
    /\ issued < MaxRequests
    /\ issued' = issued + 1
    /\ job' = [kind |-> kind, id |-> id, object |-> o, at |-> 1]
    /\ UNCHANGED <<disk, known, held, up, crashes, ghosts>>

At(step) ==
    /\ job.kind # "idle"
    /\ job.at \in DOMAIN Steps[job.kind]
    /\ Steps[job.kind][job.at] = step

Advance == job' = [job EXCEPT !.at = @ + 1]

Init ==
    /\ files = [id \in Ids |-> None]
    /\ index = None
    /\ known = {}
    /\ held = [id \in Ids |-> None]
    /\ up = TRUE
    /\ job = Idle
    /\ issued = 0 /\ crashes = 0
    /\ written = {}
    /\ acked = [id \in Ids |-> None]
    /\ deleted = {} /\ cut = {} /\ unindexed = {}

-----------------------------------------------------------------------------
(* The program that uses the store                                         *)

\* A new session, with or without a request, a decision and a first event.
New(id) ==
    /\ IsIdle /\ held[id] = None
    /\ \E o \in Objects :
         /\ o.textual = {} /\ o.events <= 1
         /\ held' = [held EXCEPT ![id] = o]
    /\ UNCHANGED <<disk, known, up, job, bounds, ghosts>>

\* add_event: the new timestamp is a datetime, those read from a file stay strings.
AddEvent(id) ==
    /\ IsIdle /\ held[id] # None /\ held[id].events < MaxEvents
    /\ held' = [held EXCEPT ![id].events = @ + 1]
    /\ UNCHANGED <<disk, known, up, job, bounds, ghosts>>

\* set_approval_state or add_agent_decision; approving the one dated action again
\* replaces the only string by a datetime.
Decide(id) ==
    /\ IsIdle /\ held[id] # None
    /\ \E textual \in {held[id].textual, held[id].textual \ {"decisions"}} :
         held' = [held EXCEPT ![id] = [@ EXCEPT !.decided = TRUE, !.textual = textual]]
    /\ UNCHANGED <<disk, known, up, job, bounds, ghosts>>

\* get: the session read replaces the one held.
Get(id) ==
    /\ IsIdle /\ Readable(id)
    /\ held' = [held EXCEPT ![id] = Reloaded(files[id])]
    /\ UNCHANGED <<disk, known, up, job, bounds, ghosts>>

Create(id) == held[id] # None /\ id \notin known /\ Begin("create", id, held[id])

Update(id) == held[id] # None /\ id \in known /\ Begin("update", id, held[id])

\* The event is appended to a session that was just read from its file.
AppendEvent(id) ==
    /\ Readable(id) /\ files[id].events < MaxEvents
    /\ Begin("update", id, [Reloaded(files[id]) EXCEPT !.events = @ + 1])

Delete(id) == id \in known /\ Begin("delete", id, None)

-----------------------------------------------------------------------------
(* The steps                                                               *)

Truncate ==
    /\ At("truncate")
    /\ files' = [files EXCEPT ![job.id] = Torn]
    /\ acked' = [acked EXCEPT ![job.id] = None]
    /\ deleted' = deleted \ {job.id}
    /\ Advance
    /\ UNCHANGED <<index, known, held, up, bounds, written, cut, unindexed>>

Write ==
    /\ At("write")
    /\ Serialisable(job.object)
    /\ files' = [files EXCEPT ![job.id] = Saved(job.object)]
    /\ written' = written \cup {job.id}
    /\ cut' = cut \ {job.id}
    /\ Advance
    /\ UNCHANGED <<index, known, held, up, bounds, acked, deleted, unindexed>>

\* The exception ends the operation and leaves the truncated file behind.
WriteRaises ==
    /\ At("write")
    /\ ~Serialisable(job.object)
    /\ job' = Idle
    /\ UNCHANGED <<disk, known, held, up, bounds, ghosts>>

Enter ==
    /\ At("enter")
    /\ known' = known \cup {job.id}
    /\ unindexed' = unindexed \cup {job.id}
    /\ Advance
    /\ UNCHANGED <<disk, held, up, bounds, written, acked, deleted, cut>>

Unlink ==
    /\ At("unlink")
    /\ files' = [files EXCEPT ![job.id] = None]
    /\ acked' = [acked EXCEPT ![job.id] = None]
    /\ cut' = cut \cup {job.id}
    /\ Advance
    /\ UNCHANGED <<index, known, held, up, bounds, written, deleted, unindexed>>

Drop ==
    /\ At("drop")
    /\ known' = known \ {job.id}
    /\ Advance
    /\ UNCHANGED <<disk, held, up, bounds, ghosts>>

ClearIndex ==
    /\ At("clear_index")
    /\ index' = Torn
    /\ Advance
    /\ UNCHANGED <<files, known, held, up, bounds, ghosts>>

SaveIndex ==
    /\ At("save_index")
    /\ index' = known
    /\ unindexed' = unindexed \ known
    /\ Advance
    /\ UNCHANGED <<files, known, held, up, bounds, written, acked, deleted, cut>>

\* OSError ends the operation where it is: a file that was opened stays cut short,
\* one that could not be opened or removed stays as it was.
OSFails ==
    /\ \E step \in {"truncate", "write", "unlink", "clear_index", "save_index"} : At(step)
    /\ job' = Idle
    /\ UNCHANGED <<disk, known, held, up, bounds, ghosts>>

Return ==
    /\ job.kind # "idle" /\ job.at = Len(Steps[job.kind]) + 1
    /\ job' = Idle
    /\ acked' = IF job.kind = "delete" THEN acked
                ELSE [acked EXCEPT ![job.id] = Saved(job.object)]
    /\ deleted' = IF job.kind = "delete" THEN deleted \cup {job.id} ELSE deleted
    /\ cut' = IF job.kind = "delete" THEN cut \ {job.id} ELSE cut
    /\ unindexed' = IF job.kind = "create" THEN unindexed \ {job.id} ELSE unindexed
    /\ UNCHANGED <<disk, known, held, up, bounds, written>>

-----------------------------------------------------------------------------
(* Crash and restart                                                       *)

Crash ==
    /\ up /\ crashes < MaxCrashes
    /\ crashes' = crashes + 1
    /\ up' = FALSE
    /\ known' = {}
    /\ held' = [id \in Ids |-> None]
    /\ job' = Idle
    /\ UNCHANGED <<disk, issued, ghosts>>

\* _load_index: a torn index raises, and the store cannot be opened any more.
Restart ==
    /\ ~up /\ index # Torn
    /\ up' = TRUE
    /\ known' = IF index = None THEN {} ELSE index
    /\ UNCHANGED <<disk, held, job, bounds, ghosts>>

Operation(id) ==
    \/ New(id) \/ AddEvent(id) \/ Decide(id) \/ Get(id)
    \/ Create(id) \/ Update(id) \/ AppendEvent(id) \/ Delete(id)

DiskStep ==
    \/ Truncate \/ Write \/ WriteRaises \/ Enter \/ Unlink \/ Drop
    \/ ClearIndex \/ SaveIndex \/ OSFails \/ Return

Next == Crash \/ Restart \/ DiskStep \/ \E id \in Ids : Operation(id)

Spec == Init /\ [][Next]_vars

-----------------------------------------------------------------------------
(* Properties                                                              *)

\* Every variable has its type.
TypeOK ==
    /\ files \in [Ids -> Contents \cup {None, Torn}]
    /\ index \in (SUBSET Ids) \cup {None, Torn}
    /\ known \in SUBSET Ids
    /\ held \in [Ids -> Objects \cup {None}]
    /\ up \in BOOLEAN
    /\ job = Idle \/ \E kind \in {"create", "update", "delete"} : job \in Jobs(kind)
    /\ issued \in 0..MaxRequests /\ crashes \in 0..MaxCrashes
    /\ written \in SUBSET Ids /\ deleted \in SUBSET Ids
    /\ cut \in SUBSET Ids /\ unindexed \in SUBSET Ids
    /\ acked \in [Ids -> Contents \cup {None}]

\* A session that create or update has saved stays on disk as it was saved, through
\* every crash, every error and every operation on other sessions, until an
\* operation on it begins.  Its entry is only lost to a crash or an error in the
\* middle of writing the index, or was never written: update saves a session whose
\* create failed on the index.
AcknowledgedSurvives ==
    \A id \in Ids :
        acked[id] # None =>
            files[id] = acked[id] /\ (InIndex(id) \/ index = Torn \/ id \in unindexed)

\* A session whose delete has returned is gone for good: no crash brings back its
\* entry or its file.
DeletedStaysDeleted ==
    \A id \in deleted : files[id] = None /\ ~InIndex(id)

\* The index never names a session that was never written completely: create writes
\* the file first.
IndexNamesWritten == index \notin {None, Torn} => index \subseteq written

\* Between operations the readable index names the sessions the store knows, but
\* for those whose create, or delete, failed before the index was written: a
\* restart forgets the first and brings the second back.
IndexInStep ==
    IsIdle /\ index # Torn =>
        LET named == IF index = None THEN {} ELSE index
        IN  known \ named \subseteq unindexed /\ named \ known \subseteq cut

\* Between operations a session that is known has a file, unless a delete removed it
\* and then failed or crashed: get() answers such an identifier with None, create()
\* says that it exists, and no other sequence of calls, errors and crashes makes one.
KnownHasFile == IsIdle => \A id \in known : files[id] # None \/ id \in cut
=============================================================================
