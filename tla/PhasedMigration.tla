--------------------------- MODULE PhasedMigration --------------------------
(***************************************************************************)
(* The phased migration from SQLite to PostgreSQL (runnerd-migrate): the   *)
(* source and its triggers, the target and its guards, the importer with   *)
(* its modes, and the services that write to whichever is open.            *)
(*                                                                         *)
(*   internal/state/phased_migration.go           modes, prepare, load     *)
(*   internal/state/phased_migration_copy.go      copy, replay, events     *)
(*   internal/state/phased_migration_requests.go  stale job owners         *)
(*   internal/state/phased_migration_cutover.go   seal, verify, resume     *)
(*   internal/state/phased_migration_guards.go    triggers and guards      *)
(*                                                                         *)
(* The importer holds an advisory lock on the target, so there is one at a *)
(* time.  Its read transactions on the source see a snapshot; its target   *)
(* transactions commit as a whole.  It may stop at any point.              *)
(***************************************************************************)
EXTENDS Integers, Sequences, FiniteSets, FiniteSetsExt

CONSTANTS
    Requests,   \* how many ids of runner requests there are
    Jobs,       \* workflow job ids
    NoJob,      \* a request without a workflow job
    Vals,       \* the rest of a request, as its time stamp
    Absent,     \* no row
    Tables,     \* the tables that are replaced as a whole
    Content,    \* what such a table may hold, as its time stamp
    Empty,      \* what it holds when it was just created
    Precision,  \* the unit of a time stamp in PostgreSQL, in those of SQLite
    BatchSize,  \* phasedBatchSize
    MaxFinal,   \* --max-final-changes
    MayLose,    \* source writes an importer may still do after its lock is gone
    MaxWrites,  \* bound on the writes of the services
    MaxEvents   \* bound on the event ids

(* Requests by the place of their id in the order of its binary text.      *)
Ids == 1 .. Requests
Row == [job : Jobs \cup {NoJob}, val : Vals]

(* normalizeMigrationValue: SQLite keeps the nanoseconds of a time, and    *)
(* PostgreSQL its whole microseconds.                                      *)
Truncate(v) == v - (v % Precision)

ASSUME SizesAssumption ==
    /\ Requests \in Nat
    /\ Absent \notin Row
    /\ Empty \in Content
    /\ BatchSize \in Nat \ {0}
    /\ MaxFinal \in Nat
    /\ MayLose \subseteq {"seal", "unseal"}
    /\ MaxWrites \in Nat /\ MaxEvents \in Nat

ASSUME TimesAssumption ==
    /\ Precision \in Nat \ {0}
    /\ Vals \subseteq Nat /\ \A v \in Vals : Truncate(v) \in Vals
    /\ Content \subseteq Nat /\ \A c \in Content : Truncate(c) \in Content

VARIABLES
    \* the SQLite database
    srcPhase,   \* phase of runnerd_transfer_source, "none" before prepare
    req,        \* runner_requests
    small,      \* the other tables
    events,     \* ids in runner_events
    eseq,       \* the AUTOINCREMENT counter of runner_events
    journal,    \* runnerd_transfer_changes
    upper,      \* RequestUpper, 0 if there was no request
    \* the PostgreSQL schema
    phase,      \* phase of runnerd_transfer_target, "none" before prepare
    treq, tsmall,
    tevents,    \* who inserted the event with an id: "no", "src" or "pg"
    tseq,       \* its sequence
    cursor,     \* JournalCursor
    watermark,  \* EventWatermark
    base,       \* checkpoint of runner_requests
    hist,       \* checkpoint of runner_events
    \* the importer
    mode, pc,
    todo,       \* small tables still to be refreshed
    reading,    \* a read transaction on the source is open
    view, viewSmall,
    up,         \* the bound of the replay or of the event copy
    stray,      \* source writes of importers that lost the lock
    writes

source == <<srcPhase, req, small, events, eseq, journal, upper>>
target == <<phase, treq, tsmall, tevents, tseq, cursor, watermark, base, hist>>
snapshot == <<reading, view, viewSmall>>
importer == <<mode, pc, todo, snapshot, up>>
vars == <<source, target, importer, stray, writes>>

Modes == {"none", "prepare", "sync", "cutover", "resume", "backfill"}
Pcs == {"idle", "install", "schema", "small", "base", "upper", "replay", "verify",
        "seal", "unseal", "events", "count"}
EventIds == 1 .. MaxEvents
Table == [Ids -> Row \cup {Absent}]

(* The unique index on workflow_job_id.                                    *)
UniqueJobs(t) ==
    \A i, j \in Ids :
        i # j /\ t[i] # Absent /\ t[j] # Absent /\ t[i].job # NoJob => t[i].job # t[j].job

NoRows == [i \in Ids |-> Absent]
NoTables == [t \in Tables |-> Empty]
Rows(t) == {i \in Ids : t[i] # Absent}

(* What PostgreSQL can hold of a row, of the requests and of the tables.   *)
Stored(row) == IF row = Absent THEN Absent ELSE [row EXCEPT !.val = Truncate(@)]
Normalized(t) == [i \in Ids |-> Stored(t[i])]
NormalizedSmall(s) == [t \in Tables |-> Truncate(s[t])]

Init ==
    /\ srcPhase = "none"
    /\ req \in Table /\ UniqueJobs(req)
    /\ small \in [Tables -> Content]
    /\ eseq \in EventIds \cup {0} /\ events \in SUBSET (1 .. eseq)
    /\ journal = <<>> /\ upper = 0
    /\ phase = "none"
    /\ treq = NoRows /\ tsmall = NoTables
    /\ tevents = [e \in EventIds |-> "no"] /\ tseq = 0
    /\ cursor = 0 /\ watermark = 0
    /\ base = [cursor |-> 0, done |-> FALSE]
    /\ hist = [cursor |-> 0, rows |-> 0]
    /\ mode = "none" /\ pc = "idle" /\ todo = {}
    /\ reading = FALSE /\ view = NoRows /\ viewSmall = NoTables
    /\ up = 0 /\ stray = {} /\ writes = 0

-----------------------------------------------------------------------------
(* The services                                                            *)

SourceOpen == srcPhase # "sealed"
TargetOpen == phase \in {"ready", "complete"}

(* As Journaled, but an update is not captured.                            *)
JournaledUnlessUpdate(id, row) ==
    IF srcPhase = "copying" /\ (row = Absent \/ req[id] = Absent) THEN Append(journal, id) ELSE journal

(* As Journaled, but a deletion is not captured.                           *)
JournaledUnlessDelete(id, row) ==
    IF srcPhase = "copying" /\ row # Absent THEN Append(journal, id) ELSE journal

(* The triggers journal the old key of a changed request and the new one.  *)
Journaled(id, row) ==
    IF srcPhase = "copying"
    THEN journal \o (IF req[id] # Absent THEN <<id>> ELSE <<>>) \o (IF row # Absent THEN <<id>> ELSE <<>>)
    ELSE journal

(* A request is inserted, changed or deleted in SQLite, unless it is sealed.*)
SourceRequest(id, row) ==
    /\ SourceOpen /\ writes < MaxWrites
    /\ row # req[id] /\ UniqueJobs([req EXCEPT ![id] = row])
    /\ req' = [req EXCEPT ![id] = row]
    /\ journal' = Journaled(id, row)
    /\ writes' = writes + 1
    /\ UNCHANGED <<srcPhase, small, events, eseq, upper, target, importer, stray>>

SourceSmall(t, c) ==
    /\ SourceOpen /\ writes < MaxWrites
    /\ c # small[t]
    /\ small' = [small EXCEPT ![t] = c]
    /\ writes' = writes + 1
    /\ UNCHANGED <<srcPhase, req, events, eseq, journal, upper, target, importer, stray>>

SourceEvent ==
    /\ SourceOpen /\ writes < MaxWrites /\ eseq < MaxEvents
    /\ eseq' = eseq + 1
    /\ events' = events \cup {eseq + 1}
    /\ writes' = writes + 1
    /\ UNCHANGED <<srcPhase, req, small, journal, upper, target, importer, stray>>

(* The same in PostgreSQL, once the guards let the service write: what is  *)
(* stored has no more than its precision.                                  *)
TargetRequest(id, row) ==
    /\ TargetOpen /\ writes < MaxWrites
    /\ Stored(row) = row
    /\ row # treq[id] /\ UniqueJobs([treq EXCEPT ![id] = row])
    /\ treq' = [treq EXCEPT ![id] = row]
    /\ writes' = writes + 1
    /\ UNCHANGED <<source, phase, tsmall, tevents, tseq, cursor, watermark, base, hist, importer, stray>>

TargetSmall(t, c) ==
    /\ TargetOpen /\ writes < MaxWrites
    /\ Truncate(c) = c /\ c # tsmall[t]
    /\ tsmall' = [tsmall EXCEPT ![t] = c]
    /\ writes' = writes + 1
    /\ UNCHANGED <<source, phase, treq, tevents, tseq, cursor, watermark, base, hist, importer, stray>>

(* A new event takes the next id of the sequence; one that exists already  *)
(* makes the insert fail.                                                  *)
TargetEvent ==
    /\ TargetOpen /\ writes < MaxWrites /\ tseq < MaxEvents
    /\ tseq' = tseq + 1
    /\ tevents' = [tevents EXCEPT ![tseq + 1] = IF @ = "no" THEN "pg" ELSE @]
    /\ writes' = writes + 1
    /\ UNCHANGED <<source, phase, treq, tsmall, cursor, watermark, base, hist, importer, stray>>

Service ==
    \/ \E id \in Ids, row \in Row \cup {Absent} : SourceRequest(id, row) \/ TargetRequest(id, row)
    \/ \E t \in Tables, c \in Content : SourceSmall(t, c) \/ TargetSmall(t, c)
    \/ SourceEvent \/ TargetEvent

-----------------------------------------------------------------------------
(* A command starts with the lock and reads both phases                    *)

Prepared == srcPhase # "none" /\ phase # "none"
Consistent == phase = "copying" \/ srcPhase = "sealed"

(* The command has ended.                                                  *)
Idle == mode' = "none" /\ pc' = "idle" /\ todo' = {} /\ up' = 0

Begin(m, at) ==
    /\ pc = "idle"
    /\ mode' = m /\ pc' = at
    /\ UNCHANGED <<source, target, snapshot, stray, writes>>

StartPrepare ==
    /\ phase = "none" /\ srcPhase \in {"none", "copying"}
    /\ Begin("prepare", IF srcPhase = "none" THEN "install" ELSE "schema")
    /\ UNCHANGED <<todo, up>>

StartSync ==
    /\ srcPhase = "copying" /\ phase = "copying"
    /\ Begin("sync", "small")
    /\ todo' = Tables /\ UNCHANGED up

StartCutover ==
    /\ Prepared /\ Consistent /\ phase = "copying" /\ base.done
    /\ Begin("cutover", "seal")
    /\ UNCHANGED <<todo, up>>

(* As StartResume, but the phase of PostgreSQL is not looked at.           *)
StartResumeAlways ==
    /\ Prepared /\ Consistent
    /\ Begin("resume", "unseal")
    /\ UNCHANGED <<todo, up>>

StartResume ==
    /\ Prepared /\ Consistent /\ phase = "copying"
    /\ Begin("resume", "unseal")
    /\ UNCHANGED <<todo, up>>

StartBackfill ==
    /\ srcPhase = "sealed" /\ TargetOpen
    /\ Begin("backfill", "events")
    /\ up' = watermark /\ UNCHANGED todo

-----------------------------------------------------------------------------
(* prepare                                                                 *)

(* After the backup, capture and fence are installed in one transaction.   *)
Install ==
    /\ pc = "install"
    /\ srcPhase' = "copying"
    /\ upper' = IF Rows(req) = {} THEN 0 ELSE Max(Rows(req))
    /\ pc' = "schema"
    /\ UNCHANGED <<req, small, events, eseq, journal, target, mode, todo, snapshot, up, stray, writes>>

(* The fenced tables and the checkpoints are created in the target.        *)
Schema ==
    /\ pc = "schema"
    /\ phase' = "copying"
    /\ Idle
    /\ UNCHANGED <<source, treq, tsmall, tevents, tseq, cursor, watermark, base, hist,
                   snapshot, stray, writes>>

-----------------------------------------------------------------------------
(* Copying                                                                 *)

(* The rows of a batch as a source transaction sees them, normalized.      *)
Read ==
    /\ pc \in {"small", "base", "replay"} /\ ~reading
    /\ pc = "small" => todo # {}
    /\ pc = "base" => ~base.done
    /\ pc = "replay" => cursor < up
    /\ reading' = TRUE /\ view' = Normalized(req) /\ viewSmall' = NormalizedSmall(small)
    /\ UNCHANGED <<source, target, mode, pc, todo, up, stray, writes>>

EndRead == reading' = FALSE /\ view' = NoRows /\ viewSmall' = NoTables

(* syncSmallTables: one table is replaced in a transaction of its own.     *)
SmallCommit ==
    /\ pc = "small" /\ reading /\ phase = "copying"
    /\ \E t \in todo :
        /\ tsmall' = [tsmall EXCEPT ![t] = viewSmall[t]]
        /\ todo' = todo \ {t}
    /\ EndRead
    /\ UNCHANGED <<source, phase, treq, tevents, tseq, cursor, watermark, base, hist,
                   mode, pc, up, stray, writes>>

SmallDone ==
    /\ pc = "small" /\ ~reading /\ todo = {}
    /\ pc' = IF mode = "sync" THEN "base" ELSE "upper"
    /\ UNCHANGED <<source, target, mode, todo, snapshot, up, stray, writes>>

(* readMigrationRows: the next page of the keys in a set.                  *)
Page(keys, after, last) ==
    LET rest == {k \in keys : after < k /\ k <= last}
    IN  {k \in rest : Cardinality({j \in rest : j < k}) < BatchSize}

Last(page, after) == IF page = {} THEN after ELSE Max(page)

(* As StaleOwners, but nothing is cleaned up.                              *)
NoStaleOwners(page) == {}

(* Target rows that hold a job of the batch and hold it no longer in the   *)
(* source.                                                                 *)
StaleOwners(page) ==
    {i \in Rows(treq) :
        /\ \E k \in page : k # i /\ treq[i].job # NoJob /\ view[k].job = treq[i].job
        /\ ~(view[i] # Absent /\ view[i].job = treq[i].job)}

(* phasedWriteRequests for the rows of the view with these keys, and the   *)
(* deletion of the keys that the view does not have.                       *)
Written(keys) ==
    LET stale == StaleOwners(keys \cap Rows(view))
    IN  [i \in Ids |-> IF i \in keys THEN view[i] ELSE IF i \in stale THEN Absent ELSE treq[i]]

(* copyRequests: the baseline up to the largest id at preparation.         *)
BasePage == Page(Rows(view), base.cursor, upper)

BaseCommit ==
    /\ pc = "base" /\ reading /\ phase = "copying"
    /\ UniqueJobs(Written(BasePage))
    /\ treq' = Written(BasePage)
    /\ LET last == Last(BasePage, base.cursor)
       IN  base' = [cursor |-> last, done |-> ~\E k \in Rows(view) : last < k /\ k <= upper]
    /\ EndRead
    /\ UNCHANGED <<source, phase, tsmall, tevents, tseq, cursor, watermark, hist,
                   mode, pc, todo, up, stray, writes>>

BaseDone ==
    /\ pc = "base" /\ ~reading /\ base.done
    /\ pc' = "upper"
    /\ UNCHANGED <<source, target, mode, todo, snapshot, up, stray, writes>>

(* replayRequests: the journal as it is now bounds the replay.             *)
Upper ==
    /\ pc = "upper"
    /\ up' = Len(journal)
    /\ pc' = "replay"
    /\ UNCHANGED <<source, target, mode, todo, snapshot, stray, writes>>

(* The journal entry a batch ends with, and the keys up to it.             *)
ReplayLast == IF cursor + BatchSize < up THEN cursor + BatchSize ELSE up
ReplayKeys == {journal[k] : k \in (cursor + 1) .. ReplayLast}

ReplayCommit ==
    /\ pc = "replay" /\ reading /\ phase = "copying"
    /\ UniqueJobs(Written(ReplayKeys))
    /\ treq' = Written(ReplayKeys)
    /\ cursor' = ReplayLast
    /\ EndRead
    /\ UNCHANGED <<source, phase, tsmall, tevents, tseq, watermark, base, hist,
                   mode, pc, todo, up, stray, writes>>

(* The journal is replayed: a sync may go on with events, cutover verifies.*)
ReplayDone ==
    /\ pc = "replay" /\ ~reading /\ cursor >= up
    /\ \/ mode = "cutover" /\ pc' = "verify" /\ UNCHANGED <<mode, todo, up>>
       \/ mode = "sync" /\ Idle
       \/ /\ mode = "sync" /\ pc' = "events"
          /\ up' = IF events = {} THEN 0 ELSE Max(events)
          /\ UNCHANGED <<mode, todo>>
    /\ UNCHANGED <<source, target, snapshot, stray, writes>>

-----------------------------------------------------------------------------
(* Cutover                                                                 *)

(* What the two writes of the source phase leave behind.                   *)
Fenced(write) == IF write = "seal" THEN "sealed" ELSE "copying"

(* The source is sealed, if little enough is left to replay.               *)
Seal ==
    /\ pc = "seal"
    /\ Len(journal) - cursor <= MaxFinal
    /\ srcPhase' = Fenced("seal")
    /\ pc' = "small" /\ todo' = Tables
    /\ UNCHANGED <<req, small, events, eseq, journal, upper, target, mode, snapshot, up, stray, writes>>

(* The request counts agree and the journal is replayed.                   *)
Converged == Cardinality(Rows(req)) = Cardinality(Rows(treq)) /\ cursor >= Len(journal)

(* As Reserved, but the sequence is left alone.                            *)
ReservedNot == tseq

(* The sequence goes on after the ids of the source.                       *)
Reserved == IF eseq > 0 THEN eseq ELSE tseq

(* As Watermark, but it is the end of what was copied.                     *)
WatermarkCopied == hist.cursor

(* migrationSequenceWatermark of runner_events.                            *)
Watermark == eseq

(* The target is released.                                                 *)
Verify ==
    /\ pc = "verify" /\ phase = "copying"
    /\ Converged
    /\ phase' = "ready"
    /\ watermark' = Watermark
    /\ tseq' = Reserved
    /\ Idle
    /\ UNCHANGED <<source, treq, tsmall, tevents, cursor, base, hist, snapshot, stray, writes>>

(* resume-source.                                                          *)
Unseal ==
    /\ pc = "unseal"
    /\ srcPhase' = Fenced("unseal")
    /\ Idle
    /\ UNCHANGED <<req, small, events, eseq, journal, upper, target, snapshot, stray, writes>>

-----------------------------------------------------------------------------
(* Event history, copied by sync and after the cutover by backfill         *)

EventPage == Page(events, hist.cursor, up)
MoreEvents == \E e \in events : Last(EventPage, hist.cursor) < e /\ e <= up

Progress == [cursor |-> Last(EventPage, hist.cursor), rows |-> hist.rows + Cardinality(EventPage)]

(* An id that is already there is left alone, and the batch then fails     *)
(* unless the row is the same.                                             *)
EventsCommit ==
    /\ pc = "events"
    /\ mode = "sync" => phase = "copying"
    /\ \A e \in EventPage : tevents[e] # "pg"
    /\ tevents' = [e \in EventIds |-> IF e \in EventPage THEN "src" ELSE tevents[e]]
    /\ hist' = Progress
    /\ IF MoreEvents THEN UNCHANGED <<mode, pc, todo, up>>
       ELSE IF mode = "sync" THEN Idle
       ELSE pc' = "count" /\ UNCHANGED <<mode, todo, up>>
    /\ UNCHANGED <<source, phase, treq, tsmall, tseq, cursor, watermark, base, snapshot, stray, writes>>

(* The prefix of the history has as many events as were copied.            *)
SameHistory ==
    /\ Cardinality({e \in events : e <= up}) = hist.rows
    /\ Cardinality({e \in EventIds : e <= up /\ tevents[e] # "no"}) = hist.rows

Count ==
    /\ pc = "count" /\ SameHistory
    /\ phase' = "complete"
    /\ Idle
    /\ UNCHANGED <<source, treq, tsmall, tevents, tseq, cursor, watermark, base, hist, snapshot, stray, writes>>

-----------------------------------------------------------------------------
(* Failures                                                                *)

(* A check fails, the deadline passes or the process dies.                 *)
Stop ==
    /\ pc # "idle"
    /\ Idle /\ EndRead
    /\ UNCHANGED <<source, target, stray, writes>>

(* The connection that holds the lock is gone, and the importer has not    *)
(* noticed: it still does the write to the source that is next.            *)
Loss ==
    /\ pc \in MayLose
    /\ stray' = stray \cup {pc}
    /\ Idle
    /\ UNCHANGED <<source, target, snapshot, writes>>

Stray ==
    /\ \E w \in stray : srcPhase' = Fenced(w) /\ stray' = stray \ {w}
    /\ UNCHANGED <<req, small, events, eseq, journal, upper, target, importer, writes>>

-----------------------------------------------------------------------------

Start == StartPrepare \/ StartSync \/ StartCutover \/ StartResume \/ StartBackfill
Copy == Read \/ SmallCommit \/ SmallDone \/ BaseCommit \/ BaseDone \/ Upper \/ ReplayCommit \/ ReplayDone
Cutover == Seal \/ Verify \/ Unseal
History == EventsCommit \/ Count

Next ==
    \/ Service \/ Start \/ Install \/ Schema \/ Copy \/ Cutover \/ History
    \/ Stop \/ Loss \/ Stray

Spec == Init /\ [][Next]_vars

-----------------------------------------------------------------------------
(* Properties                                                              *)

SourceTypes ==
    /\ srcPhase \in {"none", "copying", "sealed"}
    /\ req \in Table /\ small \in [Tables -> Content]
    /\ eseq \in EventIds \cup {0} /\ events \subseteq 1 .. eseq
    /\ journal \in Seq(Ids) /\ upper \in Ids \cup {0}

TargetTypes ==
    /\ phase \in {"none", "copying", "ready", "complete"}
    /\ treq \in Table /\ tsmall \in [Tables -> Content]
    /\ tevents \in [EventIds -> {"no", "src", "pg"}]
    /\ tseq \in EventIds \cup {0}
    /\ cursor \in 0 .. Len(journal)
    /\ watermark \in 0 .. eseq
    /\ base \in [cursor : 0 .. upper, done : BOOLEAN]
    /\ hist \in [cursor : 0 .. eseq, rows : Nat]
    /\ hist.rows = Cardinality({e \in events : e <= hist.cursor})

ImporterTypes ==
    /\ mode \in Modes /\ pc \in Pcs
    /\ todo \subseteq Tables
    /\ reading \in BOOLEAN
    /\ view \in Table /\ viewSmall \in [Tables -> Content]
    /\ up \in Nat
    /\ stray \subseteq MayLose
    /\ writes \in 0 .. MaxWrites

(* The phases, cursors and checkpoints of phasedSourceRecord,              *)
(* phasedTargetRecord and phasedCheckpoint stay in their ranges: no cursor *)
(* is ahead of the journal or the history, and the rows counted for the    *)
(* history are the ones it holds up to the cursor.                         *)
TypeOK == SourceTypes /\ TargetTypes /\ ImporterTypes

(* The database triggers never let a service write to SQLite and another   *)
(* one to PostgreSQL: not while a cutover is interrupted, repeated or      *)
(* undone by resume-source, and not through a seal that arrives late.  It  *)
(* needs "unseal" \notin MayLose: a resume-source that has lost its lock    *)
(* and unseals SQLite after another importer's cutover does violate it.    *)
OneWriter == ~(SourceOpen /\ TargetOpen)

(* A request that differs between the databases, other than by the         *)
(* nanoseconds PostgreSQL cannot hold, is still to come: its key           *)
(* is in the journal behind the cursor, or the baseline has not reached it.*)
(* So a write that races a batch read before it is never lost.             *)
Covered ==
    phase = "copying" =>
        \A id \in Ids :
            treq[id] # Normalized(req)[id] =>
                \/ \E k \in (cursor + 1) .. Len(journal) : journal[k] = id
                \/ ~base.done /\ base.cursor < id /\ id <= upper

(* phasedWriteRequests clears the way for a batch: a job that moved to     *)
(* another request in the source, even one outside of the batch, never     *)
(* makes the batch fail on the unique index of the target, which would     *)
(* make every later sync fail at the same place.                           *)
BatchesApply ==
    reading =>
        /\ pc = "base" => UniqueJobs(Written(BasePage))
        /\ pc = "replay" => UniqueJobs(Written(ReplayKeys))

(* When cutover has replayed the journal of the sealed source, its         *)
(* verification succeeds: the source is never left sealed for a difference *)
(* that no repetition of the cutover would remove.                         *)
VerifyPasses == pc = "verify" /\ srcPhase = "sealed" => Converged

(* When the phase says complete, PostgreSQL has every event that SQLite    *)
(* ever had, including those written between the last sync and the seal.   *)
HistoryWhole == phase = "complete" => \A e \in events : tevents[e] = "src"

(* After the release, PostgreSQL numbers its own events above all ids of   *)
(* the source, so that backfill never meets one in its way.                *)
EventIdsApart ==
    TargetOpen =>
        /\ watermark = eseq
        /\ \A e \in EventIds : tevents[e] = "pg" => e > watermark /\ e <= tseq

(* The service sees one store.  The cutover hands it over with every       *)
(* request and every row of the other tables as PostgreSQL can hold it;    *)
(* the events it shows may shrink then to those that sync has copied, and  *)
(* backfill brings back the others, and nothing else.                      *)
Served ==
    INSTANCE ServedStore WITH
        Kept <- [row \in Row \cup {Absent} |-> Stored(row)],
        KeptSmall <- [c \in Content |-> Truncate(c)],
        owner <- IF TargetOpen THEN "postgres" ELSE "sqlite",
        rows <- IF TargetOpen THEN treq ELSE req,
        small <- IF TargetOpen THEN tsmall ELSE small,
        history <- events \cup {e \in EventIds : tevents[e] = "pg"},
        shown <- IF TargetOpen THEN {e \in EventIds : tevents[e] # "no"} ELSE events,
        complete <- phase = "complete"

(* The migration implements the one store of ServedStore.                  *)
ServedAsOne == Served!Spec
=============================================================================
