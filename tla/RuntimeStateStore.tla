------------------------- MODULE RuntimeStateStore -------------------------
(***************************************************************************)
(* server/src/runtime_state.rs: the store behind runtime-state.json.       *)
(* Memory (known hosts and alert states) changes under the `inner' mutex,  *)
(* each change giving it a new generation.  A save serializes memory under *)
(* that mutex, releases it for the slow part (temporary file, fsync), and  *)
(* takes it again to compare generations and rename.  Any number of        *)
(* threads may be saving and changing memory at the same time, every file  *)
(* operation may fail, and the process or the machine may stop anywhere.   *)
(*                                                                         *)
(* Abstraction: a KnownHost is a member of HostValue, an AlertState a      *)
(* member of AlertValue.  Alert keys "host:rule" are pairs.                *)
(***************************************************************************)
EXTENDS Naturals, FiniteSets

CONSTANTS
    Host,           \* server names (never blank: upsert_host ignores those)
    Rule,           \* alert rule ids
    HostValue,      \* contents of a KnownHost
    AlertValue,     \* contents of an AlertState
    Saver,          \* threads that may be inside save()
    MaxGeneration,  \* bound: edits of memory in one run of the process
    Absent,         \* no entry under this key
    NoFile,         \* runtime-state.json does not exist
    Torn,           \* a file whose bytes did not reach the disk
    Nobody          \* the mutex is free

ASSUME HostAssumption == IsFiniteSet(Host)
ASSUME BoundAssumption == MaxGeneration \in Nat /\ Cardinality(Host) <= MaxGeneration
ASSUME NobodyAssumption == Nobody \notin Saver

HostMap == [Host -> HostValue \cup {Absent}]
AlertMap == [Host \X Rule -> AlertValue \cup {Absent}]
RuntimeState == [hosts : HostMap, alerts : AlertMap]

ASSUME FileAssumption == NoFile \notin RuntimeState /\ Torn \notin RuntimeState \cup {NoFile}

VARIABLES
    up,           \* the process is running
    mem,          \* VersionedRuntimeState.state
    generation,   \* VersionedRuntimeState.generation
    inner,        \* who holds publication_lock and inner to publish, or Nobody
    pc,           \* where each saver is in save_with_before_publish
    snap,         \* what each saver serialized, with its generation
    tmp,          \* each saver's temporary file: "none", "dirty" or "clean"
    disk,         \* what a read of runtime-state.json returns
    recoverable,  \* what it may return after a power loss
    confirmed     \* history: hosts absent at a save that returned Published
                  \* and not upserted since

vars == <<up, mem, generation, inner, pc, snap, tmp, disk, recoverable, confirmed>>
saving == <<inner, pc, snap, tmp>>
files == <<disk, recoverable>>

EmptyState == [hosts  |-> [h \in Host |-> Absent],
               alerts |-> [k \in Host \X Rule |-> Absent]]

\* RuntimeStateStore::load falls back to the empty state for a file it
\* cannot parse.
Load(content) == IF content \in RuntimeState THEN content ELSE EmptyState

----------------------------------------------------------------------------
(* Changes of memory.  Each is one critical section of `inner'.            *)

\* Mutant: only a change of the hosts moves the generation.
EditHostsOnly(new) ==
    /\ up
    /\ inner = Nobody
    /\ generation < MaxGeneration
    /\ mem' = new
    /\ generation' = IF new.hosts # mem.hosts THEN generation + 1 ELSE generation
    /\ confirmed' = {h \in confirmed : new.hosts[h] = Absent}
    /\ UNCHANGED <<up, saving, files>>

Edit(new) ==
    /\ up
    /\ inner = Nobody
    /\ generation < MaxGeneration
    /\ mem' = new
    /\ generation' = generation + 1
    /\ confirmed' = {h \in confirmed : new.hosts[h] = Absent}
    /\ UNCHANGED <<up, saving, files>>

UpsertHost(h, v) ==
    Edit([mem EXCEPT !.hosts[h] = v])

\* Drops the hosts and every alert key that names one of them; the
\* generation moves only when something was dropped.
PurgeHosts(gone) ==
    LET new == [hosts  |-> [h \in Host |-> IF h \in gone THEN Absent ELSE mem.hosts[h]],
                alerts |-> [k \in Host \X Rule |->
                              IF k[1] \in gone THEN Absent ELSE mem.alerts[k]]]
    IN  new # mem /\ Edit(new)

\* The closure given to update_alerts may leave any alert map behind.
UpdateAlerts(alerts) ==
    alerts # mem.alerts /\ Edit([mem EXCEPT !.alerts = alerts])

MarkAlertEnqueued(k, v) ==
    /\ mem.alerts[k] \notin {Absent, v}
    /\ Edit([mem EXCEPT !.alerts[k] = v])

PruneAlertStates(rules, hosts) ==
    LET kept == [k \in Host \X Rule |->
                   IF k[1] \in hosts /\ k[2] \in rules THEN mem.alerts[k] ELSE Absent]
    IN  kept # mem.alerts /\ Edit([mem EXCEPT !.alerts = kept])

----------------------------------------------------------------------------
(* save_with_before_publish, one action per step that another thread or a  *)
(* crash can separate from the next.                                       *)

NoSave == [state |-> EmptyState, generation |-> 0]

Goto(s, from, to) == up /\ pc[s] = from /\ pc' = [pc EXCEPT ![s] = to]

\* save() returns: its payload goes out of scope and its temporary file,
\* unless renamed, has been removed.
Return(s, from) ==
    /\ Goto(s, from, "idle")
    /\ snap' = [snap EXCEPT ![s] = NoSave]
    /\ tmp' = [tmp EXCEPT ![s] = "none"]
    /\ UNCHANGED <<up, mem, generation>>

SerializeState(s) ==
    /\ Goto(s, "idle", "serialized")
    /\ inner = Nobody
    /\ snap' = [snap EXCEPT ![s] = [state |-> mem, generation |-> generation]]
    /\ UNCHANGED <<up, mem, generation, inner, tmp, files, confirmed>>

WriteTemporary(s) ==
    /\ Goto(s, "serialized", "written")
    /\ tmp' = [tmp EXCEPT ![s] = "dirty"]
    /\ UNCHANGED <<up, mem, generation, inner, snap, files, confirmed>>

\* Mutant: no sync_all before the rename.
SyncTemporaryForgotten(s) ==
    /\ Goto(s, "written", "synced")
    /\ UNCHANGED <<up, mem, generation, inner, snap, tmp, files, confirmed>>

SyncTemporary(s) ==
    /\ Goto(s, "written", "synced")
    /\ tmp' = [tmp EXCEPT ![s] = "clean"]
    /\ UNCHANGED <<up, mem, generation, inner, snap, files, confirmed>>

\* Creating the directory or the file, writing or syncing failed, or (from
\* "synced") the rename did: the temporary is removed, save() returns Err.
FailBeforePublish(s) ==
    /\ \/ Return(s, "serialized")
       \/ Return(s, "written")
       \/ Return(s, "synced") /\ inner = Nobody /\ snap[s].generation = generation
    /\ UNCHANGED <<inner, files, confirmed>>

\* Memory moved on since the payload was serialized: SaveResult::Skipped.
SkipStale(s) ==
    /\ Return(s, "synced")
    /\ inner = Nobody
    /\ snap[s].generation # generation
    /\ UNCHANGED <<inner, files, confirmed>>

\* Mutant: the payload replaces the file whatever memory holds by now.
RenameUnchecked(s) ==
    /\ Goto(s, "synced", "renamed")
    /\ inner = Nobody
    /\ inner' = s
    /\ disk' = snap[s].state
    /\ recoverable' = recoverable \cup {IF tmp[s] = "clean" THEN snap[s].state ELSE Torn}
    /\ UNCHANGED <<up, mem, generation, snap, tmp, confirmed>>

\* The generation check and the rename, with `inner' held from the check
\* until the directory is synced.  After a power loss the new name shows
\* the payload only if the payload itself had been synced.
RenameTemporary(s) ==
    /\ Goto(s, "synced", "renamed")
    /\ inner = Nobody
    /\ snap[s].generation = generation
    /\ inner' = s
    /\ disk' = snap[s].state
    /\ recoverable' = recoverable \cup {IF tmp[s] = "clean" THEN snap[s].state ELSE Torn}
    /\ UNCHANGED <<up, mem, generation, snap, tmp, confirmed>>

\* sync_parent_directory succeeded: SaveResult::Published.
SyncDirectory(s) ==
    /\ Return(s, "renamed")
    /\ inner' = Nobody
    /\ recoverable' = {disk}
    /\ confirmed' = confirmed \cup {h \in Host : disk.hosts[h] = Absent}
    /\ UNCHANGED disk

\* It failed: save() returns Err although the file was replaced.
FailSyncDirectory(s) ==
    /\ Return(s, "renamed")
    /\ inner' = Nobody
    /\ UNCHANGED <<files, confirmed>>

----------------------------------------------------------------------------
(* The process stops and starts.                                           *)

Discard ==
    /\ up' = FALSE
    /\ mem' = EmptyState
    /\ generation' = 0
    /\ inner' = Nobody
    /\ pc' = [s \in Saver |-> "idle"]
    /\ snap' = [s \in Saver |-> NoSave]
    /\ tmp' = [s \in Saver |-> "none"]
    /\ UNCHANGED confirmed

Kill == up /\ Discard /\ UNCHANGED files

PowerLoss ==
    /\ up
    /\ Discard
    /\ \E content \in recoverable : disk' = content /\ recoverable' = {content}

StartWith(state, gen) ==
    /\ ~up
    /\ up' = TRUE
    /\ mem' = state
    /\ generation' = gen
    /\ UNCHANGED <<saving, confirmed>>

\* load: a file that is there but cannot be read counts as empty.
LoadFile ==
    /\ disk # NoFile
    /\ StartWith(Load(disk), 0) \/ StartWith(EmptyState, 0)
    /\ UNCHANGED files

\* load_or_import_legacy without a file: the legacy rows are upserted and
\* saved; when that save fails the store starts from what the file then is.
ImportLegacy(legacy, v) ==
    LET imported == [EmptyState EXCEPT !.hosts =
                       [h \in Host |-> IF h \in legacy THEN v ELSE Absent]]
    IN  /\ disk = NoFile
        /\ \/ /\ StartWith(imported, Cardinality(legacy))
              /\ disk' = imported
              /\ recoverable' = {imported}
           \/ /\ StartWith(imported, 0)     \* the directory sync failed
              /\ disk' = imported
              /\ recoverable' = recoverable \cup {imported}
           \/ /\ StartWith(EmptyState, 0)   \* an earlier step failed
              /\ UNCHANGED files

----------------------------------------------------------------------------
Init ==
    /\ up = FALSE
    /\ mem = EmptyState
    /\ generation = 0
    /\ inner = Nobody
    /\ pc = [s \in Saver |-> "idle"]
    /\ snap = [s \in Saver |-> NoSave]
    /\ tmp = [s \in Saver |-> "none"]
    /\ disk = NoFile
    /\ recoverable = {NoFile}
    /\ confirmed = {}

Mutate ==
    \/ \E h \in Host, v \in HostValue : UpsertHost(h, v)
    \/ \E gone \in SUBSET Host : PurgeHosts(gone)
    \/ \E alerts \in AlertMap : UpdateAlerts(alerts)
    \/ \E k \in Host \X Rule, v \in AlertValue : MarkAlertEnqueued(k, v)
    \/ \E rules \in SUBSET Rule, hosts \in SUBSET Host : PruneAlertStates(rules, hosts)

Save(s) ==
    \/ SerializeState(s) \/ WriteTemporary(s) \/ SyncTemporary(s) \/ FailBeforePublish(s)
    \/ SkipStale(s) \/ RenameTemporary(s) \/ SyncDirectory(s) \/ FailSyncDirectory(s)

Restart ==
    \/ Kill \/ PowerLoss \/ LoadFile
    \/ \E legacy \in SUBSET Host, v \in HostValue : ImportLegacy(legacy, v)

Next == Mutate \/ (\E s \in Saver : Save(s)) \/ Restart

Spec == Init /\ [][Next]_vars

----------------------------------------------------------------------------
SaverState == {"idle", "serialized", "written", "synced", "renamed"}

\* Types of the variables.  No file content is torn, neither the one that is read
\* nor one that a power loss may leave: write, sync and rename come in an order
\* that no second saver and no failure upsets.
TypeOK ==
    /\ up \in BOOLEAN
    /\ mem \in RuntimeState
    /\ generation \in 0..MaxGeneration
    /\ inner \in Saver \cup {Nobody}
    /\ pc \in [Saver -> SaverState]
    /\ snap \in [Saver -> [state : RuntimeState, generation : 0..MaxGeneration]]
    /\ tmp \in [Saver -> {"none", "dirty", "clean"}]
    /\ disk \in RuntimeState \cup {NoFile}
    /\ recoverable \in SUBSET (RuntimeState \cup {NoFile})
    /\ confirmed \in SUBSET Host

\* A payload whose generation is still current is what memory holds: the
\* comparison of two counters in save_with_before_publish really decides
\* whether the payload is stale, whatever was edited in between.
CurrentGenerationIsFresh ==
    \A s \in Saver : pc[s] # "idle" /\ snap[s].generation = generation => snap[s].state = mem

\* Whatever stops the machine, the next start finds a file that is whole or
\* missing: no interleaving of write, sync and rename exposes a torn one.
NeverTorn == Torn \notin recoverable \cup {disk}

\* A purge that was reported as saved is final: once save() returned
\* Published, no file content that any crash can leave brings back a host
\* that was absent then, until the host reports again - whichever slower
\* saver, failed save or restart comes in between.
PurgedStaysPurged ==
    \A h \in confirmed : \A content \in recoverable \cup {disk} :
        content \in RuntimeState /\ content.hosts[h] = Absent

\* The store implements the abstract durable cell: the file only ever takes
\* the value that memory holds at that moment.
Cell == INSTANCE DurableCell WITH
            Value <- RuntimeState, Initial <- EmptyState,
            value <- mem, cell <- disk

CellSpec == Cell!Spec

\* What a thread inside save() has serialized, told by the generations alone.
Serialized(s) ==
    IF pc[s] = "idle" THEN "nothing"
    ELSE IF snap[s].generation = generation THEN "current" ELSE "superseded"

\* The generations do what a flag per saving thread would do that every change
\* of memory clears: a payload whose flag is clear never reaches the file, one
\* whose flag is set is what memory holds when it does.
Saving == INSTANCE SavingCell WITH
              Value <- RuntimeState, Initial <- EmptyState,
              value <- mem, cell <- disk, saver <- [s \in Saver |-> Serialized(s)]

SavingSpec == Saving!Spec
=============================================================================
