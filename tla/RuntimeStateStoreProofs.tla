---------------------- MODULE RuntimeStateStoreProofs ----------------------
(***************************************************************************)
(* Theorems of RuntimeStateStore for every set of hosts, rules and saving  *)
(* threads and every bound on the edits.                                   *)
(***************************************************************************)
EXTENDS RuntimeStateStore, FiniteSetTheorems, TLAPS

(***************************************************************************)
(* Every edit of memory is an Edit to some well-formed state.              *)
(***************************************************************************)

LEMMA EmptyStateType == EmptyState \in RuntimeState
  BY DEF EmptyState, RuntimeState, HostMap, AlertMap

LEMMA NoSaveType == NoSave \in [state : RuntimeState, generation : 0..MaxGeneration]
  BY EmptyStateType, BoundAssumption DEF NoSave

LEMMA LoadType == ASSUME NEW c PROVE Load(c) \in RuntimeState
  BY EmptyStateType DEF Load

LEMMA MutateIsEdit ==
  ASSUME mem \in RuntimeState, Mutate
  PROVE  \E new \in RuntimeState : Edit(new)
<1>1. CASE \E h \in Host, v \in HostValue : UpsertHost(h, v)
  <2>1. PICK h \in Host, v \in HostValue : UpsertHost(h, v)
    BY <1>1
  <2>2. [mem EXCEPT !.hosts[h] = v] \in RuntimeState
    BY DEF RuntimeState, HostMap
  <2> QED BY <2>1, <2>2 DEF UpsertHost
<1>2. CASE \E gone \in SUBSET Host : PurgeHosts(gone)
  <2>1. PICK gone \in SUBSET Host : PurgeHosts(gone)
    BY <1>2
  <2> DEFINE new == [hosts  |-> [h \in Host |-> IF h \in gone THEN Absent ELSE mem.hosts[h]],
                     alerts |-> [k \in Host \X Rule |->
                                   IF k[1] \in gone THEN Absent ELSE mem.alerts[k]]]
  <2>2. new \in RuntimeState
    <3>1. [h \in Host |-> IF h \in gone THEN Absent ELSE mem.hosts[h]] \in HostMap
      BY DEF RuntimeState, HostMap
    <3>2. [k \in Host \X Rule |-> IF k[1] \in gone THEN Absent ELSE mem.alerts[k]] \in AlertMap
      BY DEF RuntimeState, AlertMap
    <3> QED BY <3>1, <3>2 DEF RuntimeState
  <2>3. Edit(new)
    BY <2>1 DEF PurgeHosts
  <2> QED BY <2>2, <2>3
<1>3. CASE \E alerts \in AlertMap : UpdateAlerts(alerts)
  <2>1. PICK alerts \in AlertMap : UpdateAlerts(alerts)
    BY <1>3
  <2>2. [mem EXCEPT !.alerts = alerts] \in RuntimeState
    BY DEF RuntimeState
  <2> QED BY <2>1, <2>2 DEF UpdateAlerts
<1>4. CASE \E k \in Host \X Rule, v \in AlertValue : MarkAlertEnqueued(k, v)
  <2>1. PICK k \in Host \X Rule, v \in AlertValue : MarkAlertEnqueued(k, v)
    BY <1>4
  <2>2. [mem EXCEPT !.alerts[k] = v] \in RuntimeState
    BY DEF RuntimeState, AlertMap
  <2> QED BY <2>1, <2>2 DEF MarkAlertEnqueued
<1>5. CASE \E rules \in SUBSET Rule, hosts \in SUBSET Host : PruneAlertStates(rules, hosts)
  <2>1. PICK rules \in SUBSET Rule, hosts \in SUBSET Host : PruneAlertStates(rules, hosts)
    BY <1>5
  <2> DEFINE kept == [k \in Host \X Rule |->
                        IF k[1] \in hosts /\ k[2] \in rules THEN mem.alerts[k] ELSE Absent]
  <2>2. kept \in AlertMap
    BY DEF RuntimeState, AlertMap
  <2>3. [mem EXCEPT !.alerts = kept] \in RuntimeState
    BY <2>2 DEF RuntimeState
  <2>4. Edit([mem EXCEPT !.alerts = kept])
    BY <2>1 DEF PruneAlertStates
  <2> QED BY <2>3, <2>4
<1> QED BY <1>1, <1>2, <1>3, <1>4, <1>5 DEF Mutate

(***************************************************************************)
(* The inductive invariant.  CurrentGenerationIsFresh alone is not         *)
(* preserved: an edit needs to know that no payload is ahead of memory,    *)
(* a rename that its temporary file was synced, a directory sync that the  *)
(* mutex kept memory equal to the file, and a restart that no thread is    *)
(* inside save().  PurgedStaysPurged needs its mirror image in memory.     *)
(***************************************************************************)

SnapshotsBehind == \A s \in Saver : pc[s] # "idle" => snap[s].generation <= generation

MutexWithRenamer == \A s \in Saver : pc[s] = "renamed" <=> inner = s

RenamedIsCurrent == inner # Nobody => disk = mem

SyncedBeforeRename == \A s \in Saver : pc[s] = "synced" => tmp[s] = "clean"

DownIsIdle == ~up => inner = Nobody /\ \A s \in Saver : pc[s] = "idle"

DiskRecoverable == disk \in recoverable

PurgedInMemory == up => \A h \in confirmed : mem.hosts[h] = Absent

IInv ==
    /\ TypeOK
    /\ SnapshotsBehind
    /\ CurrentGenerationIsFresh
    /\ MutexWithRenamer
    /\ RenamedIsCurrent
    /\ SyncedBeforeRename
    /\ DownIsIdle
    /\ DiskRecoverable
    /\ NeverTorn
    /\ PurgedStaysPurged
    /\ PurgedInMemory

LEMMA InitIInv == Init => IInv
<1> SUFFICES ASSUME Init PROVE IInv
  OBVIOUS
<1>1. TypeOK
  <2>1. snap \in [Saver -> [state : RuntimeState, generation : 0..MaxGeneration]]
    BY NoSaveType DEF Init
  <2>2. pc \in [Saver -> SaverState] /\ tmp \in [Saver -> {"none", "dirty", "clean"}]
    BY DEF Init, SaverState
  <2>3. mem \in RuntimeState /\ up \in BOOLEAN /\ inner \in Saver \cup {Nobody}
    BY EmptyStateType DEF Init
  <2>4. generation \in 0..MaxGeneration
    BY BoundAssumption DEF Init
  <2>5. /\ disk \in RuntimeState \cup {NoFile}
        /\ recoverable \in SUBSET (RuntimeState \cup {NoFile})
        /\ confirmed \in SUBSET Host
    BY DEF Init
  <2> QED BY <2>1, <2>2, <2>3, <2>4, <2>5 DEF TypeOK
<1>2. SnapshotsBehind /\ CurrentGenerationIsFresh /\ SyncedBeforeRename
  BY DEF Init, SnapshotsBehind, CurrentGenerationIsFresh, SyncedBeforeRename, NoSave
<1>3. MutexWithRenamer /\ RenamedIsCurrent /\ DownIsIdle
  BY NobodyAssumption DEF Init, MutexWithRenamer, RenamedIsCurrent, DownIsIdle
<1>4. DiskRecoverable /\ NeverTorn /\ PurgedStaysPurged /\ PurgedInMemory
  BY FileAssumption DEF Init, DiskRecoverable, NeverTorn, PurgedStaysPurged, PurgedInMemory
<1> QED BY <1>1, <1>2, <1>3, <1>4 DEF IInv

LEMMA EditIInv ==
  ASSUME IInv, NEW new \in RuntimeState, Edit(new)
  PROVE  IInv'
<1> USE DEF Edit, saving, files
<1>1. TypeOK'
  <2>1. generation + 1 \in 0..MaxGeneration
    BY BoundAssumption DEF IInv, TypeOK
  <2>2. confirmed' \in SUBSET Host
    BY DEF IInv, TypeOK
  <2> QED BY <2>1, <2>2 DEF IInv, TypeOK
<1>2. SnapshotsBehind'
  BY BoundAssumption DEF IInv, TypeOK, SnapshotsBehind
<1>3. CurrentGenerationIsFresh'
  BY BoundAssumption DEF IInv, TypeOK, SnapshotsBehind, CurrentGenerationIsFresh
<1>4. MutexWithRenamer' /\ RenamedIsCurrent' /\ SyncedBeforeRename' /\ DownIsIdle'
  BY DEF IInv, MutexWithRenamer, RenamedIsCurrent, SyncedBeforeRename, DownIsIdle
<1>5. DiskRecoverable' /\ NeverTorn'
  BY DEF IInv, DiskRecoverable, NeverTorn
<1>6. PurgedStaysPurged' /\ PurgedInMemory'
  BY DEF IInv, PurgedStaysPurged, PurgedInMemory
<1> QED BY <1>1, <1>2, <1>3, <1>4, <1>5, <1>6 DEF IInv

LEMMA ReturnType ==
  ASSUME TypeOK, NEW s \in Saver, NEW from, Return(s, from)
  PROVE  /\ pc' \in [Saver -> SaverState]
         /\ snap' \in [Saver -> [state : RuntimeState, generation : 0..MaxGeneration]]
         /\ tmp' \in [Saver -> {"none", "dirty", "clean"}]
         /\ up' = up /\ mem' = mem /\ generation' = generation
  BY NoSaveType DEF TypeOK, Return, Goto, SaverState

LEMMA SaveIInv ==
  ASSUME IInv, NEW s \in Saver, Save(s)
  PROVE  IInv'
<1> USE DEF Goto, Return, files
<1>0. TypeOK
  BY DEF IInv
<1>1. CASE SerializeState(s)
  <2>1. TypeOK'
    BY <1>1 DEF SerializeState, IInv, TypeOK, SaverState
  <2>2. SnapshotsBehind' /\ CurrentGenerationIsFresh'
    BY <1>1, BoundAssumption
    DEF SerializeState, IInv, TypeOK, SnapshotsBehind, CurrentGenerationIsFresh
  <2>3. MutexWithRenamer' /\ RenamedIsCurrent' /\ SyncedBeforeRename' /\ DownIsIdle'
    BY <1>1, NobodyAssumption DEF SerializeState, IInv, TypeOK, MutexWithRenamer,
       RenamedIsCurrent, SyncedBeforeRename, DownIsIdle
  <2>4. DiskRecoverable' /\ NeverTorn' /\ PurgedStaysPurged' /\ PurgedInMemory'
    BY <1>1 DEF SerializeState, IInv, DiskRecoverable, NeverTorn, PurgedStaysPurged,
       PurgedInMemory
  <2> QED BY <2>1, <2>2, <2>3, <2>4 DEF IInv
<1>2. CASE WriteTemporary(s) \/ SyncTemporary(s)
  <2> USE <1>2 DEF WriteTemporary, SyncTemporary
  <2>1. TypeOK'
    BY DEF IInv, TypeOK, SaverState
  <2>2. SnapshotsBehind' /\ CurrentGenerationIsFresh'
    BY DEF IInv, TypeOK, SnapshotsBehind, CurrentGenerationIsFresh
  <2>3. MutexWithRenamer' /\ RenamedIsCurrent' /\ SyncedBeforeRename' /\ DownIsIdle'
    BY NobodyAssumption DEF IInv, TypeOK, MutexWithRenamer, RenamedIsCurrent,
       SyncedBeforeRename, DownIsIdle
  <2>4. DiskRecoverable' /\ NeverTorn' /\ PurgedStaysPurged' /\ PurgedInMemory'
    BY DEF IInv, DiskRecoverable, NeverTorn, PurgedStaysPurged, PurgedInMemory
  <2> QED BY <2>1, <2>2, <2>3, <2>4 DEF IInv
<1>3. CASE FailBeforePublish(s) \/ SkipStale(s)
  <2> USE <1>3 DEF FailBeforePublish, SkipStale
  <2>1. TypeOK'
    <3>1. PICK from : Return(s, from)
      BY <1>3
    <3>2. UNCHANGED <<inner, disk, recoverable, confirmed>>
      BY <1>3
    <3> QED BY <1>0, <3>1, <3>2, ReturnType DEF TypeOK
  <2>2. SnapshotsBehind' /\ CurrentGenerationIsFresh'
    BY BoundAssumption DEF IInv, TypeOK, SnapshotsBehind, CurrentGenerationIsFresh, NoSave
  <2>3. MutexWithRenamer' /\ RenamedIsCurrent' /\ SyncedBeforeRename' /\ DownIsIdle'
    BY NobodyAssumption DEF IInv, TypeOK, MutexWithRenamer, RenamedIsCurrent,
       SyncedBeforeRename, DownIsIdle
  <2>4. DiskRecoverable' /\ NeverTorn' /\ PurgedStaysPurged' /\ PurgedInMemory'
    BY DEF IInv, DiskRecoverable, NeverTorn, PurgedStaysPurged, PurgedInMemory
  <2> QED BY <2>1, <2>2, <2>3, <2>4 DEF IInv
<1>4. CASE RenameTemporary(s)
  <2> USE <1>4 DEF RenameTemporary
  <2>1. snap[s].state = mem /\ tmp[s] = "clean" /\ mem \in RuntimeState
    BY DEF IInv, TypeOK, CurrentGenerationIsFresh, SyncedBeforeRename
  <2>2. disk' = mem /\ recoverable' = recoverable \cup {mem}
    BY <2>1
  <2>3. TypeOK'
    BY <2>1, <2>2 DEF IInv, TypeOK, SaverState
  <2>4. SnapshotsBehind' /\ CurrentGenerationIsFresh'
    BY DEF IInv, TypeOK, SnapshotsBehind, CurrentGenerationIsFresh
  <2>5. MutexWithRenamer' /\ RenamedIsCurrent' /\ SyncedBeforeRename' /\ DownIsIdle'
    BY <2>2, NobodyAssumption DEF IInv, TypeOK, MutexWithRenamer, RenamedIsCurrent,
       SyncedBeforeRename, DownIsIdle
  <2>6. DiskRecoverable' /\ NeverTorn'
    BY <2>1, <2>2, FileAssumption DEF IInv, DiskRecoverable, NeverTorn
  <2>7. PurgedStaysPurged' /\ PurgedInMemory'
    BY <2>1, <2>2 DEF IInv, PurgedStaysPurged, PurgedInMemory
  <2> QED BY <2>3, <2>4, <2>5, <2>6, <2>7 DEF IInv
<1>5. CASE SyncDirectory(s)
  <2> USE <1>5 DEF SyncDirectory
  <2>1. disk = mem /\ disk \in RuntimeState
    BY NobodyAssumption DEF IInv, TypeOK, MutexWithRenamer, RenamedIsCurrent
  <2>2. TypeOK'
    BY <2>1, NoSaveType DEF IInv, TypeOK, SaverState
  <2>3. SnapshotsBehind' /\ CurrentGenerationIsFresh'
    BY BoundAssumption DEF IInv, TypeOK, SnapshotsBehind, CurrentGenerationIsFresh, NoSave
  <2>4. MutexWithRenamer' /\ RenamedIsCurrent' /\ SyncedBeforeRename' /\ DownIsIdle'
    BY NobodyAssumption DEF IInv, TypeOK, MutexWithRenamer, RenamedIsCurrent,
       SyncedBeforeRename, DownIsIdle
  <2>5. DiskRecoverable' /\ NeverTorn'
    BY DEF IInv, DiskRecoverable, NeverTorn
  <2>6. PurgedStaysPurged' /\ PurgedInMemory'
    BY <2>1 DEF IInv, DiskRecoverable, PurgedStaysPurged, PurgedInMemory
  <2> QED BY <2>2, <2>3, <2>4, <2>5, <2>6 DEF IInv
<1>6. CASE FailSyncDirectory(s)
  <2> USE <1>6 DEF FailSyncDirectory
  <2>1. TypeOK'
    BY NoSaveType DEF IInv, TypeOK, SaverState
  <2>2. SnapshotsBehind' /\ CurrentGenerationIsFresh'
    BY BoundAssumption DEF IInv, TypeOK, SnapshotsBehind, CurrentGenerationIsFresh, NoSave
  <2>3. MutexWithRenamer' /\ RenamedIsCurrent' /\ SyncedBeforeRename' /\ DownIsIdle'
    BY NobodyAssumption DEF IInv, TypeOK, MutexWithRenamer, RenamedIsCurrent,
       SyncedBeforeRename, DownIsIdle
  <2>4. DiskRecoverable' /\ NeverTorn' /\ PurgedStaysPurged' /\ PurgedInMemory'
    BY DEF IInv, DiskRecoverable, NeverTorn, PurgedStaysPurged, PurgedInMemory
  <2> QED BY <2>1, <2>2, <2>3, <2>4 DEF IInv
<1> QED BY <1>1, <1>2, <1>3, <1>4, <1>5, <1>6 DEF Save

LEMMA DiscardIInv ==
  ASSUME IInv, Discard, disk' \in recoverable', recoverable' \subseteq recoverable
  PROVE  IInv'
<1> USE DEF Discard
<1>1. TypeOK'
  <2>1. snap' \in [Saver -> [state : RuntimeState, generation : 0..MaxGeneration]]
    BY NoSaveType
  <2>2. disk' \in RuntimeState \cup {NoFile}
    BY DEF IInv, TypeOK
  <2>3. recoverable' \in SUBSET (RuntimeState \cup {NoFile}) /\ confirmed' \in SUBSET Host
    BY DEF IInv, TypeOK
  <2>4. pc' \in [Saver -> SaverState] /\ tmp' \in [Saver -> {"none", "dirty", "clean"}]
    BY DEF SaverState
  <2>5. /\ mem' \in RuntimeState /\ up' \in BOOLEAN /\ inner' \in Saver \cup {Nobody}
    BY EmptyStateType DEF IInv, TypeOK
  <2>6. generation' \in 0..MaxGeneration
    BY BoundAssumption
  <2> QED BY <2>1, <2>2, <2>3, <2>4, <2>5, <2>6 DEF TypeOK
<1>2. SnapshotsBehind' /\ CurrentGenerationIsFresh' /\ SyncedBeforeRename'
  BY DEF SnapshotsBehind, CurrentGenerationIsFresh, SyncedBeforeRename, NoSave
<1>3. MutexWithRenamer' /\ RenamedIsCurrent' /\ DownIsIdle'
  BY NobodyAssumption DEF MutexWithRenamer, RenamedIsCurrent, DownIsIdle
<1>4. DiskRecoverable' /\ NeverTorn' /\ PurgedStaysPurged' /\ PurgedInMemory'
  BY DEF IInv, DiskRecoverable, NeverTorn, PurgedStaysPurged, PurgedInMemory
<1> QED BY <1>1, <1>2, <1>3, <1>4 DEF IInv

LEMMA StartIInv ==
  ASSUME IInv, NEW state \in RuntimeState, NEW gen \in 0..MaxGeneration,
         StartWith(state, gen),
         disk' \in recoverable',
         recoverable' \subseteq RuntimeState \cup {NoFile},
         \A h \in confirmed :
            /\ state.hosts[h] = Absent
            /\ \A c \in recoverable' : c \in RuntimeState /\ c.hosts[h] = Absent
  PROVE  IInv'
<1> USE DEF StartWith, saving
<1>1. TypeOK'
  BY DEF IInv, TypeOK
<1>2. SnapshotsBehind' /\ CurrentGenerationIsFresh' /\ SyncedBeforeRename'
  <2>1. \A s \in Saver : pc'[s] = "idle"
    BY DEF IInv, DownIsIdle
  <2> QED BY <2>1 DEF SnapshotsBehind, CurrentGenerationIsFresh, SyncedBeforeRename
<1>3. MutexWithRenamer' /\ RenamedIsCurrent' /\ DownIsIdle'
  BY NobodyAssumption DEF IInv, MutexWithRenamer, RenamedIsCurrent, DownIsIdle
<1>4. DiskRecoverable' /\ NeverTorn'
  BY FileAssumption DEF DiskRecoverable, NeverTorn
<1>5. PurgedStaysPurged' /\ PurgedInMemory'
  BY DEF PurgedStaysPurged, PurgedInMemory
<1> QED BY <1>1, <1>2, <1>3, <1>4, <1>5 DEF IInv

LEMMA ImportedType ==
  ASSUME NEW legacy \in SUBSET Host, NEW v \in HostValue
  PROVE  [EmptyState EXCEPT !.hosts = [h \in Host |-> IF h \in legacy THEN v ELSE Absent]]
           \in RuntimeState
<1>1. [h \in Host |-> IF h \in legacy THEN v ELSE Absent] \in HostMap
  BY DEF HostMap
<1> QED BY <1>1, EmptyStateType DEF RuntimeState

LEMMA LegacyCount ==
  ASSUME NEW legacy \in SUBSET Host
  PROVE  Cardinality(legacy) \in 0..MaxGeneration
<1>1. IsFiniteSet(legacy) /\ Cardinality(legacy) <= Cardinality(Host)
  BY HostAssumption, FS_Subset
<1>2. Cardinality(legacy) \in Nat /\ Cardinality(Host) \in Nat
  BY <1>1, HostAssumption, FS_CardinalityType
<1> QED BY <1>1, <1>2, BoundAssumption

LEMMA RestartIInv == ASSUME IInv, Restart PROVE IInv'
<1>1. CASE Kill
  BY <1>1, DiscardIInv DEF Kill, files, IInv, DiskRecoverable
<1>2. CASE PowerLoss
  BY <1>2, DiscardIInv DEF PowerLoss
<1>3. CASE LoadFile
  <2>1. PICK state \in {Load(disk), EmptyState} : StartWith(state, 0)
    BY <1>3 DEF LoadFile
  <2>2. disk' = disk /\ recoverable' = recoverable /\ recoverable \subseteq RuntimeState \cup {NoFile}
    BY <1>3 DEF LoadFile, files, IInv, TypeOK, NeverTorn
  <2>3. \A h \in confirmed : state.hosts[h] = Absent
    BY <2>1 DEF IInv, TypeOK, PurgedStaysPurged, Load, EmptyState
  <2>4. state \in RuntimeState /\ 0 \in 0..MaxGeneration
    BY <2>1, LoadType, EmptyStateType, BoundAssumption
  <2> QED BY <2>1, <2>2, <2>3, <2>4, StartIInv DEF IInv, DiskRecoverable, PurgedStaysPurged
<1>4. CASE \E legacy \in SUBSET Host, v \in HostValue : ImportLegacy(legacy, v)
  <2>1. PICK legacy \in SUBSET Host, v \in HostValue : ImportLegacy(legacy, v)
    BY <1>4
  <2> DEFINE imported == [EmptyState EXCEPT !.hosts =
                            [h \in Host |-> IF h \in legacy THEN v ELSE Absent]]
  <2>2. confirmed = {} /\ disk = NoFile
    BY <2>1, FileAssumption DEF ImportLegacy, IInv, PurgedStaysPurged
  <2>3. PICK state \in {imported, EmptyState}, gen \in {0, Cardinality(legacy)} :
          /\ StartWith(state, gen)
          /\ \/ disk' = imported /\ recoverable' = {imported}
             \/ disk' = imported /\ recoverable' = recoverable \cup {imported}
             \/ disk' = disk /\ recoverable' = recoverable
    BY <2>1 DEF ImportLegacy, files
  <2>4. state \in RuntimeState /\ imported \in RuntimeState /\ gen \in 0..MaxGeneration
    BY ImportedType, LegacyCount, EmptyStateType, BoundAssumption
  <2>5. disk' \in recoverable' /\ recoverable' \subseteq RuntimeState \cup {NoFile}
    BY <2>3, <2>4 DEF IInv, TypeOK, DiskRecoverable, NeverTorn
  <2> HIDE DEF imported
  <2> QED BY <2>2, <2>3, <2>4, <2>5, StartIInv
<1> QED BY <1>1, <1>2, <1>3, <1>4 DEF Restart

LEMMA StutterIInv == ASSUME IInv, UNCHANGED vars PROVE IInv'
<1> USE DEF vars, saving, files
<1>1. TypeOK' /\ SnapshotsBehind' /\ CurrentGenerationIsFresh' /\ MutexWithRenamer'
  BY DEF IInv, TypeOK, SnapshotsBehind, CurrentGenerationIsFresh, MutexWithRenamer
<1>2. RenamedIsCurrent' /\ SyncedBeforeRename' /\ DownIsIdle' /\ DiskRecoverable'
  BY DEF IInv, RenamedIsCurrent, SyncedBeforeRename, DownIsIdle, DiskRecoverable
<1>3. NeverTorn' /\ PurgedStaysPurged' /\ PurgedInMemory'
  BY DEF IInv, NeverTorn, PurgedStaysPurged, PurgedInMemory
<1> QED BY <1>1, <1>2, <1>3 DEF IInv

LEMMA NextIInv == ASSUME IInv, [Next]_vars PROVE IInv'
<1>1. CASE Mutate
  BY <1>1, MutateIsEdit, EditIInv DEF IInv, TypeOK
<1>2. CASE \E s \in Saver : Save(s)
  BY <1>2, SaveIInv
<1>3. CASE Restart
  BY <1>3, RestartIInv
<1>4. CASE UNCHANGED vars
  BY <1>4, StutterIInv
<1> QED BY <1>1, <1>2, <1>3, <1>4 DEF Next

LEMMA Invariance == Spec => []IInv
  BY InitIInv, NextIInv, PTL DEF Spec

(***************************************************************************)
(* The theorems.                                                           *)
(***************************************************************************)

\* Every variable of the store keeps its type, through saves, failures and
\* restarts; in particular no stop of process or machine exposes a torn
\* runtime-state.json.
THEOREM TypeCorrect == Spec => []TypeOK
  BY Invariance, PTL DEF IInv

\* The generation comparison of save_with_before_publish is sound: a payload
\* with the current generation is what memory holds.
THEOREM GenerationCheckSound == Spec => []CurrentGenerationIsFresh
  BY Invariance, PTL DEF IInv

\* A host whose purge was saved is in no file content a crash can leave,
\* until it is upserted again.
THEOREM PurgeIsFinal == Spec => []PurgedStaysPurged
  BY Invariance, PTL DEF IInv

\* The store implements the abstract durable cell: each rename publishes the
\* value memory holds (Persist), each directory sync settles it, and every
\* other step of a save is invisible.
THEOREM ImplementsDurableCell == Spec => CellSpec
<1>1. Init => Cell!Init
  BY DEF Init, Cell!Init
<1>2. ASSUME IInv, [Next]_vars PROVE [Cell!Next]_Cell!vars
  <2> USE <1>2 DEF Cell!vars, files, saving
  <2>1. CASE Mutate
    <3>1. PICK new \in RuntimeState : Edit(new)
      BY <2>1, MutateIsEdit DEF IInv, TypeOK
    <3>2. Cell!Change
      BY <3>1 DEF Edit, Cell!Change
    <3> QED BY <3>2 DEF Cell!Next
  <2>2. CASE \E s \in Saver : Save(s)
    <3>1. PICK s \in Saver : Save(s)
      BY <2>2
    <3>2. CASE RenameTemporary(s)
      <4>1. snap[s].state = mem /\ tmp[s] = "clean"
        BY <3>2 DEF RenameTemporary, Goto, IInv, TypeOK, CurrentGenerationIsFresh,
           SyncedBeforeRename
      <4>2. Cell!Persist
        BY <3>2, <4>1 DEF RenameTemporary, Goto, Cell!Persist
      <4> QED BY <4>2 DEF Cell!Next
    <3>3. CASE SyncDirectory(s)
      <4>1. Cell!Settle
        BY <3>3 DEF SyncDirectory, Return, Goto, Cell!Settle
      <4> QED BY <4>1 DEF Cell!Next
    <3>4. CASE ~RenameTemporary(s) /\ ~SyncDirectory(s)
      <4>1. UNCHANGED <<mem, disk, recoverable, up>>
        BY <3>1, <3>4 DEF Save, SerializeState, WriteTemporary, SyncTemporary,
           FailBeforePublish, SkipStale, FailSyncDirectory, Return, Goto
      <4> QED BY <4>1
    <3> QED BY <3>2, <3>3, <3>4
  <2>3. CASE Kill \/ PowerLoss
    <3>1. Cell!Stop
      BY <2>3 DEF Kill, PowerLoss, Discard, Cell!Stop
    <3> QED BY <3>1 DEF Cell!Next
  <2>4. CASE LoadFile
    <3>1. Load(disk) \in {disk, EmptyState} \cap RuntimeState /\ EmptyState \in RuntimeState
      BY EmptyStateType DEF Load
    <3>2. Cell!Start
      BY <2>4, <3>1 DEF LoadFile, StartWith, Cell!Start
    <3> QED BY <3>2 DEF Cell!Next
  <2>5. CASE \E legacy \in SUBSET Host, v \in HostValue : ImportLegacy(legacy, v)
    <3>1. PICK legacy \in SUBSET Host, v \in HostValue : ImportLegacy(legacy, v)
      BY <2>5
    <3>2. Cell!Start \/ Cell!StartFresh
      BY <3>1, ImportedType, EmptyStateType
      DEF ImportLegacy, StartWith, Cell!Start, Cell!StartFresh
    <3> QED BY <3>2 DEF Cell!Next
  <2>6. CASE UNCHANGED vars
    BY <2>6 DEF vars
  <2> QED BY <2>1, <2>2, <2>3, <2>4, <2>5, <2>6 DEF Next, Restart
<1> QED BY <1>1, <1>2, Invariance, PTL DEF Spec, CellSpec, Cell!Spec

\* A change of memory: whatever was serialized has an older generation.
LEMMA EditSupersedes ==
  ASSUME IInv, NEW new \in RuntimeState, Edit(new)
  PROVE  Saving!Change
<1> USE DEF Edit, saving, files
<1>1. \A s \in Saver : Serialized(s)' = IF Serialized(s) = "nothing" THEN "nothing" ELSE "superseded"
  <2>1. SUFFICES ASSUME NEW s \in Saver
                 PROVE  Serialized(s)' = IF Serialized(s) = "nothing" THEN "nothing"
                                         ELSE "superseded"
    OBVIOUS
  <2>2. snap[s].generation \in Nat /\ generation \in Nat /\ pc'[s] = pc[s] /\ snap'[s] = snap[s]
    BY DEF IInv, TypeOK
  <2>3. pc[s] # "idle" => snap[s].generation # generation + 1
    BY <2>2 DEF IInv, SnapshotsBehind
  <2> QED BY <2>2, <2>3 DEF Serialized
<1>2. \A s \in Saver : Serialized(s) \in {"nothing", "current", "superseded"}
  BY DEF Serialized
<1>3. [s \in Saver |-> Serialized(s)]'
        = [s \in Saver |-> IF Serialized(s) = "current" THEN "superseded" ELSE Serialized(s)]
  BY <1>1, <1>2
<1>4. [s \in Saver |-> Serialized(s)]'
        = [s \in Saver |-> Saving!Left(s, TRUE)]
  BY <1>3 DEF Saving!Left
<1>5. Saving!Moves(TRUE)
  BY DEF Saving!Moves
<1> QED BY <1>4, <1>5 DEF Saving!Change

\* A step of one saver changes what that saver holds and nothing else's.
LEMMA OthersKeepTheirs ==
  ASSUME NEW s \in Saver, UNCHANGED generation,
         \A t \in Saver \ {s} : pc'[t] = pc[t] /\ snap'[t] = snap[t]
  PROVE  [t \in Saver |-> Serialized(t)]'
           = [[t \in Saver |-> Serialized(t)] EXCEPT ![s] = Serialized(s)']
  BY DEF Serialized

LEMMA ReturnGivesUp ==
  ASSUME IInv, NEW s \in Saver, NEW from, Return(s, from), from # "idle",
         recoverable' \in {{disk}, recoverable}, UNCHANGED disk
  PROVE  Saving!Return(s)
<1> USE DEF Return, Goto
<1>1. \A t \in Saver \ {s} : pc'[t] = pc[t] /\ snap'[t] = snap[t]
  BY DEF IInv, TypeOK
<1>2. Serialized(s)' = "nothing" /\ Serialized(s) # "nothing"
  BY DEF Serialized, IInv, TypeOK
<1>3. [t \in Saver |-> Serialized(t)]' = Saving!Returned(s)
  BY <1>1, <1>2, OthersKeepTheirs DEF Saving!Returned
<1> QED BY <1>2, <1>3 DEF Saving!Return

\* The step inside a save as the abstraction sees it: a saver serializes,
\* publishes or returns, and writing and syncing the temporary is invisible.
LEMMA SaveAbstractly ==
  ASSUME IInv, NEW s \in Saver, Save(s)
  PROVE  Saving!Serialize(s) \/ Saving!Publish(s) \/ Saving!Return(s) \/ UNCHANGED Saving!vars
<1> USE DEF files
<1>1. CASE SerializeState(s)
  <2> USE <1>1 DEF SerializeState, Goto
  <2>1. \A t \in Saver \ {s} : pc'[t] = pc[t] /\ snap'[t] = snap[t]
    BY DEF IInv, TypeOK
  <2>2. Serialized(s)' = "current" /\ Serialized(s) = "nothing"
    BY DEF Serialized, IInv, TypeOK
  <2>3. [t \in Saver |-> Serialized(t)]'
          = [[t \in Saver |-> Serialized(t)] EXCEPT ![s] = "current"]
    BY <2>1, <2>2, OthersKeepTheirs
  <2>4. [t \in Saver |-> Serialized(t)]'
          = [t \in Saver |-> IF t = s THEN "current" ELSE Saving!Left(t, FALSE)]
    BY <2>3 DEF Saving!Left
  <2>5. Saving!Moves(FALSE)
    BY DEF Saving!Moves, IInv, TypeOK
  <2> QED BY <2>2, <2>4, <2>5 DEF Saving!Serialize
<1>2. CASE WriteTemporary(s) \/ SyncTemporary(s)
  <2>1. \A t \in Saver : Serialized(t)' = Serialized(t)
    BY <1>2 DEF WriteTemporary, SyncTemporary, Goto, Serialized, IInv, TypeOK
  <2>2. [t \in Saver |-> Serialized(t)]' = [t \in Saver |-> Serialized(t)]
    BY <2>1
  <2> QED BY <1>2, <2>2 DEF WriteTemporary, SyncTemporary, Goto, Saving!vars
<1>3. CASE FailBeforePublish(s) \/ SkipStale(s)
  <2>1. PICK from \in {"serialized", "written", "synced"} : Return(s, from)
    BY <1>3 DEF FailBeforePublish, SkipStale
  <2>2. UNCHANGED <<disk, recoverable>>
    BY <1>3 DEF FailBeforePublish, SkipStale
  <2> QED BY <2>1, <2>2, ReturnGivesUp
<1>4. CASE RenameTemporary(s)
  <2> USE <1>4 DEF RenameTemporary, Goto
  <2>1. snap[s].state = mem /\ tmp[s] = "clean"
    BY DEF IInv, TypeOK, CurrentGenerationIsFresh, SyncedBeforeRename
  <2>2. \A t \in Saver : Serialized(t)' = Serialized(t)
    BY DEF Serialized, IInv, TypeOK
  <2>3. [t \in Saver |-> Serialized(t)]' = [t \in Saver |-> Serialized(t)]
    BY <2>2
  <2>4. Serialized(s) = "current"
    BY DEF Serialized
  <2> QED BY <2>1, <2>3, <2>4 DEF Saving!Publish
<1>5. CASE SyncDirectory(s) \/ FailSyncDirectory(s)
  BY <1>5, ReturnGivesUp DEF SyncDirectory, FailSyncDirectory
<1> QED BY <1>1, <1>2, <1>3, <1>4, <1>5 DEF Save

\* The store implements the cell its users are built on: comparing two
\* generations under the mutex publishes exactly the payloads that no change
\* of memory has superseded, and what they publish is what memory holds.
THEOREM ImplementsSavingCell == Spec => SavingSpec
<1>1. Init => Saving!Init
  BY DEF Init, Serialized, Saving!Init, Saving!Resting
<1>2. ASSUME IInv, [Next]_vars PROVE [Saving!Next]_Saving!vars
  <2>1. CASE Mutate
    <3>1. PICK new \in RuntimeState : Edit(new)
      BY <1>2, <2>1, MutateIsEdit DEF IInv, TypeOK
    <3> QED BY <1>2, <3>1, EditSupersedes DEF Saving!Next
  <2>2. CASE \E s \in Saver : Save(s)
    BY <1>2, <2>2, SaveAbstractly DEF Saving!Next
  <2>3. CASE Kill \/ PowerLoss
    <3>1. [s \in Saver |-> Serialized(s)]' = Saving!Resting
      BY <2>3 DEF Kill, PowerLoss, Discard, Serialized, Saving!Resting
    <3>2. Saving!Stop
      BY <2>3, <3>1 DEF Kill, PowerLoss, Discard, files, Saving!Stop
    <3> QED BY <3>2 DEF Saving!Next
  <2>4. CASE LoadFile \/ \E legacy \in SUBSET Host, v \in HostValue : ImportLegacy(legacy, v)
    <3>1. PICK state, gen : StartWith(state, gen)
      BY <2>4 DEF LoadFile, ImportLegacy
    <3>2. \A s \in Saver : pc'[s] = "idle"
      BY <1>2, <3>1 DEF StartWith, saving, IInv, DownIsIdle
    <3>3. [s \in Saver |-> Serialized(s)]' = Saving!Resting
      BY <3>2 DEF Serialized, Saving!Resting
    <3>4. CASE LoadFile
      <4>1. mem' \in {disk, EmptyState} \cap RuntimeState /\ UNCHANGED <<disk, recoverable>>
        BY <3>4, EmptyStateType DEF LoadFile, StartWith, Load, files
      <4>2. Saving!Start
        BY <3>1, <3>3, <4>1 DEF StartWith, Saving!Start, Saving!Loads
      <4> QED BY <4>2 DEF Saving!Next
    <3>5. CASE \E legacy \in SUBSET Host, v \in HostValue : ImportLegacy(legacy, v)
      <4>1. PICK legacy \in SUBSET Host, v \in HostValue : ImportLegacy(legacy, v)
        BY <3>5
      <4>2. \/ mem' = EmptyState /\ UNCHANGED <<disk, recoverable>>
            \/ /\ disk = NoFile /\ mem' \in RuntimeState /\ disk' = mem'
               /\ recoverable' \in {{mem'}, recoverable \cup {mem'}}
        BY <4>1, ImportedType DEF ImportLegacy, StartWith, files
      <4>3. Saving!Start
        BY <3>1, <3>3, <4>2, EmptyStateType DEF StartWith, Saving!Start, Saving!Loads
      <4> QED BY <4>3 DEF Saving!Next
    <3> QED BY <2>4, <3>4, <3>5
  <2>5. CASE UNCHANGED vars
    <3>1. [s \in Saver |-> Serialized(s)]' = [s \in Saver |-> Serialized(s)]
      BY <2>5 DEF vars, saving, Serialized
    <3> QED BY <2>5, <3>1 DEF vars, files, Saving!vars
  <2> QED BY <1>2, <2>1, <2>2, <2>3, <2>4, <2>5 DEF Next, Restart
<1> QED BY <1>1, <1>2, Invariance, PTL DEF Spec, SavingSpec, Saving!Spec
=============================================================================
