------------------------ MODULE HostLifecycleProofs ------------------------
(***************************************************************************)
(* Theorems of HostLifecycle for every set of hosts, every set of running  *)
(* activities and every capacity of the report channel.                    *)
(*                                                                         *)
(* The argument goes from the locks to the data.  Which lock is held       *)
(* follows from where its holder is (LockDiscipline), so two activities    *)
(* that need the same lock are never both behind it.  That keeps memory as *)
(* a saver serialized it (PayloadCurrent), the rows as a publisher         *)
(* collected them (ViewCurrent), and every part a purge has cleaned clean  *)
(* until it ends (PurgeProgress).                                          *)
(***************************************************************************)
EXTENDS HostLifecycle, SequenceTheorems, TLAPS

----------------------------------------------------------------------------
(* Types.                                                                  *)

Payload == [state : RuntimeState, fresh : BOOLEAN]

\* A change of the runtime state, serialized or not, keeps the payloads' type.
LEMMA Stores ==
  ASSUME TypeOK, NEW new \in RuntimeState, NEW changed \in BOOLEAN, NEW p \in Saver,
         Store(new, changed) \/ StoreAndSerialize(p, new, changed)
  PROVE  runtime' \in RuntimeState /\ payload' \in [Saver -> Payload]
<1>1. \A q \in Saver : /\ payload[q] \in Payload
                       /\ [payload[q] EXCEPT !.fresh = FALSE] \in Payload
                       /\ [payload[q] EXCEPT !.fresh = @ /\ ~changed] \in Payload
  BY DEF TypeOK, Payload
<1>2. [state |-> new, fresh |-> TRUE] \in Payload /\ DOMAIN payload = Saver
  BY DEF TypeOK, Payload
<1>3. CASE Store(new, changed)
  BY <1>1, <1>2, <1>3 DEF TypeOK, Store, Payload
<1>4. CASE StoreAndSerialize(p, new, changed)
  BY <1>1, <1>2, <1>4 DEF StoreAndSerialize
<1> QED BY <1>3, <1>4

\* So does the end of a save.
LEMMA Saves ==
  ASSUME TypeOK, NEW p \in Saver, Published(p) \/ Skipped(p) \/ SaveError(p)
  PROVE  runtimeFile' \in RuntimeState \cup {NoFile} /\ saveFailed' \in BOOLEAN
  BY DEF TypeOK, Published, Skipped, SaveError

\* A thread forgets what it had serialized.
LEMMA Drops ==
  ASSUME TypeOK, NEW p \in Saver, Drop(p)
  PROVE  payload' \in [Saver -> Payload]
<1>1. NoPayload \in Payload
  BY DEF NoPayload, NoState, Payload, RuntimeState
<1> QED BY <1>1 DEF TypeOK, Drop, Payload

\* Locks are free or held by an activity, whoever takes or releases them.
LEMMA Locks ==
  ASSUME TypeOK, NEW p \in Proc, NEW held, NEW l \in Lock,
         Release(p, held) \/ Take(p, l) \/ UNCHANGED owner
  PROVE  owner' \in [Lock -> Proc \cup {"free"}]
  BY DEF TypeOK, Release, Take

\* Steps of the report path keep the types.
LEMMA ReporterTypes ==
  ASSUME TypeOK, Reporter \/ \E h \in Host : Report(h)
  PROVE  TypeOK'
<1> USE DEF locks, inbox, maps, store, purge, public, admin, history
<1>1. ASSUME NEW h \in Host, Report(h) PROVE TypeOK'
  <2>1. Append(queue, h) \in Seq(Host) /\ Len(Append(queue, h)) = Len(queue) + 1
    BY AppendProperties DEF TypeOK
  <2> QED BY <2>1, <1>1, QueueAssumption DEF TypeOK, Report
<1>2. ASSUME Receive PROVE TypeOK'
  <2>1. /\ Tail(queue) \in Seq(Host) /\ Len(Tail(queue)) = Len(queue) - 1
        /\ Head(queue) \in Host
    BY <1>2, HeadTailProperties DEF TypeOK, Receive
  <2> QED BY <2>1, <1>2, QueueAssumption DEF TypeOK, Receive, PcType, Goto
<1>3. ASSUME BeginReport PROVE TypeOK'
  BY <1>3 DEF TypeOK, BeginReport, PcType, Goto, Take, Proc, Lock
<1>4. ASSUME ReadMarkers PROVE TypeOK'
  BY <1>4 DEF TypeOK, ReadMarkers, PcType, Goto
<1>5. ASSUME ClearMarker PROVE TypeOK'
  BY <1>5 DEF TypeOK, ClearMarker, PcType, Goto
<1>6. ASSUME DropReport PROVE TypeOK'
  BY <1>6 DEF TypeOK, DropReport, PcType, Goto, Release
<1>7. ASSUME ResolveHost PROVE TypeOK'
  BY <1>7 DEF TypeOK, ResolveHost, PcType, Goto, Take, Proc, Lock
<1>8. ASSUME NEW r \in BOOLEAN, NEW c \in {{}, current}, NEW o \in BOOLEAN, RecordReport(r, c, o)
      PROVE  TypeOK'
  <2> DEFINE new == [hosts  |-> runtime.hosts \cup current, alerts |-> runtime.alerts \ c]
  <2>1. new \in RuntimeState
    BY DEF TypeOK, RuntimeState
  <2>2. Store(new, TRUE) \/ StoreAndSerialize("reporter", new, TRUE)
    BY <1>8 DEF RecordReport
  <2>3. runtime' \in RuntimeState /\ payload' \in [Saver -> Payload]
    BY <2>1, <2>2, Stores DEF Saver
  <2>4. pc' \in PcType
    <3>1. \/ pc' = [pc EXCEPT !["reporter"] = "save"]
          \/ pc' = [pc EXCEPT !["reporter"] = "idle"]
      BY <1>8 DEF RecordReport, Goto
    <3> QED BY <3>1 DEF TypeOK, PcType
  <2>5. owner' \in [Lock -> Proc \cup {"free"}]
    BY <1>8, Locks DEF RecordReport, TypeOK, Proc, Lock
  <2>6. statMap' \subseteq Host /\ current' \subseteq Host
    <3>1. statMap' = statMap \cup current /\ (current' = current \/ current' = {})
      BY <1>8 DEF RecordReport
    <3> QED BY <3>1 DEF TypeOK
  <2>7. /\ dirty' = dirty
        /\ UNCHANGED <<queue, hostsMap, expiry, purge, view, public, admin, runtimeFile,
                       statsFile, history>>
    BY <1>8 DEF RecordReport
  <2> QED BY <2>3, <2>4, <2>5, <2>6, <2>7 DEF TypeOK, Payload
<1>9. ASSUME SaveReport PROVE TypeOK'
  <2>1. /\ runtimeFile' \in RuntimeState \cup {NoFile} /\ saveFailed' \in BOOLEAN
        /\ payload' \in [Saver -> Payload]
    BY <1>9, Saves, Drops DEF SaveReport, Saver
  <2>2. pc' \in PcType /\ owner' \in [Lock -> Proc \cup {"free"}]
    BY <1>9 DEF SaveReport, TypeOK, PcType, Goto, Release
  <2> QED BY <1>9, <2>1, <2>2 DEF SaveReport, TypeOK, Payload
<1> QED BY <1>1, <1>2, <1>3, <1>4, <1>5, <1>6, <1>7, <1>8, <1>9 DEF Reporter

\* Steps of those who publish keep the types.
LEMMA PublisherTypes ==
  ASSUME TypeOK, Timer \/ Settings
  PROVE  TypeOK'
<1> USE DEF locks, inbox, maps, store, purge, public, admin, history
<1>0. NoView \in ViewType
  BY DEF NoView, ViewType
<1>1. ASSUME NEW p \in Publisher, TakePublication(p) PROVE TypeOK'
  <2>1. [NoView EXCEPT !.fresh = TRUE] \in ViewType
    BY DEF NoView, ViewType
  <2> QED BY <1>1, <2>1 DEF TypeOK, TakePublication, PcType, Goto, Take, Proc, Lock,
      Publisher
<1>2. ASSUME NEW p \in Publisher, ReadDeleted(p) PROVE TypeOK'
  <2>1. pc' \in PcType
    BY <1>2 DEF TypeOK, ReadDeleted, PcType, Goto, Publisher
  <2>2. view' \in [Publisher -> ViewType]
    <3>1. view' = [view EXCEPT ![p] = [view[p] EXCEPT !.deleted = deleted]]
      BY <1>2 DEF ReadDeleted
    <3>2. view[p] \in ViewType /\ deleted \subseteq Host
      BY DEF TypeOK
    <3>3. [view[p] EXCEPT !.deleted = deleted] \in ViewType
      BY <3>2 DEF ViewType
    <3> QED BY <3>1, <3>3 DEF TypeOK
  <2> QED BY <1>2, <2>1, <2>2 DEF TypeOK, ReadDeleted
<1>3. ASSUME NEW a \in SUBSET statMap, NEW n \in SUBSET statMap, NEW c \in BOOLEAN, Scan(a, c, n)
      PROVE  TypeOK'
  <2> DEFINE new == [runtime EXCEPT !.alerts = (@ \ Publishable("timer")) \cup a]
  <2>1. new \in RuntimeState
    BY DEF TypeOK, RuntimeState
  <2>2. Store(new, c)
    BY <1>3 DEF Scan
  <2>3. runtime' \in RuntimeState /\ payload' \in [Saver -> Payload]
    BY <2>1, <2>2, Stores DEF Saver
  <2>4. pc' \in PcType
    BY <1>3 DEF Scan, TypeOK, PcType, Goto
  <2>5. view' \in [Publisher -> ViewType]
    <3>1. Publishable("timer") \subseteq Host /\ statMap \subseteq Host
      BY DEF Publishable, TypeOK
    <3>2. view' = [view EXCEPT !["timer"].seen = statMap, !["timer"].rows = Publishable("timer")]
      BY <1>3 DEF Scan
    <3>3. view["timer"] \in ViewType
      BY DEF TypeOK, Publisher
    <3>4. ASSUME NEW v \in ViewType, NEW a1 \in SUBSET Host, NEW b1 \in SUBSET Host
          PROVE  [v EXCEPT !.seen = a1, !.rows = b1] \in ViewType
      <4>1. [v EXCEPT !.seen = a1] \in ViewType
        BY DEF ViewType
      <4>2. \A w \in ViewType : [w EXCEPT !.rows = b1] \in ViewType
        BY DEF ViewType
      <4> QED BY <4>1, <4>2
    <3> QED BY <3>1, <3>2, <3>3, <3>4 DEF TypeOK
  <2> QED BY <1>3, <2>3, <2>4, <2>5 DEF Scan, TypeOK, Publishable, Payload
<1>4. ASSUME NEW k \in SUBSET runtime.alerts, NEW c \in BOOLEAN, Prune(k, c)
      PROVE  TypeOK'
  <2> DEFINE new == [runtime EXCEPT !.alerts = k]
  <2>1. new \in RuntimeState
    BY DEF TypeOK, RuntimeState
  <2>2. Store(new, c) \/ StoreAndSerialize("timer", new, c)
    BY <1>4 DEF Prune
  <2>3. runtime' \in RuntimeState /\ payload' \in [Saver -> Payload]
    BY <2>1, <2>2, Stores DEF Saver
  <2>4. pc' \in PcType
    BY <1>4 DEF Prune, TypeOK, PcType, Goto
  <2> QED BY <1>4, <2>3, <2>4 DEF Prune, TypeOK, Payload
<1>5. ASSUME SaveAlerts PROVE TypeOK'
  <2>1. /\ runtimeFile' \in RuntimeState \cup {NoFile} /\ saveFailed' \in BOOLEAN
        /\ payload' \in [Saver -> Payload]
    BY <1>5, Saves, Drops DEF SaveAlerts, Saver
  <2> QED BY <1>5, <2>1 DEF SaveAlerts, TypeOK, PcType, Goto, Payload
<1>6. ASSUME NEW p \in Publisher, Finish(p)
      PROVE  /\ pc' \in PcType /\ owner' \in [Lock -> Proc \cup {"free"}]
             /\ view' \in [Publisher -> ViewType]
             /\ target' \in [{"purger", "settings"} -> SUBSET Host]
             /\ hidden' \subseteq Host
  <2>1. pc' \in PcType
    BY <1>6 DEF Finish, Goto, TypeOK, PcType, Publisher
  <2>2. owner' \in [Lock -> Proc \cup {"free"}]
    BY <1>6, Locks DEF Finish, Publisher, Proc, Lock
  <2>3. view' \in [Publisher -> ViewType]
    BY <1>0, <1>6 DEF Finish, TypeOK
  <2> QED BY <1>6, <2>1, <2>2, <2>3 DEF Finish, TypeOK
<1>7. ASSUME NEW p \in Publisher, NEW s \in BOOLEAN, PublishData(p, s) PROVE TypeOK'
  <2>1. view[p].rows \in SUBSET Host
    BY DEF TypeOK, ViewType
  <2>2. CASE view[p].fresh
    BY <1>7, <2>1, <2>2 DEF PublishData, TypeOK, Goto, PcType, Publisher
  <2>3. CASE ~view[p].fresh
    BY <1>6, <1>7, <2>3 DEF PublishData, TypeOK
  <2> QED BY <2>2, <2>3
<1>8. ASSUME NEW p \in Publisher, PublishJson(p) PROVE TypeOK'
  <2>1. view[p].rows \in SUBSET Host
    BY DEF TypeOK, ViewType
  <2> QED BY <1>6, <1>8, <2>1 DEF PublishJson, TypeOK
<1>9. ASSUME NEW posted \in SUBSET Host, SaveSettings(posted) PROVE TypeOK'
  BY <1>9 DEF TypeOK, SaveSettings, PcType, Goto
<1>10. ASSUME RefreshHosts PROVE TypeOK'
  BY <1>10 DEF TypeOK, RefreshHosts, PcType, Goto, Take, Proc, Lock
<1>11. ASSUME RefreshStats PROVE TypeOK'
  BY <1>11 DEF TypeOK, RefreshStats, PcType, Goto, Release
<1>12. ASSUME Collect PROVE TypeOK'
  <2>1. pc' \in PcType
    BY <1>12 DEF TypeOK, Collect, PcType, Goto
  <2>2. view' \in [Publisher -> ViewType]
    <3>1. view' = [view EXCEPT !["settings"] =
                       [view["settings"] EXCEPT !.rows = Publishable("settings")]]
      BY <1>12 DEF Collect
    <3>2. view["settings"] \in ViewType /\ Publishable("settings") \subseteq Host
      BY DEF TypeOK, Publishable, Publisher
    <3>3. [view["settings"] EXCEPT !.rows = Publishable("settings")] \in ViewType
      BY <3>2 DEF ViewType
    <3> QED BY <3>1, <3>3 DEF TypeOK
  <2> QED BY <1>12, <2>1, <2>2 DEF TypeOK, Collect
<1>13. "timer" \in Publisher /\ "settings" \in Publisher
  BY DEF Publisher
<1>14. CASE Timer
  BY <1>14, <1>1, <1>2, <1>3, <1>4, <1>5, <1>7, <1>8, <1>13 DEF Timer
<1>15. CASE Settings
  BY <1>15, <1>1, <1>2, <1>7, <1>8, <1>9, <1>10, <1>11, <1>12, <1>13 DEF Settings
<1> QED BY <1>14, <1>15

\* Steps of a purge keep the types.
LEMMA PurgerTypes ==
  ASSUME TypeOK, Purger
  PROVE  TypeOK'
<1> USE DEF locks, inbox, maps, store, purge, public, admin, history
<1>1. ASSUME NEW hosts \in SUBSET Host, StartPurge(hosts) PROVE TypeOK'
  BY <1>1 DEF TypeOK, StartPurge, PcType, Goto
<1>2. ASSUME LockLifecycle PROVE TypeOK'
  BY <1>2 DEF TypeOK, LockLifecycle, PcType, Goto, Take, Proc, Lock
<1>3. ASSUME LockPublication PROVE TypeOK'
  <2>1. pc' \in PcType /\ owner' \in [Lock -> Proc \cup {"free"}]
    BY <1>3 DEF TypeOK, LockPublication, PcType, Goto, Take, Proc, Lock
  <2>2. view' \in [Publisher -> ViewType]
    <3>1. \A p \in Publisher : view[p] \in ViewType
      BY DEF TypeOK
    <3>2. \A p \in Publisher : [view[p] EXCEPT !.fresh = FALSE] \in ViewType
      BY <3>1 DEF ViewType
    <3> QED BY <1>3, <3>2 DEF LockPublication
  <2> QED BY <1>3, <2>1, <2>2 DEF TypeOK, LockPublication
<1>4. ASSUME PurgeHostsMap PROVE TypeOK'
  BY <1>4 DEF TypeOK, PurgeHostsMap, PcType, Goto
<1>5. ASSUME PurgeStatMap PROVE TypeOK'
  BY <1>5 DEF TypeOK, PurgeStatMap, PcType, Goto
<1>6. ASSUME PurgeRuntime PROVE TypeOK'
  <2> DEFINE new == [hosts  |-> runtime.hosts \ target["purger"],
                     alerts |-> runtime.alerts \ target["purger"]]
  <2>1. new \in RuntimeState
    BY DEF TypeOK, RuntimeState
  <2>2. StoreAndSerialize("purger", new, new # runtime)
    BY <1>6 DEF PurgeRuntime
  <2>3. runtime' \in RuntimeState /\ payload' \in [Saver -> Payload]
    BY <2>1, <2>2, Stores DEF Saver
  <2>4. pc' \in PcType
    BY <1>6 DEF PurgeRuntime, TypeOK, PcType, Goto
  <2> QED BY <1>6, <2>3, <2>4 DEF PurgeRuntime, TypeOK, Payload
<1>7. ASSUME SavePurge PROVE TypeOK'
  <2>1. /\ runtimeFile' \in RuntimeState \cup {NoFile} /\ saveFailed' \in BOOLEAN
        /\ payload' \in [Saver -> Payload]
    BY <1>7, Saves, Drops DEF SavePurge, Saver
  <2>2. pc' \in PcType /\ failed' \in BOOLEAN
    BY <1>7 DEF SavePurge, TypeOK, PcType, Goto, Saver
  <2> QED BY <1>7, <2>1, <2>2 DEF SavePurge, TypeOK, Payload
<1>8. ASSUME PurgePublic PROVE TypeOK'
  <2>1. pc' \in PcType
    BY <1>8 DEF PurgePublic, TypeOK, PcType, Goto
  <2>2. {statsData', statsFile'} \subseteq SUBSET Host /\ failed' \in BOOLEAN
    BY <1>8 DEF PurgePublic, TypeOK
  <2> QED BY <1>8, <2>1, <2>2 DEF PurgePublic, TypeOK
<1>9. ASSUME PurgeJson PROVE TypeOK'
  <2>1. pc' \in PcType /\ owner' \in [Lock -> Proc \cup {"free"}]
    BY <1>9 DEF PurgeJson, EndPurge, Release, TypeOK, PcType, Goto
  <2>2. target' \in [{"purger", "settings"} -> SUBSET Host] /\ failed' \in BOOLEAN
    BY <1>9 DEF PurgeJson, EndPurge, TypeOK
  <2> QED BY <1>9, <2>1, <2>2 DEF PurgeJson, EndPurge, TypeOK
<1>10. ASSUME CopyMarkers PROVE TypeOK'
  BY <1>10 DEF TypeOK, CopyMarkers, PcType, Goto
<1>11. ASSUME DropMarkers PROVE TypeOK'
  <2>1. pc' \in PcType /\ owner' \in [Lock -> Proc \cup {"free"}]
    BY <1>11 DEF DropMarkers, EndPurge, Release, TypeOK, PcType, Goto
  <2>2. /\ target' \in [{"purger", "settings"} -> SUBSET Host] /\ failed' \in BOOLEAN
        /\ markers' \in [{"purger", "reporter"} -> SUBSET Host]
    BY <1>11 DEF DropMarkers, EndPurge, TypeOK
  <2>3. {deleted', purged', hidden'} \subseteq SUBSET Host
    BY <1>11 DEF DropMarkers, TypeOK
  <2> QED BY <1>11, <2>1, <2>2, <2>3 DEF DropMarkers, EndPurge, TypeOK
<1> QED BY <1>1, <1>2, <1>3, <1>4, <1>5, <1>6, <1>7, <1>8, <1>9, <1>10, <1>11 DEF Purger

\* What a start loads, and what it derives from it.
LEMMA Loads ==
  ASSUME TypeOK, NEW i \in BOOLEAN, NEW c \in SUBSET Host, Restart(i, c)
  PROVE  /\ runtime' \in RuntimeState /\ runtimeFile' \in RuntimeState \cup {NoFile}
         /\ runtimeFile # NoFile => runtime' = runtimeFile /\ runtimeFile' = runtimeFile
         /\ statMap' = runtime'.hosts \ deleted
         /\ statsData' = statMap' /\ respJson' = statMap'
         /\ hostsMap' \subseteq Static \cup statMap'
<1>1. NoState \in RuntimeState /\ [NoState EXCEPT !.hosts = statsFile \ deleted] \in RuntimeState
  BY DEF TypeOK, NoState, RuntimeState
<1> QED BY <1>1 DEF Restart, TypeOK

\* A start keeps the types.
LEMMA RestartTypes ==
  ASSUME TypeOK, NEW i \in BOOLEAN, NEW c \in SUBSET Host, Restart(i, c)
  PROVE  TypeOK'
<1>1. pc' \in PcType /\ owner' \in [Lock -> Proc \cup {"free"}]
  BY DEF Restart, PcType, Proc
<1>2. queue' \in Seq(Host) /\ Len(queue') <= QueueBound
  BY QueueAssumption DEF Restart
<1>3. payload' \in [Saver -> [state : RuntimeState, fresh : BOOLEAN]]
  BY DEF Restart, NoPayload, NoState, RuntimeState
<1>4. view' \in [Publisher -> ViewType]
  BY DEF Restart, NoView, ViewType
<1>5. /\ target' \in [{"purger", "settings"} -> SUBSET Host]
      /\ markers' \in [{"purger", "reporter"} -> SUBSET Host]
      /\ {dirty', failed', saveFailed'} \subseteq BOOLEAN
      /\ current' \in SUBSET Host /\ expiry' \in SUBSET Host
  BY DEF Restart
<1>6. UNCHANGED <<deleted, statsFile, purged, hidden, later>>
  BY DEF Restart
<1>7. {hostsMap', statMap', statsData', respJson'} \subseteq SUBSET Host
  BY Loads, StaticAssumption DEF RuntimeState
<1> QED BY <1>1, <1>2, <1>3, <1>4, <1>5, <1>6, <1>7, Loads DEF TypeOK

\* The variables have their types before the first start.
LEMMA InitTypes ==
  ASSUME Init
  PROVE  TypeOK
<1>1. pc \in PcType /\ owner \in [Lock -> Proc \cup {"free"}]
  BY DEF Init, PcType, Proc
<1>2. queue \in Seq(Host) /\ Len(queue) <= QueueBound
  BY QueueAssumption DEF Init
<1>3. /\ runtime \in RuntimeState
      /\ payload \in [Saver -> [state : RuntimeState, fresh : BOOLEAN]]
  BY DEF Init, NoPayload, NoState, RuntimeState
<1>4. view \in [Publisher -> ViewType]
  BY DEF Init, NoView, ViewType
<1> QED BY <1>1, <1>2, <1>3, <1>4 DEF Init, TypeOK

\* So does every step.
LEMMA TypeStep ==
  ASSUME TypeOK, [Next]_vars
  PROVE  TypeOK'
<1>1. CASE UNCHANGED vars
  BY <1>1 DEF TypeOK, vars, locks, inbox, maps, store, purge, public, admin, history
<1> QED BY <1>1, ReporterTypes, PublisherTypes, PurgerTypes, RestartTypes DEF Next

----------------------------------------------------------------------------
(* Locks.                                                                  *)

ReporterBusy == pc["reporter"] \in {"readMarkers", "clearMarker", "resolve", "record", "save"}
Purging == pc["purger"] \in {"hosts", "stats", "runtime", "save", "public", "json"}
PurgerBusy == Purging \/ pc["purger"] \in {"publication", "readMarkers", "writeMarkers"}
Publishing(p) == pc[p] \in {"readDeleted", "scan", "prune", "save", "publish", "json"}

\* Which locks an activity holds follows from where it is, and only these
\* activities take them.
LockDiscipline ==
    /\ owner["lifecycle"] \in {"free", "reporter", "purger"}
    /\ owner["lifecycle"] = "reporter" <=> ReporterBusy
    /\ owner["lifecycle"] = "purger" <=> PurgerBusy
    /\ owner["publication"] \in {"free", "timer", "settings", "purger"}
    /\ \A p \in Publisher : owner["publication"] = p <=> Publishing(p)
    /\ owner["publication"] = "purger" <=> Purging
    /\ owner["hosts"] \in {"free", "reporter", "settings"}
    /\ owner["hosts"] = "reporter" <=> pc["reporter"] \in {"record", "save"}
    /\ owner["hosts"] = "settings" <=> At("settings", "stats")
    /\ owner["stats"] \in {"free", "reporter"}
    /\ owner["stats"] = "reporter" <=> At("reporter", "save")

\* Every step keeps the lock discipline.
LEMMA LockStep ==
  ASSUME TypeOK, LockDiscipline, [Next]_vars
  PROVE  LockDiscipline'
<1> USE DEF TypeOK, PcType, LockDiscipline, ReporterBusy, Purging, PurgerBusy, Publishing,
    Lock, Publisher, Proc, At, Idle, Goto, Free, Take, Release, EndPurge, Finish, locks,
    inbox, maps, store, purge, public, admin, history
<1>1. ASSUME NEW h \in Host, Report(h)
      PROVE  LockDiscipline'
  BY <1>1 DEF Report
<1>2. ASSUME Receive PROVE LockDiscipline'
  BY <1>2 DEF Receive
<1>3. ASSUME BeginReport PROVE LockDiscipline'
  BY <1>3 DEF BeginReport
<1>4. ASSUME ReadMarkers PROVE LockDiscipline'
  BY <1>4 DEF ReadMarkers
<1>5. ASSUME ClearMarker PROVE LockDiscipline'
  BY <1>5 DEF ClearMarker
<1>6. ASSUME DropReport PROVE LockDiscipline'
  BY <1>6 DEF DropReport
<1>7. ASSUME ResolveHost PROVE LockDiscipline'
  BY <1>7 DEF ResolveHost
<1>8. ASSUME NEW r \in BOOLEAN, NEW c \in {{}, current}, NEW o \in BOOLEAN, RecordReport(r, c, o)
      PROVE  LockDiscipline'
  <2>1. CASE Goto("reporter", "save") /\ Take("reporter", "stats")
    BY <1>8, <2>1 DEF RecordReport
  <2>2. CASE Goto("reporter", "idle") /\ Release("reporter", {"lifecycle", "hosts"})
    BY <1>8, <2>2 DEF RecordReport
  <2> QED BY <1>8, <2>1, <2>2 DEF RecordReport
<1>9. ASSUME SaveReport PROVE LockDiscipline'
  BY <1>9 DEF SaveReport
<1>10. ASSUME NEW p \in Publisher, TakePublication(p)
      PROVE  LockDiscipline'
  BY <1>10 DEF TakePublication
<1>11. ASSUME NEW p \in Publisher, ReadDeleted(p)
      PROVE  LockDiscipline'
  BY <1>11 DEF ReadDeleted
<1>12. ASSUME NEW a \in SUBSET statMap, NEW c \in BOOLEAN, NEW n \in SUBSET statMap, Scan(a, c, n)
      PROVE  LockDiscipline'
  BY <1>12 DEF Scan
<1>13. ASSUME NEW k \in SUBSET runtime.alerts, NEW c \in BOOLEAN, Prune(k, c)
      PROVE  LockDiscipline'
  BY <1>13 DEF Prune
<1>14. ASSUME SaveAlerts PROVE LockDiscipline'
  BY <1>14 DEF SaveAlerts
<1>15. ASSUME NEW p \in Publisher, NEW s \in BOOLEAN, PublishData(p, s)
      PROVE  LockDiscipline'
  BY <1>15 DEF PublishData
<1>16. ASSUME NEW p \in Publisher, PublishJson(p)
      PROVE  LockDiscipline'
  BY <1>16 DEF PublishJson
<1>17. ASSUME NEW d \in SUBSET Host, SaveSettings(d)
      PROVE  LockDiscipline'
  BY <1>17 DEF SaveSettings
<1>18. ASSUME RefreshHosts PROVE LockDiscipline'
  BY <1>18 DEF RefreshHosts
<1>19. ASSUME RefreshStats PROVE LockDiscipline'
  BY <1>19 DEF RefreshStats
<1>20. ASSUME Collect PROVE LockDiscipline'
  BY <1>20 DEF Collect
<1>21. ASSUME NEW d \in SUBSET Host, StartPurge(d)
      PROVE  LockDiscipline'
  BY <1>21 DEF StartPurge
<1>22. ASSUME LockLifecycle PROVE LockDiscipline'
  BY <1>22 DEF LockLifecycle
<1>23. ASSUME LockPublication PROVE LockDiscipline'
  BY <1>23 DEF LockPublication
<1>24. ASSUME PurgeHostsMap PROVE LockDiscipline'
  BY <1>24 DEF PurgeHostsMap
<1>25. ASSUME PurgeStatMap PROVE LockDiscipline'
  BY <1>25 DEF PurgeStatMap
<1>26. ASSUME PurgeRuntime PROVE LockDiscipline'
  BY <1>26 DEF PurgeRuntime
<1>27. ASSUME SavePurge PROVE LockDiscipline'
  BY <1>27 DEF SavePurge
<1>28. ASSUME PurgePublic PROVE LockDiscipline'
  BY <1>28 DEF PurgePublic
<1>29. ASSUME PurgeJson PROVE LockDiscipline'
  BY <1>29 DEF PurgeJson
<1>30. ASSUME CopyMarkers PROVE LockDiscipline'
  BY <1>30 DEF CopyMarkers
<1>31. ASSUME DropMarkers PROVE LockDiscipline'
  BY <1>31 DEF DropMarkers
<1>32. ASSUME NEW i \in BOOLEAN, NEW c \in SUBSET Host, Restart(i, c)
      PROVE  LockDiscipline'
  BY <1>32 DEF Restart
<1>33. ASSUME UNCHANGED vars PROVE LockDiscipline'
  BY <1>33 DEF vars
<1>34. "timer" \in Publisher /\ "settings" \in Publisher
  BY DEF Publisher
<1> HIDE DEF TypeOK, PcType, LockDiscipline, ReporterBusy, Purging, PurgerBusy,
    Publishing, Lock, Publisher, Proc, At, Idle, Goto, Free, Take, Release, EndPurge,
    Finish
<1> QED BY <1>1, <1>2, <1>3, <1>4, <1>5, <1>6, <1>7, <1>8, <1>9, <1>10, <1>11, <1>12,
    <1>13, <1>14, <1>15, <1>16, <1>17, <1>18, <1>19, <1>20, <1>21, <1>22, <1>23, <1>24,
    <1>25, <1>26, <1>27, <1>28, <1>29, <1>30, <1>31, <1>32, <1>33, <1>34
  DEF Next, Reporter, Timer, Settings, Purger

\* What each activity may be waiting for, by where it is.
LEMMA WantedLocks ==
  /\ \A l \in Wanted("reporter") : \/ l = "lifecycle" /\ At("reporter", "lifecycle")
                                   \/ l = "hosts" /\ At("reporter", "resolve")
                                   \/ l = "stats" /\ At("reporter", "record")
  /\ \A l \in Wanted("timer") : \/ l = "publication" /\ At("timer", "idle")
                                \/ l = "stats" /\ At("timer", "scan")
  /\ \A l \in Wanted("settings") : \/ l = "hosts" /\ At("settings", "hosts")
                                   \/ l = "stats" /\ pc["settings"] \in {"stats", "scan"}
                                   \/ l = "publication" /\ At("settings", "rebuild")
  /\ \A l \in Wanted("purger") : \/ l = "lifecycle" /\ At("purger", "lifecycle")
                                 \/ l = "publication" /\ At("purger", "publication")
                                 \/ l = "hosts" /\ At("purger", "hosts")
                                 \/ l = "stats" /\ At("purger", "stats")
  BY DEF Wanted, At

\* Locks are taken in the order lifecycle, publication, hosts, stats: in a set
\* of activities that wait only for one another, none waits for stats, hence
\* none for hosts, publication or lifecycle either.
LEMMA NoCycle ==
  ASSUME TypeOK, LockDiscipline
  PROVE  NoLockCycle
<1> SUFFICES ASSUME NEW group \in (SUBSET Proc) \ {{}},
                    \A p \in group : \E l \in Wanted(p) : owner[l] \in group
             PROVE  FALSE
  BY DEF NoLockCycle
<1>1. \A p \in group : p \in Proc /\ \A l \in Wanted(p) : l \in Lock
  BY WantedLocks DEF Proc, Lock
<1>2. owner["stats"] \notin group
  BY WantedLocks DEF LockDiscipline, At, Proc
<1>3. owner["hosts"] \notin group
  BY <1>2, WantedLocks DEF LockDiscipline, At, Proc
<1>4. owner["publication"] \notin group
  BY <1>2, <1>3, WantedLocks DEF LockDiscipline, At, Proc, Publisher, Publishing, Purging
<1>5. owner["lifecycle"] \notin group
  BY <1>2, <1>3, <1>4, WantedLocks DEF LockDiscipline, At, Proc, ReporterBusy, PurgerBusy,
       Purging
<1>6. PICK p \in group : \E l \in Wanted(p) : owner[l] \in group
  OBVIOUS
<1>7. PICK l \in Wanted(p) : owner[l] \in group
  BY <1>6
<1>8. l \in Lock
  BY <1>1, <1>6, <1>7
<1> QED BY <1>2, <1>3, <1>4, <1>5, <1>7, <1>8 DEF Lock

----------------------------------------------------------------------------
(* What a saver has serialized.                                            *)

\* What a saver has serialized is still the memory if the generation is; and
\* a purge about to save has the latest generation.
PayloadCurrent ==
    /\ \A p \in Saver : payload[p].fresh => payload[p].state = runtime
    /\ At("purger", "save") => payload["purger"].fresh

\* A payload that is fresh after a change of the state holds the new state,
\* and only a change supersedes those serialized before.
LEMMA StoresCurrent ==
  ASSUME TypeOK, NEW new \in RuntimeState, NEW changed \in BOOLEAN, NEW p \in Saver,
         \A q \in Saver : payload[q].fresh => payload[q].state = runtime,
         new # runtime => changed,
         Store(new, changed) \/ StoreAndSerialize(p, new, changed)
  PROVE  /\ \A q \in Saver : payload'[q].fresh => payload'[q].state = runtime'
         /\ \A q \in Saver \ {p} : /\ payload'[q].fresh => payload[q].fresh /\ ~changed
                                   /\ payload[q].fresh /\ ~changed => payload'[q].fresh
         /\ StoreAndSerialize(p, new, changed) => payload'[p].fresh
<1>1. \A q \in Saver : payload[q] \in Payload
  BY DEF TypeOK, Payload
<1>2. DOMAIN payload = Saver /\ runtime' = new
  BY DEF TypeOK, Store, StoreAndSerialize
<1>3. StoreAndSerialize(p, new, changed) => payload'[p] = [state |-> new, fresh |-> TRUE]
  BY <1>2 DEF StoreAndSerialize
<1>4. ASSUME NEW q \in Saver, changed,
             payload'[q] = [payload[q] EXCEPT !.fresh = FALSE]
                 \/ payload'[q] = [payload[q] EXCEPT !.fresh = @ /\ ~changed]
      PROVE  ~payload'[q].fresh
  BY <1>1, <1>4 DEF Payload
<1>5. ASSUME NEW q \in Saver, ~changed,
             payload'[q] = payload[q] \/ payload'[q] = [payload[q] EXCEPT !.fresh = @ /\ ~changed]
      PROVE  payload'[q].state = payload[q].state /\ (payload'[q].fresh <=> payload[q].fresh)
  BY <1>1, <1>5 DEF Payload
<1>6. CASE Store(new, changed)
  BY <1>2, <1>3, <1>4, <1>5, <1>6 DEF Store
<1>7. CASE StoreAndSerialize(p, new, changed)
  <2>1. \A q \in Saver \ {p} : payload'[q] = [payload[q] EXCEPT !.fresh = @ /\ ~changed]
    BY <1>2, <1>7 DEF StoreAndSerialize
  <2>2. payload'[p].fresh /\ payload'[p].state = runtime'
    BY <1>2, <1>3, <1>7
  <2>3. CASE changed
    <3>1. \A q \in Saver \ {p} : ~payload'[q].fresh
      BY <1>4, <2>1, <2>3
    <3> QED BY <2>2, <2>3, <3>1
  <2>4. CASE ~changed
    <3>1. \A q \in Saver \ {p} : /\ payload'[q].state = payload[q].state
                                 /\ payload'[q].fresh <=> payload[q].fresh
      BY <1>5, <2>1, <2>4
    <3> QED BY <1>2, <2>2, <2>4, <3>1
  <2> QED BY <2>3, <2>4
<1> QED BY <1>6, <1>7

\* Every step keeps payloads current: who changes the state holds a lock the
\* purge holds too.
LEMMA PayloadStep ==
  ASSUME TypeOK, LockDiscipline, PayloadCurrent, [Next]_vars
  PROVE  PayloadCurrent'
<1> USE DEF PayloadCurrent, At, Goto, TypeOK, PcType, locks, inbox, maps, store, purge,
    public, admin, history
<1>1. ASSUME NEW h \in Host, Report(h)
      PROVE  PayloadCurrent'
  BY <1>1 DEF Report
<1>2. ASSUME Receive PROVE PayloadCurrent'
  BY <1>2 DEF Receive
<1>3. ASSUME BeginReport PROVE PayloadCurrent'
  BY <1>3 DEF BeginReport
<1>4. ASSUME ReadMarkers PROVE PayloadCurrent'
  BY <1>4 DEF ReadMarkers
<1>5. ASSUME ClearMarker PROVE PayloadCurrent'
  BY <1>5 DEF ClearMarker
<1>6. ASSUME DropReport PROVE PayloadCurrent'
  BY <1>6 DEF DropReport
<1>7. ASSUME ResolveHost PROVE PayloadCurrent'
  BY <1>7 DEF ResolveHost
<1>8. ASSUME NEW r \in BOOLEAN, NEW c \in {{}, current}, NEW o \in BOOLEAN, RecordReport(r, c, o)
      PROVE  PayloadCurrent'
  <2> DEFINE new == [hosts |-> runtime.hosts \cup current, alerts |-> runtime.alerts \ c]
  <2>1. new \in RuntimeState
    BY DEF TypeOK, RuntimeState
  <2>2. Store(new, TRUE) \/ StoreAndSerialize("reporter", new, TRUE)
    BY <1>8 DEF RecordReport
  <2>3. \A q \in Saver : payload'[q].fresh => payload'[q].state = runtime'
    BY <2>1, <2>2, StoresCurrent DEF Saver
  <2>4. ~At("purger", "save") /\ ~At("purger", "save")'
    BY <1>8 DEF RecordReport, LockDiscipline, ReporterBusy, PurgerBusy, Purging
  <2> QED BY <2>3, <2>4
<1>9. ASSUME SaveReport PROVE PayloadCurrent'
  <2>1. /\ \A q \in Saver \ {"reporter"} : payload'[q] = payload[q]
        /\ ~payload'["reporter"].fresh /\ runtime' = runtime
    BY <1>9 DEF SaveReport, Drop, NoPayload, Saver
  <2>2. At("purger", "save")' => At("purger", "save") /\ "reporter" # "purger"
    BY <1>9 DEF SaveReport
  <2> QED BY <2>1, <2>2 DEF Saver
<1>10. ASSUME NEW p \in Publisher, TakePublication(p)
      PROVE  PayloadCurrent'
  BY <1>10 DEF TakePublication, Publisher
<1>11. ASSUME NEW p \in Publisher, ReadDeleted(p)
      PROVE  PayloadCurrent'
  BY <1>11 DEF ReadDeleted, Publisher
<1>12. ASSUME NEW a \in SUBSET statMap, NEW c \in BOOLEAN, NEW n \in SUBSET statMap, Scan(a, c, n)
      PROVE  PayloadCurrent'
  <2> DEFINE new == [runtime EXCEPT !.alerts = (@ \ Publishable("timer")) \cup a]
  <2>1. new \in RuntimeState
    BY DEF TypeOK, RuntimeState
  <2>2. Store(new, c) /\ (new # runtime => c)
    BY <1>12 DEF Scan
  <2>3. \A q \in Saver : payload'[q].fresh => payload'[q].state = runtime'
    BY <2>1, <2>2, StoresCurrent DEF Saver
  <2>4. ~At("purger", "save") /\ ~At("purger", "save")'
    <3>1. pc["timer"] = "scan" /\ pc'["purger"] = pc["purger"]
      BY <1>12 DEF Scan
    <3>2. owner["publication"] = "timer"
      BY <3>1 DEF LockDiscipline, Publishing, Publisher
    <3> QED BY <3>1, <3>2 DEF LockDiscipline, Purging
  <2> QED BY <2>3, <2>4
<1>13. ASSUME NEW k \in SUBSET runtime.alerts, NEW c \in BOOLEAN, Prune(k, c)
      PROVE  PayloadCurrent'
  <2> DEFINE new == [runtime EXCEPT !.alerts = k]
  <2>1. new \in RuntimeState
    BY DEF TypeOK, RuntimeState
  <2>2. (Store(new, c) \/ StoreAndSerialize("timer", new, c)) /\ (new # runtime => c)
    BY <1>13 DEF Prune
  <2>3. \A q \in Saver : payload'[q].fresh => payload'[q].state = runtime'
    BY <2>1, <2>2, StoresCurrent DEF Saver
  <2>4. ~At("purger", "save") /\ ~At("purger", "save")'
    <3>1. pc["timer"] = "prune" /\ pc'["purger"] = pc["purger"]
      BY <1>13 DEF Prune
    <3>2. owner["publication"] = "timer"
      BY <3>1 DEF LockDiscipline, Publishing, Publisher
    <3> QED BY <3>1, <3>2 DEF LockDiscipline, Purging
  <2> QED BY <2>3, <2>4
<1>14. ASSUME SaveAlerts PROVE PayloadCurrent'
  <2>1. /\ \A q \in Saver \ {"timer"} : payload'[q] = payload[q]
        /\ ~payload'["timer"].fresh /\ runtime' = runtime
    BY <1>14 DEF SaveAlerts, Drop, NoPayload, Saver
  <2>2. At("purger", "save")' => At("purger", "save") /\ "timer" # "purger"
    BY <1>14 DEF SaveAlerts
  <2> QED BY <2>1, <2>2 DEF Saver
<1>15. ASSUME NEW p \in Publisher, NEW s \in BOOLEAN, PublishData(p, s)
      PROVE  PayloadCurrent'
  BY <1>15 DEF PublishData, Finish, Publisher
<1>16. ASSUME NEW p \in Publisher, PublishJson(p)
      PROVE  PayloadCurrent'
  BY <1>16 DEF PublishJson, Finish, Publisher
<1>17. ASSUME NEW d \in SUBSET Host, SaveSettings(d)
      PROVE  PayloadCurrent'
  BY <1>17 DEF SaveSettings
<1>18. ASSUME RefreshHosts PROVE PayloadCurrent'
  BY <1>18 DEF RefreshHosts
<1>19. ASSUME RefreshStats PROVE PayloadCurrent'
  BY <1>19 DEF RefreshStats
<1>20. ASSUME Collect PROVE PayloadCurrent'
  BY <1>20 DEF Collect
<1>21. ASSUME NEW d \in SUBSET Host, StartPurge(d)
      PROVE  PayloadCurrent'
  BY <1>21 DEF StartPurge
<1>22. ASSUME LockLifecycle PROVE PayloadCurrent'
  BY <1>22 DEF LockLifecycle
<1>23. ASSUME LockPublication PROVE PayloadCurrent'
  BY <1>23 DEF LockPublication
<1>24. ASSUME PurgeHostsMap PROVE PayloadCurrent'
  BY <1>24 DEF PurgeHostsMap
<1>25. ASSUME PurgeStatMap PROVE PayloadCurrent'
  BY <1>25 DEF PurgeStatMap
<1>26. ASSUME PurgeRuntime PROVE PayloadCurrent'
  <2> DEFINE new == [hosts  |-> runtime.hosts \ target["purger"],
                     alerts |-> runtime.alerts \ target["purger"]]
  <2>1. new \in RuntimeState
    BY DEF TypeOK, RuntimeState
  <2>2. StoreAndSerialize("purger", new, new # runtime)
    BY <1>26 DEF PurgeRuntime
  <2>3. /\ \A q \in Saver : payload'[q].fresh => payload'[q].state = runtime'
        /\ payload'["purger"].fresh
    BY <2>1, <2>2, StoresCurrent DEF Saver
  <2> QED BY <2>3
<1>27. ASSUME SavePurge PROVE PayloadCurrent'
  <2>1. /\ \A q \in Saver \ {"purger"} : payload'[q] = payload[q]
        /\ ~payload'["purger"].fresh /\ runtime' = runtime
    BY <1>27 DEF SavePurge, Drop, NoPayload, Saver
  <2>2. At("purger", "save")' => At("purger", "save") /\ "purger" # "purger"
    BY <1>27 DEF SavePurge
  <2> QED BY <2>1, <2>2 DEF Saver
<1>28. ASSUME PurgePublic PROVE PayloadCurrent'
  BY <1>28 DEF PurgePublic
<1>29. ASSUME PurgeJson PROVE PayloadCurrent'
  BY <1>29 DEF PurgeJson, EndPurge
<1>30. ASSUME CopyMarkers PROVE PayloadCurrent'
  BY <1>30 DEF CopyMarkers
<1>31. ASSUME DropMarkers PROVE PayloadCurrent'
  BY <1>31 DEF DropMarkers, EndPurge
<1>32. ASSUME NEW i \in BOOLEAN, NEW c \in SUBSET Host, Restart(i, c)
      PROVE  PayloadCurrent'
  BY <1>32 DEF Restart, NoPayload, Proc
<1>33. ASSUME UNCHANGED vars PROVE PayloadCurrent'
  BY <1>33 DEF vars
<1>34. "timer" \in Publisher /\ "settings" \in Publisher
  BY DEF Publisher
<1> HIDE DEF PayloadCurrent, At, Goto, TypeOK, PcType
<1> QED BY <1>1, <1>2, <1>3, <1>4, <1>5, <1>6, <1>7, <1>8, <1>9, <1>10, <1>11, <1>12,
    <1>13, <1>14, <1>15, <1>16, <1>17, <1>18, <1>19, <1>20, <1>21, <1>22, <1>23, <1>24,
    <1>25, <1>26, <1>27, <1>28, <1>29, <1>30, <1>31, <1>32, <1>33, <1>34
  DEF Next, Reporter, Timer, Settings, Purger

----------------------------------------------------------------------------
(* The public views.                                                       *)

Scanned(p) == pc[p] \in {"prune", "save", "publish", "json"}

\* A publisher cannot be superseded while it holds the publication lock; its
\* rows are live and not among those it read as deleted, whoever is hidden is
\* among these, and so is every public row that would leave.
ViewCurrent ==
    \A p \in Publisher :
        /\ Publishing(p) => view[p].fresh
        /\ Publishing(p) /\ ~At(p, "readDeleted") => hidden \subseteq view[p].deleted
        /\ Scanned(p) => /\ view[p].rows \subseteq statMap
                         /\ view[p].rows \cap view[p].deleted = {}
                         /\ respJson \subseteq view[p].rows \cup view[p].deleted

\* The hosts a purge under way has still to remove from the public views.
Leaving == IF pc["purger"] \in {"runtime", "save", "public", "json"} THEN target["purger"] ELSE {}

\* Public rows are live, and the two public views agree except between the
\* two assignments of a publisher or of a purge.
PublicLive ==
    /\ respJson \subseteq statMap \cup Leaving
    /\ \A p \in Publisher : At(p, "json") => statsData = view[p].rows
    /\ At("purger", "json") => statsData = respJson \ target["purger"]
    /\ ~At("purger", "json") /\ (\A p \in Publisher : ~At(p, "json")) => statsData = respJson

\* A hidden host is marked deleted; a copy of the markers exists only between
\* reading and writing; a request that deletes hosts has its publisher read
\* them as deleted unless their marker is gone by then.
HiddenMarked ==
    /\ hidden \subseteq deleted
    /\ ~At("reporter", "clearMarker") => markers["reporter"] = {}
    /\ ~At("purger", "writeMarkers") => markers["purger"] = {}
    /\ pc["settings"] \notin {"down", "idle"} =>
           \A p \in {"reporter", "purger"} : markers[p] \cap target["settings"] \subseteq deleted
    /\ pc["settings"] \in {"scan", "publish", "json"} =>
           target["settings"] \cap (deleted \cup markers["reporter"] \cup markers["purger"])
               \subseteq view["settings"].deleted

\* A pass over stat_map fills in the timer's view and leaves its deleted list.
LEMMA ScanView ==
  ASSUME TypeOK, NEW a, NEW c, NEW n, Scan(a, c, n)
  PROVE  /\ view'["timer"].rows = Publishable("timer")
         /\ view'["timer"].deleted = view["timer"].deleted
         /\ view'["timer"].fresh = view["timer"].fresh
         /\ view'["settings"] = view["settings"]
<1>1. \A v \in ViewType : \A s, r : LET w == [[v EXCEPT !.seen = s] EXCEPT !.rows = r]
                                   IN  w.rows = r /\ w.deleted = v.deleted /\ w.fresh = v.fresh
  <2> TAKE v \in ViewType
  <2> TAKE s, r
  <2> DEFINE u == [v EXCEPT !.seen = s]
  <2>1. /\ DOMAIN u = {"deleted", "seen", "rows", "fresh"}
        /\ u.deleted = v.deleted /\ u.fresh = v.fresh
    BY DEF ViewType
  <2> HIDE DEF u
  <2>2. LET w == [u EXCEPT !.rows = r] IN w.rows = r /\ w.deleted = u.deleted /\ w.fresh = u.fresh
    BY <2>1
  <2> QED BY <2>1, <2>2 DEF u
<1>2. view["timer"] \in ViewType /\ {"timer", "settings"} \subseteq DOMAIN view
  BY DEF TypeOK, Publisher
<1> DEFINE first == [view EXCEPT !["timer"].seen = statMap]
<1>3. /\ first["timer"] = [view["timer"] EXCEPT !.seen = statMap]
      /\ first["settings"] = view["settings"] /\ {"timer", "settings"} \subseteq DOMAIN first
  BY <1>2
<1>4. view' = [first EXCEPT !["timer"].rows = Publishable("timer")]
  BY DEF Scan
<1> HIDE DEF first
<1>5. /\ view'["timer"] = [first["timer"] EXCEPT !.rows = Publishable("timer")]
      /\ view'["settings"] = first["settings"]
  BY <1>3, <1>4
<1> QED BY <1>1, <1>2, <1>3, <1>5

\* Recording a report: the row is there, and the views and the other activities
\* are as they were.
LEMMA RecordMoves ==
  ASSUME TypeOK, NEW r \in BOOLEAN, NEW c \in {{}, current}, NEW o \in BOOLEAN,
         RecordReport(r, c, o)
  PROVE  /\ pc["reporter"] = "record" /\ pc'["reporter"] \in {"save", "idle"}
         /\ pc'["timer"] = pc["timer"] /\ pc'["settings"] = pc["settings"]
         /\ pc'["purger"] = pc["purger"]
         /\ statMap \subseteq statMap'
         /\ view' = view /\ target' = target /\ respJson' = respJson
         /\ statsData' = statsData /\ deleted' = deleted /\ markers' = markers
         /\ hidden' = hidden
<1>1. \/ pc' = [pc EXCEPT !["reporter"] = "save"]
      \/ pc' = [pc EXCEPT !["reporter"] = "idle"]
  BY DEF RecordReport, Goto
<1>2. pc \in PcType
  BY DEF TypeOK
<1>3. /\ pc'["reporter"] \in {"save", "idle"}
      /\ pc'["timer"] = pc["timer"] /\ pc'["settings"] = pc["settings"]
      /\ pc'["purger"] = pc["purger"]
  BY <1>1, <1>2 DEF PcType
<1>4. pc["reporter"] = "record" /\ statMap' = statMap \cup current
  BY DEF RecordReport, At
<1>5. UNCHANGED <<view, target, respJson, statsData, deleted, markers, hidden>>
  BY DEF RecordReport, purge, public, admin, history
<1> QED BY <1>3, <1>4, <1>5

\* Every step keeps the views current.
LEMMA ViewStep ==
  ASSUME TypeOK, LockDiscipline, ViewCurrent, PublicLive, HiddenMarked, [Next]_vars
  PROVE  ViewCurrent'
<1> USE DEF ViewCurrent, Publishing, Scanned, At, Goto, TypeOK, PcType, Publisher,
    ViewType, locks, inbox, maps, store, purge, public, admin, history
<1>1. ASSUME NEW h \in Host, Report(h)
      PROVE  ViewCurrent'
  BY <1>1 DEF Report
<1>2. ASSUME Receive PROVE ViewCurrent'
  BY <1>2 DEF Receive
<1>3. ASSUME BeginReport PROVE ViewCurrent'
  BY <1>3 DEF BeginReport
<1>4. ASSUME ReadMarkers PROVE ViewCurrent'
  BY <1>4 DEF ReadMarkers
<1>5. ASSUME ClearMarker PROVE ViewCurrent'
  BY <1>5 DEF ClearMarker
<1>6. ASSUME DropReport PROVE ViewCurrent'
  BY <1>6 DEF DropReport
<1>7. ASSUME ResolveHost PROVE ViewCurrent'
  BY <1>7 DEF ResolveHost
<1>8. ASSUME NEW r \in BOOLEAN, NEW c \in {{}, current}, NEW o \in BOOLEAN, RecordReport(r, c, o)
      PROVE  ViewCurrent'
  <2>1. /\ pc'["timer"] = pc["timer"] /\ pc'["settings"] = pc["settings"]
        /\ statMap \subseteq statMap' /\ view' = view
        /\ respJson' = respJson /\ hidden' = hidden
    BY <1>8, RecordMoves
  <2> QED BY <2>1
<1>9. ASSUME SaveReport PROVE ViewCurrent'
  BY <1>9 DEF SaveReport
<1>10. ASSUME NEW p \in Publisher, TakePublication(p)
      PROVE  ViewCurrent'
  BY <1>10 DEF TakePublication, NoView, Take, Free, LockDiscipline
<1>11. ASSUME NEW p \in Publisher, ReadDeleted(p)
      PROVE  ViewCurrent'
  BY <1>11 DEF ReadDeleted, HiddenMarked
<1>12. ASSUME NEW a \in SUBSET statMap, NEW c \in BOOLEAN, NEW n \in SUBSET statMap, Scan(a, c, n)
      PROVE  ViewCurrent'
  <2>1. /\ pc["timer"] = "scan" /\ pc'["timer"] = "prune"
        /\ pc'["settings"] = pc["settings"]
    BY <1>12 DEF Scan
  <2>2. statMap' = statMap /\ respJson' = respJson /\ hidden' = hidden
    BY <1>12 DEF Scan
  <2>3. ~Publishing("settings") /\ Leaving = {}
    BY <2>1 DEF LockDiscipline, Purging, Leaving
  <2>4. /\ view'["timer"].rows = statMap \ view["timer"].deleted
        /\ view'["timer"].deleted = view["timer"].deleted
        /\ view'["timer"].fresh = view["timer"].fresh
    BY <1>12, ScanView DEF Publishable
  <2>5. view["timer"].fresh /\ hidden \subseteq view["timer"].deleted
    BY <2>1
  <2>6. respJson \subseteq statMap
    BY <2>3 DEF PublicLive
  <2>7. ~Publishing("settings")'
    BY <2>1, <2>3
  <2>8. /\ view'["timer"].fresh /\ hidden' \subseteq view'["timer"].deleted
        /\ view'["timer"].rows \subseteq statMap'
        /\ view'["timer"].rows \cap view'["timer"].deleted = {}
        /\ respJson' \subseteq view'["timer"].rows \cup view'["timer"].deleted
    BY <2>2, <2>4, <2>5, <2>6
  <2> QED BY <2>7, <2>8
<1>13. ASSUME NEW k \in SUBSET runtime.alerts, NEW c \in BOOLEAN, Prune(k, c)
      PROVE  ViewCurrent'
  BY <1>13 DEF Prune
<1>14. ASSUME SaveAlerts PROVE ViewCurrent'
  BY <1>14 DEF SaveAlerts
<1>15. ASSUME NEW p \in Publisher, NEW s \in BOOLEAN, PublishData(p, s)
      PROVE  ViewCurrent'
  BY <1>15 DEF PublishData, Finish, NoView, LockDiscipline
<1>16. ASSUME NEW p \in Publisher, PublishJson(p)
      PROVE  ViewCurrent'
  BY <1>16 DEF PublishJson, Finish, NoView, LockDiscipline
<1>17. ASSUME NEW d \in SUBSET Host, SaveSettings(d)
      PROVE  ViewCurrent'
  BY <1>17 DEF SaveSettings
<1>18. ASSUME RefreshHosts PROVE ViewCurrent'
  BY <1>18 DEF RefreshHosts
<1>19. ASSUME RefreshStats PROVE ViewCurrent'
  BY <1>19 DEF RefreshStats
<1>20. ASSUME Collect PROVE ViewCurrent'
  BY <1>20 DEF Collect, Publishable, LockDiscipline, Purging, Leaving, PublicLive,
       HiddenMarked
<1>21. ASSUME NEW d \in SUBSET Host, StartPurge(d)
      PROVE  ViewCurrent'
  BY <1>21 DEF StartPurge
<1>22. ASSUME LockLifecycle PROVE ViewCurrent'
  BY <1>22 DEF LockLifecycle
<1>23. ASSUME LockPublication PROVE ViewCurrent'
  BY <1>23 DEF LockPublication, Take, Free, LockDiscipline
<1>24. ASSUME PurgeHostsMap PROVE ViewCurrent'
  BY <1>24 DEF PurgeHostsMap
<1>25. ASSUME PurgeStatMap PROVE ViewCurrent'
  BY <1>25 DEF PurgeStatMap, EndPurge, LockDiscipline, Purging
<1>26. ASSUME PurgeRuntime PROVE ViewCurrent'
  BY <1>26 DEF PurgeRuntime
<1>27. ASSUME SavePurge PROVE ViewCurrent'
  BY <1>27 DEF SavePurge
<1>28. ASSUME PurgePublic PROVE ViewCurrent'
  BY <1>28 DEF PurgePublic, EndPurge, LockDiscipline, Purging
<1>29. ASSUME PurgeJson PROVE ViewCurrent'
  BY <1>29 DEF PurgeJson, EndPurge, LockDiscipline, Purging
<1>30. ASSUME CopyMarkers PROVE ViewCurrent'
  BY <1>30 DEF CopyMarkers
<1>31. ASSUME DropMarkers PROVE ViewCurrent'
  BY <1>31 DEF DropMarkers, EndPurge
<1>32. ASSUME NEW i \in BOOLEAN, NEW c \in SUBSET Host, Restart(i, c)
      PROVE  ViewCurrent'
  BY <1>32 DEF Restart, Proc
<1>33. ASSUME UNCHANGED vars PROVE ViewCurrent'
  BY <1>33 DEF vars
<1>34. "timer" \in Publisher /\ "settings" \in Publisher
  BY DEF Publisher
<1> HIDE DEF ViewCurrent, Publishing, Scanned, At, Goto, TypeOK, PcType, Publisher,
    ViewType
<1> QED BY <1>1, <1>2, <1>3, <1>4, <1>5, <1>6, <1>7, <1>8, <1>9, <1>10, <1>11, <1>12,
    <1>13, <1>14, <1>15, <1>16, <1>17, <1>18, <1>19, <1>20, <1>21, <1>22, <1>23, <1>24,
    <1>25, <1>26, <1>27, <1>28, <1>29, <1>30, <1>31, <1>32, <1>33, <1>34
  DEF Next, Reporter, Timer, Settings, Purger

\* Every step keeps the public views live.
LEMMA PublicStep ==
  ASSUME TypeOK, LockDiscipline, ViewCurrent, PublicLive, [Next]_vars
  PROVE  PublicLive'
<1> USE DEF PublicLive, Leaving, At, Idle, Goto, TypeOK, PcType, Publisher, ViewType,
    locks, inbox, maps, store, purge, public, admin, history
<1>1. ASSUME NEW h \in Host, Report(h)
      PROVE  PublicLive'
  BY <1>1 DEF Report
<1>2. ASSUME Receive PROVE PublicLive'
  BY <1>2 DEF Receive
<1>3. ASSUME BeginReport PROVE PublicLive'
  BY <1>3 DEF BeginReport
<1>4. ASSUME ReadMarkers PROVE PublicLive'
  BY <1>4 DEF ReadMarkers
<1>5. ASSUME ClearMarker PROVE PublicLive'
  BY <1>5 DEF ClearMarker
<1>6. ASSUME DropReport PROVE PublicLive'
  BY <1>6 DEF DropReport
<1>7. ASSUME ResolveHost PROVE PublicLive'
  BY <1>7 DEF ResolveHost
<1>8. ASSUME NEW r \in BOOLEAN, NEW c \in {{}, current}, NEW o \in BOOLEAN, RecordReport(r, c, o)
      PROVE  PublicLive'
  <2>1. /\ pc'["timer"] = pc["timer"] /\ pc'["settings"] = pc["settings"]
        /\ pc'["purger"] = pc["purger"] /\ statMap \subseteq statMap' /\ view' = view
        /\ respJson' = respJson /\ statsData' = statsData /\ target' = target
    BY <1>8, RecordMoves
  <2>2. Leaving' = Leaving
    BY <2>1 DEF Leaving
  <2> QED BY <2>1, <2>2
<1>9. ASSUME SaveReport PROVE PublicLive'
  BY <1>9 DEF SaveReport
<1>10. ASSUME NEW p \in Publisher, TakePublication(p)
      PROVE  PublicLive'
  BY <1>10 DEF TakePublication, LockDiscipline, Publishing, Purging
<1>11. ASSUME NEW p \in Publisher, ReadDeleted(p)
      PROVE  PublicLive'
  BY <1>11 DEF ReadDeleted, LockDiscipline, Publishing, Purging
<1>12. ASSUME NEW a \in SUBSET statMap, NEW c \in BOOLEAN, NEW n \in SUBSET statMap, Scan(a, c, n)
      PROVE  PublicLive'
  BY <1>12, ScanView DEF Scan, LockDiscipline, Publishing, Purging
<1>13. ASSUME NEW k \in SUBSET runtime.alerts, NEW c \in BOOLEAN, Prune(k, c)
      PROVE  PublicLive'
  BY <1>13 DEF Prune
<1>14. ASSUME SaveAlerts PROVE PublicLive'
  BY <1>14 DEF SaveAlerts
<1>15. ASSUME NEW p \in Publisher, NEW s \in BOOLEAN, PublishData(p, s)
      PROVE  PublicLive'
  BY <1>15 DEF PublishData, Finish, ViewCurrent, Scanned, LockDiscipline, Purging,
       Publishing
<1>16. ASSUME NEW p \in Publisher, PublishJson(p)
      PROVE  PublicLive'
  BY <1>16 DEF PublishJson, Finish, ViewCurrent, Scanned, LockDiscipline, Purging,
       Publishing
<1>17. ASSUME NEW d \in SUBSET Host, SaveSettings(d)
      PROVE  PublicLive'
  BY <1>17 DEF SaveSettings
<1>18. ASSUME RefreshHosts PROVE PublicLive'
  BY <1>18 DEF RefreshHosts
<1>19. ASSUME RefreshStats PROVE PublicLive'
  BY <1>19 DEF RefreshStats
<1>20. ASSUME Collect PROVE PublicLive'
  BY <1>20 DEF Collect, LockDiscipline, Publishing, Purging
<1>21. ASSUME NEW d \in SUBSET Host, StartPurge(d)
      PROVE  PublicLive'
  BY <1>21 DEF StartPurge, EndPurge, LockDiscipline, Purging, Publishing
<1>22. ASSUME LockLifecycle PROVE PublicLive'
  BY <1>22 DEF LockLifecycle
<1>23. ASSUME LockPublication PROVE PublicLive'
  BY <1>23 DEF LockPublication
<1>24. ASSUME PurgeHostsMap PROVE PublicLive'
  BY <1>24 DEF PurgeHostsMap, EndPurge, LockDiscipline, Purging, Publishing
<1>25. ASSUME PurgeStatMap PROVE PublicLive'
  BY <1>25 DEF PurgeStatMap, EndPurge, LockDiscipline, Purging, Publishing
<1>26. ASSUME PurgeRuntime PROVE PublicLive'
  BY <1>26 DEF PurgeRuntime
<1>27. ASSUME SavePurge PROVE PublicLive'
  BY <1>27 DEF SavePurge
<1>28. ASSUME PurgePublic PROVE PublicLive'
  BY <1>28 DEF PurgePublic, EndPurge, LockDiscipline, Purging, Publishing
<1>29. ASSUME PurgeJson PROVE PublicLive'
  BY <1>29 DEF PurgeJson, EndPurge, LockDiscipline, Purging, Publishing
<1>30. ASSUME CopyMarkers PROVE PublicLive'
  BY <1>30 DEF CopyMarkers
<1>31. ASSUME DropMarkers PROVE PublicLive'
  BY <1>31 DEF DropMarkers, EndPurge, LockDiscipline, Purging, Publishing
<1>32. ASSUME NEW i \in BOOLEAN, NEW c \in SUBSET Host, Restart(i, c)
      PROVE  PublicLive'
  BY <1>32, Loads DEF Restart, Proc
<1>33. ASSUME UNCHANGED vars PROVE PublicLive'
  BY <1>33 DEF vars
<1>34. "timer" \in Publisher /\ "settings" \in Publisher
  BY DEF Publisher
<1> HIDE DEF PublicLive, Leaving, At, Idle, Goto, TypeOK, PcType, Publisher, ViewType
<1> QED BY <1>1, <1>2, <1>3, <1>4, <1>5, <1>6, <1>7, <1>8, <1>9, <1>10, <1>11, <1>12,
    <1>13, <1>14, <1>15, <1>16, <1>17, <1>18, <1>19, <1>20, <1>21, <1>22, <1>23, <1>24,
    <1>25, <1>26, <1>27, <1>28, <1>29, <1>30, <1>31, <1>32, <1>33, <1>34
  DEF Next, Reporter, Timer, Settings, Purger

\* Every step keeps hidden hosts marked: the reporter and a purge, which both
\* write a copy of the markers back, exclude each other.
LEMMA HiddenStep ==
  ASSUME TypeOK, LockDiscipline, HiddenMarked, [Next]_vars
  PROVE  HiddenMarked'
<1> USE DEF HiddenMarked, At, Idle, Goto, TypeOK, PcType, Publisher, ViewType, locks,
    inbox, maps, store, purge, public, admin, history
<1>1. ASSUME NEW h \in Host, Report(h)
      PROVE  HiddenMarked'
  BY <1>1 DEF Report
<1>2. ASSUME Receive PROVE HiddenMarked'
  BY <1>2 DEF Receive
<1>3. ASSUME BeginReport PROVE HiddenMarked'
  BY <1>3 DEF BeginReport
<1>4. ASSUME ReadMarkers PROVE HiddenMarked'
  BY <1>4 DEF ReadMarkers, LockDiscipline, ReporterBusy, PurgerBusy, Purging
<1>5. ASSUME ClearMarker PROVE HiddenMarked'
  BY <1>5 DEF ClearMarker, LockDiscipline, ReporterBusy, PurgerBusy, Purging
<1>6. ASSUME DropReport PROVE HiddenMarked'
  BY <1>6 DEF DropReport
<1>7. ASSUME ResolveHost PROVE HiddenMarked'
  BY <1>7 DEF ResolveHost
<1>8. ASSUME NEW r \in BOOLEAN, NEW c \in {{}, current}, NEW o \in BOOLEAN, RecordReport(r, c, o)
      PROVE  HiddenMarked'
  BY <1>8, RecordMoves
<1>9. ASSUME SaveReport PROVE HiddenMarked'
  BY <1>9 DEF SaveReport
<1>10. ASSUME NEW p \in Publisher, TakePublication(p)
      PROVE  HiddenMarked'
  BY <1>10 DEF TakePublication
<1>11. ASSUME NEW p \in Publisher, ReadDeleted(p)
      PROVE  HiddenMarked'
  BY <1>11 DEF ReadDeleted
<1>12. ASSUME NEW a \in SUBSET statMap, NEW c \in BOOLEAN, NEW n \in SUBSET statMap, Scan(a, c, n)
      PROVE  HiddenMarked'
  BY <1>12, ScanView DEF Scan
<1>13. ASSUME NEW k \in SUBSET runtime.alerts, NEW c \in BOOLEAN, Prune(k, c)
      PROVE  HiddenMarked'
  BY <1>13 DEF Prune
<1>14. ASSUME SaveAlerts PROVE HiddenMarked'
  BY <1>14 DEF SaveAlerts
<1>15. ASSUME NEW p \in Publisher, NEW s \in BOOLEAN, PublishData(p, s)
      PROVE  HiddenMarked'
  BY <1>15 DEF PublishData, Finish
<1>16. ASSUME NEW p \in Publisher, PublishJson(p)
      PROVE  HiddenMarked'
  BY <1>16 DEF PublishJson, Finish
<1>17. ASSUME NEW d \in SUBSET Host, SaveSettings(d)
      PROVE  HiddenMarked'
  BY <1>17 DEF SaveSettings
<1>18. ASSUME RefreshHosts PROVE HiddenMarked'
  BY <1>18 DEF RefreshHosts
<1>19. ASSUME RefreshStats PROVE HiddenMarked'
  BY <1>19 DEF RefreshStats
<1>20. ASSUME Collect PROVE HiddenMarked'
  BY <1>20 DEF Collect
<1>21. ASSUME NEW d \in SUBSET Host, StartPurge(d)
      PROVE  HiddenMarked'
  BY <1>21 DEF StartPurge
<1>22. ASSUME LockLifecycle PROVE HiddenMarked'
  BY <1>22 DEF LockLifecycle
<1>23. ASSUME LockPublication PROVE HiddenMarked'
  BY <1>23 DEF LockPublication
<1>24. ASSUME PurgeHostsMap PROVE HiddenMarked'
  BY <1>24 DEF PurgeHostsMap
<1>25. ASSUME PurgeStatMap PROVE HiddenMarked'
  BY <1>25 DEF PurgeStatMap
<1>26. ASSUME PurgeRuntime PROVE HiddenMarked'
  BY <1>26 DEF PurgeRuntime
<1>27. ASSUME SavePurge PROVE HiddenMarked'
  BY <1>27 DEF SavePurge
<1>28. ASSUME PurgePublic PROVE HiddenMarked'
  BY <1>28 DEF PurgePublic
<1>29. ASSUME PurgeJson PROVE HiddenMarked'
  BY <1>29 DEF PurgeJson, EndPurge, LockDiscipline, ReporterBusy, PurgerBusy, Purging
<1>30. ASSUME CopyMarkers PROVE HiddenMarked'
  BY <1>30 DEF CopyMarkers, LockDiscipline, ReporterBusy, PurgerBusy, Purging
<1>31. ASSUME DropMarkers PROVE HiddenMarked'
  BY <1>31 DEF DropMarkers, EndPurge, LockDiscipline, ReporterBusy, PurgerBusy, Purging
<1>32. ASSUME NEW i \in BOOLEAN, NEW c \in SUBSET Host, Restart(i, c)
      PROVE  HiddenMarked'
  BY <1>32 DEF Restart, Proc
<1>33. ASSUME UNCHANGED vars PROVE HiddenMarked'
  BY <1>33 DEF vars
<1>34. "timer" \in Publisher /\ "settings" \in Publisher
  BY DEF Publisher
<1> HIDE DEF HiddenMarked, At, Idle, Goto, TypeOK, PcType, Publisher, ViewType
<1> QED BY <1>1, <1>2, <1>3, <1>4, <1>5, <1>6, <1>7, <1>8, <1>9, <1>10, <1>11, <1>12,
    <1>13, <1>14, <1>15, <1>16, <1>17, <1>18, <1>19, <1>20, <1>21, <1>22, <1>23, <1>24,
    <1>25, <1>26, <1>27, <1>28, <1>29, <1>30, <1>31, <1>32, <1>33, <1>34
  DEF Next, Reporter, Timer, Settings, Purger

\* No step publishes a hidden host.
LEMMA NotPublicStep ==
  ASSUME TypeOK, ViewCurrent, PublicLive, HiddenMarked, HiddenStaysHidden, [Next]_vars
  PROVE  HiddenStaysHidden'
<1> USE DEF HiddenStaysHidden, At, Idle, Goto, TypeOK, PcType, Publisher, ViewType, locks,
    inbox, maps, store, purge, public, admin, history
<1>1. ASSUME NEW h \in Host, Report(h)
      PROVE  HiddenStaysHidden'
  BY <1>1 DEF Report
<1>2. ASSUME Receive PROVE HiddenStaysHidden'
  BY <1>2 DEF Receive
<1>3. ASSUME BeginReport PROVE HiddenStaysHidden'
  BY <1>3 DEF BeginReport
<1>4. ASSUME ReadMarkers PROVE HiddenStaysHidden'
  BY <1>4 DEF ReadMarkers
<1>5. ASSUME ClearMarker PROVE HiddenStaysHidden'
  BY <1>5 DEF ClearMarker
<1>6. ASSUME DropReport PROVE HiddenStaysHidden'
  BY <1>6 DEF DropReport
<1>7. ASSUME ResolveHost PROVE HiddenStaysHidden'
  BY <1>7 DEF ResolveHost
<1>8. ASSUME NEW r \in BOOLEAN, NEW c \in {{}, current}, NEW o \in BOOLEAN, RecordReport(r, c, o)
      PROVE  HiddenStaysHidden'
  BY <1>8 DEF RecordReport
<1>9. ASSUME SaveReport PROVE HiddenStaysHidden'
  BY <1>9 DEF SaveReport
<1>10. ASSUME NEW p \in Publisher, TakePublication(p)
      PROVE  HiddenStaysHidden'
  BY <1>10 DEF TakePublication
<1>11. ASSUME NEW p \in Publisher, ReadDeleted(p)
      PROVE  HiddenStaysHidden'
  BY <1>11 DEF ReadDeleted
<1>12. ASSUME NEW a \in SUBSET statMap, NEW c \in BOOLEAN, NEW n \in SUBSET statMap, Scan(a, c, n)
      PROVE  HiddenStaysHidden'
  BY <1>12 DEF Scan
<1>13. ASSUME NEW k \in SUBSET runtime.alerts, NEW c \in BOOLEAN, Prune(k, c)
      PROVE  HiddenStaysHidden'
  BY <1>13 DEF Prune
<1>14. ASSUME SaveAlerts PROVE HiddenStaysHidden'
  BY <1>14 DEF SaveAlerts
<1>15. ASSUME NEW p \in Publisher, NEW s \in BOOLEAN, PublishData(p, s)
      PROVE  HiddenStaysHidden'
  BY <1>15 DEF PublishData, Finish, ViewCurrent, Publishing, Scanned, HiddenMarked
<1>16. ASSUME NEW p \in Publisher, PublishJson(p)
      PROVE  HiddenStaysHidden'
  BY <1>16 DEF PublishJson, Finish, ViewCurrent, Publishing, Scanned, HiddenMarked
<1>17. ASSUME NEW d \in SUBSET Host, SaveSettings(d)
      PROVE  HiddenStaysHidden'
  BY <1>17 DEF SaveSettings
<1>18. ASSUME RefreshHosts PROVE HiddenStaysHidden'
  BY <1>18 DEF RefreshHosts
<1>19. ASSUME RefreshStats PROVE HiddenStaysHidden'
  BY <1>19 DEF RefreshStats
<1>20. ASSUME Collect PROVE HiddenStaysHidden'
  BY <1>20 DEF Collect
<1>21. ASSUME NEW d \in SUBSET Host, StartPurge(d)
      PROVE  HiddenStaysHidden'
  BY <1>21 DEF StartPurge
<1>22. ASSUME LockLifecycle PROVE HiddenStaysHidden'
  BY <1>22 DEF LockLifecycle
<1>23. ASSUME LockPublication PROVE HiddenStaysHidden'
  BY <1>23 DEF LockPublication
<1>24. ASSUME PurgeHostsMap PROVE HiddenStaysHidden'
  BY <1>24 DEF PurgeHostsMap
<1>25. ASSUME PurgeStatMap PROVE HiddenStaysHidden'
  BY <1>25 DEF PurgeStatMap
<1>26. ASSUME PurgeRuntime PROVE HiddenStaysHidden'
  BY <1>26 DEF PurgeRuntime
<1>27. ASSUME SavePurge PROVE HiddenStaysHidden'
  BY <1>27 DEF SavePurge
<1>28. ASSUME PurgePublic PROVE HiddenStaysHidden'
  BY <1>28 DEF PurgePublic
<1>29. ASSUME PurgeJson PROVE HiddenStaysHidden'
  BY <1>29 DEF PurgeJson, EndPurge, PublicLive
<1>30. ASSUME CopyMarkers PROVE HiddenStaysHidden'
  BY <1>30 DEF CopyMarkers
<1>31. ASSUME DropMarkers PROVE HiddenStaysHidden'
  BY <1>31 DEF DropMarkers
<1>32. ASSUME NEW i \in BOOLEAN, NEW c \in SUBSET Host, Restart(i, c)
      PROVE  HiddenStaysHidden'
  BY <1>32, Loads DEF Restart, HiddenMarked
<1>33. ASSUME UNCHANGED vars PROVE HiddenStaysHidden'
  BY <1>33 DEF vars
<1>34. "timer" \in Publisher /\ "settings" \in Publisher
  BY DEF Publisher
<1> HIDE DEF HiddenStaysHidden, At, Idle, Goto, TypeOK, PcType, Publisher, ViewType
<1> QED BY <1>1, <1>2, <1>3, <1>4, <1>5, <1>6, <1>7, <1>8, <1>9, <1>10, <1>11, <1>12,
    <1>13, <1>14, <1>15, <1>16, <1>17, <1>18, <1>19, <1>20, <1>21, <1>22, <1>23, <1>24,
    <1>25, <1>26, <1>27, <1>28, <1>29, <1>30, <1>31, <1>32, <1>33, <1>34
  DEF Next, Reporter, Timer, Settings, Purger

----------------------------------------------------------------------------
(* Purges.                                                                 *)

\* Parts of a purge, from each point on to its end.
PurgerAt(labels) == pc["purger"] \in labels
PastHosts == PurgerAt({"stats", "runtime", "save", "public", "json", "readMarkers", "writeMarkers"})
PastStats == PurgerAt({"runtime", "save", "public", "json", "readMarkers", "writeMarkers"})
PastRuntime == PurgerAt({"save", "public", "json", "readMarkers", "writeMarkers"})
PastSave == PurgerAt({"public", "json", "readMarkers", "writeMarkers"})
PastPublic == PurgerAt({"json", "readMarkers", "writeMarkers"})
PastJson == PurgerAt({"readMarkers", "writeMarkers"})

\* A report takes up its host before it records it, and what a purge has
\* cleaned stays clean until it ends.
PurgeProgress ==
    LET gone == target["purger"]
    IN  /\ ReporterBusy => current \cap purged = {}
        /\ PastHosts => gone \cap (hostsMap \ Static) = {}
        /\ PastStats => gone \cap statMap = {}
        /\ PastRuntime => gone \cap (runtime.hosts \cup runtime.alerts) = {}
        /\ PastSave => gone \cap expiry = {}
        /\ PastSave /\ ~failed => /\ runtimeFile # NoFile
                                 /\ gone \cap (runtimeFile.hosts \cup runtimeFile.alerts) = {}
        /\ PastPublic => gone \cap statsData = {}
        /\ PastPublic /\ ~failed => gone \cap statsFile = {}
        /\ PastJson => ~failed /\ gone \cap respJson = {}

\* Every step keeps what a purge has cleaned clean.
LEMMA ProgressStep ==
  ASSUME TypeOK, LockDiscipline, PayloadCurrent, ViewCurrent, PurgeProgress, [Next]_vars
  PROVE  PurgeProgress'
<1> USE DEF PurgeProgress, PurgerAt, PastHosts, PastStats, PastRuntime, PastSave,
    PastPublic, PastJson, At, Idle, Goto, TypeOK, PcType, Publisher, ViewType,
    LockDiscipline, ReporterBusy, PurgerBusy, Purging, locks, inbox, maps, store, purge,
    public, admin, history
<1>1. ASSUME NEW h \in Host, Report(h)
      PROVE  PurgeProgress'
  BY <1>1 DEF Report
<1>2. ASSUME Receive PROVE PurgeProgress'
  BY <1>2 DEF Receive
<1>3. ASSUME BeginReport PROVE PurgeProgress'
  BY <1>3 DEF BeginReport
<1>4. ASSUME ReadMarkers PROVE PurgeProgress'
  BY <1>4 DEF ReadMarkers
<1>5. ASSUME ClearMarker PROVE PurgeProgress'
  BY <1>5 DEF ClearMarker
<1>6. ASSUME DropReport PROVE PurgeProgress'
  BY <1>6 DEF DropReport
<1>7. ASSUME ResolveHost PROVE PurgeProgress'
  BY <1>7 DEF ResolveHost
<1>8. ASSUME NEW r \in BOOLEAN, NEW c \in {{}, current}, NEW o \in BOOLEAN, RecordReport(r, c, o)
      PROVE  PurgeProgress'
  BY <1>8 DEF RecordReport
<1>9. ASSUME SaveReport PROVE PurgeProgress'
  BY <1>9, NoFileAssumption DEF SaveReport, Published, Skipped, SaveError, RuntimeState,
       PayloadCurrent, Saver, Publishing
<1>10. ASSUME NEW p \in Publisher, TakePublication(p)
      PROVE  PurgeProgress'
  BY <1>10 DEF TakePublication
<1>11. ASSUME NEW p \in Publisher, ReadDeleted(p)
      PROVE  PurgeProgress'
  BY <1>11 DEF ReadDeleted
<1>12. ASSUME NEW a \in SUBSET statMap, NEW c \in BOOLEAN, NEW n \in SUBSET statMap, Scan(a, c, n)
      PROVE  PurgeProgress'
  BY <1>12 DEF Scan, Store, StoreAndSerialize, RuntimeState, Publishing, Publishable
<1>13. ASSUME NEW k \in SUBSET runtime.alerts, NEW c \in BOOLEAN, Prune(k, c)
      PROVE  PurgeProgress'
  BY <1>13 DEF Prune, Store, StoreAndSerialize, RuntimeState, Publishing, Publishable
<1>14. ASSUME SaveAlerts PROVE PurgeProgress'
  BY <1>14, NoFileAssumption DEF SaveAlerts, Published, Skipped, SaveError, RuntimeState,
       PayloadCurrent, Saver, Publishing
<1>15. ASSUME NEW p \in Publisher, NEW s \in BOOLEAN, PublishData(p, s)
      PROVE  PurgeProgress'
  BY <1>15 DEF PublishData, Finish, ViewCurrent, Scanned, Publishing
<1>16. ASSUME NEW p \in Publisher, PublishJson(p)
      PROVE  PurgeProgress'
  BY <1>16 DEF PublishJson, Finish, ViewCurrent, Scanned, Publishing
<1>17. ASSUME NEW d \in SUBSET Host, SaveSettings(d)
      PROVE  PurgeProgress'
  BY <1>17 DEF SaveSettings
<1>18. ASSUME RefreshHosts PROVE PurgeProgress'
  BY <1>18 DEF RefreshHosts
<1>19. ASSUME RefreshStats PROVE PurgeProgress'
  BY <1>19 DEF RefreshStats
<1>20. ASSUME Collect PROVE PurgeProgress'
  BY <1>20 DEF Collect
<1>21. ASSUME NEW d \in SUBSET Host, StartPurge(d)
      PROVE  PurgeProgress'
  BY <1>21 DEF StartPurge
<1>22. ASSUME LockLifecycle PROVE PurgeProgress'
  BY <1>22 DEF LockLifecycle
<1>23. ASSUME LockPublication PROVE PurgeProgress'
  BY <1>23 DEF LockPublication
<1>24. ASSUME PurgeHostsMap PROVE PurgeProgress'
  BY <1>24 DEF PurgeHostsMap
<1>25. ASSUME PurgeStatMap PROVE PurgeProgress'
  BY <1>25 DEF PurgeStatMap
<1>26. ASSUME PurgeRuntime PROVE PurgeProgress'
  BY <1>26 DEF PurgeRuntime, StoreAndSerialize
<1>27. ASSUME SavePurge PROVE PurgeProgress'
  BY <1>27, NoFileAssumption DEF SavePurge, Published, Skipped, SaveError, RuntimeState,
       PayloadCurrent, Saver, Publishing
<1>28. ASSUME PurgePublic PROVE PurgeProgress'
  BY <1>28 DEF PurgePublic
<1>29. ASSUME PurgeJson PROVE PurgeProgress'
  BY <1>29 DEF PurgeJson, EndPurge
<1>30. ASSUME CopyMarkers PROVE PurgeProgress'
  BY <1>30 DEF CopyMarkers
<1>31. ASSUME DropMarkers PROVE PurgeProgress'
  BY <1>31 DEF DropMarkers, EndPurge
<1>32. ASSUME NEW i \in BOOLEAN, NEW c \in SUBSET Host, Restart(i, c)
      PROVE  PurgeProgress'
  BY <1>32 DEF Restart, Proc
<1>33. ASSUME UNCHANGED vars PROVE PurgeProgress'
  BY <1>33 DEF vars
<1>34. "timer" \in Publisher /\ "settings" \in Publisher
  BY DEF Publisher
<1> HIDE DEF PurgeProgress, PurgerAt, PastHosts, PastStats, PastRuntime, PastSave,
    PastPublic, PastJson, At, Idle, Goto, TypeOK, PcType, Publisher, ViewType,
    LockDiscipline, ReporterBusy, PurgerBusy, Purging
<1> QED BY <1>1, <1>2, <1>3, <1>4, <1>5, <1>6, <1>7, <1>8, <1>9, <1>10, <1>11, <1>12,
    <1>13, <1>14, <1>15, <1>16, <1>17, <1>18, <1>19, <1>20, <1>21, <1>22, <1>23, <1>24,
    <1>25, <1>26, <1>27, <1>28, <1>29, <1>30, <1>31, <1>32, <1>33, <1>34
  DEF Next, Reporter, Timer, Settings, Purger

\* No step brings a purged host back.
LEMMA TraceStep ==
  ASSUME TypeOK, PayloadCurrent, ViewCurrent, PublicLive,
         PurgeProgress, PurgeLeavesNoTrace, [Next]_vars
  PROVE  PurgeLeavesNoTrace'
<1> USE DEF PurgeLeavesNoTrace, SavedHosts, At, Idle, Goto, TypeOK, RuntimeState, locks,
    inbox, maps, store, purge, public, admin, history
<1>1. ASSUME NEW h \in Host, Report(h)
      PROVE  PurgeLeavesNoTrace'
  BY <1>1 DEF Report
<1>2. ASSUME Receive PROVE PurgeLeavesNoTrace'
  BY <1>2 DEF Receive
<1>3. ASSUME BeginReport PROVE PurgeLeavesNoTrace'
  BY <1>3 DEF BeginReport
<1>4. ASSUME ReadMarkers PROVE PurgeLeavesNoTrace'
  BY <1>4 DEF ReadMarkers
<1>5. ASSUME ClearMarker PROVE PurgeLeavesNoTrace'
  BY <1>5 DEF ClearMarker
<1>6. ASSUME DropReport PROVE PurgeLeavesNoTrace'
  BY <1>6 DEF DropReport, PurgeProgress, ReporterBusy, Store, StoreAndSerialize
<1>7. ASSUME ResolveHost PROVE PurgeLeavesNoTrace'
  BY <1>7 DEF ResolveHost, PurgeProgress, ReporterBusy, Store, StoreAndSerialize
<1>8. ASSUME NEW r \in BOOLEAN, NEW c \in {{}, current}, NEW o \in BOOLEAN, RecordReport(r, c, o)
      PROVE  PurgeLeavesNoTrace'
  BY <1>8 DEF RecordReport, PurgeProgress, ReporterBusy, Store, StoreAndSerialize
<1>9. ASSUME SaveReport PROVE PurgeLeavesNoTrace'
  BY <1>9, NoFileAssumption DEF SaveReport, Published, Skipped, SaveError, PayloadCurrent,
       Saver
<1>10. ASSUME NEW p \in Publisher, TakePublication(p)
      PROVE  PurgeLeavesNoTrace'
  BY <1>10 DEF TakePublication
<1>11. ASSUME NEW p \in Publisher, ReadDeleted(p)
      PROVE  PurgeLeavesNoTrace'
  BY <1>11 DEF ReadDeleted
<1>12. ASSUME NEW a \in SUBSET statMap, NEW c \in BOOLEAN, NEW n \in SUBSET statMap, Scan(a, c, n)
      PROVE  PurgeLeavesNoTrace'
  BY <1>12 DEF Scan, Store, StoreAndSerialize, Publishable
<1>13. ASSUME NEW k \in SUBSET runtime.alerts, NEW c \in BOOLEAN, Prune(k, c)
      PROVE  PurgeLeavesNoTrace'
  BY <1>13 DEF Prune, Store, StoreAndSerialize, Publishable
<1>14. ASSUME SaveAlerts PROVE PurgeLeavesNoTrace'
  BY <1>14, NoFileAssumption DEF SaveAlerts, Published, Skipped, SaveError,
       PayloadCurrent, Saver
<1>15. ASSUME NEW p \in Publisher, NEW s \in BOOLEAN, PublishData(p, s)
      PROVE  PurgeLeavesNoTrace'
  BY <1>15 DEF PublishData, Finish, ViewCurrent, Scanned, Publishing, PcType, Publisher,
       ViewType
<1>16. ASSUME NEW p \in Publisher, PublishJson(p)
      PROVE  PurgeLeavesNoTrace'
  BY <1>16 DEF PublishJson, Finish, ViewCurrent, Scanned, Publishing, PcType, Publisher,
       ViewType
<1>17. ASSUME NEW d \in SUBSET Host, SaveSettings(d)
      PROVE  PurgeLeavesNoTrace'
  BY <1>17 DEF SaveSettings
<1>18. ASSUME RefreshHosts PROVE PurgeLeavesNoTrace'
  BY <1>18 DEF RefreshHosts
<1>19. ASSUME RefreshStats PROVE PurgeLeavesNoTrace'
  BY <1>19 DEF RefreshStats
<1>20. ASSUME Collect PROVE PurgeLeavesNoTrace'
  BY <1>20 DEF Collect
<1>21. ASSUME NEW d \in SUBSET Host, StartPurge(d)
      PROVE  PurgeLeavesNoTrace'
  BY <1>21 DEF StartPurge
<1>22. ASSUME LockLifecycle PROVE PurgeLeavesNoTrace'
  BY <1>22 DEF LockLifecycle
<1>23. ASSUME LockPublication PROVE PurgeLeavesNoTrace'
  BY <1>23 DEF LockPublication
<1>24. ASSUME PurgeHostsMap PROVE PurgeLeavesNoTrace'
  BY <1>24 DEF PurgeHostsMap
<1>25. ASSUME PurgeStatMap PROVE PurgeLeavesNoTrace'
  BY <1>25 DEF PurgeStatMap
<1>26. ASSUME PurgeRuntime PROVE PurgeLeavesNoTrace'
  BY <1>26 DEF PurgeRuntime, StoreAndSerialize
<1>27. ASSUME SavePurge PROVE PurgeLeavesNoTrace'
  BY <1>27, NoFileAssumption DEF SavePurge, Published, Skipped, SaveError, PayloadCurrent,
       Saver
<1>28. ASSUME PurgePublic PROVE PurgeLeavesNoTrace'
  BY <1>28 DEF PurgePublic
<1>29. ASSUME PurgeJson PROVE PurgeLeavesNoTrace'
  BY <1>29 DEF PurgeJson, EndPurge, PurgeProgress, PurgerAt, PastHosts, PastStats,
       PastRuntime, PastSave, PastPublic, PastJson, PublicLive, PcType, Publisher,
       ViewType
<1>30. ASSUME CopyMarkers PROVE PurgeLeavesNoTrace'
  BY <1>30 DEF CopyMarkers
<1>31. ASSUME DropMarkers PROVE PurgeLeavesNoTrace'
  BY <1>31 DEF DropMarkers, EndPurge, PurgeProgress, PurgerAt, PastHosts, PastStats,
       PastRuntime, PastSave, PastPublic, PastJson, PublicLive, PcType, Publisher,
       ViewType
<1>32. ASSUME NEW i \in BOOLEAN, NEW c \in SUBSET Host, Restart(i, c)
      PROVE  PurgeLeavesNoTrace'
  BY <1>32, Loads, NoFileAssumption DEF Restart
<1>33. ASSUME UNCHANGED vars PROVE PurgeLeavesNoTrace'
  BY <1>33 DEF vars
<1>34. "timer" \in Publisher /\ "settings" \in Publisher
  BY DEF Publisher
<1> HIDE DEF PurgeLeavesNoTrace, SavedHosts, At, Idle, Goto, TypeOK, RuntimeState
<1> QED BY <1>1, <1>2, <1>3, <1>4, <1>5, <1>6, <1>7, <1>8, <1>9, <1>10, <1>11, <1>12,
    <1>13, <1>14, <1>15, <1>16, <1>17, <1>18, <1>19, <1>20, <1>21, <1>22, <1>23, <1>24,
    <1>25, <1>26, <1>27, <1>28, <1>29, <1>30, <1>31, <1>32, <1>33, <1>34
  DEF Next, Reporter, Timer, Settings, Purger

----------------------------------------------------------------------------
(* Rows are saved, and leave the public response for a reason.             *)

\* Every row has its runtime record, and is saved unless a save failed, is
\* still to be made by the timer, or is under way and cannot be superseded
\* other than by a state the timer will save.
RowsKept ==
    /\ statMap \subseteq runtime.hosts
    /\ \/ statMap \subseteq SavedHosts
       \/ saveFailed \/ dirty
       \/ At("reporter", "save") /\ payload["reporter"].fresh

\* Every step keeps the rows saved or about to be saved.
LEMMA RowsStep ==
  ASSUME TypeOK, LockDiscipline, PayloadCurrent, PurgeProgress, RowsKept, [Next]_vars
  PROVE  RowsKept'
<1> USE DEF RowsKept, SavedHosts, At, Idle, Goto, TypeOK, PcType, RuntimeState, locks,
    inbox, maps, store, purge, public, admin, history
<1>1. ASSUME NEW h \in Host, Report(h)
      PROVE  RowsKept'
  BY <1>1 DEF Report
<1>2. ASSUME Receive PROVE RowsKept'
  BY <1>2 DEF Receive
<1>3. ASSUME BeginReport PROVE RowsKept'
  BY <1>3 DEF BeginReport
<1>4. ASSUME ReadMarkers PROVE RowsKept'
  BY <1>4 DEF ReadMarkers
<1>5. ASSUME ClearMarker PROVE RowsKept'
  BY <1>5 DEF ClearMarker
<1>6. ASSUME DropReport PROVE RowsKept'
  BY <1>6 DEF DropReport
<1>7. ASSUME ResolveHost PROVE RowsKept'
  BY <1>7 DEF ResolveHost
<1>8. ASSUME NEW r \in BOOLEAN, NEW c \in {{}, current}, NEW o \in BOOLEAN, RecordReport(r, c, o)
      PROVE  RowsKept'
  <2> DEFINE new == [hosts |-> runtime.hosts \cup current, alerts |-> runtime.alerts \ c]
  <2>1. new \in RuntimeState /\ runtime' = new
    BY <1>8 DEF RecordReport, Store, StoreAndSerialize
  <2>2. statMap' = statMap \cup current /\ statMap' \subseteq runtime'.hosts
    BY <1>8, <2>1 DEF RecordReport
  <2>3. CASE StoreAndSerialize("reporter", new, TRUE) /\ Goto("reporter", "save")
    BY <1>8, <2>1, <2>2, <2>3, StoresCurrent DEF PayloadCurrent, Saver
  <2>4. CASE current \subseteq statMap
    BY <1>8, <2>2, <2>4 DEF RecordReport
  <2> QED BY <1>8, <2>3, <2>4 DEF RecordReport
<1>9. ASSUME SaveReport PROVE RowsKept'
  BY <1>9, NoFileAssumption DEF SaveReport, Published, Skipped, SaveError, Drop,
       PayloadCurrent, Saver
<1>10. ASSUME NEW p \in Publisher, TakePublication(p)
      PROVE  RowsKept'
  BY <1>10 DEF TakePublication, Publisher, ViewType
<1>11. ASSUME NEW p \in Publisher, ReadDeleted(p)
      PROVE  RowsKept'
  BY <1>11 DEF ReadDeleted, Publisher, ViewType
<1>12. ASSUME NEW a \in SUBSET statMap, NEW c \in BOOLEAN, NEW n \in SUBSET statMap, Scan(a, c, n)
      PROVE  RowsKept'
  <2> DEFINE new == [runtime EXCEPT !.alerts = (@ \ Publishable("timer")) \cup a]
  <2>1. new \in RuntimeState /\ new.hosts = runtime.hosts
    BY DEF TypeOK, RuntimeState
  <2>2. Store(new, c) /\ dirty' = (dirty \/ c)
    BY <1>12 DEF Scan
  <2>3. c \/ payload' = payload
    BY <2>2 DEF Store
  <2> QED BY <1>12, <2>1, <2>2, <2>3 DEF Scan, Store
<1>13. ASSUME NEW k \in SUBSET runtime.alerts, NEW c \in BOOLEAN, Prune(k, c)
      PROVE  RowsKept'
  <2> DEFINE new == [runtime EXCEPT !.alerts = k]
  <2>1. new \in RuntimeState /\ new.hosts = runtime.hosts
    BY DEF TypeOK, RuntimeState
  <2>2. /\ Store(new, c) \/ StoreAndSerialize("timer", new, c)
        /\ new # runtime => c
        /\ dirty' = (dirty \/ c)
    BY <1>13 DEF Prune
  <2>3. runtime'.hosts = runtime.hosts
    BY <2>1, <2>2 DEF Store, StoreAndSerialize
  <2>4. c \/ (payload["reporter"].fresh => payload'["reporter"].fresh)
    BY <2>1, <2>2, StoresCurrent DEF PayloadCurrent, Saver
  <2> QED BY <1>13, <2>2, <2>3, <2>4 DEF Prune
<1>14. ASSUME SaveAlerts PROVE RowsKept'
  BY <1>14, NoFileAssumption DEF SaveAlerts, Published, Skipped, SaveError, Drop,
       PayloadCurrent, Saver
<1>15. ASSUME NEW p \in Publisher, NEW s \in BOOLEAN, PublishData(p, s)
      PROVE  RowsKept'
  BY <1>15 DEF PublishData, Finish, Publisher, ViewType
<1>16. ASSUME NEW p \in Publisher, PublishJson(p)
      PROVE  RowsKept'
  BY <1>16 DEF PublishJson, Finish, Publisher, ViewType
<1>17. ASSUME NEW d \in SUBSET Host, SaveSettings(d)
      PROVE  RowsKept'
  BY <1>17 DEF SaveSettings
<1>18. ASSUME RefreshHosts PROVE RowsKept'
  BY <1>18 DEF RefreshHosts
<1>19. ASSUME RefreshStats PROVE RowsKept'
  BY <1>19 DEF RefreshStats
<1>20. ASSUME Collect PROVE RowsKept'
  BY <1>20 DEF Collect
<1>21. ASSUME NEW d \in SUBSET Host, StartPurge(d)
      PROVE  RowsKept'
  BY <1>21 DEF StartPurge
<1>22. ASSUME LockLifecycle PROVE RowsKept'
  BY <1>22 DEF LockLifecycle
<1>23. ASSUME LockPublication PROVE RowsKept'
  BY <1>23 DEF LockPublication
<1>24. ASSUME PurgeHostsMap PROVE RowsKept'
  BY <1>24 DEF PurgeHostsMap
<1>25. ASSUME PurgeStatMap PROVE RowsKept'
  BY <1>25 DEF PurgeStatMap
<1>26. ASSUME PurgeRuntime PROVE RowsKept'
  BY <1>26 DEF PurgeRuntime, StoreAndSerialize, PurgeProgress, PurgerAt, PastHosts,
       PastStats, PastRuntime, PastSave, PastPublic, PastJson, LockDiscipline,
       ReporterBusy, PurgerBusy, Purging
<1>27. ASSUME SavePurge PROVE RowsKept'
  BY <1>27, NoFileAssumption DEF SavePurge, Published, Skipped, SaveError, Drop,
       PayloadCurrent, Saver
<1>28. ASSUME PurgePublic PROVE RowsKept'
  BY <1>28 DEF PurgePublic
<1>29. ASSUME PurgeJson PROVE RowsKept'
  BY <1>29 DEF PurgeJson, EndPurge
<1>30. ASSUME CopyMarkers PROVE RowsKept'
  BY <1>30 DEF CopyMarkers
<1>31. ASSUME DropMarkers PROVE RowsKept'
  BY <1>31 DEF DropMarkers, EndPurge
<1>32. ASSUME NEW i \in BOOLEAN, NEW c \in SUBSET Host, Restart(i, c)
      PROVE  RowsKept'
  BY <1>32, Loads, NoFileAssumption DEF Restart, NoState
<1>33. ASSUME UNCHANGED vars PROVE RowsKept'
  BY <1>33 DEF vars
<1>34. "timer" \in Publisher /\ "settings" \in Publisher
  BY DEF Publisher
<1> HIDE DEF RowsKept, SavedHosts, At, Idle, Goto, TypeOK, PcType, RuntimeState
<1> QED BY <1>1, <1>2, <1>3, <1>4, <1>5, <1>6, <1>7, <1>8, <1>9, <1>10, <1>11, <1>12,
    <1>13, <1>14, <1>15, <1>16, <1>17, <1>18, <1>19, <1>20, <1>21, <1>22, <1>23, <1>24,
    <1>25, <1>26, <1>27, <1>28, <1>29, <1>30, <1>31, <1>32, <1>33, <1>34
  DEF Next, Reporter, Timer, Settings, Purger

\* A row leaves the public response for one of the three reasons only.
LEMMA RowLeaves ==
  ASSUME TypeOK, LockDiscipline, ViewCurrent, PublicLive, RowsKept, [Next]_vars,
         NEW h \in respJson \ respJson'
  PROVE  \/ h \in target["purger"] \cup deleted
         \/ \E p \in Publisher : h \in view[p].deleted
         \/ /\ \A p \in Proc : pc'[p] = "idle" /\ queue' = <<>>
            /\ saveFailed \/ dirty \/ At("reporter", "save")
<1>1. CASE UNCHANGED respJson
  BY <1>1
<1>2. ASSUME NEW p \in Publisher, PublishJson(p) PROVE \E q \in Publisher : h \in view[q].deleted
  BY <1>2 DEF PublishJson, ViewCurrent, Scanned, At
<1>3. ASSUME PurgeJson PROVE h \in target["purger"]
  BY <1>3 DEF PurgeJson, PublicLive, At
<1>4. ASSUME NEW i \in BOOLEAN, NEW c \in SUBSET Host, Restart(i, c),
             h \notin target["purger"] \cup deleted
      PROVE  /\ \A p \in Proc : pc'[p] = "idle" /\ queue' = <<>>
             /\ saveFailed \/ dirty \/ At("reporter", "save")
  <2>1. h \in statMap \ statMap'
    BY <1>4, Loads DEF PublicLive, Leaving
  <2>2. h \notin SavedHosts
    BY <1>4, <2>1, Loads DEF SavedHosts
  <2> QED BY <1>4, <2>1, <2>2 DEF RowsKept, Restart, Proc
<1>5. \/ UNCHANGED respJson \/ PurgeJson
      \/ \E p \in Publisher : PublishJson(p)
      \/ \E i \in BOOLEAN, c \in SUBSET Host : Restart(i, c)
  BY DEF Next, Reporter, Timer, Settings, Purger, Publisher, vars, public,
         Report, Receive, BeginReport, ReadMarkers, ClearMarker, DropReport, ResolveHost,
         RecordReport, SaveReport, TakePublication, ReadDeleted, SaveAlerts, Scan, Prune,
         PublishData, SaveSettings, RefreshHosts, RefreshStats, Collect, StartPurge,
         LockLifecycle, LockPublication, PurgeHostsMap, PurgeStatMap, PurgeRuntime,
         SavePurge, PurgePublic, CopyMarkers, DropMarkers
<1> QED BY <1>1, <1>2, <1>3, <1>4, <1>5

----------------------------------------------------------------------------
(* The runtime store behind it.  A thread of StatsMgr saves in two steps   *)
(* with a flag; SavingCell says what that means, and RuntimeStateStore     *)
(* implements SavingCell with generations, temporary files and renames     *)
(* (RuntimeStateStoreProofs).                                              *)

Running == \E p \in Proc : ~At(p, "down")

\* What a thread inside save() has serialized.
Held(p) ==
    IF ~At(p, "save") THEN "nothing"
    ELSE IF payload[p].fresh THEN "current" ELSE "superseded"

Saving == INSTANCE SavingCell WITH
              Value <- RuntimeState, Initial <- NoState,
              value <- runtime, cell <- runtimeFile, recoverable <- {runtimeFile},
              up <- Running, saver <- [p \in Saver |-> Held(p)]

\* Steps that neither change the state nor begin or end a save are invisible.
Invisible ==
    /\ UNCHANGED <<runtime, payload, runtimeFile>>
    /\ \A p \in Saver : At(p, "save")' = At(p, "save")
    /\ Running /\ Running'

LEMMA InvisibleStutters == ASSUME Invisible PROVE UNCHANGED Saving!vars
<1>1. \A p \in Saver : Held(p)' = Held(p)
  BY DEF Invisible, Held
<1>2. [p \in Saver |-> Held(p)]' = [p \in Saver |-> Held(p)]
  BY <1>1
<1>3. Running' = Running
  BY DEF Invisible
<1> QED BY <1>2, <1>3 DEF Invisible, Saving!vars

\* A change of the state by p, which serializes the new one if it is at its
\* save afterwards.
LEMMA StoreAbstractly ==
  ASSUME TypeOK, PayloadCurrent, NEW new \in RuntimeState, NEW changed \in BOOLEAN, NEW p \in Saver,
         new # runtime => changed, ~At(p, "save"), Running, Running', UNCHANGED runtimeFile,
         \A q \in Saver \ {p} : At(q, "save")' = At(q, "save"),
         \/ Store(new, changed) /\ ~At(p, "save")'
         \/ StoreAndSerialize(p, new, changed) /\ At(p, "save")'
  PROVE  Saving!Change \/ Saving!Serialize(p)
<1>1. \A q \in Saver : payload[q].fresh => payload[q].state = runtime
  BY DEF PayloadCurrent
<1>2. Store(new, changed) \/ StoreAndSerialize(p, new, changed)
  OBVIOUS
<1>3. /\ \A q \in Saver \ {p} : /\ payload'[q].fresh => payload[q].fresh /\ ~changed
                                /\ payload[q].fresh /\ ~changed => payload'[q].fresh
      /\ StoreAndSerialize(p, new, changed) => payload'[p].fresh
  BY <1>1, <1>2, StoresCurrent
<1>4. \A q \in Saver \ {p} :
         Held(q)' = IF changed /\ Held(q) = "current" THEN "superseded" ELSE Held(q)
  BY <1>3 DEF Held
<1>5. Held(p) = "nothing"
  BY DEF Held
<1>6. Saving!Moves(changed) /\ Running' = Running
  BY <1>2 DEF Saving!Moves, Store, StoreAndSerialize
<1>7. CASE At(p, "save")'
  <2>1. Held(p)' = "current"
    BY <1>3, <1>7 DEF Held
  <2>2. [q \in Saver |-> Held(q)]'
          = [q \in Saver |-> IF q = p THEN "current" ELSE Saving!Left(q, changed)]
    BY <1>4, <2>1 DEF Saving!Left
  <2> QED BY <1>5, <1>6, <2>2 DEF Saving!Serialize
<1>8. CASE ~At(p, "save")'
  <2>1. Held(p)' = "nothing"
    BY <1>8 DEF Held
  <2>2. [q \in Saver |-> Held(q)]' = [q \in Saver |-> Saving!Left(q, changed)]
    BY <1>4, <1>5, <2>1 DEF Saving!Left
  <2> QED BY <1>6, <2>2 DEF Saving!Change
<1> QED BY <1>7, <1>8

\* The end of a save by p.
LEMMA SaveAbstractly ==
  ASSUME TypeOK, PayloadCurrent, NEW p \in Saver, At(p, "save"), ~At(p, "save")', Drop(p),
         Published(p) \/ Skipped(p) \/ SaveError(p), UNCHANGED runtime, Running, Running',
         \A q \in Saver \ {p} : At(q, "save")' = At(q, "save")
  PROVE  Saving!Publish(p) \/ Saving!Return(p)
<1>1. \A q \in Saver \ {p} : payload'[q] = payload[q]
  BY DEF TypeOK, Drop
<1>2. (\A q \in Saver \ {p} : Held(q)' = Held(q)) /\ Held(p)' = "nothing"
  BY <1>1 DEF Held
<1>3. [q \in Saver |-> Held(q)]' = Saving!Returned(p) /\ Held(p) # "nothing"
  BY <1>2 DEF Held, Saving!Returned
<1>4. \/ UNCHANGED runtimeFile
      \/ payload[p].fresh /\ runtimeFile' = runtime
  BY DEF PayloadCurrent, Published, Skipped, SaveError
<1>5. CASE UNCHANGED runtimeFile
  BY <1>3, <1>5 DEF Saving!Return
<1>6. CASE payload[p].fresh /\ runtimeFile' = runtime
  BY <1>3, <1>6 DEF Saving!Publish, Held
<1> QED BY <1>4, <1>5, <1>6

\* Every step changes, serializes, publishes or returns as SavingCell allows,
\* or does not touch the runtime state and its file.
LEMMA SavingStep ==
  ASSUME TypeOK, PayloadCurrent, [Next]_vars
  PROVE  [Saving!Next]_Saving!vars
<1> USE DEF At, Goto, TypeOK, PcType, locks, inbox, maps, store, purge, public, admin, history
<1> DEFINE Goal == [Saving!Next]_Saving!vars
<1>0. /\ Invisible => Goal
      /\ \A p \in Saver : Saving!Serialize(p) \/ Saving!Publish(p) \/ Saving!Return(p) => Goal
      /\ Saving!Change \/ Saving!Start \/ Saving!Restart => Goal
  BY InvisibleStutters DEF Saving!Next
<1> HIDE DEF Goal
<1>1. ASSUME NEW h \in Host, Report(h) PROVE Goal
  BY <1>0, <1>1 DEF Report, Saver, Proc, Running, Invisible
<1>2. ASSUME Receive PROVE Goal
  BY <1>0, <1>2 DEF Receive, Idle, Saver, Proc, Running, Invisible
<1>3. ASSUME BeginReport PROVE Goal
  BY <1>0, <1>3 DEF BeginReport, Saver, Proc, Running, Invisible
<1>4. ASSUME ReadMarkers PROVE Goal
  BY <1>0, <1>4 DEF ReadMarkers, Saver, Proc, Running, Invisible
<1>5. ASSUME ClearMarker PROVE Goal
  BY <1>0, <1>5 DEF ClearMarker, Saver, Proc, Running, Invisible
<1>6. ASSUME DropReport PROVE Goal
  BY <1>0, <1>6 DEF DropReport, Saver, Proc, Running, Invisible
<1>7. ASSUME ResolveHost PROVE Goal
  BY <1>0, <1>7 DEF ResolveHost, Saver, Proc, Running, Invisible
<1>8. ASSUME NEW r \in BOOLEAN, NEW c \in {{}, current}, NEW o \in BOOLEAN, RecordReport(r, c, o)
      PROVE  Goal
  <2> DEFINE new == [hosts |-> runtime.hosts \cup current, alerts |-> runtime.alerts \ c]
  <2>1. new \in RuntimeState
    BY DEF RuntimeState
  <2>2. \/ Store(new, TRUE) /\ ~At("reporter", "save")'
        \/ StoreAndSerialize("reporter", new, TRUE) /\ At("reporter", "save")'
    BY <1>8 DEF RecordReport
  <2>3. /\ ~At("reporter", "save") /\ UNCHANGED runtimeFile
        /\ \A q \in Saver \ {"reporter"} : At(q, "save")' = At(q, "save")
    <3>1. /\ pc["reporter"] = "record" /\ pc'["timer"] = pc["timer"]
          /\ pc'["purger"] = pc["purger"]
      BY <1>8, RecordMoves
    <3>2. UNCHANGED runtimeFile
      BY <1>8 DEF RecordReport
    <3>3. \A q \in Saver \ {"reporter"} : pc'[q] = pc[q]
      BY <3>1 DEF Saver
    <3> QED BY <3>1, <3>2, <3>3
  <2>4. Running /\ Running' /\ "reporter" \in Saver
    <3>1. pc["reporter"] = "record" /\ pc'["reporter"] \in {"save", "idle"}
      BY <1>8, RecordMoves
    <3> QED BY <3>1 DEF Running, Proc, Saver
  <2> HIDE DEF new
  <2> QED BY <1>0, <2>1, <2>2, <2>3, <2>4, StoreAbstractly
<1>9. ASSUME SaveReport PROVE Goal
  <2>1. /\ At("reporter", "save") /\ ~At("reporter", "save")' /\ Drop("reporter")
        /\ Published("reporter") \/ Skipped("reporter") \/ SaveError("reporter")
        /\ UNCHANGED runtime
        /\ \A q \in Saver \ {"reporter"} : At(q, "save")' = At(q, "save")
    BY <1>9 DEF SaveReport, Saver
  <2>2. Running /\ Running' /\ "reporter" \in Saver
    BY <1>9 DEF SaveReport, Running, Proc, Saver
  <2> QED BY <1>0, <2>1, <2>2, SaveAbstractly
<1>10. ASSUME NEW p \in Publisher, TakePublication(p) PROVE Goal
  BY <1>0, <1>10 DEF TakePublication, Idle, Publisher, Saver, Proc, Running, Invisible
<1>11. ASSUME NEW p \in Publisher, ReadDeleted(p) PROVE Goal
  BY <1>0, <1>11 DEF ReadDeleted, Publisher, Saver, Proc, Running, Invisible
<1>12. ASSUME NEW a \in SUBSET statMap, NEW c \in BOOLEAN, NEW n \in SUBSET statMap, Scan(a, c, n)
      PROVE  Goal
  <2> DEFINE new == [runtime EXCEPT !.alerts = (@ \ Publishable("timer")) \cup a]
  <2>1. new \in RuntimeState
    BY DEF RuntimeState
  <2>2. Store(new, c) /\ ~At("timer", "save")' /\ (new # runtime => c)
    BY <1>12 DEF Scan
  <2>3. /\ ~At("timer", "save") /\ UNCHANGED runtimeFile
        /\ \A q \in Saver \ {"timer"} : At(q, "save")' = At(q, "save")
    BY <1>12 DEF Scan, Saver
  <2>4. Running /\ Running' /\ "timer" \in Saver
    BY <1>12 DEF Scan, Running, Proc, Saver
  <2> HIDE DEF new
  <2> QED BY <1>0, <2>1, <2>2, <2>3, <2>4, StoreAbstractly
<1>13. ASSUME NEW k \in SUBSET runtime.alerts, NEW c \in BOOLEAN, Prune(k, c)
      PROVE  Goal
  <2> DEFINE new == [runtime EXCEPT !.alerts = k]
  <2>1. new \in RuntimeState
    BY DEF RuntimeState
  <2>2. /\ \/ Store(new, c) /\ ~At("timer", "save")'
           \/ StoreAndSerialize("timer", new, c) /\ At("timer", "save")'
        /\ new # runtime => c
    BY <1>13 DEF Prune
  <2>3. /\ ~At("timer", "save") /\ UNCHANGED runtimeFile
        /\ \A q \in Saver \ {"timer"} : At(q, "save")' = At(q, "save")
    BY <1>13 DEF Prune, Saver
  <2>4. Running /\ Running' /\ "timer" \in Saver
    BY <1>13 DEF Prune, Running, Proc, Saver
  <2> HIDE DEF new
  <2> QED BY <1>0, <2>1, <2>2, <2>3, <2>4, StoreAbstractly
<1>14. ASSUME SaveAlerts PROVE Goal
  <2>1. /\ At("timer", "save") /\ ~At("timer", "save")' /\ Drop("timer")
        /\ Published("timer") \/ Skipped("timer") \/ SaveError("timer")
        /\ UNCHANGED runtime
        /\ \A q \in Saver \ {"timer"} : At(q, "save")' = At(q, "save")
    BY <1>14 DEF SaveAlerts, Saver
  <2>2. Running /\ Running' /\ "timer" \in Saver
    BY <1>14 DEF SaveAlerts, Running, Proc, Saver
  <2> QED BY <1>0, <2>1, <2>2, SaveAbstractly
<1>15. ASSUME NEW p \in Publisher, NEW s \in BOOLEAN, PublishData(p, s)
      PROVE  Goal
  BY <1>0, <1>15 DEF PublishData, Finish, Publisher, Saver, Proc, Running, Invisible
<1>16. ASSUME NEW p \in Publisher, PublishJson(p) PROVE Goal
  BY <1>0, <1>16 DEF PublishJson, Finish, Publisher, Saver, Proc, Running, Invisible
<1>17. ASSUME NEW d \in SUBSET Host, SaveSettings(d) PROVE Goal
  BY <1>0, <1>17 DEF SaveSettings, Idle, Saver, Proc, Running, Invisible
<1>18. ASSUME RefreshHosts PROVE Goal
  BY <1>0, <1>18 DEF RefreshHosts, Saver, Proc, Running, Invisible
<1>19. ASSUME RefreshStats PROVE Goal
  BY <1>0, <1>19 DEF RefreshStats, Saver, Proc, Running, Invisible
<1>20. ASSUME Collect PROVE Goal
  BY <1>0, <1>20 DEF Collect, Saver, Proc, Running, Invisible
<1>21. ASSUME NEW d \in SUBSET Host, StartPurge(d) PROVE Goal
  BY <1>0, <1>21 DEF StartPurge, Idle, Saver, Proc, Running, Invisible
<1>22. ASSUME LockLifecycle PROVE Goal
  BY <1>0, <1>22 DEF LockLifecycle, Saver, Proc, Running, Invisible
<1>23. ASSUME LockPublication PROVE Goal
  BY <1>0, <1>23 DEF LockPublication, Saver, Proc, Running, Invisible
<1>24. ASSUME PurgeHostsMap PROVE Goal
  BY <1>0, <1>24 DEF PurgeHostsMap, Saver, Proc, Running, Invisible
<1>25. ASSUME PurgeStatMap PROVE Goal
  BY <1>0, <1>25 DEF PurgeStatMap, Saver, Proc, Running, Invisible
<1>26. ASSUME PurgeRuntime PROVE Goal
  <2> DEFINE new == [hosts  |-> runtime.hosts \ target["purger"],
                     alerts |-> runtime.alerts \ target["purger"]]
  <2>1. new \in RuntimeState
    BY DEF RuntimeState
  <2>2. StoreAndSerialize("purger", new, new # runtime) /\ At("purger", "save")'
    BY <1>26 DEF PurgeRuntime
  <2>3. /\ ~At("purger", "save") /\ UNCHANGED runtimeFile
        /\ \A q \in Saver \ {"purger"} : At(q, "save")' = At(q, "save")
    BY <1>26 DEF PurgeRuntime, Saver
  <2>4. Running /\ Running' /\ "purger" \in Saver
    BY <1>26 DEF PurgeRuntime, Running, Proc, Saver
  <2> HIDE DEF new
  <2> QED BY <1>0, <2>1, <2>2, <2>3, <2>4, StoreAbstractly
<1>27. ASSUME SavePurge PROVE Goal
  <2>1. /\ At("purger", "save") /\ ~At("purger", "save")' /\ Drop("purger")
        /\ Published("purger") \/ Skipped("purger") \/ SaveError("purger")
        /\ UNCHANGED runtime
        /\ \A q \in Saver \ {"purger"} : At(q, "save")' = At(q, "save")
    BY <1>27 DEF SavePurge, Saver
  <2>2. Running /\ Running' /\ "purger" \in Saver
    BY <1>27 DEF SavePurge, Running, Proc, Saver
  <2> QED BY <1>0, <2>1, <2>2, SaveAbstractly
<1>28. ASSUME PurgePublic PROVE Goal
  BY <1>0, <1>28 DEF PurgePublic, Saver, Proc, Running, Invisible
<1>29. ASSUME PurgeJson PROVE Goal
  BY <1>0, <1>29 DEF PurgeJson, EndPurge, Saver, Proc, Running, Invisible
<1>30. ASSUME CopyMarkers PROVE Goal
  BY <1>0, <1>30 DEF CopyMarkers, Saver, Proc, Running, Invisible
<1>31. ASSUME DropMarkers PROVE Goal
  BY <1>0, <1>31 DEF DropMarkers, EndPurge, Saver, Proc, Running, Invisible
<1>32. ASSUME NEW i \in BOOLEAN, NEW c \in SUBSET Host, Restart(i, c)
      PROVE  Goal
  <2>1. /\ Running' /\ [p \in Saver |-> Held(p)]' = Saving!Resting
    BY <1>32 DEF Restart, Running, Proc, Saver, Held, Saving!Resting
  <2>2. \/ runtime' \in {runtimeFile, NoState} \cap RuntimeState /\ UNCHANGED runtimeFile
        \/ /\ runtimeFile = NoFile
           /\ runtime' \in RuntimeState /\ runtimeFile' = runtime'
    BY <1>32 DEF Restart, RuntimeState, NoState
  <2>3. Saving!Loads
    BY <2>1, <2>2 DEF Saving!Loads
  <2> QED BY <1>0, <2>3 DEF Saving!Start, Saving!Restart
<1>33. ASSUME UNCHANGED vars PROVE Goal
  <2>1. UNCHANGED <<pc, payload, runtime, runtimeFile>>
    BY <1>33 DEF vars
  <2>2. [p \in Saver |-> Held(p)]' = [p \in Saver |-> Held(p)] /\ Running' = Running
    BY <2>1 DEF Held, Running
  <2> QED BY <2>1, <2>2 DEF Goal, Saving!vars
<1>34. "timer" \in Publisher /\ "settings" \in Publisher
  BY DEF Publisher
<1> HIDE DEF At, Goto, TypeOK, PcType
<1>35. Goal
  BY <1>1, <1>2, <1>3, <1>4, <1>5, <1>6, <1>7, <1>8, <1>9, <1>10, <1>11, <1>12,
    <1>13, <1>14, <1>15, <1>16, <1>17, <1>18, <1>19, <1>20, <1>21, <1>22, <1>23, <1>24,
    <1>25, <1>26, <1>27, <1>28, <1>29, <1>30, <1>31, <1>32, <1>33, <1>34
  DEF Next, Reporter, Timer, Settings, Purger
<1> QED BY <1>35 DEF Goal

----------------------------------------------------------------------------
(* The inductive invariant and what follows from it.                       *)

Inv ==
    /\ TypeOK /\ LockDiscipline /\ PayloadCurrent
    /\ ViewCurrent /\ PublicLive /\ HiddenMarked /\ HiddenStaysHidden
    /\ PurgeProgress /\ PurgeLeavesNoTrace
    /\ RowsKept

\* The invariants that talk about a start hold before the first one.
LEMMA Initially == Init => Inv
<1> SUFFICES ASSUME Init PROVE Inv
  OBVIOUS
<1>1. TypeOK
  BY InitTypes
<1>2. LockDiscipline /\ PayloadCurrent /\ ViewCurrent /\ PublicLive /\ HiddenMarked
  BY DEF Init, LockDiscipline, ReporterBusy, PurgerBusy, Purging, Publishing,
       PayloadCurrent,
         ViewCurrent, Scanned, PublicLive, Leaving, HiddenMarked, NoPayload, At, Lock, Proc,
         Publisher, Saver
<1>3. HiddenStaysHidden /\ PurgeProgress /\ PurgeLeavesNoTrace
  BY DEF Init, HiddenStaysHidden, PurgeProgress, PurgeLeavesNoTrace, ReporterBusy, Proc,
         PurgerAt, PastHosts, PastStats, PastRuntime, PastSave, PastPublic, PastJson
<1>4. RowsKept
  BY DEF Init, RowsKept, NoState
<1> QED BY <1>1, <1>2, <1>3, <1>4 DEF Inv

\* Every step keeps the invariant; each part rests on the parts its lemma names.
LEMMA Inductive == Inv /\ [Next]_vars => Inv'
<1> SUFFICES ASSUME Inv, [Next]_vars PROVE Inv'
  OBVIOUS
<1> USE DEF Inv
<1>1. TypeOK'
  BY TypeStep
<1>2. LockDiscipline' /\ PayloadCurrent'
  BY LockStep, PayloadStep
<1>3. ViewCurrent' /\ PublicLive' /\ HiddenMarked' /\ HiddenStaysHidden'
  BY ViewStep, PublicStep, HiddenStep, NotPublicStep
<1>4. PurgeProgress' /\ PurgeLeavesNoTrace' /\ RowsKept'
  BY ProgressStep, TraceStep, RowsStep
<1> QED BY <1>1, <1>2, <1>3, <1>4

\* The invariant of the whole component.
THEOREM HostInvariant == Spec => []Inv
  BY Initially, Inductive, PTL DEF Spec

\* The variables keep their types.
THEOREM TypeCorrect == Spec => []TypeOK
<1>1. Inv => TypeOK
  BY DEF Inv
<1> QED BY <1>1, HostInvariant, PTL

\* No set of activities waits for locks that only they hold: the order of
\* StatsMgr's locks, followed on every path, excludes a deadlock.
THEOREM NeverDeadlocked == Spec => []NoLockCycle
<1>1. Inv => NoLockCycle
  BY NoCycle DEF Inv
<1> QED BY <1>1, HostInvariant, PTL

\* No mutation can slip between the state a purge serializes and its save, so
\* the error for a superseded save in purge_hosts_locked is never returned.
THEOREM PurgeSavesLatest == Spec => []PurgeSaveNeverSuperseded
<1>1. Inv => PurgeSaveNeverSuperseded
  BY DEF Inv, PayloadCurrent, PurgeSaveNeverSuperseded
<1> QED BY <1>1, HostInvariant, PTL

\* A purge that returned Ok leaves nothing of its hosts, and nothing that was
\* under way when it ran brings them back: not a publisher's older snapshot,
\* not a slower save, not a restart from the files.
THEOREM PurgeIsComplete == Spec => []PurgeLeavesNoTrace
<1>1. Inv => PurgeLeavesNoTrace
  BY DEF Inv
<1> QED BY <1>1, HostInvariant, PTL

\* Whenever nobody publishes, the API and the public response show the same
\* rows, all of them live (publish_snapshot_if_current, purge_hosts_locked).
THEOREM PublicViewsAgree == Spec => []PublicIsLive
<1>1. Inv => PublicIsLive
  <2> SUFFICES ASSUME Inv, Free("publication")
               PROVE  respJson = statsData /\ respJson \subseteq statMap
    BY DEF PublicIsLive
  <2>1. ~Purging /\ \A p \in Publisher : ~Publishing(p)
    BY DEF Inv, LockDiscipline, Free, Publisher
  <2> QED BY <2>1 DEF Inv, PublicLive, Leaving, Purging, Publishing, At
<1> QED BY <1>1, HostInvariant, PTL

\* A host whose deletion was answered is not public as long as it is marked,
\* whatever the timer had read before (save_admin_settings and the rebuild it
\* ends with).
THEOREM HiddenIsNotPublic == Spec => []HiddenStaysHidden
<1>1. Inv => HiddenStaysHidden
  BY DEF Inv
<1> QED BY <1>1, HostInvariant, PTL

\* A row is in runtime-state.json unless writing failed, the timer is going to
\* save, or its first report is still being processed.
THEOREM NewHostSaved == Spec => []NewHostPersisted
<1>1. Inv => NewHostPersisted
  BY DEF Inv, RowsKept, NewHostPersisted
<1> QED BY <1>1, HostInvariant, PTL

\* Nothing but a deletion, its own purge or a restart after a lost save takes a
\* host off the public page.
THEOREM RowLeavesForAReason == Spec => PublicRowKept
<1>1. Inv /\ [Next]_vars =>
        [\A h \in respJson \ respJson' :
            \/ h \in target["purger"] \cup deleted
            \/ \E p \in Publisher : h \in view[p].deleted
            \/ /\ \A p \in Proc : pc'[p] = "idle" /\ queue' = <<>>
               /\ saveFailed \/ dirty \/ At("reporter", "save")]_vars
  BY RowLeaves DEF Inv
<1> QED BY <1>1, HostInvariant, PTL DEF Spec, PublicRowKept

\* The two-step save of this component is a save of the runtime store as any
\* thread sees it: SavingCell, which RuntimeStateStore implements too.  So the
\* purge, the reports and the alerts rest on what that store was shown to do.
THEOREM SavesLikeTheStore == Spec => Saving!Spec
<1>1. Init => Saving!Init
  BY DEF Init, Running, Held, At, Proc, Saver, Saving!Init, Saving!Resting
<1>2. Inv /\ [Next]_vars => [Saving!Next]_Saving!vars
  BY SavingStep DEF Inv
<1> QED BY <1>1, <1>2, HostInvariant, PTL DEF Spec, Saving!Spec
=============================================================================
