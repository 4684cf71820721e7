--------------------------- MODULE HostLifecycle ---------------------------
(***************************************************************************)
(* server/src/stats.rs (StatsMgr): how a server enters the panel, becomes  *)
(* public, is hidden by a deletion and is purged.  Four activities work on *)
(* the same maps:                                                          *)
(*   reporter  the stat_rx thread: one accepted report at a time           *)
(*   timer     the 500 ms thread: evaluates alerts, publishes a snapshot   *)
(*   settings  POST of the admin settings: replace, refresh_admin_overrides*)
(*   purger    DELETE of deleted hosts: purge_hosts_transaction            *)
(* An action is what one activity does between two points where another    *)
(* one may run: a lock it waits for, a file it writes.                     *)
(*                                                                         *)
(* Abstraction.  A host is its name: what the maps hold for it (metrics,   *)
(* labels, online flags) is data.  Alert states are the set of hosts that  *)
(* have one.  The two generation counters are only ever compared for       *)
(* equality with an earlier reading, so a reader keeps a flag "nothing     *)
(* changed since" instead (RuntimeStateStore proves that comparison        *)
(* sound).  A runtime save is two steps, serialize and publish, as         *)
(* RuntimeStateStore justifies.  A write of admin-overrides.json is one    *)
(* step here; AdminStore takes it apart.                                   *)
(***************************************************************************)
EXTENDS Naturals, Sequences

CONSTANTS
    Host,        \* server names
    Static,      \* the hosts configured in config.toml
    Active,      \* the activities that run in this instance
    QueueBound,  \* bound: capacity of the report channel (512 in the code)
    NoFile       \* runtime-state.json does not exist

ASSUME StaticAssumption == Static \subseteq Host
ASSUME QueueAssumption == QueueBound \in Nat \ {0}

Proc == {"reporter", "timer", "settings", "purger"}
ASSUME ActiveAssumption == Active \subseteq Proc

Publisher == {"timer", "settings"}
Lock == {"lifecycle", "publication", "hosts", "stats"}

RuntimeState == [hosts : SUBSET Host, alerts : SUBSET Host]

ASSUME NoFileAssumption == NoFile \notin RuntimeState

VARIABLES
    pc,          \* where each activity is; "down" when the process is not running
    owner,       \* lock |-> activity that holds it, or "free"
    queue,       \* reports the HTTP or gRPC handlers accepted, not yet processed
    current,     \* reporter: the host of the report being processed
    hostsMap,    \* hosts_map: hosts with a configuration
    statMap,     \* stat_map: hosts with a row
    runtime,     \* RuntimeStateStore memory
    expiry,      \* expire_notify_state: hosts whose expiry was announced
    payload,     \* what a thread about to rename has serialized, and whether the
                 \* runtime generation is still the one it was serialized at
    dirty,       \* timer: alert_state_dirty (or alert_state_changed)
    target,      \* purger: hosts to purge; settings: the deleted list it saved
    failed,      \* purger: a step of this purge returned Err
    view,        \* publisher |-> its deleted list, hosts seen, rows, and whether
                 \* publication_generation is still the one it read
    statsData,   \* stats_data: rows behind the authenticated API
    respJson,    \* resp_json: rows of the public response
    deleted,     \* admin data: deleted_hosts (memory and file)
    markers,     \* deleted_hosts as copied by an activity about to write it back
    runtimeFile, \* runtime-state.json
    statsFile,   \* stats.json: rows
    purged,      \* history: hosts of a purge that returned Ok, not reported since
    hidden,      \* history: hosts of an answered deletion, marked deleted ever since
    later,       \* history: hosts a report was accepted of since their deletion
    saveFailed   \* history: a runtime save failed and none succeeded since

locks == <<pc, owner>>
inbox == <<queue, current>>
maps == <<hostsMap, statMap>>
store == <<runtime, payload, dirty>>
purge == <<target, failed>>
public == <<statsData, respJson>>
admin == <<deleted, markers>>
history == <<purged, hidden, later, saveFailed>>
vars == <<locks, inbox, maps, store, expiry, purge, view, public, admin,
          runtimeFile, statsFile, history>>

NoState == [hosts |-> {}, alerts |-> {}]
NoPayload == [state |-> NoState, fresh |-> FALSE]
NoView == [deleted |-> {}, seen |-> {}, rows |-> {}, fresh |-> FALSE]

----------------------------------------------------------------------------
(* Locks and program counters.                                             *)

At(p, l) == pc[p] = l
Idle(p) == p \in Active /\ At(p, "idle")
Goto(p, l) == pc' = [pc EXCEPT ![p] = l]
Free(l) == owner[l] = "free"
Take(p, l) == Free(l) /\ owner' = [owner EXCEPT ![l] = p]
Release(p, held) ==
    owner' = [l \in Lock |-> IF l \in held /\ owner[l] = p THEN "free" ELSE owner[l]]

----------------------------------------------------------------------------
(* The runtime store, as its users see it.                                 *)

\* Memory becomes `new'; when that is a new generation, payloads that were
\* serialized earlier are stale.
Store(new, changed) ==
    /\ runtime' = new
    /\ payload' = IF changed THEN [p \in DOMAIN payload |-> [payload[p] EXCEPT !.fresh = FALSE]]
                  ELSE payload

StoreAndSerialize(p, new, changed) ==
    /\ runtime' = new
    /\ payload' = [q \in DOMAIN payload |->
                     IF q = p THEN [state |-> new, fresh |-> TRUE]
                     ELSE [payload[q] EXCEPT !.fresh = @ /\ ~changed]]

\* save() from the generation check on.  An error may come before the
\* rename or, from the directory sync, after it.
Published(p) ==
    /\ payload[p].fresh
    /\ runtimeFile' = payload[p].state
    /\ saveFailed' = FALSE

Skipped(p) == ~payload[p].fresh /\ UNCHANGED <<runtimeFile, saveFailed>>

SaveError(p) ==
    /\ \/ UNCHANGED runtimeFile
       \/ payload[p].fresh /\ runtimeFile' = payload[p].state
    /\ saveFailed' = TRUE

Drop(p) == payload' = [payload EXCEPT ![p] = NoPayload]

----------------------------------------------------------------------------
(* The report path.                                                        *)

\* Mutant of Report: the channel has no bound.
ReportUnbounded(h) ==
    /\ "reporter" \in Active /\ ~At("reporter", "down")
    /\ Len(queue) <= QueueBound
    /\ queue' = Append(queue, h)
    /\ later' = later \cup {h}
    /\ UNCHANGED <<locks, current, maps, store, expiry, purge, view, public, admin,
                   runtimeFile, statsFile, purged, hidden, saveFailed>>

\* An authenticated report is queued; its handler does not wait for more.
Report(h) ==
    /\ "reporter" \in Active /\ ~At("reporter", "down")
    /\ Len(queue) < QueueBound
    /\ queue' = Append(queue, h)
    /\ later' = later \cup {h}
    /\ UNCHANGED <<locks, current, maps, store, expiry, purge, view, public, admin,
                   runtimeFile, statsFile, purged, hidden, saveFailed>>

Receive ==
    /\ Idle("reporter") /\ queue # <<>>
    /\ current' = {Head(queue)}
    /\ queue' = Tail(queue)
    /\ Goto("reporter", "lifecycle")
    /\ UNCHANGED <<owner, maps, store, expiry, purge, view, public, admin,
                   runtimeFile, statsFile, history>>

\* lifecycle is taken before the deleted markers are read and kept until
\* the report is recorded or dropped.
BeginReport ==
    /\ At("reporter", "lifecycle") /\ Take("reporter", "lifecycle")
    /\ Goto("reporter", IF current \subseteq deleted THEN "readMarkers" ELSE "resolve")
    /\ purged' = purged \ current
    /\ UNCHANGED <<inbox, maps, store, expiry, purge, view, public, admin,
                   runtimeFile, statsFile, hidden, later, saveFailed>>

\* clear_deleted_host_marker copies the admin data ...
ReadMarkers ==
    /\ At("reporter", "readMarkers")
    /\ markers' = [markers EXCEPT !["reporter"] = deleted]
    /\ Goto("reporter", "clearMarker")
    /\ UNCHANGED <<owner, inbox, maps, store, expiry, purge, view, public, deleted,
                   runtimeFile, statsFile, history>>

\* ... and writes the copy back without the marker, if it had it; a failed
\* write is logged and the report goes on.
ClearMarker ==
    /\ At("reporter", "clearMarker")
    /\ \/ UNCHANGED deleted
       \/ /\ current \subseteq markers["reporter"]
          /\ deleted' = markers["reporter"] \ current
    /\ markers' = [markers EXCEPT !["reporter"] = {}]
    /\ hidden' = hidden \cap deleted'
    /\ Goto("reporter", "resolve")
    /\ UNCHANGED <<owner, inbox, maps, store, expiry, purge, view, public,
                   runtimeFile, statsFile, purged, later, saveFailed>>

\* Unknown group or no default group: the report is dropped.  So is that of a
\* disabled host, whose configuration stays.
DropReport ==
    /\ At("reporter", "resolve") /\ Free("hosts")
    /\ hostsMap' \in {hostsMap, hostsMap \cup current}
    /\ Release("reporter", {"lifecycle"})
    /\ Goto("reporter", "idle")
    /\ current' = {}
    /\ UNCHANGED <<queue, statMap, store, expiry, purge, view, public, admin,
                   runtimeFile, statsFile, history>>

ResolveHost ==
    /\ At("reporter", "resolve") /\ Take("reporter", "hosts")
    /\ hostsMap' = hostsMap \cup current
    /\ Goto("reporter", "record")
    /\ UNCHANGED <<inbox, statMap, store, expiry, purge, view, public, admin,
                   runtimeFile, statsFile, history>>

\* With hosts_map and stat_map locked: a host that was offline recovers (its
\* offline alerts are dropped, and it is in `cleared' if it had no others),
\* the row and the runtime record are written, and the state is serialized if
\* it is to be saved: always for a new host or a recovery, else when the last
\* save is a minute old.
RecordReport(recovered, cleared, old) ==
    LET isNew == ~(current \subseteq statMap)
        new == [hosts  |-> runtime.hosts \cup current, alerts |-> runtime.alerts \ cleared]
    IN  /\ At("reporter", "record") /\ Free("stats")
        /\ cleared # {} => recovered
        /\ recovered => ~isNew /\ current \subseteq runtime.alerts
        /\ statMap' = statMap \cup current
        /\ IF isNew \/ recovered \/ old
           THEN /\ StoreAndSerialize("reporter", new, TRUE)
                /\ Take("reporter", "stats")
                /\ Goto("reporter", "save")
                /\ UNCHANGED current
           ELSE /\ Store(new, TRUE)
                /\ Release("reporter", {"lifecycle", "hosts"})
                /\ Goto("reporter", "idle")
                /\ current' = {}
        /\ UNCHANGED <<queue, hostsMap, dirty, expiry, purge, view, public, admin,
                       runtimeFile, statsFile, history>>

\* Neither a skipped nor a failed save is retried here.
SaveReport ==
    /\ At("reporter", "save")
    /\ Skipped("reporter") \/ Published("reporter") \/ SaveError("reporter")
    /\ Drop("reporter")
    /\ Release("reporter", {"lifecycle", "hosts", "stats"})
    /\ Goto("reporter", "idle")
    /\ current' = {}
    /\ UNCHANGED <<queue, maps, runtime, dirty, expiry, purge, view, public, admin,
                   statsFile, purged, hidden, later>>

----------------------------------------------------------------------------
(* The snapshot: the timer and rebuild_cached_response build and publish    *)
(* one under the publication lock.                                         *)

TakePublication(p) ==
    /\ IF p = "timer" THEN Idle(p) ELSE At(p, "rebuild")
    /\ Take(p, "publication")
    /\ view' = [view EXCEPT ![p] = [NoView EXCEPT !.fresh = TRUE]]
    /\ Goto(p, "readDeleted")
    /\ UNCHANGED <<inbox, maps, store, expiry, purge, public, admin,
                   runtimeFile, statsFile, history>>

ReadDeleted(p) ==
    /\ At(p, "readDeleted")
    /\ view' = [view EXCEPT ![p].deleted = deleted]
    /\ Goto(p, "scan")
    /\ UNCHANGED <<owner, inbox, maps, store, expiry, purge, public, admin,
                   runtimeFile, statsFile, history>>

\* Mutant of Publishable: the rebuild after a settings change does not filter.
PublishableUnfiltered(p) == IF p = "timer" THEN statMap \ view[p].deleted ELSE statMap

\* Mutant of Publishable: offline hosts are not shown.
PublishableOnline(p) == (statMap \ view[p].deleted) \ runtime.alerts

\* should_publish_stat
Publishable(p) == statMap \ view[p].deleted

\* The timer's pass over stat_map: rows of deleted hosts are skipped, the
\* others may change their alert states and expiry announcements.
Scan(alerting, changed, announced) ==
    LET rows == Publishable("timer")
        new == [runtime EXCEPT !.alerts = (@ \ rows) \cup alerting]
    IN  /\ At("timer", "scan") /\ Free("stats")
        /\ alerting \subseteq rows /\ announced \subseteq rows
        /\ new # runtime => changed
        /\ changed => rows # {}
        /\ view' = [view EXCEPT !["timer"].seen = statMap, !["timer"].rows = rows]
        /\ Store(new, changed)
        /\ dirty' = (dirty \/ changed)
        /\ expiry' = (expiry \ rows) \cup announced
        /\ Goto("timer", "prune")
        /\ UNCHANGED <<owner, inbox, maps, purge, public, admin, runtimeFile, statsFile,
                       history>>

\* prune_alert_states, with the hosts seen in the pass and without stat_map:
\* states of other hosts and of rules that are gone are dropped.  If any
\* alert state changed since the last successful save, the state is saved.
Prune(kept, changed) ==
    LET new == [runtime EXCEPT !.alerts = kept]
    IN  /\ At("timer", "prune")
        /\ kept \subseteq runtime.alerts \cap view["timer"].seen
        /\ new # runtime => changed
        /\ changed => runtime.alerts # {}
        /\ dirty' = (dirty \/ changed)
        /\ IF dirty'
           THEN StoreAndSerialize("timer", new, changed) /\ Goto("timer", "save")
           ELSE Store(new, changed) /\ Goto("timer", "publish")
        /\ UNCHANGED <<owner, inbox, maps, expiry, purge, view, public, admin,
                       runtimeFile, statsFile, history>>

\* Mutant of SaveAlerts: a skipped save counts as saved.
SaveAlertsOnce ==
    /\ At("timer", "save")
    /\ Published("timer") \/ Skipped("timer") \/ SaveError("timer")
    /\ dirty' = FALSE
    /\ Drop("timer")
    /\ Goto("timer", "publish")
    /\ UNCHANGED <<owner, inbox, maps, runtime, expiry, purge, view, public, admin,
                   statsFile, purged, hidden, later>>

\* runtime_state_save_clears_alert_dirty: only a published save does.
SaveAlerts ==
    /\ At("timer", "save")
    /\ \/ Published("timer") /\ dirty' = FALSE
       \/ (Skipped("timer") \/ SaveError("timer")) /\ UNCHANGED dirty
    /\ Drop("timer")
    /\ Goto("timer", "publish")
    /\ UNCHANGED <<owner, inbox, maps, runtime, expiry, purge, view, public, admin,
                   statsFile, purged, hidden, later>>

\* rebuild_cached_response collects rows only.
Collect ==
    /\ At("settings", "scan") /\ Free("stats")
    /\ view' = [view EXCEPT !["settings"].rows = Publishable("settings")]
    /\ Goto("settings", "publish")
    /\ UNCHANGED <<owner, inbox, maps, store, expiry, purge, public, admin,
                   runtimeFile, statsFile, history>>

\* Back to idle; an answered settings request has hidden what it deleted.
Finish(p) ==
    /\ Release(p, {"publication"})
    /\ Goto(p, "idle")
    /\ view' = [view EXCEPT ![p] = NoView]
    /\ IF p = "settings"
       THEN /\ hidden' = (hidden \cup target[p]) \cap deleted
            /\ target' = [target EXCEPT ![p] = {}]
       ELSE UNCHANGED <<hidden, target>>

\* publish_snapshot_if_current: the generation check, then (the timer, once
\* a minute) stats.json, then stats_data ...
PublishData(p, save) ==
    /\ At(p, "publish")
    /\ save => p = "timer" /\ view[p].fresh
    /\ IF view[p].fresh
       THEN /\ statsFile' = IF save THEN view[p].rows ELSE statsFile
            /\ statsData' = view[p].rows
            /\ Goto(p, "json")
            /\ UNCHANGED <<owner, view, hidden, target>>
       ELSE Finish(p) /\ UNCHANGED <<statsFile, statsData>>
    /\ UNCHANGED <<inbox, maps, store, expiry, failed, respJson, admin,
                   runtimeFile, purged, later, saveFailed>>

\* ... and resp_json.
PublishJson(p) ==
    /\ At(p, "json")
    /\ respJson' = view[p].rows
    /\ Finish(p)
    /\ UNCHANGED <<inbox, maps, store, expiry, failed, statsData, admin,
                   runtimeFile, statsFile, purged, later, saveFailed>>

----------------------------------------------------------------------------
(* save_admin_settings: replace, then refresh_admin_overrides.             *)

\* The posted settings carry the whole deleted list, whatever it is now.
SaveSettings(posted) ==
    /\ Idle("settings")
    /\ deleted' = posted
    /\ target' = [target EXCEPT !["settings"] = posted]
    /\ hidden' = hidden \cap posted
    /\ later' = later \ (posted \ deleted)
    /\ Goto("settings", "hosts")
    /\ UNCHANGED <<owner, inbox, maps, store, expiry, failed, view, public, markers,
                   runtimeFile, statsFile, purged, saveFailed>>

RefreshHosts ==
    /\ At("settings", "hosts") /\ Take("settings", "hosts")
    /\ Goto("settings", "stats")
    /\ UNCHANGED <<inbox, maps, store, expiry, purge, view, public, admin,
                   runtimeFile, statsFile, history>>

\* Mutant of RefreshStats: hosts_map stays locked during the rebuild.
RefreshStatsHolding ==
    /\ At("settings", "stats") /\ Free("stats")
    /\ Goto("settings", "rebuild")
    /\ UNCHANGED <<owner, inbox, maps, store, expiry, purge, view, public, admin,
                   runtimeFile, statsFile, history>>

\* Overrides reach the rows; both maps are unlocked before the rebuild.
RefreshStats ==
    /\ At("settings", "stats") /\ Free("stats")
    /\ Release("settings", {"hosts"})
    /\ Goto("settings", "rebuild")
    /\ UNCHANGED <<inbox, maps, store, expiry, purge, view, public, admin,
                   runtimeFile, statsFile, history>>

----------------------------------------------------------------------------
(* purge_hosts_transaction: purge_hosts_locked, then the markers.          *)

StartPurge(hosts) ==
    /\ Idle("purger")
    /\ hosts # {}
    /\ target' = [target EXCEPT !["purger"] = hosts]
    /\ failed' = FALSE
    /\ Goto("purger", "lifecycle")
    /\ UNCHANGED <<owner, inbox, maps, store, expiry, view, public, admin,
                   runtimeFile, statsFile, history>>

\* Mutant of LockLifecycle: the purge does not keep reports out.
LockLifecycleNot ==
    /\ At("purger", "lifecycle")
    /\ Goto("purger", "publication")
    /\ UNCHANGED <<owner, inbox, maps, store, expiry, purge, view, public, admin,
                   runtimeFile, statsFile, history>>

LockLifecycle ==
    /\ At("purger", "lifecycle") /\ Take("purger", "lifecycle")
    /\ Goto("purger", "publication")
    /\ UNCHANGED <<inbox, maps, store, expiry, purge, view, public, admin,
                   runtimeFile, statsFile, history>>

\* publication_generation moves: snapshots taken before are stale.
LockPublication ==
    /\ At("purger", "publication") /\ Take("purger", "publication")
    /\ view' = [p \in Publisher |-> [view[p] EXCEPT !.fresh = FALSE]]
    /\ Goto("purger", "hosts")
    /\ UNCHANGED <<inbox, maps, store, expiry, purge, public, admin,
                   runtimeFile, statsFile, history>>

PurgeHostsMap ==
    /\ At("purger", "hosts") /\ Free("hosts")
    /\ hostsMap' = hostsMap \ target["purger"]
    /\ Goto("purger", "stats")
    /\ UNCHANGED <<owner, inbox, statMap, store, expiry, purge, view, public, admin,
                   runtimeFile, statsFile, history>>

PurgeStatMap ==
    /\ At("purger", "stats") /\ Free("stats")
    /\ statMap' = statMap \ target["purger"]
    /\ Goto("purger", "runtime")
    /\ UNCHANGED <<owner, inbox, hostsMap, store, expiry, purge, view, public, admin,
                   runtimeFile, statsFile, history>>

PurgeRuntime ==
    LET new == [hosts  |-> runtime.hosts \ target["purger"],
                alerts |-> runtime.alerts \ target["purger"]]
    IN  /\ At("purger", "runtime")
        /\ StoreAndSerialize("purger", new, new # runtime)
        /\ Goto("purger", "save")
        /\ UNCHANGED <<owner, inbox, maps, dirty, expiry, purge, view, public, admin,
                       runtimeFile, statsFile, history>>

\* A skipped save counts as an error; the purge goes on in either case, and
\* drops the expiry announcements of its hosts.
SavePurge ==
    /\ At("purger", "save")
    /\ \/ /\ IF payload["purger"].fresh THEN Published("purger") ELSE Skipped("purger")
          /\ failed' = ~payload["purger"].fresh
       \/ SaveError("purger") /\ failed' = TRUE
    /\ Drop("purger")
    /\ expiry' = expiry \ target["purger"]
    /\ Goto("purger", "public")
    /\ UNCHANGED <<owner, inbox, maps, runtime, dirty, target, view, public, admin,
                   statsFile, purged, hidden, later>>

\* stats_data first, then stats.json written from it ...
PurgePublic ==
    /\ At("purger", "public")
    /\ statsData' = statsData \ target["purger"]
    /\ \/ statsFile' = statsData' /\ UNCHANGED failed
       \/ failed' = TRUE /\ UNCHANGED statsFile
    /\ Goto("purger", "json")
    /\ UNCHANGED <<owner, inbox, maps, store, expiry, target, view, respJson, admin,
                   runtimeFile, history>>

EndPurge ==
    /\ Release("purger", {"lifecycle", "publication"})
    /\ Goto("purger", "idle")
    /\ target' = [target EXCEPT !["purger"] = {}]
    /\ failed' = FALSE

\* Mutant of PurgeJson: the public response waits for the next tick.
PurgeJsonLater ==
    /\ At("purger", "json")
    /\ IF failed
       THEN EndPurge
       ELSE /\ Release("purger", {"publication"})
            /\ Goto("purger", "readMarkers")
            /\ UNCHANGED purge
    /\ UNCHANGED <<inbox, maps, store, expiry, view, public, admin,
                   runtimeFile, statsFile, history>>

\* ... then resp_json.  An Err leaves the markers as they are.
PurgeJson ==
    /\ At("purger", "json")
    /\ respJson' = statsData
    /\ IF failed
       THEN EndPurge
       ELSE /\ Release("purger", {"publication"})
            /\ Goto("purger", "readMarkers")
            /\ UNCHANGED purge
    /\ UNCHANGED <<inbox, maps, store, expiry, view, statsData, admin,
                   runtimeFile, statsFile, history>>

\* admin::purge_deleted_hosts copies the admin data ...
CopyMarkers ==
    /\ At("purger", "readMarkers")
    /\ markers' = [markers EXCEPT !["purger"] = deleted]
    /\ Goto("purger", "writeMarkers")
    /\ UNCHANGED <<owner, inbox, maps, store, expiry, purge, view, public, deleted,
                   runtimeFile, statsFile, history>>

\* ... and writes the copy back without the purged hosts; Ok, or the write failed.
DropMarkers ==
    /\ At("purger", "writeMarkers")
    /\ \/ /\ deleted' = markers["purger"] \ target["purger"]
          /\ purged' = purged \cup target["purger"]
       \/ UNCHANGED <<deleted, purged>>
    /\ markers' = [markers EXCEPT !["purger"] = {}]
    /\ hidden' = hidden \cap deleted'
    /\ EndPurge
    /\ UNCHANGED <<inbox, maps, store, expiry, view, public,
                   runtimeFile, statsFile, later, saveFailed>>

----------------------------------------------------------------------------
(* The process starts, for the first time or after being killed anywhere.  *)

Saver == {"reporter", "timer", "purger"}

\* load_or_import_legacy, restore_known_hosts and the first rebuild, before
\* any thread runs.  Without runtime-state.json the rows of stats.json that
\* are not marked deleted are imported and saved; if that fails, nothing is.
\* A restored host has a configuration if it is static or its group exists.
Restart(imports, configured) ==
    LET imported == [NoState EXCEPT !.hosts = statsFile \ deleted]
        loaded == IF runtimeFile # NoFile THEN runtimeFile
                  ELSE IF imports THEN imported ELSE NoState
        rows == loaded.hosts \ deleted
    IN  /\ imports => runtimeFile = NoFile
        /\ configured \subseteq rows
        /\ runtime' = loaded
        /\ runtimeFile' = IF imports THEN imported ELSE runtimeFile
        /\ statMap' = rows
        /\ hostsMap' = Static \cup configured
        /\ statsData' = rows
        /\ respJson' = rows
        /\ pc' = [p \in Proc |-> "idle"]
        /\ owner' = [l \in Lock |-> "free"]
        /\ queue' = <<>>
        /\ current' = {}
        /\ payload' = [p \in Saver |-> NoPayload]
        /\ dirty' = FALSE
        /\ expiry' = {}
        /\ target' = [p \in {"purger", "settings"} |-> {}]
        /\ failed' = FALSE
        /\ view' = [p \in Publisher |-> NoView]
        /\ markers' = [p \in {"purger", "reporter"} |-> {}]
        /\ saveFailed' = FALSE
        /\ UNCHANGED <<deleted, statsFile, purged, hidden, later>>

\* A first start, with the stats.json an older version may have left.
Init ==
    /\ pc = [p \in Proc |-> "down"]
    /\ owner = [l \in Lock |-> "free"]
    /\ queue = <<>>
    /\ current = {}
    /\ hostsMap = {}
    /\ statMap = {}
    /\ runtime = NoState
    /\ expiry = {}
    /\ payload = [p \in Saver |-> NoPayload]
    /\ dirty = FALSE
    /\ target = [p \in {"purger", "settings"} |-> {}]
    /\ failed = FALSE
    /\ view = [p \in Publisher |-> NoView]
    /\ statsData = {}
    /\ respJson = {}
    /\ deleted = {}
    /\ markers = [p \in {"purger", "reporter"} |-> {}]
    /\ runtimeFile = NoFile
    /\ statsFile \in SUBSET Host
    /\ purged = {}
    /\ hidden = {}
    /\ later = {}
    /\ saveFailed = FALSE

Reporter ==
    \/ Receive \/ BeginReport \/ ReadMarkers \/ ClearMarker \/ DropReport \/ ResolveHost
    \/ \E recovered, old \in BOOLEAN, cleared \in {{}, current} :
           RecordReport(recovered, cleared, old)
    \/ SaveReport

Timer ==
    \/ TakePublication("timer") \/ ReadDeleted("timer") \/ SaveAlerts
    \/ \E alerting, announced \in SUBSET statMap, changed \in BOOLEAN :
           Scan(alerting, changed, announced)
    \/ \E kept \in SUBSET runtime.alerts, changed \in BOOLEAN : Prune(kept, changed)
    \/ \E save \in BOOLEAN : PublishData("timer", save)
    \/ PublishJson("timer")

Settings ==
    \/ \E posted \in SUBSET Host : SaveSettings(posted)
    \/ RefreshHosts \/ RefreshStats
    \/ TakePublication("settings") \/ ReadDeleted("settings") \/ Collect
    \/ PublishData("settings", FALSE) \/ PublishJson("settings")

Purger ==
    \/ \E hosts \in SUBSET Host : StartPurge(hosts)
    \/ LockLifecycle \/ LockPublication \/ PurgeHostsMap \/ PurgeStatMap \/ PurgeRuntime
    \/ SavePurge \/ PurgePublic \/ PurgeJson \/ CopyMarkers \/ DropMarkers

Next ==
    \/ \E h \in Host : Report(h)
    \/ Reporter \/ Timer \/ Settings \/ Purger
    \/ \E imports \in BOOLEAN, configured \in SUBSET Host : Restart(imports, configured)

Spec == Init /\ [][Next]_vars

----------------------------------------------------------------------------
PcType ==
    [reporter : {"down", "idle", "lifecycle", "readMarkers", "clearMarker", "resolve",
                 "record", "save"},
     timer    : {"down", "idle", "readDeleted", "scan", "prune", "save", "publish", "json"},
     settings : {"down", "idle", "hosts", "stats", "rebuild", "readDeleted", "scan",
                 "publish", "json"},
     purger   : {"down", "idle", "lifecycle", "publication", "hosts", "stats", "runtime",
                 "save", "public", "json", "readMarkers", "writeMarkers"}]

ViewType == [deleted : SUBSET Host, seen : SUBSET Host, rows : SUBSET Host, fresh : BOOLEAN]

\* Types of the variables.
TypeOK ==
    /\ pc \in PcType
    /\ owner \in [Lock -> Proc \cup {"free"}]
    /\ queue \in Seq(Host) /\ Len(queue) <= QueueBound
    /\ current \in SUBSET Host
    /\ {hostsMap, statMap, expiry, statsData, respJson, deleted, statsFile} \subseteq SUBSET Host
    /\ runtime \in RuntimeState
    /\ payload \in [Saver -> [state : RuntimeState, fresh : BOOLEAN]]
    /\ {dirty, failed, saveFailed} \subseteq BOOLEAN
    /\ target \in [{"purger", "settings"} -> SUBSET Host]
    /\ view \in [Publisher -> ViewType]
    /\ markers \in [{"purger", "reporter"} -> SUBSET Host]
    /\ runtimeFile \in RuntimeState \cup {NoFile}
    /\ {purged, hidden, later} \subseteq SUBSET Host

SavedHosts == IF runtimeFile = NoFile THEN {} ELSE runtimeFile.hosts

\* Once a purge returned Ok, and until another report of the host is taken
\* up, no map, cache, alert state or file holds the host: not a snapshot the
\* timer took before, not a save that was slower, not a restart, brings it
\* back.  (A host of config.toml has its configuration again after one.)
PurgeLeavesNoTrace ==
    \A h \in purged :
        /\ h \notin statMap \cup statsData \cup respJson \cup expiry
        /\ h \notin hostsMap \ Static
        /\ h \notin runtime.hosts \cup runtime.alerts
        /\ h \notin statsFile /\ h \notin SavedHosts
        /\ runtimeFile # NoFile /\ h \notin runtimeFile.alerts

\* The order of the locks protects the save of a purge: no other thread can
\* change the runtime state under it, so "purged runtime state save was
\* superseded by a newer mutation" is an error that never occurs.
PurgeSaveNeverSuperseded ==
    At("purger", "save") => payload["purger"].fresh

\* Whenever nobody is publishing, both public views show the same rows, and
\* only rows that are live.
PublicIsLive ==
    Free("publication") => respJson = statsData /\ respJson \subseteq statMap

\* When the request that deleted a host has been answered, the host is not
\* public again as long as its marker stands, although the timer may be
\* about to publish a snapshot it filtered by an older list.
HiddenStaysHidden == hidden \cap respJson = {}

\* A server is in runtime-state.json as soon as its first report has been
\* processed, unless writing fails: a save that is skipped because another
\* thread changed the state is made up for by that thread.
NewHostPersisted ==
    \A h \in statMap \ SavedHosts : saveFailed \/ dirty \/ At("reporter", "save")

\* The lock a thread is waiting for, or about to take.
Wanted(p) ==
    LET wants == [reporter |-> [lifecycle |-> "lifecycle", resolve |-> "hosts", record |-> "stats"],
                  timer    |-> [idle |-> "publication", scan |-> "stats"],
                  settings |-> [hosts |-> "hosts", stats |-> "stats", rebuild |-> "publication",
                                scan |-> "stats"],
                  purger   |-> [lifecycle |-> "lifecycle", publication |-> "publication",
                                hosts |-> "hosts", stats |-> "stats"]]
    IN  {wants[p][l] : l \in {pc[p]} \cap DOMAIN wants[p]}

\* No set of threads waits for locks that only they hold (the lock order of
\* the comment in StatsMgr, and of the paths it does not mention).
NoLockCycle ==
    \A group \in (SUBSET Proc) \ {{}} :
        \E p \in group : \A l \in Wanted(p) : owner[l] \notin group

\* A row leaves the public response only for a deletion or a purge that asked
\* for it, or at a restart that found a save had failed or was under way:
\* being offline, an alert, or another host's purge never removes it.
PublicRowKept ==
    [][\A h \in respJson \ respJson' :
          \/ h \in target["purger"] \cup deleted
          \/ \E p \in Publisher : h \in view[p].deleted
          \/ /\ \A p \in Proc : pc'[p] = "idle" /\ queue' = <<>>
             /\ saveFailed \/ dirty \/ At("reporter", "save")]_vars

\* Design document: a deleted marker is cleared by a later report, that is
\* one the panel accepted after the deletion was saved.
OnlyLaterReportRestores ==
    [][\A h \in deleted \ deleted' : current = {h} /\ At("reporter", "clearMarker") => h \in later]_vars
=============================================================================
