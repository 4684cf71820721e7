---------------------------- MODULE AlertEngine ----------------------------
(***************************************************************************)
(* server/src/stats.rs: alerts about one server.  Reports arrive or stop;  *)
(* the timer thread marks a silent server offline and evaluates the alert  *)
(* rules; a report after an outage announces the recovery.  Both read the  *)
(* clock before they wait for stat_map, so either may work with a time     *)
(* that is already over.  Alert states live in the runtime store: a save   *)
(* may be skipped or fail, the process may be killed, the rules and the    *)
(* server's notify switch change meanwhile.                                *)
(*                                                                         *)
(* Abstraction.  One server and one rule, on being offline or on a metric: *)
(* the key of an alert state is "server:rule" and no step relates two keys.*)
(* Time is counted in units, 0 being the `not set' of the code.  A metric  *)
(* is above its threshold (hot) or not.  Enqueueing succeeds, as the       *)
(* notifier thread never ends.  HostLifecycle has the locks and the        *)
(* publication these steps take part in, RuntimeStateStore the save.       *)
(***************************************************************************)
EXTENDS Naturals

CONSTANTS
    Threshold,  \* offline_threshold
    Duration,   \* duration of the rule
    Repeat,     \* repeat_interval of the rule
    Delay,      \* bound: the longest a thread keeps a time it read, and the
                \* longest between two evaluations (the timer sleeps 500 ms)
    MaxTime,    \* bound: the last moment
    Absent      \* no alert state under this key

Time == 0..MaxTime
AlertState == [since : Time, last : Time]

ASSUME TimesAssumption ==
    /\ {Threshold, Duration, Repeat, MaxTime} \subseteq Nat \ {0}
    /\ Delay \in Nat \ {0} /\ Delay < Duration
ASSUME AbsentAssumption == Absent \notin AlertState

VARIABLES
    clock,
    metric,    \* of the rule: "offline" or "usage"
    enabled,   \* the rule is in effective_alert_rules
    notify,    \* the server's notify switch in the settings
    stat,      \* its row: [online, hot, notify]; latest_ts is known.latest
    known,     \* runtime state: [latest, notify] of the last report
    alert,     \* runtime state: the alert state of server and rule
    file,      \* runtime-state.json: [known, alert]
    dirty,     \* timer: alert_state_dirty
    reporter,  \* stat_rx thread: [at, now, fresh], fresh while the runtime
               \* state it serialised for a save is still the current one
    timer,     \* the same of the timer thread, and whether it read the rule
    ticked,    \* when the timer last evaluated the rule
    heard,     \* history: when the last report that was processed had come
    alerted,   \* history: time of the last offline alert of this silence, or 0
    cool,      \* history: last time the timer saw the metric below its threshold
    muted,     \* history: a report (offline rule) or an evaluation (usage rule)
               \* passed over the rule, as it or the server's notifications were
               \* off, and nothing has reset the alert state since
    lossy      \* history: a restart found an alert state that was not the last,
               \* or that a report had ended and the timer had not evaluated since

vars == <<clock, metric, enabled, notify, stat, known, alert, file, dirty, reporter, timer,
          ticked, heard, alerted, cool, muted, lossy>>

Zero == [since |-> 0, last |-> 0]
Idle == [at |-> "idle", now |-> 0, fresh |-> FALSE]
TimerIdle == [at |-> "idle", now |-> 0, fresh |-> FALSE, active |-> FALSE]

----------------------------------------------------------------------------
(* Environment.                                                            *)

\* Both threads keep pace: within Delay, a time that was read is used and the
\* timer evaluates.
Advance ==
    /\ clock < MaxTime
    /\ clock < ticked + Delay
    /\ \A t \in {reporter, timer} : t.at \in {"stamped", "read"} => clock < t.now + Delay
    /\ clock' = clock + 1
    /\ UNCHANGED <<metric, enabled, notify, stat, known, alert, file, dirty, reporter, timer,
                   ticked, heard, alerted, cool, muted, lossy>>

\* Saved settings.  refresh_cached_stat_from_host can only switch the row's
\* notify flag off; the next report may switch it on.  The refresh waits for
\* hosts_map, which a report keeps from the override it reads to its save: a
\* change that is saved meanwhile counts from the end of that report.
SaveSettings(newEnabled, newNotify) ==
    /\ reporter.at = "idle"
    /\ <<newEnabled, newNotify>> # <<enabled, notify>>
    /\ enabled' = newEnabled
    /\ notify' = newNotify
    /\ stat' = [stat EXCEPT !.notify = @ /\ newNotify]
    /\ UNCHANGED <<clock, metric, known, alert, file, dirty, reporter, timer,
                   ticked, heard, alerted, cool, muted, lossy>>

----------------------------------------------------------------------------
(* runtime_state.save() by one thread: it is Skipped if memory has moved   *)
(* on since it was serialised (CurrentGenerationIsFresh, RuntimeStateStore).*)

Stale(t, changed) == [t EXCEPT !.fresh = @ /\ ~changed]

\* The new file and whether the save was Published.
SaveOutcome(t, published) ==
    \/ t.fresh /\ file' = [known |-> known, alert |-> alert]
       \* ~published: the directory sync failed
    \/ ~published /\ UNCHANGED file

----------------------------------------------------------------------------
(* The report path: apply the override, read the clock, then lock stat_map. *)

Stamp ==
    /\ reporter.at = "idle"
    /\ reporter' = [at |-> "stamped", now |-> clock, fresh |-> FALSE]
    /\ UNCHANGED <<clock, metric, enabled, notify, stat, known, alert, file, dirty, timer,
                   ticked, heard, alerted, cool, muted, lossy>>

\* Mutant: a recovery is announced and its alert state forgotten about.
RecoveryForgetful == alert

\* take_offline_recovery_routes: a report after an outage resets the alert of
\* an active offline rule; a NodeUp is sent if that alert was enqueued.
AlertAfterReport ==
    LET recovers == notify /\ known.latest + Threshold < reporter.now
    IN  IF recovers /\ metric = "offline" /\ enabled /\ alert # Absent THEN Zero ELSE alert

\* The report replaces the row, and is saved if an alert state changed or a
\* save is due.
Record(hot, due) ==
    LET new == AlertAfterReport
        save == new # alert \/ due
        upserted == [latest |-> reporter.now, notify |-> notify]
    IN  /\ reporter.at = "stamped"
        /\ hot => metric = "usage"
        /\ alert' = new
        /\ stat' = [online |-> TRUE, hot |-> hot, notify |-> notify]
        /\ known' = upserted
        /\ timer' = Stale(timer, TRUE)
        /\ reporter' = IF save
                       THEN [at |-> "save", now |-> 0, fresh |-> TRUE]
                       ELSE Idle
        /\ heard' = reporter.now
        /\ alerted' = 0
        /\ muted' = (muted \/ (metric = "offline" /\ ~(notify /\ enabled)))
        /\ UNCHANGED <<clock, metric, enabled, notify, file, dirty, ticked, cool, lossy>>

\* A recovery whose save is skipped or fails is not saved again for its own sake.
SaveRecovery(published) ==
    /\ reporter.at = "save"
    /\ SaveOutcome(reporter, published)
    /\ reporter' = Idle
    /\ UNCHANGED <<clock, metric, enabled, notify, stat, known, alert, dirty, timer,
                   ticked, heard, alerted, cool, muted, lossy>>

----------------------------------------------------------------------------
(* The timer.                                                              *)

StartTick ==
    /\ timer.at = "idle"
    /\ timer' = [at |-> "read", now |-> clock, fresh |-> FALSE, active |-> enabled]
    /\ UNCHANGED <<clock, metric, enabled, notify, stat, known, alert, file, dirty, reporter,
                   ticked, heard, alerted, cool, muted, lossy>>

\* Mutant: the outage is counted from the last report.
OfflineRuleFromReport(online, now) ==
    LET old == IF alert = Absent THEN Zero ELSE alert
        due == /\ known.latest + Duration <= now
               /\ old.last = 0 \/ old.last + Repeat < now
    IN  IF online THEN Zero
        ELSE [since |-> known.latest, last |-> IF due THEN now ELSE old.last]

\* Mutant: an alert is repeated when its repeat interval begins to end.
OfflineRuleEarly(online, now) ==
    LET old == IF alert = Absent THEN Zero ELSE alert
        since == IF old.since = 0 \/ old.since <= known.latest THEN now ELSE old.since
        due == /\ since + Duration <= now
               /\ old.last = 0 \/ old.last + Repeat <= now
    IN  IF online THEN Zero
        ELSE [since |-> since, last |-> IF due THEN now ELSE old.last]

\* Mutant: the time of the next alert is kept instead of that of the last.
OfflineRuleNext(online, now) ==
    LET old == IF alert = Absent THEN Zero ELSE alert
        since == IF old.since = 0 \/ old.since <= known.latest THEN now ELSE old.since
        due == since + Duration <= now /\ old.last < now
    IN  IF online THEN Zero
        ELSE [since |-> since, last |-> IF due THEN now + Repeat ELSE old.last]

\* collect_alert_events, offline: counting starts when the outage is first
\* seen, and again if a report has come since.
OfflineRule(online, now) ==
    LET old == IF alert = Absent THEN Zero ELSE alert
        since == IF old.since = 0 \/ old.since <= known.latest THEN now ELSE old.since
        due == /\ since + Duration <= now
               /\ old.last = 0 \/ old.last + Repeat < now
    IN  IF online THEN Zero
        ELSE [since |-> since, last |-> IF due THEN now ELSE old.last]

\* Mutant: a metric below its threshold allows the next alert, but does not
\* start the count again.
UsageRuleCounting(online, now) ==
    LET old == IF alert = Absent THEN Zero ELSE alert
        since == IF old.since = 0 THEN now ELSE old.since
        due == since + Duration <= now /\ old.last = 0
    IN  IF ~online THEN Absent
        ELSE IF ~stat.hot THEN [old EXCEPT !.last = 0]
        ELSE [since |-> since, last |-> IF due THEN now ELSE old.last]

\* ... and a metric: one alert per excursion, none about an offline server.
UsageRule(online, now) ==
    LET old == IF alert = Absent THEN Zero ELSE alert
        since == IF old.since = 0 THEN now ELSE old.since
        due == since + Duration <= now /\ old.last = 0
    IN  IF ~online THEN Absent
        ELSE IF ~stat.hot THEN Zero
        ELSE [since |-> since, last |-> IF due THEN now ELSE old.last]

\* mark_alert_enqueued: an alert that is due is marked with the time it is sent.
Marked(old, new, now) == new # Absent /\ new.last = now /\ (old = Absent \/ old.last # now)

\* mark_offline_if_stale, collect_alert_events, and mark_alert_enqueued for
\* what was sent, all under stat_map (which a report keeps during its save).
Evaluate ==
    LET now == timer.now
        online == stat.online /\ known.latest + Threshold >= now
        new == IF ~stat.notify \/ ~timer.active THEN alert
               ELSE IF metric = "offline" THEN OfflineRule(online, now)
               ELSE UsageRule(online, now)
        sent == metric = "offline" /\ Marked(alert, new, now)
    IN  /\ timer.at = "read" /\ reporter.at # "save"
        /\ stat' = [stat EXCEPT !.online = online]
        /\ alert' = new
        /\ dirty' = (dirty \/ new # alert)
        /\ reporter' = Stale(reporter, new # alert)
        /\ timer' = [timer EXCEPT !.at = "prune", !.now = 0]
        /\ ticked' = clock
        /\ alerted' = IF sent THEN now ELSE alerted
        /\ cool' = IF metric = "usage" /\ online /\ ~stat.hot THEN now ELSE cool
        /\ muted' = IF ~stat.notify \/ ~timer.active THEN muted \/ metric = "usage"
                    ELSE muted /\ IF metric = "offline" THEN ~online ELSE online /\ stat.hot
        /\ UNCHANGED <<clock, metric, enabled, notify, known, file, heard, lossy>>

\* prune_alert_states, and the payload if there is anything to save.
Prune ==
    LET new == IF timer.active THEN alert ELSE Absent
    IN  /\ timer.at = "prune"
        /\ alert' = new
        /\ dirty' = (dirty \/ new # alert)
        /\ reporter' = Stale(reporter, new # alert)
        /\ timer' = IF dirty'
                    THEN [at |-> "save", now |-> 0, fresh |-> TRUE, active |-> FALSE]
                    ELSE TimerIdle
        /\ alerted' = IF new = Absent THEN 0 ELSE alerted
        /\ UNCHANGED <<clock, metric, enabled, notify, stat, known, file, ticked, heard,
                       cool, muted, lossy>>

\* Only a published save clears alert_state_dirty.
SaveAlerts(published) ==
    /\ timer.at = "save"
    /\ SaveOutcome(timer, published)
    /\ dirty' = ~published
    /\ timer' = TimerIdle
    /\ UNCHANGED <<clock, metric, enabled, notify, stat, known, alert, reporter,
                   ticked, heard, alerted, cool, muted, lossy>>

----------------------------------------------------------------------------
Outdated == alert # Absent /\ alert.since # 0 /\ alert.since <= heard

\* The process is killed anywhere and started again after any time: the
\* server is restored offline, with the last report that was saved.
Restart(moment) ==
    /\ moment >= clock
    /\ clock' = moment
    /\ ticked' = moment
    /\ stat' = [online |-> FALSE, hot |-> FALSE, notify |-> file.known.notify /\ notify]
    /\ known' = file.known
    /\ alert' = file.alert
    /\ lossy' = (lossy \/ file.alert # alert \/ Outdated)
    /\ dirty' = FALSE
    /\ reporter' = Idle
    /\ timer' = TimerIdle
    /\ UNCHANGED <<metric, enabled, notify, file, heard, alerted, cool, muted>>

Init ==
    /\ clock = 1
    /\ metric \in {"offline", "usage"}
    /\ enabled = TRUE
    /\ notify = TRUE
    /\ stat = [online |-> TRUE, hot |-> FALSE, notify |-> TRUE]
    /\ known = [latest |-> 1, notify |-> TRUE]
    /\ alert = Absent
    /\ file = [known |-> known, alert |-> alert]
    /\ dirty = FALSE
    /\ reporter = Idle
    /\ timer = TimerIdle
    /\ ticked = 1
    /\ heard = 1
    /\ alerted = 0
    /\ cool = 0
    /\ muted = FALSE
    /\ lossy = FALSE

Next ==
    \/ Advance \/ Stamp \/ StartTick \/ Evaluate \/ Prune
    \/ \E moment \in Time : Restart(moment)
    \/ \E newEnabled, newNotify \in BOOLEAN : SaveSettings(newEnabled, newNotify)
    \/ \E hot, due \in BOOLEAN : Record(hot, due)
    \/ \E published \in BOOLEAN : SaveRecovery(published)
    \/ \E published \in BOOLEAN : SaveAlerts(published)

Spec == Init /\ [][Next]_vars

----------------------------------------------------------------------------
Known == [latest : Time, notify : BOOLEAN]
RuntimeState == [known : Known, alert : AlertState \cup {Absent}]
Reporter == [at : {"idle", "stamped", "save"}, now : Time, fresh : BOOLEAN]
Timer == [at : {"idle", "read", "prune", "save"}, now : Time, fresh : BOOLEAN, active : BOOLEAN]

\* Types of the variables.
TypeOK ==
    /\ {clock, ticked, heard, alerted, cool} \subseteq Time
    /\ metric \in {"offline", "usage"}
    /\ {enabled, notify, dirty, muted, lossy} \subseteq BOOLEAN
    /\ stat \in [online : BOOLEAN, hot : BOOLEAN, notify : BOOLEAN]
    /\ [known |-> known, alert |-> alert] \in RuntimeState
    /\ file \in RuntimeState
    /\ reporter \in Reporter
    /\ timer \in Timer

\* In a step: the timer enqueues an alert.
Enqueued ==
    /\ timer.at = "read" /\ timer'.at = "prune"
    /\ Marked(alert, alert', timer.now)

\* "Offline for Duration" is never claimed of a server that was heard from
\* within Duration: not after a blip, not from a time read too early, not
\* because a restart restores every server offline with an old last report.
\* (It may be when the restart was too early to save that the outage was over.)
AlertMeansSilent ==
    [][Enqueued /\ metric = "offline" /\ ~lossy => heard + Duration <= timer.now]_vars

\* One silence is not announced twice within Repeat, restarts included, as
\* long as the mark of the first announcement was saved.
RepeatRespected ==
    [][Enqueued /\ metric = "offline" /\ ~lossy /\ alerted # 0
          => alerted + Repeat < timer.now]_vars

\* A usage alert is about an excursion of at least Duration: the timer has
\* not seen the metric below its threshold since, whatever restarts and
\* outages interrupted it.  (Unless notifications were off meanwhile.)
UsageMeansHot ==
    [][Enqueued /\ metric = "usage" /\ ~lossy /\ ~muted => cool + Duration <= timer.now]_vars

\* An announced outage never ends in silence.  When a server is online
\* again, its alert is no longer marked as sent: the report that brought it
\* back has announced the recovery, unless recoveries were switched off.
\* (With a rule that waits no longer than offline_threshold this is not so of
\* a server restored offline: see RecoveryIsAnnounced, AlertEngineProofs.)
RecoveryAnnounced ==
    metric = "offline" /\ stat.online /\ alert # Absent /\ ~lossy /\ ~muted => alert.last = 0

\* Design document: resource rules reset their condition timer when the
\* metric returns below its threshold.  So an alert is never sent within
\* Duration of an evaluation that saw the metric below it.
ConditionTimerReset ==
    [][Enqueued /\ metric = "usage" /\ ~lossy => cool + Duration <= timer.now]_vars
=============================================================================
