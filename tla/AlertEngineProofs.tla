------------------------- MODULE AlertEngineProofs -------------------------
(***************************************************************************)
(* Theorems of AlertEngine for every threshold, duration, repeat interval, *)
(* delay and number of moments.                                            *)
(*                                                                         *)
(* What a rule concludes rests on the alert state and the last report that *)
(* memory has; what is claimed rests on what was really heard, seen and    *)
(* announced.  The invariant says how far the first can be from the        *)
(* second: a restart may bring back an older report, but then the count of *)
(* the outage began after the report that was lost (Counting); the mark of *)
(* an announcement stays while the silence lasts (Marks); and so on for an *)
(* excursion of a metric and the recovery of a server.                     *)
(***************************************************************************)
EXTENDS AlertEngine, TLAPS

----------------------------------------------------------------------------
(* The invariant.                                                          *)

\* Times are in the past; the report about to be recorded is not older than
\* the last one, nor by more than Delay than the clock.
Clocks ==
    /\ clock > 0 /\ heard <= clock /\ cool <= clock
    /\ file.known.latest <= known.latest /\ known.latest <= clock
    /\ reporter.at = "stamped" => /\ known.latest <= reporter.now /\ reporter.now <= clock
                                  /\ clock <= reporter.now + Delay
    /\ timer.at = "read" => timer.now > 0 /\ timer.now <= clock /\ cool <= timer.now

\* When a restart has brought back an older last report, the count of the
\* outage did not begin before the report that was lost.
Counting ==
    metric = "offline" /\ ~lossy /\ known.latest # heard =>
        /\ alert = Absent \/ alert.since = 0 \/ heard <= alert.since
        /\ timer.at = "read" => heard <= timer.now

\* The announcement of this silence is marked in the alert state, and the
\* server has not been seen online since.
Marks ==
    metric = "offline" /\ ~lossy /\ alerted # 0 =>
        alert # Absent /\ alert.last = alerted /\ ~stat.online

\* A running count of an excursion began after the last reading below.
Excursion ==
    metric = "usage" /\ ~lossy /\ ~muted =>
        alert = Absent \/ alert.since = 0 \/ cool <= alert.since

\* While an alert is marked as sent, the server is offline, and any report
\* that may come is more than Threshold after the last.
Unanswered ==
    metric = "offline" /\ ~lossy /\ ~muted =>
        \/ alert = Absent \/ alert.last = 0
        \/ /\ ~stat.online
           /\ known.latest + Threshold < clock
           /\ reporter.at = "stamped" => known.latest + Threshold < reporter.now

\* The inductive invariant.
Inv == TypeOK /\ Clocks /\ Counting /\ Marks /\ Excursion

----------------------------------------------------------------------------
(* What a rule makes of an alert state.                                    *)

\* The offline rule: a count that was running goes on if no report has come
\* since it began; the mark changes only for an alert that is due.
LEMMA OfflineRules ==
  ASSUME TypeOK, NEW online \in BOOLEAN, NEW now \in Time
  PROVE  LET new == OfflineRule(online, now)
             running == alert # Absent /\ alert.since # 0 /\ known.latest < alert.since
         IN  /\ new \in AlertState
             /\ online => new = Zero
             /\ ~online =>
                  /\ new.since = now \/ (running /\ new.since = alert.since)
                  /\ \/ /\ new.last = now /\ running /\ new.since = alert.since
                        /\ alert.since + Duration <= now
                        /\ alert.last = 0 \/ alert.last + Repeat < now
                     \/ alert = Absent /\ new.last = 0
                     \/ alert # Absent /\ new.last = alert.last
<1> DEFINE old == IF alert = Absent THEN Zero ELSE alert
           since == IF old.since = 0 \/ old.since <= known.latest THEN now ELSE old.since
           due == /\ since + Duration <= now
                  /\ old.last = 0 \/ old.last + Repeat < now
<1>1. known.latest \in Nat /\ now \in Nat /\ Duration \in Nat \ {0} /\ Repeat \in Nat
  BY TimesAssumption DEF TypeOK, RuntimeState, Known, Time
<1>2. old \in AlertState /\ old.since \in Time /\ old.last \in Time /\ Zero \in AlertState
  BY TimesAssumption DEF TypeOK, RuntimeState, AlertState, Zero, Time
<1>3. since \in Time
  BY <1>2
<1>4. OfflineRule(online, now) =
        IF online THEN Zero ELSE [since |-> since, last |-> IF due THEN now ELSE old.last]
  BY DEF OfflineRule
<1>5. CASE online
  BY <1>2, <1>4, <1>5
<1>6. CASE ~online
  <2> DEFINE new == [since |-> since, last |-> IF due THEN now ELSE old.last]
  <2>1. /\ OfflineRule(online, now) = new /\ new \in AlertState
        /\ new.since = since /\ new.last = IF due THEN now ELSE old.last
    BY <1>2, <1>3, <1>4, <1>6 DEF AlertState
  <2>2. CASE alert = Absent
    <3>1. old.since = 0 /\ old.last = 0 /\ since = now
      BY <2>2 DEF Zero
    <3>2. ~due
      BY <1>1, <3>1
    <3> HIDE DEF old, since, due, new
    <3> QED BY <1>1, <1>6, <2>1, <2>2, <3>1, <3>2
  <2>3. CASE alert # Absent
    <3>1. old = alert
      BY <2>3
    <3>2. since = now \/ (alert.since # 0 /\ known.latest < alert.since /\ since = alert.since)
      BY <1>1, <1>2, <3>1 DEF Time
    <3>3. due => /\ since # now /\ since + Duration <= now
                 /\ old.last = 0 \/ old.last + Repeat < now
      BY <1>1
    <3> HIDE DEF old, since, due, new
    <3> QED BY <1>1, <1>6, <2>1, <2>3, <3>1, <3>2, <3>3
  <2> QED BY <2>2, <2>3
<1> QED BY <1>5, <1>6

\* The rule on a metric: an alert is due once per excursion.
LEMMA UsageRules ==
  ASSUME TypeOK, NEW online \in BOOLEAN, NEW now \in Time
  PROVE  LET new == UsageRule(online, now)
             running == alert # Absent /\ alert.since # 0
         IN  /\ new \in AlertState \cup {Absent}
             /\ ~online => new = Absent
             /\ online /\ ~stat.hot => new = Zero
             /\ online /\ stat.hot =>
                  /\ new.since = now \/ (running /\ new.since = alert.since)
                  /\ \/ /\ new.last = now /\ running /\ new.since = alert.since
                        /\ alert.since + Duration <= now /\ alert.last = 0
                     \/ alert = Absent /\ new.last = 0
                     \/ alert # Absent /\ new.last = alert.last
<1> DEFINE old == IF alert = Absent THEN Zero ELSE alert
           since == IF old.since = 0 THEN now ELSE old.since
           due == since + Duration <= now /\ old.last = 0
<1>1. now \in Nat /\ Duration \in Nat \ {0}
  BY TimesAssumption DEF Time
<1>2. old \in AlertState /\ old.since \in Time /\ old.last \in Time /\ Zero \in AlertState
  BY TimesAssumption DEF TypeOK, RuntimeState, AlertState, Zero, Time
<1>3. UsageRule(online, now) =
        IF ~online THEN Absent
        ELSE IF ~stat.hot THEN Zero
        ELSE [since |-> since, last |-> IF due THEN now ELSE old.last]
  BY DEF UsageRule
<1>4. CASE ~(online /\ stat.hot)
  BY <1>2, <1>3, <1>4
<1>5. CASE online /\ stat.hot
  <2> DEFINE new == [since |-> since, last |-> IF due THEN now ELSE old.last]
  <2>1. /\ UsageRule(online, now) = new /\ new \in AlertState
        /\ new.since = since /\ new.last = IF due THEN now ELSE old.last
    BY <1>2, <1>3, <1>5 DEF AlertState
  <2>2. CASE alert = Absent
    <3>1. old.since = 0 /\ old.last = 0 /\ since = now
      BY <2>2 DEF Zero
    <3>2. ~due
      BY <1>1, <3>1
    <3> HIDE DEF old, since, due, new
    <3> QED BY <1>1, <1>5, <2>1, <2>2, <3>1, <3>2
  <2>3. CASE alert # Absent
    <3>1. old = alert
      BY <2>3
    <3>2. since = now \/ (alert.since # 0 /\ since = alert.since)
      BY <3>1
    <3>3. due => since # now /\ since + Duration <= now /\ old.last = 0
      BY <1>1
    <3> HIDE DEF old, since, due, new
    <3> QED BY <1>1, <1>5, <2>1, <2>3, <3>1, <3>2, <3>3
  <2> QED BY <2>2, <2>3
<1> QED BY <1>4, <1>5

----------------------------------------------------------------------------
(* Types.                                                                  *)

\* A payload that has gone stale is all that changes of a thread.
LEMMA StaleThread ==
  ASSUME NEW changed \in BOOLEAN
  PROVE  /\ \A t \in Reporter : /\ Stale(t, changed) \in Reporter
                                /\ Stale(t, changed).at = t.at
                                /\ Stale(t, changed).now = t.now
         /\ \A t \in Timer : /\ Stale(t, changed) \in Timer
                             /\ Stale(t, changed).at = t.at
                             /\ Stale(t, changed).now = t.now
                             /\ Stale(t, changed).active = t.active
<1>1. ASSUME NEW t, t \in Reporter \/ t \in Timer
      PROVE  Stale(t, changed) \in {[t EXCEPT !.fresh = FALSE], t}
  <2>1. CASE changed
    BY <2>1 DEF Stale
  <2>2. CASE ~changed
    <3>1. t.fresh \in BOOLEAN
      BY <1>1 DEF Reporter, Timer
    <3>2. (t.fresh /\ ~changed) = t.fresh
      BY <2>2, <3>1
    <3>3. [t EXCEPT !.fresh = t.fresh] = t
      BY <1>1 DEF Reporter, Timer
    <3> QED BY <3>2, <3>3 DEF Stale
  <2> QED BY <2>1, <2>2
<1>2. \A t \in Reporter : /\ [t EXCEPT !.fresh = FALSE] \in Reporter
                          /\ [t EXCEPT !.fresh = FALSE].at = t.at
                          /\ [t EXCEPT !.fresh = FALSE].now = t.now
  BY DEF Reporter
<1>3. \A t \in Timer : /\ [t EXCEPT !.fresh = FALSE] \in Timer
                       /\ [t EXCEPT !.fresh = FALSE].at = t.at
                       /\ [t EXCEPT !.fresh = FALSE].now = t.now
                       /\ [t EXCEPT !.fresh = FALSE].active = t.active
  BY DEF Timer
<1> QED BY <1>1, <1>2, <1>3

\* The threads between two pieces of work, and before a save.
LEMMA ThreadsAtRest ==
  /\ Idle \in Reporter /\ TimerIdle \in Timer
  /\ [at |-> "save", now |-> 0, fresh |-> TRUE] \in Reporter
  /\ [at |-> "save", now |-> 0, fresh |-> TRUE, active |-> FALSE] \in Timer
<1>1. 0 \in Time
  BY TimesAssumption DEF Time
<1> QED BY <1>1 DEF Idle, TimerIdle, Reporter, Timer

\* Every step keeps the types.
LEMMA TypeStep ==
  ASSUME TypeOK, [Next]_vars
  PROVE  TypeOK'
<1> USE TimesAssumption
    DEF TypeOK, RuntimeState, Known, AlertState, Reporter, Timer, Time, Idle,
        TimerIdle
<1>1. ASSUME Advance PROVE TypeOK'
  BY <1>1 DEF Advance
<1>2. ASSUME Stamp PROVE TypeOK'
  BY <1>2 DEF Stamp
<1>3. ASSUME StartTick PROVE TypeOK'
  BY <1>3 DEF StartTick
<1>4. ASSUME Evaluate PROVE TypeOK'
  <2> DEFINE now == timer.now
             online == stat.online /\ known.latest + Threshold >= now
  <2>1. now \in Time /\ online \in BOOLEAN
    OBVIOUS
  <2>2. /\ OfflineRule(online, now) \in AlertState
        /\ UsageRule(online, now) \in AlertState \cup {Absent}
    <3> HIDE DEF TypeOK, now, online
    <3> QED BY <2>1, OfflineRules, UsageRules
  <2>3. alert' \in AlertState \cup {Absent}
    BY <1>4, <2>2 DEF Evaluate
  <2>4. reporter' \in Reporter
    BY <1>4, StaleThread DEF Evaluate
  <2>5. stat' \in [online : BOOLEAN, hot : BOOLEAN, notify : BOOLEAN] /\ stat'.online = online
    BY <1>4 DEF Evaluate
  <2>6. timer' \in Timer
    <3> DEFINE pruning == [timer EXCEPT !.at = "prune"]
    <3>1. pruning \in Timer /\ 0 \in Time
      OBVIOUS
    <3>2. [pruning EXCEPT !.now = 0] \in Timer
      BY <3>1
    <3>3. timer' = [pruning EXCEPT !.now = 0]
      BY <1>4 DEF Evaluate
    <3> QED BY <3>2, <3>3
  <2>7. {alerted', ticked', cool'} \subseteq Time
    BY <1>4 DEF Evaluate
  <2>8. {muted', dirty'} \subseteq BOOLEAN
    BY <1>4 DEF Evaluate
  <2> QED BY <1>4, <2>3, <2>4, <2>5, <2>6, <2>7, <2>8 DEF Evaluate
<1>5. ASSUME Prune PROVE TypeOK'
  <2>1. reporter' \in Reporter
    BY <1>5, StaleThread DEF Prune
  <2>2. dirty' \in BOOLEAN
    BY <1>5 DEF Prune
  <2>5. timer' \in Timer
    <3> HIDE DEF TypeOK, Timer, TimerIdle
    <3> QED BY <1>5, ThreadsAtRest DEF Prune
  <2>3. alert' \in AlertState \cup {Absent}
    BY <1>5 DEF Prune
  <2> QED BY <1>5, <2>1, <2>2, <2>3, <2>5 DEF Prune
<1>6. ASSUME NEW moment \in Time, Restart(moment) PROVE TypeOK'
  <2>1. stat' \in [online : BOOLEAN, hot : BOOLEAN, notify : BOOLEAN]
    BY <1>6 DEF Restart
  <2>2. lossy' \in BOOLEAN
    BY <1>6 DEF Restart
  <2>3. known' \in Known /\ alert' \in AlertState \cup {Absent}
    BY <1>6 DEF Restart
  <2>4. reporter' \in Reporter /\ timer' \in Timer
    <3> HIDE DEF TypeOK, Reporter, Timer, Idle, TimerIdle
    <3> QED BY <1>6, ThreadsAtRest DEF Restart
  <2> HIDE DEF Reporter, Timer, Known, AlertState, Idle, TimerIdle
  <2> QED BY <1>6, <2>1, <2>2, <2>3, <2>4 DEF Restart
<1>7. ASSUME NEW newEnabled \in BOOLEAN, NEW newNotify \in BOOLEAN,
             SaveSettings(newEnabled, newNotify)
      PROVE  TypeOK'
  BY <1>7 DEF SaveSettings
<1>8. ASSUME NEW hot \in BOOLEAN, NEW due \in BOOLEAN, Record(hot, due) PROVE TypeOK'
  <2>1. timer' \in Timer
    BY <1>8, StaleThread DEF Record
  <2>2. alert' \in AlertState \cup {Absent}
    BY <1>8 DEF Record, AlertAfterReport, Zero
  <2>3. known' \in Known /\ stat' \in [online : BOOLEAN, hot : BOOLEAN, notify : BOOLEAN]
    BY <1>8 DEF Record
  <2>4. muted' \in BOOLEAN
    BY <1>8 DEF Record
  <2>5. reporter' \in Reporter
    <3> HIDE DEF TypeOK, Reporter, Idle
    <3> QED BY <1>8, ThreadsAtRest DEF Record
  <2>6. {clock', ticked', heard', alerted', cool'} \subseteq Time
    BY <1>8 DEF Record
  <2>7. {enabled', notify', dirty', lossy'} \subseteq BOOLEAN /\ file' \in RuntimeState
    BY <1>8 DEF Record
  <2>8. metric' \in {"offline", "usage"}
    BY <1>8 DEF Record
  <2>9. [known |-> known', alert |-> alert'] \in RuntimeState
    BY <2>2, <2>3
  <2> HIDE DEF Reporter, Timer, RuntimeState, Time
  <2> QED BY <2>1, <2>3, <2>4, <2>5, <2>6, <2>7, <2>8, <2>9
<1>9. ASSUME NEW published \in BOOLEAN, SaveRecovery(published) PROVE TypeOK'
  BY <1>9 DEF SaveRecovery, SaveOutcome
<1>10. ASSUME NEW published \in BOOLEAN, SaveAlerts(published) PROVE TypeOK'
  BY <1>10 DEF SaveAlerts, SaveOutcome
<1>11. ASSUME UNCHANGED vars PROVE TypeOK'
  BY <1>11 DEF vars
<1> HIDE DEF TypeOK, RuntimeState, Known, AlertState, Reporter, Timer, Time, Idle,
    TimerIdle
<1> QED BY <1>1, <1>2, <1>3, <1>4, <1>5, <1>6, <1>7, <1>8, <1>9, <1>10, <1>11 DEF Next

----------------------------------------------------------------------------
(* The parts of the invariant.                                             *)

\* Evaluate: how it sees the server, and whether it passes over the rule.
SeenOnline == stat.online /\ known.latest + Threshold >= timer.now
PassedOver == ~stat.notify \/ ~timer.active

\* What Evaluate works with, and what it concludes by the rule's metric.
LEMMA EvaluateResult ==
  ASSUME TypeOK, Evaluate
  PROVE  /\ timer.at = "read" /\ timer.now \in Time /\ SeenOnline \in BOOLEAN
         /\ stat'.online = SeenOnline
         /\ timer'.at = "prune" /\ timer'.now = 0
         /\ reporter'.at = reporter.at /\ reporter'.now = reporter.now
         /\ PassedOver => alert' = alert
         /\ ~PassedOver /\ metric = "offline" => alert' = OfflineRule(SeenOnline, timer.now)
         /\ ~PassedOver /\ metric = "usage" => alert' = UsageRule(SeenOnline, timer.now)
         /\ alerted' = IF metric = "offline" /\ Marked(alert, alert', timer.now)
                       THEN timer.now ELSE alerted
         /\ cool' = IF metric = "usage" /\ SeenOnline /\ ~stat.hot THEN timer.now ELSE cool
         /\ ~muted' => ~(PassedOver /\ metric = "usage")
         /\ muted /\ ~muted' => /\ ~PassedOver
                                /\ metric = "offline" => SeenOnline
                                /\ metric = "usage" => ~(SeenOnline /\ stat.hot)
<1> DEFINE pruning == [timer EXCEPT !.at = "prune"]
<1>1. /\ timer \in Timer /\ timer.now \in Time /\ reporter \in Reporter
      /\ stat \in [online : BOOLEAN, hot : BOOLEAN, notify : BOOLEAN]
      /\ metric \in {"offline", "usage"}
  BY DEF TypeOK, Timer
<1>2. /\ timer.at = "read" /\ timer' = [timer EXCEPT !.at = "prune", !.now = 0]
      /\ stat' = [stat EXCEPT !.online = SeenOnline]
      /\ reporter' = Stale(reporter, alert' # alert)
      /\ alerted' = IF metric = "offline" /\ Marked(alert, alert', timer.now)
                    THEN timer.now ELSE alerted
      /\ cool' = IF metric = "usage" /\ SeenOnline /\ ~stat.hot THEN timer.now ELSE cool
      /\ muted' = IF PassedOver THEN muted \/ metric = "usage"
                  ELSE muted /\ IF metric = "offline" THEN ~SeenOnline ELSE SeenOnline /\ stat.hot
      /\ alert' = IF PassedOver THEN alert
                  ELSE IF metric = "offline" THEN OfflineRule(SeenOnline, timer.now)
                  ELSE UsageRule(SeenOnline, timer.now)
  BY DEF Evaluate, SeenOnline, PassedOver
<1>3. stat'.online = SeenOnline /\ SeenOnline \in BOOLEAN
  BY <1>1, <1>2 DEF SeenOnline
<1>4. timer'.at = "prune" /\ timer'.now = 0
  <2>1. pruning \in [at : {"prune"}, now : Time, fresh : BOOLEAN, active : BOOLEAN]
    BY <1>1 DEF Timer
  <2>2. [pruning EXCEPT !.now = 0].at = "prune" /\ [pruning EXCEPT !.now = 0].now = 0
    BY <2>1
  <2>3. timer' = [pruning EXCEPT !.now = 0]
    BY <1>2
  <2> QED BY <2>2, <2>3
<1>5. reporter'.at = reporter.at /\ reporter'.now = reporter.now
  BY <1>1, <1>2, StaleThread
<1>6. muted /\ ~muted' => /\ ~PassedOver
                          /\ metric = "offline" => SeenOnline
                          /\ metric = "usage" => ~(SeenOnline /\ stat.hot)
  BY <1>2
<1>7. ~muted' => ~(PassedOver /\ metric = "usage")
  BY <1>2
<1>8. /\ PassedOver => alert' = alert
      /\ ~PassedOver /\ metric = "offline" => alert' = OfflineRule(SeenOnline, timer.now)
      /\ ~PassedOver /\ metric = "usage" => alert' = UsageRule(SeenOnline, timer.now)
  BY <1>2
<1> QED BY <1>1, <1>2, <1>3, <1>4, <1>5, <1>6, <1>7, <1>8

\* Evaluate by the offline rule.
LEMMA OfflineEvaluated ==
  ASSUME TypeOK, Evaluate, metric = "offline", ~PassedOver
  PROVE  LET running == alert # Absent /\ alert.since # 0 /\ known.latest < alert.since
         IN  /\ alert' \in AlertState
             /\ SeenOnline => alert' = Zero
             /\ ~SeenOnline =>
                  /\ alert'.since = timer.now \/ (running /\ alert'.since = alert.since)
                  /\ \/ /\ alert'.last = timer.now /\ running /\ alert'.since = alert.since
                        /\ alert.since + Duration <= timer.now
                        /\ alert.last = 0 \/ alert.last + Repeat < timer.now
                     \/ alert = Absent /\ alert'.last = 0
                     \/ alert # Absent /\ alert'.last = alert.last
<1>1. timer.now \in Time /\ alert' = OfflineRule(SeenOnline, timer.now)
  BY EvaluateResult
<1>2. CASE SeenOnline
  <2>1. SeenOnline = TRUE
    BY <1>2
  <2>2. alert' = OfflineRule(TRUE, timer.now)
    BY <1>1, <2>1
  <2> QED BY <1>1, <1>2, <2>2, OfflineRules
<1>3. CASE ~SeenOnline
  <2>1. SeenOnline = FALSE
    BY <1>3
  <2>2. alert' = OfflineRule(FALSE, timer.now)
    BY <1>1, <2>1
  <2> QED BY <1>1, <1>3, <2>2, OfflineRules
<1> QED BY <1>2, <1>3

\* Evaluate by a rule on a metric.
LEMMA UsageEvaluated ==
  ASSUME TypeOK, Evaluate, metric = "usage", ~PassedOver
  PROVE  LET running == alert # Absent /\ alert.since # 0
         IN  /\ alert' \in AlertState \cup {Absent}
             /\ ~SeenOnline => alert' = Absent
             /\ SeenOnline /\ ~stat.hot => alert' = Zero
             /\ SeenOnline /\ stat.hot =>
                  /\ alert'.since = timer.now \/ (running /\ alert'.since = alert.since)
                  /\ \/ /\ alert'.last = timer.now /\ running /\ alert'.since = alert.since
                        /\ alert.since + Duration <= timer.now /\ alert.last = 0
                     \/ alert = Absent /\ alert'.last = 0
                     \/ alert # Absent /\ alert'.last = alert.last
<1>1. timer.now \in Time /\ alert' = UsageRule(SeenOnline, timer.now)
  BY EvaluateResult
<1>2. CASE SeenOnline
  <2>1. SeenOnline = TRUE
    BY <1>2
  <2>2. alert' = UsageRule(TRUE, timer.now)
    BY <1>1, <2>1
  <2> QED BY <1>1, <1>2, <2>2, UsageRules
<1>3. CASE ~SeenOnline
  <2>1. SeenOnline = FALSE
    BY <1>3
  <2>2. alert' = UsageRule(FALSE, timer.now)
    BY <1>1, <2>1
  <2> QED BY <1>1, <1>3, <2>2, UsageRules
<1> QED BY <1>2, <1>3

\* The clock, and what was read of it.
LEMMA ClocksStep ==
  ASSUME TypeOK, Clocks, [Next]_vars
  PROVE  Clocks'
<1> USE TimesAssumption DEF Clocks, TypeOK, RuntimeState, Known, Time
<1>1. ASSUME Advance PROVE Clocks'
  BY <1>1 DEF Advance, Reporter, Timer
<1>2. ASSUME Stamp PROVE Clocks'
  BY <1>2 DEF Stamp
<1>3. ASSUME StartTick PROVE Clocks'
  BY <1>3 DEF StartTick
<1>4. ASSUME Evaluate PROVE Clocks'
  <2>1. /\ timer'.at = "prune" /\ reporter'.at = reporter.at /\ reporter'.now = reporter.now
        /\ cool' = cool \/ (cool' = timer.now /\ timer.at = "read")
    <3> HIDE DEF Clocks, TypeOK
    <3> QED BY <1>4, EvaluateResult
  <2> QED BY <1>4, <2>1 DEF Evaluate
<1>5. ASSUME Prune PROVE Clocks'
  <2>1. /\ timer'.at # "read" /\ reporter'.at = reporter.at /\ reporter'.now = reporter.now
    BY <1>5, StaleThread DEF Prune, TimerIdle
  <2> QED BY <1>5, <2>1 DEF Prune
<1>6. ASSUME NEW moment \in Time, Restart(moment) PROVE Clocks'
  BY <1>6 DEF Restart, Idle, TimerIdle
<1>7. ASSUME NEW newEnabled \in BOOLEAN, NEW newNotify \in BOOLEAN,
             SaveSettings(newEnabled, newNotify)
      PROVE  Clocks'
  BY <1>7 DEF SaveSettings
<1>8. ASSUME NEW hot \in BOOLEAN, NEW due \in BOOLEAN, Record(hot, due) PROVE Clocks'
  <2>1. timer'.at = timer.at /\ timer'.now = timer.now
    BY <1>8, StaleThread DEF Record
  <2>2. reporter'.at # "stamped" /\ known'.latest = reporter.now
    BY <1>8 DEF Record, Idle
  <2>3. /\ reporter.at = "stamped" /\ heard' = reporter.now
        /\ UNCHANGED <<clock, cool, file>>
    BY <1>8 DEF Record
  <2>4. reporter.now \in Nat /\ file.known.latest \in Nat /\ known.latest \in Nat
    BY DEF Reporter
  <2> HIDE DEF TypeOK
  <2> QED BY <2>1, <2>2, <2>3, <2>4
<1>9. ASSUME NEW published \in BOOLEAN, SaveRecovery(published) PROVE Clocks'
  BY <1>9 DEF SaveRecovery, SaveOutcome, Idle
<1>10. ASSUME NEW published \in BOOLEAN, SaveAlerts(published) PROVE Clocks'
  BY <1>10 DEF SaveAlerts, SaveOutcome, TimerIdle
<1>11. ASSUME UNCHANGED vars PROVE Clocks'
  BY <1>11 DEF vars
<1> HIDE DEF Clocks, TypeOK, RuntimeState, Known, Time
<1> QED BY <1>1, <1>2, <1>3, <1>4, <1>5, <1>6, <1>7, <1>8, <1>9, <1>10, <1>11 DEF Next

\* The count of an outage begins after every report that was heard.
LEMMA CountingStep ==
  ASSUME TypeOK, Clocks, Counting, [Next]_vars
  PROVE  Counting'
<1> USE TimesAssumption
    DEF Counting, Clocks, TypeOK, RuntimeState, Known, AlertState, Time
<1>1. ASSUME Advance PROVE Counting'
  BY <1>1 DEF Advance
<1>2. ASSUME Stamp PROVE Counting'
  BY <1>2 DEF Stamp
<1>3. ASSUME StartTick PROVE Counting'
  BY <1>3 DEF StartTick
<1>4. ASSUME Evaluate PROVE Counting'
  <2>1. timer.at = "read" /\ timer.now \in Time /\ timer'.at = "prune"
    <3> HIDE DEF Counting, Clocks, TypeOK, Time
    <3> QED BY <1>4, EvaluateResult
  <2>2. metric = "offline" =>
          \/ alert' = alert \/ alert' = Zero
          \/ /\ alert' \in AlertState
             /\ alert'.since = timer.now \/ (alert # Absent /\ alert'.since = alert.since)
    <3> HIDE DEF Counting, Clocks, TypeOK, Time, AlertState
    <3> QED BY <1>4, EvaluateResult, OfflineEvaluated
  <2>3. UNCHANGED <<metric, lossy, heard, known>>
    BY <1>4 DEF Evaluate
  <2> QED BY <2>1, <2>2, <2>3 DEF Zero
<1>5. ASSUME Prune PROVE Counting'
  BY <1>5 DEF Prune, TimerIdle
<1>6. ASSUME NEW moment \in Time, Restart(moment) PROVE Counting'
  <2>1. /\ UNCHANGED metric /\ timer'.at # "read" /\ alert' = file.alert /\ heard' = heard
        /\ ~lossy' => ~lossy /\ file.alert = alert /\ ~Outdated
    BY <1>6 DEF Restart, TimerIdle
  <2>2. ~Outdated => alert = Absent \/ alert.since = 0 \/ heard <= alert.since
    BY DEF Outdated
  <2> QED BY <2>1, <2>2
<1>7. ASSUME NEW newEnabled \in BOOLEAN, NEW newNotify \in BOOLEAN,
             SaveSettings(newEnabled, newNotify)
      PROVE  Counting'
  BY <1>7 DEF SaveSettings
<1>8. ASSUME NEW hot \in BOOLEAN, NEW due \in BOOLEAN, Record(hot, due) PROVE Counting'
  BY <1>8 DEF Record
<1>9. ASSUME NEW published \in BOOLEAN, SaveRecovery(published) PROVE Counting'
  BY <1>9 DEF SaveRecovery, SaveOutcome
<1>10. ASSUME NEW published \in BOOLEAN, SaveAlerts(published) PROVE Counting'
  BY <1>10 DEF SaveAlerts, SaveOutcome, TimerIdle
<1>11. ASSUME UNCHANGED vars PROVE Counting'
  BY <1>11 DEF vars
<1> HIDE DEF Counting, Clocks, TypeOK, RuntimeState, Known, AlertState, Time
<1> QED BY <1>1, <1>2, <1>3, <1>4, <1>5, <1>6, <1>7, <1>8, <1>9, <1>10, <1>11 DEF Next

\* The mark of an announcement stays.
LEMMA MarksStep ==
  ASSUME TypeOK, Marks, [Next]_vars
  PROVE  Marks'
<1> USE TimesAssumption DEF Marks, TypeOK, RuntimeState, Known, AlertState, Time
<1>1. ASSUME Advance PROVE Marks'
  BY <1>1 DEF Advance
<1>2. ASSUME Stamp PROVE Marks'
  BY <1>2 DEF Stamp
<1>3. ASSUME StartTick PROVE Marks'
  BY <1>3 DEF StartTick
<1>4. ASSUME Evaluate PROVE Marks'
  <2>1. /\ timer.now \in Time /\ stat'.online = SeenOnline
        /\ alerted' = IF metric = "offline" /\ Marked(alert, alert', timer.now)
                      THEN timer.now ELSE alerted
    <3> HIDE DEF Marks, TypeOK, Time
    <3> QED BY <1>4, EvaluateResult
  <2>2. metric = "offline" =>
          \/ alert' = alert
          \/ SeenOnline /\ alert' = Zero
          \/ /\ ~SeenOnline /\ alert' \in AlertState
             /\ \/ alert'.last = timer.now
                \/ alert = Absent
                \/ alert # Absent /\ alert'.last = alert.last
    <3> HIDE DEF Marks, TypeOK, Time, AlertState
    <3> QED BY <1>4, EvaluateResult, OfflineEvaluated
  <2>3. UNCHANGED <<metric, lossy>> /\ (~stat.online => ~SeenOnline)
    BY <1>4 DEF Evaluate, SeenOnline
  <2> QED BY <2>1, <2>2, <2>3, AbsentAssumption DEF Zero, Marked
<1>5. ASSUME Prune PROVE Marks'
  BY <1>5 DEF Prune
<1>6. ASSUME NEW moment \in Time, Restart(moment) PROVE Marks'
  BY <1>6 DEF Restart, Outdated
<1>7. ASSUME NEW newEnabled \in BOOLEAN, NEW newNotify \in BOOLEAN,
             SaveSettings(newEnabled, newNotify)
      PROVE  Marks'
  BY <1>7 DEF SaveSettings
<1>8. ASSUME NEW hot \in BOOLEAN, NEW due \in BOOLEAN, Record(hot, due) PROVE Marks'
  BY <1>8 DEF Record, AlertAfterReport
<1>9. ASSUME NEW published \in BOOLEAN, SaveRecovery(published) PROVE Marks'
  BY <1>9 DEF SaveRecovery, SaveOutcome
<1>10. ASSUME NEW published \in BOOLEAN, SaveAlerts(published) PROVE Marks'
  BY <1>10 DEF SaveAlerts, SaveOutcome
<1>11. ASSUME UNCHANGED vars PROVE Marks'
  BY <1>11 DEF vars
<1> HIDE DEF Marks, TypeOK, RuntimeState, Known, AlertState, Time
<1> QED BY <1>1, <1>2, <1>3, <1>4, <1>5, <1>6, <1>7, <1>8, <1>9, <1>10, <1>11 DEF Next

\* The count of an excursion begins after every reading below the threshold.
LEMMA ExcursionStep ==
  ASSUME TypeOK, Clocks, Excursion, [Next]_vars
  PROVE  Excursion'
<1> USE TimesAssumption
    DEF Excursion, Clocks, TypeOK, RuntimeState, Known, AlertState, Time
<1>1. ASSUME Advance PROVE Excursion'
  BY <1>1 DEF Advance
<1>2. ASSUME Stamp PROVE Excursion'
  BY <1>2 DEF Stamp
<1>3. ASSUME StartTick PROVE Excursion'
  BY <1>3 DEF StartTick
<1>4. ASSUME Evaluate PROVE Excursion'
  <2>1. /\ timer.at = "read" /\ timer.now \in Time
        /\ cool' = IF metric = "usage" /\ SeenOnline /\ ~stat.hot THEN timer.now ELSE cool
    <3> HIDE DEF Excursion, Clocks, TypeOK, Time
    <3> QED BY <1>4, EvaluateResult
  <2>2. CASE PassedOver
    <3>1. alert' = alert /\ (metric = "usage" => muted')
      <4> HIDE DEF Excursion, Clocks, TypeOK, Time
      <4> QED BY <1>4, <2>2, EvaluateResult
    <3>2. UNCHANGED <<metric, lossy>>
      BY <1>4 DEF Evaluate
    <3> QED BY <3>1, <3>2
  <2>3. CASE ~PassedOver
    <3>1. metric = "usage" =>
            \/ alert' = Absent \/ alert' = Zero
            \/ /\ SeenOnline /\ stat.hot
               /\ alert'.since = timer.now \/ (alert # Absent /\ alert'.since = alert.since)
      <4> HIDE DEF Excursion, Clocks, TypeOK, Time, AlertState
      <4> QED BY <1>4, <2>3, UsageEvaluated
    <3>2. muted /\ ~muted' => (metric = "usage" => ~(SeenOnline /\ stat.hot))
      <4> HIDE DEF Excursion, Clocks, TypeOK, Time, AlertState
      <4> QED BY <1>4, EvaluateResult
    <3>3. UNCHANGED <<metric, lossy>>
      BY <1>4 DEF Evaluate
    <3> QED BY <2>1, <3>1, <3>2, <3>3 DEF Zero
  <2> QED BY <2>2, <2>3
<1>5. ASSUME Prune PROVE Excursion'
  BY <1>5 DEF Prune
<1>6. ASSUME NEW moment \in Time, Restart(moment) PROVE Excursion'
  <2>1. /\ UNCHANGED <<metric, cool, muted>> /\ alert' = file.alert
        /\ ~lossy' => ~lossy /\ file.alert = alert
    BY <1>6 DEF Restart
  <2> QED BY <2>1
<1>7. ASSUME NEW newEnabled \in BOOLEAN, NEW newNotify \in BOOLEAN,
             SaveSettings(newEnabled, newNotify)
      PROVE  Excursion'
  BY <1>7 DEF SaveSettings
<1>8. ASSUME NEW hot \in BOOLEAN, NEW due \in BOOLEAN, Record(hot, due)
      PROVE  Excursion'
  <2>1. /\ UNCHANGED <<metric, lossy, cool>>
        /\ metric = "usage" => alert' = alert
        /\ ~muted' => ~muted
    BY <1>8 DEF Record, AlertAfterReport
  <2> QED BY <2>1
<1>9. ASSUME NEW published \in BOOLEAN, SaveRecovery(published) PROVE Excursion'
  BY <1>9 DEF SaveRecovery, SaveOutcome
<1>10. ASSUME NEW published \in BOOLEAN, SaveAlerts(published) PROVE Excursion'
  BY <1>10 DEF SaveAlerts, SaveOutcome
<1>11. ASSUME UNCHANGED vars PROVE Excursion'
  BY <1>11 DEF vars
<1> HIDE DEF Excursion, Clocks, TypeOK, RuntimeState, Known, AlertState, Time
<1> QED BY <1>1, <1>2, <1>3, <1>4, <1>5, <1>6, <1>7, <1>8, <1>9, <1>10, <1>11 DEF Next

\* A report that comes while an alert is marked as sent finds the outage over.
LEMMA UnansweredStep ==
  ASSUME Threshold + Delay <= Duration, TypeOK, Clocks, Unanswered, [Next]_vars
  PROVE  Unanswered'
<1> USE TimesAssumption
    DEF Unanswered, Clocks, TypeOK, RuntimeState, Known, AlertState, Time
<1>1. ASSUME Advance PROVE Unanswered'
  BY <1>1 DEF Advance
<1>2. ASSUME Stamp PROVE Unanswered'
  BY <1>2 DEF Stamp
<1>3. ASSUME StartTick PROVE Unanswered'
  BY <1>3 DEF StartTick
<1>4. ASSUME Evaluate PROVE Unanswered'
  <2> DEFINE running == alert # Absent /\ alert.since # 0 /\ known.latest < alert.since
  <2>1. /\ timer.at = "read" /\ timer.now \in Time /\ stat'.online = SeenOnline
        /\ reporter'.at = reporter.at /\ reporter'.now = reporter.now
    <3> HIDE DEF Unanswered, Clocks, TypeOK, Time
    <3> QED BY <1>4, EvaluateResult
  <2>2. metric = "offline" =>
          \/ alert' = alert /\ PassedOver
          \/ SeenOnline /\ alert' = Zero
          \/ /\ ~SeenOnline /\ alert' \in AlertState
             /\ \/ running /\ alert.since + Duration <= timer.now
                \/ alert = Absent /\ alert'.last = 0
                \/ alert # Absent /\ alert'.last = alert.last
    <3> HIDE DEF Unanswered, Clocks, TypeOK, Time, AlertState
    <3> QED BY <1>4, EvaluateResult, OfflineEvaluated
  <2>3. UNCHANGED <<metric, lossy, known, clock>> /\ (~stat.online => ~SeenOnline)
    BY <1>4 DEF Evaluate, SeenOnline
  <2>4. running /\ alert.since + Duration <= timer.now =>
          /\ known.latest + Threshold < clock
          /\ reporter.at = "stamped" => known.latest + Threshold < reporter.now
    BY <2>1 DEF Reporter
  <2>5. metric = "offline" /\ muted /\ ~muted' => ~PassedOver /\ SeenOnline
    <3> HIDE DEF Unanswered, Clocks, TypeOK, Time, AlertState
    <3> QED BY <1>4, EvaluateResult
  <2> HIDE DEF running
  <2> QED BY <2>1, <2>2, <2>3, <2>4, <2>5 DEF Zero
<1>5. ASSUME Prune PROVE Unanswered'
  <2>1. reporter'.at = reporter.at /\ reporter'.now = reporter.now
    BY <1>5, StaleThread DEF Prune
  <2> QED BY <1>5, <2>1 DEF Prune
<1>6. ASSUME NEW moment \in Time, Restart(moment) PROVE Unanswered'
  <2>0. stat'.online = FALSE
    BY <1>6 DEF Restart
  <2>1. /\ UNCHANGED <<metric, muted>> /\ alert' = file.alert /\ known' = file.known
        /\ ~lossy' => ~lossy /\ file.alert = alert
    BY <1>6 DEF Restart
  <2>2. clock <= clock' /\ clock' \in Nat /\ reporter'.at = "idle"
    BY <1>6 DEF Restart, Idle
  <2> QED BY <2>0, <2>1, <2>2
<1>7. ASSUME NEW newEnabled \in BOOLEAN, NEW newNotify \in BOOLEAN,
             SaveSettings(newEnabled, newNotify)
      PROVE  Unanswered'
  BY <1>7 DEF SaveSettings
<1>8. ASSUME NEW hot \in BOOLEAN, NEW due \in BOOLEAN, Record(hot, due)
      PROVE  Unanswered'
  <2>1. /\ UNCHANGED <<metric, lossy, clock>> /\ reporter.at = "stamped"
        /\ alert' = AlertAfterReport
        /\ metric = "offline" /\ ~muted' => ~muted /\ notify /\ enabled
    BY <1>8 DEF Record
  <2>2. metric = "offline" /\ ~lossy /\ ~muted' => alert' = Absent \/ alert'.last = 0
    BY <2>1 DEF AlertAfterReport, Zero
  <2> QED BY <2>1, <2>2
<1>9. ASSUME NEW published \in BOOLEAN, SaveRecovery(published) PROVE Unanswered'
  BY <1>9 DEF SaveRecovery, SaveOutcome, Idle
<1>10. ASSUME NEW published \in BOOLEAN, SaveAlerts(published) PROVE Unanswered'
  BY <1>10 DEF SaveAlerts, SaveOutcome
<1>11. ASSUME UNCHANGED vars PROVE Unanswered'
  BY <1>11 DEF vars
<1> HIDE DEF Unanswered, Clocks, TypeOK, RuntimeState, Known, AlertState, Time
<1> QED BY <1>1, <1>2, <1>3, <1>4, <1>5, <1>6, <1>7, <1>8, <1>9, <1>10, <1>11 DEF Next

----------------------------------------------------------------------------
(* What an alert says.                                                     *)

\* Only the timer's evaluation sends alerts, and what it sends is due.
LEMMA EnqueuedIsDue ==
  ASSUME TypeOK, Clocks, [Next]_vars, Enqueued
  PROVE  /\ alert # Absent /\ alert.since \in Nat /\ alert.since # 0
         /\ timer.at = "read" /\ timer.now \in Nat
         /\ alert.since + Duration <= timer.now
         /\ metric = "offline" => /\ known.latest < alert.since
                                  /\ alert.last = 0 \/ alert.last + Repeat < timer.now
<1>1. timer.at = "read" /\ timer'.at = "prune"
  BY DEF Enqueued
<1>2. Evaluate
  <2>1. ~Advance /\ ~Stamp /\ ~(UNCHANGED vars)
    BY <1>1 DEF Advance, Stamp, vars
  <2>2. ~StartTick /\ ~Prune
    BY <1>1 DEF StartTick, Prune
  <2>3. ASSUME NEW moment \in Time, Restart(moment) PROVE FALSE
    BY <1>1, <2>3 DEF Restart, TimerIdle
  <2>4. ASSUME NEW newEnabled, NEW newNotify, SaveSettings(newEnabled, newNotify) PROVE FALSE
    BY <1>1, <2>4 DEF SaveSettings
  <2>5. ASSUME NEW hot, NEW due, Record(hot, due) PROVE FALSE
    BY <1>1, <2>5, StaleThread DEF Record, TypeOK
  <2>6. ASSUME NEW published, SaveRecovery(published) PROVE FALSE
    BY <1>1, <2>6 DEF SaveRecovery
  <2>7. ASSUME NEW published, SaveAlerts(published) PROVE FALSE
    BY <1>1, <2>7 DEF SaveAlerts
  <2> QED BY <2>1, <2>2, <2>3, <2>4, <2>5, <2>6, <2>7 DEF Next
<1>3. timer.now > 0 /\ timer.now \in Nat /\ timer.now \in Time
  BY <1>1 DEF TypeOK, Timer, Time, Clocks
<1>4. alert' # Absent /\ alert'.last = timer.now /\ (alert = Absent \/ alert.last # timer.now)
  BY DEF Enqueued, Marked
<1>5. alert' # alert
  BY <1>4
<1>6. ~PassedOver
  BY <1>2, <1>5, EvaluateResult
<1>7. metric \in {"offline", "usage"} /\ (alert # Absent => alert \in AlertState)
  BY DEF TypeOK, RuntimeState
<1>8. alert # Absent => alert.since \in Nat
  BY <1>7 DEF AlertState, Time
<1>9. CASE metric = "offline"
  <2>1. ~SeenOnline
    <3>1. Zero.last = 0
      BY DEF Zero
    <3> QED BY <1>2, <1>3, <1>4, <1>6, <1>9, <3>1, OfflineEvaluated
  <2> QED BY <1>1, <1>2, <1>3, <1>4, <1>6, <1>8, <1>9, <2>1, OfflineEvaluated
<1>10. CASE metric = "usage"
  <2>1. SeenOnline /\ stat.hot
    <3>1. Zero.last = 0
      BY DEF Zero
    <3> QED BY <1>2, <1>3, <1>4, <1>6, <1>10, <3>1, UsageEvaluated
  <2> QED BY <1>1, <1>2, <1>3, <1>4, <1>6, <1>8, <1>10, <2>1, UsageEvaluated
<1> QED BY <1>7, <1>9, <1>10

----------------------------------------------------------------------------
(* The runtime store behind it, as in HostLifecycleProofs: SavingCell is   *)
(* what a thread that saves sees of the store, and RuntimeStateStore       *)
(* implements it (RuntimeStateStoreProofs).                                *)

Saver == {"reporter", "timer"}

Held(t) ==
    IF t.at # "save" THEN "nothing" ELSE IF t.fresh THEN "current" ELSE "superseded"

Saving == INSTANCE SavingCell WITH
              Value <- RuntimeState, NoFile <- Absent, Initial <- Absent,
              value <- [known |-> known, alert |-> alert], cell <- file,
              recoverable <- {file}, up <- TRUE,
              saver <- [p \in Saver |-> Held(IF p = "timer" THEN timer ELSE reporter)]

\* The flags of both threads at once.
LEMMA Flags ==
  [p \in Saver |-> Held(IF p = "timer" THEN timer ELSE reporter)]'
    = [p \in Saver |-> IF p = "timer" THEN Held(timer)' ELSE Held(reporter)']
  BY DEF Held

\* What a change does to a thread that is saving is what it does to its flag.
LEMMA StaleHeld ==
  ASSUME NEW t \in Reporter \cup Timer, NEW changed \in BOOLEAN
  PROVE  Held(Stale(t, changed))
           = IF changed /\ Held(t) = "current" THEN "superseded" ELSE Held(t)
<1>1. /\ Stale(t, changed).at = t.at
      /\ changed => ~Stale(t, changed).fresh
      /\ ~changed => Stale(t, changed).fresh = t.fresh
  <2>1. CASE changed
    BY <2>1 DEF Stale, Reporter, Timer
  <2>2. CASE ~changed
    BY <2>2 DEF Stale, Reporter, Timer
  <2> QED BY <2>1, <2>2
<1> QED BY <1>1 DEF Held

\* Every step changes, serializes, publishes or returns as SavingCell allows,
\* or does not touch the runtime state and its file.
LEMMA SavingStep ==
  ASSUME TypeOK, TypeOK', [Next]_vars
  PROVE  [Saving!Next]_Saving!vars
<1> DEFINE Goal == [Saving!Next]_Saving!vars
<1>1. ASSUME UNCHANGED <<known, alert, file>>, Held(timer)' = Held(timer),
             Held(reporter)' = Held(reporter)
      PROVE  Goal
  BY <1>1, Flags DEF Saving!vars
<1>2. /\ \A p \in Saver : Saving!Serialize(p) \/ Saving!Publish(p) \/ Saving!Return(p) => Goal
      /\ Saving!Change \/ Saving!Restart => Goal
  BY DEF Saving!Next
<1>3. [known |-> known, alert |-> alert]' \in RuntimeState /\ file \in RuntimeState
  BY DEF TypeOK
<1> HIDE DEF Goal
<1>4. ASSUME Advance \/ \E e, n \in BOOLEAN : SaveSettings(e, n) PROVE Goal
  BY <1>1, <1>4 DEF Advance, SaveSettings, Held
<1>5. ASSUME Stamp \/ StartTick PROVE Goal
  BY <1>1, <1>5 DEF Stamp, StartTick, Held
<1>6. ASSUME NEW hot \in BOOLEAN, NEW due \in BOOLEAN, Record(hot, due) PROVE Goal
  <2>1. /\ Held(timer)' = IF Held(timer) = "current" THEN "superseded" ELSE Held(timer)
        /\ Held(reporter) = "nothing" /\ UNCHANGED file
    BY <1>6, StaleHeld DEF Record, Held, TypeOK
  <2>2. Saving!Moves(TRUE)
    BY <1>3 DEF Saving!Moves
  <2>3. Held(reporter)' \in {"nothing", "current"}
    BY <1>6 DEF Record, Held, Idle
  <2>4. CASE Held(reporter)' = "nothing"
    <3>1. Saving!Change
      BY <2>1, <2>2, <2>4, Flags DEF Saving!Change, Saving!Left, Saver
    <3> QED BY <1>2, <3>1
  <2>5. CASE Held(reporter)' = "current"
    <3>1. Saving!Serialize("reporter")
      BY <2>1, <2>2, <2>5, Flags DEF Saving!Serialize, Saving!Left, Saver
    <3> QED BY <1>2, <3>1 DEF Saver
  <2> QED BY <2>3, <2>4, <2>5
<1>7. ASSUME Evaluate PROVE Goal
  <2>1. /\ Held(timer)' = "nothing" /\ Held(timer) = "nothing"
        /\ Held(reporter)' = "nothing" /\ Held(reporter) = "nothing" /\ UNCHANGED file
    BY <1>7 DEF Evaluate, Stale, Held, TypeOK, Timer, Reporter
  <2>2. Saving!Moves(TRUE)
    BY <1>3 DEF Saving!Moves
  <2>3. Saving!Change
    BY <2>1, <2>2, Flags DEF Saving!Change, Saving!Left, Saver
  <2> QED BY <1>2, <2>3
<1>8. ASSUME Prune PROVE Goal
  <2> DEFINE changed == alert' # alert
  <2>1. /\ Held(reporter)' = IF changed /\ Held(reporter) = "current" THEN "superseded"
                             ELSE Held(reporter)
        /\ Held(timer) = "nothing" /\ UNCHANGED file
    <3>1. reporter' = Stale(reporter, changed) /\ changed \in BOOLEAN
      BY <1>8 DEF Prune
    <3> HIDE DEF changed
    <3> QED BY <1>8, <3>1, StaleHeld DEF Prune, Held, TypeOK
  <2>2. Saving!Moves(changed) /\ changed \in BOOLEAN
    BY <1>3, <1>8 DEF Saving!Moves, Prune
  <2>3. Held(timer)' \in {"nothing", "current"}
    BY <1>8 DEF Prune, Held, TimerIdle
  <2> HIDE DEF changed
  <2>4. CASE Held(timer)' = "nothing"
    <3>1. Saving!Change
      BY <2>1, <2>2, <2>4, Flags DEF Saving!Change, Saving!Left, Saver
    <3> QED BY <1>2, <3>1
  <2>5. CASE Held(timer)' = "current"
    <3>1. Saving!Serialize("timer")
      BY <2>1, <2>2, <2>5, Flags DEF Saving!Serialize, Saving!Left, Saver
    <3> QED BY <1>2, <3>1 DEF Saver
  <2> QED BY <2>3, <2>4, <2>5
<1>9. ASSUME NEW p \in BOOLEAN, SaveRecovery(p) PROVE Goal
  <2>1. /\ Held(reporter)' = "nothing" /\ Held(reporter) # "nothing" /\ Held(timer)' = Held(timer)
        /\ UNCHANGED <<known, alert>>
    BY <1>9 DEF SaveRecovery, Held, Idle
  <2>2. \/ Held(reporter) = "current" /\ file' = [known |-> known, alert |-> alert]
        \/ UNCHANGED file
    BY <1>9 DEF SaveRecovery, SaveOutcome, Held
  <2>3. Saving!Publish("reporter") \/ Saving!Return("reporter")
    BY <2>1, <2>2, Flags DEF Saving!Publish, Saving!Return, Saving!Returned, Saver
  <2> QED BY <1>2, <2>3 DEF Saver
<1>10. ASSUME NEW p \in BOOLEAN, SaveAlerts(p) PROVE Goal
  <2>1. /\ Held(timer)' = "nothing" /\ Held(timer) # "nothing" /\ Held(reporter)' = Held(reporter)
        /\ UNCHANGED <<known, alert>>
    BY <1>10 DEF SaveAlerts, Held, TimerIdle
  <2>2. \/ Held(timer) = "current" /\ file' = [known |-> known, alert |-> alert]
        \/ UNCHANGED file
    BY <1>10 DEF SaveAlerts, SaveOutcome, Held
  <2>3. Saving!Publish("timer") \/ Saving!Return("timer")
    BY <2>1, <2>2, Flags DEF Saving!Publish, Saving!Return, Saving!Returned, Saver
  <2> QED BY <1>2, <2>3 DEF Saver
<1>11. ASSUME NEW moment \in Time, Restart(moment) PROVE Goal
  <2>1. Held(timer)' = "nothing" /\ Held(reporter)' = "nothing" /\ UNCHANGED file
    BY <1>11 DEF Restart, Held, Idle, TimerIdle
  <2>2. [known |-> known, alert |-> alert]' = file
    BY <1>11, <1>3 DEF Restart, RuntimeState
  <2>3. Saving!Restart
    BY <2>1, <2>2, <1>3, Flags DEF Saving!Restart, Saving!Loads, Saving!Resting
  <2> QED BY <1>2, <2>3
<1>12. ASSUME UNCHANGED vars PROVE Goal
  BY <1>1, <1>12 DEF vars, Held
<1>13. Goal
  BY <1>4, <1>5, <1>6, <1>7, <1>8, <1>9, <1>10, <1>11, <1>12 DEF Next
<1> QED BY <1>13 DEF Goal

----------------------------------------------------------------------------
(* Theorems.                                                               *)

\* The invariant, from the initial state through every step.
THEOREM AlertInvariant == Spec => []Inv
<1>1. Init => Inv
  <2> SUFFICES ASSUME Init PROVE Inv
    OBVIOUS
  <2>1. 0 \in Time /\ 1 \in Time
    BY TimesAssumption DEF Time
  <2>2. TypeOK
    BY <2>1, ThreadsAtRest DEF Init, TypeOK, RuntimeState, Known
  <2>3. Clocks
    BY DEF Init, Clocks, Idle, TimerIdle
  <2>4. Counting /\ Marks /\ Excursion
    BY DEF Init, Counting, Marks, Excursion
  <2> QED BY <2>2, <2>3, <2>4 DEF Inv
<1>2. Inv /\ [Next]_vars => Inv'
  BY TypeStep, ClocksStep, CountingStep, MarksStep, ExcursionStep DEF Inv
<1> QED BY <1>1, <1>2, PTL DEF Spec

\* The variables keep their types: in particular an alert state never holds a
\* time that is beyond the clock's range.
THEOREM TypeCorrect == Spec => []TypeOK
<1>1. Inv => TypeOK
  BY DEF Inv
<1> QED BY <1>1, AlertInvariant, PTL

\* collect_alert_events and the restored runtime state: an offline alert is
\* about a server that nobody has heard of for the rule's duration.
THEOREM SilenceIsReal == Spec => AlertMeansSilent
<1>1. Inv /\ [Next]_vars
        => [Enqueued /\ metric = "offline" /\ ~lossy => heard + Duration <= timer.now]_vars
  <2> SUFFICES ASSUME Inv, [Next]_vars, Enqueued, metric = "offline", ~lossy
               PROVE  heard + Duration <= timer.now
    OBVIOUS
  <2>1. /\ alert # Absent /\ alert.since \in Nat /\ alert.since # 0 /\ timer.now \in Nat
        /\ alert.since + Duration <= timer.now /\ known.latest < alert.since
    BY EnqueuedIsDue DEF Inv
  <2>2. heard \in Nat /\ known.latest \in Nat /\ Duration \in Nat
    BY TimesAssumption DEF Inv, TypeOK, RuntimeState, Known, Time
  <2>3. heard = known.latest \/ heard <= alert.since
    BY <2>1 DEF Inv, Counting
  <2> QED BY <2>1, <2>2, <2>3
<1> QED BY <1>1, AlertInvariant, PTL DEF Spec, AlertMeansSilent

\* repeat_interval_secs, across restarts: the announcements of one silence are
\* more than a repeat interval apart.
THEOREM AnnouncementsApart == Spec => RepeatRespected
<1>1. Inv /\ [Next]_vars
        => [Enqueued /\ metric = "offline" /\ ~lossy /\ alerted # 0
              => alerted + Repeat < timer.now]_vars
  <2> SUFFICES ASSUME Inv, [Next]_vars, Enqueued, metric = "offline", ~lossy, alerted # 0
               PROVE  alerted + Repeat < timer.now
    OBVIOUS
  <2>1. alert.last = 0 \/ alert.last + Repeat < timer.now
    BY EnqueuedIsDue DEF Inv
  <2>2. alert.last = alerted
    BY DEF Inv, Marks
  <2> QED BY <2>1, <2>2
<1> QED BY <1>1, AlertInvariant, PTL DEF Spec, RepeatRespected

\* The rules on a metric: an alert is about an excursion that has lasted for
\* the rule's duration.
THEOREM ExcursionIsReal == Spec => UsageMeansHot
<1>1. Inv /\ [Next]_vars
        => [Enqueued /\ metric = "usage" /\ ~lossy /\ ~muted => cool + Duration <= timer.now]_vars
  <2> SUFFICES ASSUME Inv, [Next]_vars, Enqueued, metric = "usage", ~lossy, ~muted
               PROVE  cool + Duration <= timer.now
    OBVIOUS
  <2>1. /\ alert # Absent /\ alert.since \in Nat /\ alert.since # 0 /\ timer.now \in Nat
        /\ alert.since + Duration <= timer.now
    BY EnqueuedIsDue DEF Inv
  <2>2. cool \in Nat /\ Duration \in Nat
    BY TimesAssumption DEF Inv, TypeOK, Time
  <2>3. cool <= alert.since
    BY <2>1 DEF Inv, Excursion
  <2> QED BY <2>1, <2>2, <2>3
<1> QED BY <1>1, AlertInvariant, PTL DEF Spec, UsageMeansHot

\* take_offline_recovery_routes: whoever is told of an outage is told of its
\* end, if the rule waits for longer than a server takes to count as offline.
\* Without that a server that is restored offline can be announced and can
\* report again before the report path would call it an outage.
THEOREM RecoveryIsAnnounced ==
  ASSUME Threshold + Delay <= Duration
  PROVE  Spec => []RecoveryAnnounced
<1>1. Init => Unanswered
  BY DEF Init, Unanswered
<1>2. Inv /\ Unanswered /\ [Next]_vars => Unanswered'
  BY UnansweredStep DEF Inv
<1>3. Unanswered => RecoveryAnnounced
  BY DEF Unanswered, RecoveryAnnounced
<1> QED BY <1>1, <1>2, <1>3, AlertInvariant, PTL DEF Spec

\* The alerts' saves are saves of the runtime store as any thread sees it:
\* every step, restarts included, is one of SavingCell, which RuntimeStateStore
\* implements.  (The component starts with a file that is there.)
THEOREM SavesLikeTheStore == Spec => [][Saving!Next]_Saving!vars
<1>1. Inv /\ Inv' /\ [Next]_vars => [Saving!Next]_Saving!vars
  BY SavingStep DEF Inv
<1> QED BY <1>1, AlertInvariant, PTL DEF Spec
=============================================================================
