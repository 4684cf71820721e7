----------------------------- MODULE AdminPage -----------------------------
(***************************************************************************)
(* web/static/js/admin.js: the admin page between its user and the server. *)
(* The page holds a copy of the settings.  A gesture changes the copy and  *)
(* queues a save of all of it, or queues a save of one scope (a channel,   *)
(* the expiry reminders), which reads the settings, replaces that scope,   *)
(* and posts them.  Purges, logins and loads go past the queue.  A request *)
(* may be refused, fail before or after the server acted, or come back     *)
(* late; the user goes on meanwhile.                                       *)
(*                                                                         *)
(* Abstraction.  A host's override (and its places in groups and rules), a *)
(* server group or alert rule, and a scope are each one key, whose value   *)
(* is the number of the gesture that gave it.  state.deletedHosts and      *)
(* deleted_hosts, always assigned together, are one set.  The requests a   *)
(* load or a reload sends side by side are one.  At most one purge and one *)
(* login, load or change of credentials are on their way at a time.        *)
(***************************************************************************)
EXTENDS Naturals, Sequences

CONSTANTS
    Host,         \* ids of servers
    Configured,   \* those the server's configuration has
    Item,         \* server groups and alert rules
    Scope,        \* the parts of the settings that are saved by themselves
    Reloaded,     \* scopes that are read again once saved: the channels
    MaxGestures,  \* bound: changes the user makes
    MaxLogins,    \* bound: logins
    MaxFaults     \* bound: lost requests, agents that return, tokens that end

ASSUME HostAssumption == Configured \subseteq Host
ASSUME ScopeAssumption == Reloaded \subseteq Scope
ASSUME KeyAssumption == Host \cap Item = {} /\ Host \cap Scope = {} /\ Item \cap Scope = {}
ASSUME BoundAssumption == MaxGestures \in Nat /\ MaxLogins \in Nat \ {0} /\ MaxFaults \in Nat

Key == Host \cup Item \cup Scope
Settings == [value : [Key -> 0..MaxGestures], deleted : SUBSET Host]   \* 0: no entry

\* The queue's running transaction, a purge, and what begins or ends a session (a
\* login, the load that follows it, a change of credentials): each waits for
\* one answer at a time.
Sender == {"turn", "purge", "session"}

VARIABLES
    stored,      \* the server's settings
    reporting,   \* hosts whose agent reports to the server
    alive,       \* tokens the server accepts
    view,        \* what the page shows
    token,       \* state.token, 0 when there is none
    settings,    \* state.settings with state.deletedHosts
    rows,        \* hosts state.stats shows as online
    queue,       \* settings transactions, the running one first
    wire,        \* the request each sender waits for
    gestures,    \* how many changes the user made
    logins,      \* how often a login was accepted
    faults,      \* how often something outside the page went wrong
    latest,      \* history: the gesture that was last about a key
    acked,       \* history: keys whose latest gesture the server acknowledged
    exposed,     \* history: gestures that another answer may overwrite
    drift        \* history: the page missed something since it was loaded

server == <<stored, reporting, alive>>
page == <<view, token, settings, rows, queue>>
history == <<latest, acked, exposed, drift>>
vars == <<server, page, wire, gestures, logins, faults, history>>

Empty == [value |-> [k \in Key |-> 0], deleted |-> {}]
NoRequest == [at |-> "none", what |-> "none", token |-> 0, hosts |-> {},
              body |-> Empty, rows |-> {}]

\* at: sent, answered, failed or refused.  body: what is posted, then the answer.
Request(what, as, body) ==
    [at |-> "sent", what |-> what, token |-> as, hosts |-> {}, body |-> body, rows |-> {}]
Idle(s) == wire[s].at = "none"

----------------------------------------------------------------------------
(* The server, as far as the page sees it.                                 *)

\* normalize_admin_data
Normalize(s) == [value |-> [k \in Key |-> IF k \in s.deleted THEN 0 ELSE s.value[k]],
                 deleted |-> s.deleted]

WithoutHosts(s, hosts) ==
    [value |-> [k \in Key |-> IF k \in hosts THEN 0 ELSE s.value[k]],
     deleted |-> s.deleted \ hosts]

Put(s, key, n) == [value |-> [s.value EXCEPT ![key] = n], deleted |-> s.deleted]
Mark(s, h) == [value |-> s.value, deleted |-> s.deleted \cup {h}]
Unmark(s, h) == [value |-> s.value, deleted |-> s.deleted \ {h}]

Answer(s, body, shown) ==
    wire' = [wire EXCEPT ![s] = [at |-> "answered", what |-> @.what, token |-> @.token,
                                 hosts |-> @.hosts, body |-> body, rows |-> shown]]

\* A pending request whose token the server still accepts.
Authorised(s) == wire[s].at = "sent" /\ wire[s].token \in alive

ServeRead(s) ==
    /\ Authorised(s) /\ wire[s].what \in {"get", "reload", "stats", "load"}
    /\ Answer(s, stored, reporting \ stored.deleted)
    /\ UNCHANGED <<server, page, gestures, logins, faults, history>>

ServeSave ==
    /\ Authorised("turn") /\ wire["turn"].what = "save"
    /\ stored' = Normalize(wire["turn"].body)
    /\ Answer("turn", stored', {})
    /\ UNCHANGED <<reporting, alive, page, gestures, logins, faults, history>>

\* Clearing takes the markers the server has, whatever the page showed.
ServePurge ==
    /\ Authorised("purge")
    /\ stored' = WithoutHosts(stored, IF wire["purge"].what = "clear" THEN stored.deleted
                                                                     ELSE wire["purge"].hosts)
    /\ Answer("purge", stored', {})
    /\ UNCHANGED <<reporting, alive, page, gestures, logins, faults, history>>

ServePassword ==
    /\ Authorised("session") /\ wire["session"].what = "password"
    /\ alive' = {}
    /\ Answer("session", Empty, {})
    /\ UNCHANGED <<stored, reporting, page, gestures, logins, faults, history>>

ServeLogin ==
    /\ wire["session"].at = "sent" /\ wire["session"].what = "login"
    /\ logins' = logins + 1
    /\ alive' = alive \cup {logins'}
    /\ Answer("session", Empty, {})
    /\ UNCHANGED <<stored, reporting, page, gestures, faults, history>>

\* 401: the token is not valid, or it is a login with a wrong password.
Refuse(s) ==
    /\ wire[s].at = "sent" /\ (wire[s].what = "login" \/ wire[s].token \notin alive)
    /\ wire' = [wire EXCEPT ![s].at = "refused"]
    /\ UNCHANGED <<server, page, gestures, logins, faults, history>>

Fault == faults < MaxFaults /\ faults' = faults + 1

\* Another status, or no answer at all: what a served request did stays done.
Fail(s) ==
    /\ \/ wire[s].at = "sent" /\ UNCHANGED drift
       \/ /\ wire[s].at = "answered"
          /\ wire[s].what \in {"save", "purge", "clear", "password", "login"}
          /\ drift' = (drift \/ s \in {"turn", "purge"})
    /\ Fault
    /\ wire' = [wire EXCEPT ![s].at = "failed"]
    /\ UNCHANGED <<server, page, gestures, logins, latest, acked, exposed>>

\* The agent of a deleted host starts again, and its report takes the marker away.
AgentReturns(h) ==
    /\ h \notin reporting
    /\ Fault
    /\ reporting' = reporting \cup {h}
    /\ stored' = Unmark(stored, h)
    /\ drift' = (drift \/ h \in stored.deleted \/ \E s \in Sender : ~Idle(s))
    /\ UNCHANGED <<alive, page, wire, gestures, logins, latest, acked, exposed>>

TokensExpire ==
    /\ alive # {} /\ alive' = {}
    /\ Fault
    /\ UNCHANGED <<stored, reporting, page, wire, gestures, logins, history>>

----------------------------------------------------------------------------
(* The queue of settings transactions.                                     *)

\* op: what the gesture did.  undo: what the page goes back to if it fails.
\* shared: other transactions were queued before it.
Transaction(op, key, undo) ==
    [n |-> gestures + 1, op |-> op, key |-> key, undo |-> undo, shared |-> queue # <<>>]
Undoable(t) == t.op \in {"duplicate", "delete"}
Scoped(t) == t.op \in {"scope", "reset"}

\* What a transaction sends first: the page's settings as they are by then, or
\* a question for the server's.
FirstRequest(t, copy, as) ==
    IF Scoped(t) THEN Request("get", as, Empty) ELSE Request("save", as, copy)

\* tail.then: an idle queue starts the transaction before any other event.
Started(q, copy, as) == IF q = <<>> THEN NoRequest ELSE FirstRequest(Head(q), copy, as)

Pending == {queue[i].n : i \in DOMAIN queue}

Enqueue(t, copy) ==
    /\ queue' = Append(queue, t)
    /\ wire' = IF queue = <<>> THEN [wire EXCEPT !["turn"] = FirstRequest(t, copy, token)]
                               ELSE wire

\* Answers under way that replace the page's settings, or may take them back;
\* or the server is one that the page lists by an older answer than the one it
\* is marked as deleted by: the marker goes with the change, and wipes it out.
Exposing(key) ==
    \/ drift \/ ~Idle("purge") \/ key \in rows \cap settings.deleted
    \/ (wire["turn"].what = "save" /\ ~Scoped(Head(queue)))
    \/ \E i \in DOMAIN queue : Undoable(queue[i])

Gesture(op, key, copy) ==
    /\ view = "dashboard" /\ gestures < MaxGestures
    /\ gestures' = gestures + 1
    /\ settings' = copy
    /\ Enqueue(Transaction(op, key, IF op \in {"duplicate", "delete"} THEN settings ELSE Empty),
               copy)
    /\ latest' = [latest EXCEPT ![key] = gestures']
    /\ acked' = acked \ {key}
    /\ exposed' = IF Exposing(key) THEN exposed \cup {gestures'} ELSE exposed
    /\ drift' = (drift \/ ~Idle("purge"))
    /\ UNCHANGED <<server, view, token, rows, logins, faults>>

\* serverItems: what the page lists.
Known(h) == h \in Configured \cup rows \/ settings.value[h] # 0
Listed(h) == Known(h) /\ (h \in rows \/ h \notin settings.deleted)

EditServer(h) == Listed(h) /\ Gesture("edit", h, Put(settings, h, gestures + 1))

\* nextServerId: an id that nothing the page knows of has.
DuplicateServer(h, new) ==
    /\ Listed(h) /\ ~Known(new)
    /\ Gesture("duplicate", new, Unmark(Put(settings, new, gestures + 1), new))

DeleteServer(h) ==
    /\ Listed(h) /\ h \notin rows
    /\ Gesture("delete", h, Mark(Put(settings, h, 0), h))

RestoreServer(h) ==
    /\ h \in settings.deleted \ rows
    /\ Gesture("restore", h, Unmark(settings, h))

EditItem(i) == Gesture("edit", i, Put(settings, i, gestures + 1))
DeleteItem(i) == settings.value[i] # 0 /\ Gesture("erase", i, Put(settings, i, 0))

\* The form keeps the new value; the copy takes it from the answer.
SaveScope(c) == Gesture("scope", c, settings)
ResetScope(c) == c \in Reloaded /\ Gesture("reset", c, settings)

\* The value a gesture gives its key, and what the settings then hold.
Given(t) == IF t.op \in {"edit", "duplicate", "scope"} THEN t.n ELSE 0
Holds(t, s) ==
    /\ t.op # "restore" => s.value[t.key] = Given(t)
    /\ t.op = "delete" => t.key \in s.deleted
    /\ t.op = "restore" => t.key \notin s.deleted

----------------------------------------------------------------------------
(* The answers a transaction waits for.                                    *)

\* Mutant of EndTurn: the next transaction is not started.
EndTurnAlone(copy, as) ==
    /\ queue' = Tail(queue)
    /\ wire' = [wire EXCEPT !["turn"] = NoRequest]

\* Takes the next turn; a queued save is built from the copy as it is by now.
EndTurn(copy, as) ==
    /\ queue' = Tail(queue)
    /\ wire' = [wire EXCEPT !["turn"] = Started(Tail(queue), copy, as)]

NextRequest(what, body) == wire' = [wire EXCEPT !["turn"] = Request(what, token, body)]
TurnWaits(what) == queue # <<>> /\ wire["turn"].what = what
TurnAnswered(what) == TurnWaits(what) /\ wire["turn"].at = "answered"

\* Mutant of Merged: the page takes all of the answer.
MergedAll(key, answer) == answer

\* Mutant of Merged: the page keeps what it had.
MergedNot(key, answer) == settings

\* mergeScopedSettings
Merged(key, answer) == Put(settings, key, answer.value[key])

\* Mutant of ScopedPayload: built from the page's copy.
ScopedPayloadLocal(t, answer) == Put(settings, t.key, Given(t))

ScopedPayload(t, answer) == Put(answer, t.key, Given(t))

ScopeRead ==
    /\ TurnAnswered("get")
    /\ NextRequest("save", ScopedPayload(Head(queue), wire["turn"].body))
    /\ UNCHANGED <<server, page, gestures, logins, faults, history>>

Acknowledge(t, answer) ==
    acked' = IF latest[t.key] = t.n /\ Holds(t, answer) THEN acked \cup {t.key} ELSE acked

\* All of the answer replaces the copy, and the rows are read again.
Saved ==
    /\ TurnAnswered("save") /\ ~Scoped(Head(queue))
    /\ settings' = wire["turn"].body
    /\ NextRequest("stats", Empty)
    /\ Acknowledge(Head(queue), wire["turn"].body)
    /\ UNCHANGED <<server, view, token, rows, queue, gestures, logins, faults, latest, exposed, drift>>

ScopeSaved ==
    /\ TurnAnswered("save") /\ Scoped(Head(queue))
    /\ settings' = Merged(Head(queue).key, wire["turn"].body)
    /\ IF Head(queue).key \in Reloaded THEN NextRequest("reload", Empty) /\ UNCHANGED queue
                                       ELSE EndTurn(settings', token)
    /\ Acknowledge(Head(queue), wire["turn"].body)
    /\ UNCHANGED <<server, view, token, rows, gestures, logins, faults, latest, exposed, drift>>

ScopeReloaded ==
    /\ TurnAnswered("reload")
    /\ settings' = Merged(Head(queue).key, wire["turn"].body)
    /\ EndTurn(settings', token)
    /\ UNCHANGED <<server, view, token, rows, gestures, logins, faults, history>>

\* refreshStatsForRender swallows every error, but a 401 took the token.
StatsRefreshed ==
    /\ TurnWaits("stats") /\ wire["turn"].at \in {"answered", "failed", "refused"}
    /\ rows' = IF wire["turn"].at = "answered" THEN wire["turn"].rows ELSE rows
    /\ token' = IF wire["turn"].at = "refused" THEN 0 ELSE token
    /\ EndTurn(settings, token')
    /\ UNCHANGED <<server, view, settings, gestures, logins, faults, history>>

\* readJson and the handlers' catch: a 401 ends the session, whichever token
\* the request had carried.
SessionAfter(s) ==
    IF wire[s].at = "refused" THEN token' = 0 /\ view' = "login" ELSE UNCHANGED <<token, view>>

\* Mutant of TakenBack: the page keeps a deletion that failed.
TakenBackNot(t) == settings

\* restoreSettingsState, after duplicateServer and deleteServer only.
TakenBack(t) == IF Undoable(t) THEN t.undo ELSE settings

\* The next save has been built before the page takes the failed change back.
TurnFails ==
    /\ queue # <<>> /\ wire["turn"].what \in {"get", "save", "reload"}
    /\ wire["turn"].at \in {"failed", "refused"}
    /\ settings' = TakenBack(Head(queue))
    /\ SessionAfter("turn")
    /\ EndTurn(settings, token')
    /\ drift' = (drift \/ IF Undoable(Head(queue)) THEN Tail(queue) # <<>> \/ Head(queue).shared
                                                   ELSE ~Scoped(Head(queue)))
    /\ UNCHANGED <<server, rows, gestures, logins, faults, latest, acked, exposed>>

----------------------------------------------------------------------------
(* Purges, logins and the change of credentials pass the queue by.         *)

\* The answer will replace the copy whatever the queue does meanwhile.
AskPurge(what, hosts) ==
    /\ view = "dashboard" /\ gestures < MaxGestures /\ Idle("purge")
    /\ gestures' = gestures + 1
    /\ wire' = [wire EXCEPT !["purge"] = [at |-> "sent", what |-> what, token |-> token,
                                          hosts |-> hosts, body |-> Empty, rows |-> {}]]
    /\ latest' = [k \in Key |-> IF k \in hosts THEN gestures' ELSE latest[k]]
    /\ acked' = acked \ hosts
    /\ exposed' = exposed \cup Pending
    /\ drift' = (drift \/ queue # <<>>)
    /\ UNCHANGED <<server, page, logins, faults>>

PurgeDeletedHost(h) == h \in settings.deleted \ rows /\ AskPurge("purge", {h})
ClearDeletedHosts == settings.deleted # {} /\ AskPurge("clear", settings.deleted)

Purged ==
    /\ wire["purge"].at = "answered"
    /\ settings' = wire["purge"].body
    /\ wire' = [wire EXCEPT !["purge"] = NoRequest]
    /\ UNCHANGED <<server, view, token, rows, queue, gestures, logins, faults, history>>

PurgeFails ==
    /\ wire["purge"].at \in {"failed", "refused"}
    /\ SessionAfter("purge")
    /\ wire' = [wire EXCEPT !["purge"] = NoRequest]
    /\ UNCHANGED <<server, settings, rows, queue, gestures, logins, faults, history>>

ChangePassword ==
    /\ view = "dashboard" /\ Idle("session")
    /\ wire' = [wire EXCEPT !["session"] = Request("password", token, Empty)]
    /\ UNCHANGED <<server, page, gestures, logins, faults, history>>

PasswordChanged ==
    /\ wire["session"].at = "answered" /\ wire["session"].what = "password"
    /\ token' = 0 /\ view' = "login"
    /\ wire' = [wire EXCEPT !["session"] = NoRequest]
    /\ UNCHANGED <<server, settings, rows, queue, gestures, logins, faults, history>>

PasswordFails ==
    /\ wire["session"].what = "password" /\ wire["session"].at \in {"failed", "refused"}
    /\ SessionAfter("session")
    /\ wire' = [wire EXCEPT !["session"] = NoRequest]
    /\ UNCHANGED <<server, settings, rows, queue, gestures, logins, faults, history>>

Logout ==
    /\ view = "dashboard"
    /\ token' = 0 /\ view' = "login"
    /\ UNCHANGED <<server, settings, rows, queue, wire, gestures, logins, faults, history>>

\* The transactions that are still queued go on under the new session, and
\* the load will replace the copy they change.
Login ==
    /\ view = "login" /\ Idle("session") /\ logins < MaxLogins
    /\ wire' = [wire EXCEPT !["session"] = Request("login", 0, Empty)]
    /\ exposed' = exposed \cup Pending
    /\ UNCHANGED <<server, page, gestures, logins, faults, latest, acked, drift>>

LoggedIn ==
    /\ wire["session"].at = "answered" /\ wire["session"].what = "login"
    /\ token' = logins
    /\ wire' = [wire EXCEPT !["session"] = Request("load", token', Empty)]
    /\ UNCHANGED <<server, view, settings, rows, queue, gestures, logins, faults, history>>

\* loadDashboard: the copy and the rows are those of the server.
Loaded ==
    /\ wire["session"].at = "answered" /\ wire["session"].what = "load"
    /\ settings' = wire["session"].body
    /\ rows' = wire["session"].rows
    /\ view' = "dashboard"
    /\ wire' = [wire EXCEPT !["session"] = NoRequest]
    /\ drift' = (queue # <<>> \/ ~Idle("purge") \/ settings' # stored)
    /\ UNCHANGED <<server, token, queue, gestures, logins, faults, latest, acked, exposed>>

\* Mutant of SessionFails: the failure of a load is not shown.
SessionFailsSilent ==
    /\ wire["session"].what \in {"login", "load"}
    /\ wire["session"].at \in {"failed", "refused"}
    /\ token' = 0
    /\ wire' = [wire EXCEPT !["session"] = NoRequest]
    /\ UNCHANGED <<server, view, settings, rows, queue, gestures, logins, faults, history>>

SessionFails ==
    /\ wire["session"].what \in {"login", "load"}
    /\ wire["session"].at \in {"failed", "refused"}
    /\ token' = 0 /\ view' = "login"
    /\ wire' = [wire EXCEPT !["session"] = NoRequest]
    /\ UNCHANGED <<server, settings, rows, queue, gestures, logins, faults, history>>

----------------------------------------------------------------------------
\* A page is opened without a token, or with one that the server may have
\* stopped accepting.
Init ==
    /\ stored = Empty
    /\ reporting = {}
    /\ settings = Empty
    /\ rows = {}
    /\ queue = <<>>
    /\ gestures = 0 /\ faults = 0
    /\ latest = [k \in Key |-> 0]
    /\ acked = {} /\ exposed = {} /\ drift = FALSE
    /\ \/ /\ view = "login" /\ token = 0 /\ logins = 0 /\ alive = {}
          /\ wire = [s \in Sender |-> NoRequest]
       \/ /\ view = "loading" /\ token = 1 /\ logins = 1 /\ alive \in SUBSET {1}
          /\ wire = [s \in Sender |-> IF s = "session" THEN Request("load", 1, Empty)
                                                       ELSE NoRequest]

User ==
    \/ \E h \in Host : EditServer(h) \/ DeleteServer(h) \/ RestoreServer(h) \/ PurgeDeletedHost(h)
    \/ \E h, new \in Host : DuplicateServer(h, new)
    \/ \E i \in Item : EditItem(i) \/ DeleteItem(i)
    \/ \E c \in Scope : SaveScope(c) \/ ResetScope(c)
    \/ ClearDeletedHosts \/ Login \/ Logout \/ ChangePassword

ReceiveTurn ==
    ScopeRead \/ Saved \/ ScopeSaved \/ ScopeReloaded \/ StatsRefreshed \/ TurnFails
ReceivePurge == Purged \/ PurgeFails
ReceiveSession == LoggedIn \/ Loaded \/ SessionFails \/ PasswordChanged \/ PasswordFails

Answered(s) ==
    \/ ServeRead(s) \/ Refuse(s) \/ Fail(s)
    \/ s = "turn" /\ ServeSave
    \/ s = "purge" /\ ServePurge
    \/ s = "session" /\ (ServeLogin \/ ServePassword)

Next ==
    \/ User
    \/ \E s \in Sender : Answered(s)
    \/ ReceiveTurn \/ ReceivePurge \/ ReceiveSession
    \/ \E h \in Configured : AgentReturns(h)
    \/ TokensExpire

\* Every request gets an answer or fails in the end (the code sets no time
\* limit: the browser does), and its handler runs.  The user owes nothing.
Fairness ==
    /\ \A s \in Sender : WF_vars(Answered(s))
    /\ WF_vars(ReceiveTurn) /\ WF_vars(ReceivePurge) /\ WF_vars(ReceiveSession)

Spec == Init /\ [][Next]_vars /\ Fairness

----------------------------------------------------------------------------
RequestType ==
    [at : {"none", "sent", "answered", "failed", "refused"},
     what : {"none", "get", "save", "reload", "stats", "purge", "clear",
             "password", "login", "load"},
     token : 0..MaxLogins, hosts : SUBSET Host, body : Settings, rows : SUBSET Host]

TransactionType ==
    [n : 1..MaxGestures, key : Key, undo : Settings, shared : BOOLEAN,
     op : {"edit", "duplicate", "delete", "restore", "erase", "scope", "reset"}]

\* Types of the variables; a transaction is waiting exactly while one is queued.
TypeOK ==
    /\ stored \in Settings /\ settings \in Settings
    /\ reporting \cup rows \subseteq Host
    /\ alive \subseteq 1..MaxLogins /\ token \in 0..MaxLogins /\ logins \in 0..MaxLogins
    /\ view \in {"login", "loading", "dashboard"}
    /\ queue \in Seq(TransactionType)
    /\ wire \in [Sender -> RequestType]
    /\ gestures \in 0..MaxGestures /\ faults \in 0..MaxFaults
    /\ latest \in [Key -> 0..MaxGestures]
    /\ acked \subseteq Key /\ exposed \subseteq 1..MaxGestures /\ drift \in BOOLEAN
    /\ Idle("turn") <=> queue = <<>>

\* The answer that lets the page say "synced" holds the change the user made,
\* however saves of all the settings and of one scope are queued - unless the
\* change was made while another answer was under way that replaces the copy.
SavedMeansStored ==
    TurnAnswered("save") /\ Head(queue).n \notin exposed =>
        \/ latest[Head(queue).key] # Head(queue).n
        \/ Holds(Head(queue), wire["turn"].body)

\* What a save was acknowledged for stays at the server until the user changes
\* it: no later save, failure or roll-back of this page takes it back, as long
\* as the page missed nothing.
AcknowledgedStays ==
    [][~drift' => \A k \in acked \cap acked' :
           /\ stored'.value[k] = stored.value[k]
           /\ k \in stored'.deleted <=> k \in stored.deleted]_vars

\* A save of one scope changes nothing else, neither in the page's unsaved
\* copy nor at the server, though it posts all the settings.
ScopeAlone ==
    [][(TurnWaits("get") \/ TurnWaits("save") \/ TurnWaits("reload")) /\ Scoped(Head(queue))
         /\ wire'["turn"] # wire["turn"] =>
           LET key == Head(queue).key
           IN  /\ settings' = Put(settings, key, settings'.value[key])
               /\ drift \/ stored' = Put(stored, key, stored'.value[key])]_vars

\* Whenever nothing is under way the dashboard shows the server's settings:
\* after any mix of saves, scoped saves, purges and a failed deletion that was
\* taken back, as long as the page missed nothing.
QuietPageAgrees ==
    view = "dashboard" /\ ~drift /\ (\A s \in Sender : Idle(s)) => settings = stored

\* Every queued transaction ends, whatever failed before it: its button is
\* released.
TurnsEnd == queue # <<>> ~> queue = <<>>

\* A page that is loading shows the dashboard or the login form in the end.
LoadingEnds == view = "loading" ~> view # "loading"

\* admin.js tells the user that the change was synced (and the transaction
\* test expects the later save's change on the page).
SyncedIsStored ==
    TurnAnswered("save") =>
        \/ latest[Head(queue).key] # Head(queue).n
        \/ Holds(Head(queue), wire["turn"].body)
=============================================================================
