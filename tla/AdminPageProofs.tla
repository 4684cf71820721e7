-------------------------- MODULE AdminPageProofs --------------------------
(***************************************************************************)
(* Theorems of AdminPage for every set of servers, items and scopes, and   *)
(* every bound on changes, logins and faults.                              *)
(*                                                                         *)
(* The argument follows a change from the user to the server.  What each   *)
(* sender waits for goes with the view and the queue (Shape), transactions *)
(* are numbered in the order they were made (Numbering), and an            *)
(* acknowledged change is older than every queued one (AckedIsOld).  So an *)
(* answer under way knows every change that is not exposed (Exposed,       *)
(* Held); the page's copy is the server's but for what is queued           *)
(* (Agreement), and on acknowledged keys copy, answers and server are the  *)
(* same (AckedAgrees).  Behind liveness stands what can be said of single  *)
(* steps: turns use up a finite amount of work (TurnsAdvance), and a page  *)
(* that loads is waiting for an answer (LoadingIsAwaited).                 *)
(***************************************************************************)
EXTENDS AdminPage, SequenceTheorems, TLAPS

----------------------------------------------------------------------------
(* The operators.                                                          *)

\* Two settings that agree on every key are the same.
LEMMA SettingsEqual ==
  ASSUME NEW s \in Settings, NEW t \in Settings, s.deleted = t.deleted,
         \A k \in Key : s.value[k] = t.value[k]
  PROVE  s = t
<1>1. s.value = t.value
  <2>1. s.value \in [Key -> 0..MaxGestures] /\ t.value \in [Key -> 0..MaxGestures]
    BY DEF Settings
  <2> QED BY <2>1
<1> QED BY <1>1 DEF Settings

\* Hosts, groups and scopes are different keys, so no scope is marked.
LEMMA Keys ==
  /\ Host \subseteq Key /\ Item \subseteq Key /\ Scope \subseteq Key
  /\ \A s \in Settings : s.deleted \cap (Item \cup Scope) = {} /\ s.deleted \subseteq Host
BY KeyAssumption DEF Key, Settings

LEMMA EmptyType == Empty \in Settings
BY BoundAssumption DEF Empty, Settings

\* What the operators on settings change and what they leave.
LEMMA PutFacts ==
  ASSUME NEW s \in Settings, NEW key \in Key, NEW n \in 0..MaxGestures
  PROVE  /\ Put(s, key, n) \in Settings
         /\ Put(s, key, n).value[key] = n
         /\ \A k \in Key : k # key => Put(s, key, n).value[k] = s.value[k]
         /\ Put(s, key, n).deleted = s.deleted
BY DEF Put, Settings

LEMMA MarkFacts ==
  ASSUME NEW s \in Settings, NEW h \in Host
  PROVE  /\ Mark(s, h) \in Settings /\ Unmark(s, h) \in Settings
         /\ Mark(s, h).value = s.value /\ Unmark(s, h).value = s.value
         /\ Mark(s, h).deleted = s.deleted \cup {h}
         /\ Unmark(s, h).deleted = s.deleted \ {h}
BY DEF Mark, Unmark, Settings

LEMMA NormalizeFacts ==
  ASSUME NEW s \in Settings
  PROVE  /\ Normalize(s) \in Settings /\ Normalize(s).deleted = s.deleted
         /\ \A k \in Key : Normalize(s).value[k] = IF k \in s.deleted THEN 0 ELSE s.value[k]
<1>1. [k \in Key |-> IF k \in s.deleted THEN 0 ELSE s.value[k]] \in [Key -> 0..MaxGestures]
  BY BoundAssumption DEF Settings
<1> QED BY <1>1 DEF Normalize, Settings

LEMMA WithoutFacts ==
  ASSUME NEW s \in Settings, NEW hosts \in SUBSET Host
  PROVE  /\ WithoutHosts(s, hosts) \in Settings
         /\ WithoutHosts(s, hosts).deleted = s.deleted \ hosts
         /\ \A k \in Key : WithoutHosts(s, hosts).value[k] =
                               IF k \in hosts THEN 0 ELSE s.value[k]
<1>1. [k \in Key |-> IF k \in hosts THEN 0 ELSE s.value[k]] \in [Key -> 0..MaxGestures]
  BY BoundAssumption DEF Settings
<1> QED BY <1>1 DEF WithoutHosts, Settings

\* Putting back what was there changes nothing; a second value hides the first.
LEMMA PutSame ==
  ASSUME NEW s \in Settings, NEW key \in Key
  PROVE  /\ Put(s, key, s.value[key]) = s
         /\ \A m, n \in 0..MaxGestures : Put(Put(s, key, m), key, n) = Put(s, key, n)
<1>1. s.value \in [Key -> 0..MaxGestures]
  BY DEF Settings
<1>2. s.value[key] \in 0..MaxGestures
  BY <1>1
<1>3. Put(s, key, s.value[key]) = s
  <2> DEFINE a == Put(s, key, s.value[key])
  <2>1. /\ a \in Settings /\ a.deleted = s.deleted /\ a.value[key] = s.value[key]
        /\ \A k \in Key : k # key => a.value[k] = s.value[k]
    BY <1>2, PutFacts
  <2> HIDE DEF a
  <2>2. a = s
    BY <2>1, SettingsEqual
  <2> QED BY <2>2 DEF a
<1>4. ASSUME NEW m \in 0..MaxGestures, NEW n \in 0..MaxGestures
      PROVE  Put(Put(s, key, m), key, n) = Put(s, key, n)
  <2> DEFINE a == Put(s, key, m)
  <2>1. /\ a \in Settings /\ a.deleted = s.deleted
        /\ \A k \in Key : k # key => a.value[k] = s.value[k]
    BY PutFacts
  <2> HIDE DEF a
  <2>2. /\ Put(a, key, n) \in Settings /\ Put(a, key, n).deleted = a.deleted
        /\ Put(a, key, n).value[key] = n
        /\ \A k \in Key : k # key => Put(a, key, n).value[k] = a.value[k]
    BY <2>1, PutFacts
  <2>3. /\ Put(s, key, n) \in Settings /\ Put(s, key, n).deleted = s.deleted
        /\ Put(s, key, n).value[key] = n
        /\ \A k \in Key : k # key => Put(s, key, n).value[k] = s.value[k]
    BY PutFacts
  <2>4. Put(a, key, n) = Put(s, key, n)
    BY <2>1, <2>2, <2>3, SettingsEqual
  <2> QED BY <2>4 DEF a
<1> QED BY <1>3, <1>4

\* A request's fields.
LEMMA RequestFacts ==
  ASSUME NEW what, NEW as, NEW body
  PROVE  LET r == Request(what, as, body)
         IN  /\ r.at = "sent" /\ r.what = what /\ r.token = as /\ r.hosts = {}
             /\ r.body = body /\ r.rows = {}
BY DEF Request

\* The queue: its head is its first transaction.
LEMMA QueueFacts ==
  ASSUME TypeOK
  PROVE  /\ DOMAIN queue = 1..Len(queue) /\ Len(queue) \in Nat
         /\ \A i \in DOMAIN queue : queue[i] \in TransactionType
         /\ queue # <<>> => 1 \in DOMAIN queue /\ Head(queue) = queue[1]
         /\ queue = <<>> <=> Len(queue) = 0
         /\ queue = <<>> => DOMAIN queue = {}
<1>1. queue \in Seq(TransactionType)
  BY DEF TypeOK
<1>2. DOMAIN queue = 1..Len(queue) /\ Len(queue) \in Nat
  BY <1>1
<1>3. queue = <<>> <=> Len(queue) = 0
  BY <1>1, EmptySeq
<1> QED BY <1>1, <1>2, <1>3

\* The queue once a transaction has been appended to it, or the first removed.
LEMMA AppendFacts ==
  ASSUME TypeOK, NEW t \in TransactionType, queue' = Append(queue, t)
  PROVE  /\ queue' \in Seq(TransactionType) /\ queue' # <<>>
         /\ DOMAIN queue' = 1..(Len(queue) + 1)
         /\ \A i \in DOMAIN queue : i \in DOMAIN queue' /\ queue'[i] = queue[i]
         /\ \A i \in DOMAIN queue' : i \in DOMAIN queue \/ i = Len(queue) + 1
         /\ Len(queue) + 1 \in DOMAIN queue' /\ queue'[Len(queue) + 1] = t
         /\ Head(queue') = IF queue = <<>> THEN t ELSE Head(queue)
<1>1. queue \in Seq(TransactionType)
  BY DEF TypeOK
<1>2. /\ queue' \in Seq(TransactionType) /\ Len(queue') = Len(queue) + 1
      /\ \A i \in 1..Len(queue) : queue'[i] = queue[i]
      /\ queue'[Len(queue) + 1] = t
  BY <1>1, AppendProperties
<1>3. Len(queue) \in Nat /\ DOMAIN queue = 1..Len(queue)
      /\ DOMAIN queue' = 1..(Len(queue) + 1)
  BY <1>1, <1>2
<1>4. queue' # <<>> /\ Head(queue') = queue'[1]
  BY <1>2, <1>3
<1>5. Head(queue') = IF queue = <<>> THEN t ELSE Head(queue)
  BY <1>2, <1>3, <1>4, QueueFacts
<1> QED BY <1>2, <1>3, <1>4, <1>5

LEMMA TailFacts ==
  ASSUME TypeOK, queue # <<>>, queue' = Tail(queue)
  PROVE  /\ queue' \in Seq(TransactionType)
         /\ \A i \in DOMAIN queue' : /\ i + 1 \in DOMAIN queue /\ i + 1 # 1
                                     /\ queue'[i] = queue[i + 1]
         /\ \A i \in DOMAIN queue : i # 1 => i - 1 \in DOMAIN queue' /\ queue[i] = queue'[i - 1]
         /\ queue' # <<>> => /\ Head(queue') = queue[2] /\ 2 \in DOMAIN queue
                             /\ 1 \in DOMAIN queue' /\ Head(queue') = queue'[1]
<1>1. queue \in Seq(TransactionType) /\ Len(queue) \in Nat /\ Len(queue) # 0
  BY QueueFacts DEF TypeOK
<1>2. /\ queue' \in Seq(TransactionType) /\ Len(queue') = Len(queue) - 1
      /\ \A i \in 1..Len(queue') : queue'[i] = queue[i + 1]
  BY <1>1, HeadTailProperties
<1>3. DOMAIN queue = 1..Len(queue) /\ DOMAIN queue' = 1..(Len(queue) - 1)
  BY <1>1, <1>2
<1>4. ASSUME queue' # <<>> PROVE Len(queue') # 0
  BY <1>2, <1>4, EmptySeq
<1> QED BY <1>1, <1>2, <1>3, <1>4

\* A transaction's fields.
LEMMA TransactionFacts ==
  ASSUME TypeOK, gestures < MaxGestures, NEW key \in Key, NEW undo \in Settings,
         NEW op \in {"edit", "duplicate", "delete", "restore", "erase", "scope", "reset"}
  PROVE  LET t == Transaction(op, key, undo)
         IN  /\ t \in TransactionType
             /\ t.n = gestures + 1 /\ t.op = op /\ t.key = key /\ t.undo = undo
             /\ t.shared = (queue # <<>>)
             /\ Scoped(t) <=> op \in {"scope", "reset"}
             /\ Undoable(t) <=> op \in {"duplicate", "delete"}
<1>1. gestures + 1 \in 1..MaxGestures
  BY BoundAssumption DEF TypeOK
<1> QED BY <1>1 DEF Transaction, TransactionType, Scoped, Undoable

\* The type of every request.
LEMMA WireFacts ==
  ASSUME TypeOK
  PROVE  /\ DOMAIN wire = Sender
         /\ \A s \in Sender : wire[s] \in RequestType /\ wire[s].body \in Settings
BY DEF TypeOK, RequestType

LEMMA RequestTypes ==
  /\ NoRequest \in RequestType
  /\ \A body \in Settings, as \in 0..MaxLogins :
         \A what \in {"get", "save", "reload", "stats", "password", "login", "load"} :
             Request(what, as, body) \in RequestType
<1>1. NoRequest \in RequestType
  BY EmptyType, BoundAssumption DEF RequestType, NoRequest
<1>2. ASSUME NEW body \in Settings, NEW as \in 0..MaxLogins,
             NEW what \in {"get", "save", "reload", "stats", "password", "login", "load"}
      PROVE  Request(what, as, body) \in RequestType
  BY <1>2 DEF Request, RequestType
<1> QED BY <1>1, <1>2

\* Ending a turn: what the next transaction sends, and what is left as it was.
LEMMA EndTurnFacts ==
  ASSUME TypeOK, queue # <<>>, NEW copy \in Settings, NEW as \in 0..MaxLogins,
         EndTurn(copy, as)
  PROVE  /\ queue' = Tail(queue)
         /\ wire' \in [Sender -> RequestType]
         /\ wire'["purge"] = wire["purge"] /\ wire'["session"] = wire["session"]
         /\ queue' \in Seq(TransactionType)
         /\ queue' = <<>> => wire'["turn"] = NoRequest /\ wire'["turn"].at = "none"
                            /\ wire'["turn"].what = "none"
         /\ queue' # <<>> => wire'["turn"].at = "sent"
         /\ queue' # <<>> /\ Scoped(Head(queue')) => wire'["turn"].what = "get"
         /\ queue' # <<>> /\ ~Scoped(Head(queue')) =>
               wire'["turn"].what = "save" /\ wire'["turn"].body = copy
<1>1. /\ Request("get", as, Empty) \in RequestType /\ Request("save", as, copy) \in RequestType
      /\ NoRequest \in RequestType
  BY RequestTypes, EmptyType
<1>2. wire' = [wire EXCEPT !["turn"] = Started(queue', copy, as)] /\ queue' = Tail(queue)
  BY DEF EndTurn
<1>3. Started(queue', copy, as) = IF queue' = <<>> THEN NoRequest
                                  ELSE IF Scoped(Head(queue')) THEN Request("get", as, Empty)
                                  ELSE Request("save", as, copy)
  BY DEF Started, FirstRequest
<1>4. wire \in [Sender -> RequestType]
  BY DEF TypeOK
<1>5. /\ wire' \in [Sender -> RequestType] /\ wire'["turn"] = Started(queue', copy, as)
      /\ wire'["purge"] = wire["purge"] /\ wire'["session"] = wire["session"]
  <2>1. Started(queue', copy, as) \in RequestType
    BY <1>1, <1>3
  <2> QED BY <1>2, <1>4, <2>1 DEF Sender
<1>6. CASE queue' = <<>>
  <2>1. NoRequest.at = "none" /\ NoRequest.what = "none"
    BY DEF NoRequest
  <2>2. wire'["turn"] = NoRequest
    BY <1>3, <1>5, <1>6
  <2>3. queue' \in Seq(TransactionType)
    BY <1>2, TailFacts
  <2> QED BY <1>2, <1>5, <1>6, <2>1, <2>2, <2>3
<1>7. CASE queue' # <<>>
  <2>1. /\ wire'["turn"] = Request("get", as, Empty) \/ wire'["turn"] = Request("save", as, copy)
        /\ Scoped(Head(queue')) => wire'["turn"] = Request("get", as, Empty)
        /\ ~Scoped(Head(queue')) => wire'["turn"] = Request("save", as, copy)
    BY <1>3, <1>5, <1>7
  <2> DEFINE get == Request("get", as, Empty)
             save == Request("save", as, copy)
  <2>2. /\ get.at = "sent" /\ get.what = "get"
        /\ save.at = "sent" /\ save.what = "save" /\ save.body = copy
    BY DEF Request
  <2> HIDE DEF get, save
  <2>3. wire'["turn"] = get \/ wire'["turn"] = save
    BY <2>1 DEF get, save
  <2>4. /\ Scoped(Head(queue')) => wire'["turn"] = get
        /\ ~Scoped(Head(queue')) => wire'["turn"] = save
    BY <2>1 DEF get, save
  <2>5. queue' \in Seq(TransactionType)
    BY <1>2, TailFacts
  <2> QED BY <1>2, <1>5, <1>7, <2>2, <2>3, <2>4, <2>5
<1> QED BY <1>6, <1>7

----------------------------------------------------------------------------
(* Gestures.                                                               *)

Op == {"edit", "duplicate", "delete", "restore", "erase", "scope", "reset"}

\* What a gesture makes of the page's copy of the settings.
Change(op, key, copy) ==
    \/ /\ op = "edit" /\ (key \in Item \/ (key \in Host /\ Listed(key)))
       /\ copy = Put(settings, key, gestures + 1)
    \/ /\ op = "duplicate" /\ key \in Host
       /\ copy = Unmark(Put(settings, key, gestures + 1), key)
    \/ op = "delete" /\ key \in Host /\ copy = Mark(Put(settings, key, 0), key)
    \/ op = "restore" /\ key \in Host /\ copy = Unmark(settings, key)
    \/ op = "erase" /\ key \in Item /\ copy = Put(settings, key, 0)
    \/ op \in {"scope", "reset"} /\ key \in Scope /\ copy = settings

\* A transaction that is not scoped is for what it gives its key: an entry, and
\* no marker; or none.
Keeps(t, s) == Holds(t, s) /\ (Given(t) # 0 => t.key \notin s.deleted)

LEMMA ChangeFacts ==
  ASSUME TypeOK, gestures < MaxGestures, NEW op, NEW key, NEW copy, Change(op, key, copy)
  PROVE  /\ op \in Op /\ key \in Key /\ copy \in Settings
         /\ op \in {"scope", "reset"} <=> key \in Scope
         /\ op \in {"scope", "reset"} => copy = settings
         /\ op \in {"duplicate", "delete", "restore"} => key \in Host
         /\ \A k \in Key : k # key => /\ copy.value[k] = settings.value[k]
                                      /\ k \in copy.deleted <=> k \in settings.deleted
<1>1. settings \in Settings /\ gestures + 1 \in 0..MaxGestures /\ 0 \in 0..MaxGestures
  BY BoundAssumption DEF TypeOK
<1>2. op \in Op /\ key \in Key /\ (op \in {"scope", "reset"} <=> key \in Scope)
  BY KeyAssumption DEF Change, Op, Key
<1>3. /\ op \in {"scope", "reset"} => copy = settings
      /\ op \in {"duplicate", "delete", "restore"} => key \in Host
  BY <1>2 DEF Change, Op
<1>4. ASSUME NEW n \in 0..MaxGestures
      PROVE  LET put == Put(settings, key, n)
             IN  /\ put \in Settings /\ put.deleted = settings.deleted
                 /\ \A k \in Key : k # key => put.value[k] = settings.value[k]
  BY <1>1, <1>2, PutFacts
<1>5. CASE op = "edit" \/ op = "erase"
  BY <1>1, <1>2, <1>3, <1>4, <1>5 DEF Change
<1>6. CASE op = "duplicate"
  <2> DEFINE put == Put(settings, key, gestures + 1)
  <2>1. /\ put \in Settings /\ put.deleted = settings.deleted /\ copy = Unmark(put, key)
        /\ \A k \in Key : k # key => put.value[k] = settings.value[k]
    BY <1>1, <1>4, <1>6 DEF Change
  <2> HIDE DEF put
  <2>2. copy \in Settings /\ copy.value = put.value /\ copy.deleted = put.deleted \ {key}
    BY <1>3, <1>6, <2>1, MarkFacts
  <2> QED BY <1>2, <1>3, <1>6, <2>1, <2>2
<1>7. CASE op = "delete"
  <2> DEFINE put == Put(settings, key, 0)
  <2>1. /\ put \in Settings /\ put.deleted = settings.deleted /\ copy = Mark(put, key)
        /\ \A k \in Key : k # key => put.value[k] = settings.value[k]
    BY <1>1, <1>4, <1>7 DEF Change
  <2> HIDE DEF put
  <2>2. copy \in Settings /\ copy.value = put.value /\ copy.deleted = put.deleted \cup {key}
    BY <1>3, <1>7, <2>1, MarkFacts
  <2> QED BY <1>2, <1>3, <1>7, <2>1, <2>2
<1>8. CASE op = "restore"
  <2>1. copy = Unmark(settings, key)
    BY <1>8 DEF Change
  <2>2. copy \in Settings /\ copy.value = settings.value /\ copy.deleted = settings.deleted \ {key}
    BY <1>1, <1>3, <1>8, <2>1, MarkFacts
  <2> QED BY <1>2, <1>3, <1>8, <2>2
<1>9. CASE op \in {"scope", "reset"}
  BY <1>1, <1>2, <1>3, <1>9
<1> QED BY <1>2, <1>5, <1>6, <1>7, <1>8, <1>9 DEF Op

\* The copy then keeps the change, unless it is about a server that the page
\* lists though it is marked.
LEMMA ChangeKept ==
  ASSUME TypeOK, gestures < MaxGestures, NEW op, NEW key, NEW copy, Change(op, key, copy),
         key \notin rows \cap settings.deleted, op \notin {"scope", "reset"},
         NEW t \in TransactionType, t.op = op, t.key = key, t.n = gestures + 1
  PROVE  Keeps(t, copy)
<1> USE DEF Keeps, Holds, Given
<1>1. /\ settings \in Settings /\ gestures + 1 \in 0..MaxGestures /\ 0 \in 0..MaxGestures
      /\ gestures + 1 # 0
  BY BoundAssumption DEF TypeOK
<1>2. key \in Key
  BY ChangeFacts
<1>3. /\ Put(settings, key, gestures + 1) \in Settings
      /\ Put(settings, key, gestures + 1).value[key] = gestures + 1
      /\ Put(settings, key, gestures + 1).deleted = settings.deleted
      /\ Put(settings, key, 0) \in Settings /\ Put(settings, key, 0).value[key] = 0
  BY <1>1, <1>2, PutFacts
<1>4. CASE op = "edit"
  <2>1. key \notin settings.deleted /\ copy = Put(settings, key, gestures + 1)
    BY <1>1, <1>4, Keys DEF Change, Listed
  <2> QED BY <1>3, <1>4, <2>1
<1>5. CASE op = "duplicate"
  <2>1. copy = Unmark(Put(settings, key, gestures + 1), key) /\ key \in Host
    BY <1>5 DEF Change
  <2>2. copy.value[key] = gestures + 1 /\ key \notin copy.deleted
    BY <1>3, <2>1, MarkFacts
  <2> QED BY <1>5, <2>2
<1>6. CASE op = "delete"
  <2>1. copy = Mark(Put(settings, key, 0), key) /\ key \in Host
    BY <1>6 DEF Change
  <2>2. copy.value[key] = 0 /\ key \in copy.deleted
    BY <1>3, <2>1, MarkFacts
  <2> QED BY <1>6, <2>2
<1>7. CASE op = "restore"
  <2>1. copy = Unmark(settings, key) /\ key \in Host
    BY <1>7 DEF Change
  <2>2. key \notin copy.deleted
    BY <1>1, <2>1, MarkFacts
  <2> QED BY <1>7, <2>2
<1>8. CASE op = "erase"
  BY <1>3, <1>8 DEF Change
<1> QED BY <1>4, <1>5, <1>6, <1>7, <1>8, ChangeFacts DEF Op

\* Each of the user's changes is such a gesture.
LEMMA Changes ==
  ASSUME \/ \E h \in Host : EditServer(h) \/ DeleteServer(h) \/ RestoreServer(h)
         \/ \E h, new \in Host : DuplicateServer(h, new)
         \/ \E i \in Item : EditItem(i) \/ DeleteItem(i)
         \/ \E c \in Scope : SaveScope(c) \/ ResetScope(c)
  PROVE  \E op, key, copy : Change(op, key, copy) /\ Gesture(op, key, copy)
<1>1. ASSUME NEW h \in Host, EditServer(h) PROVE Change("edit", h, Put(settings, h, gestures + 1))
  BY <1>1 DEF EditServer, Change
<1>2. ASSUME NEW h \in Host, DeleteServer(h)
      PROVE  Change("delete", h, Mark(Put(settings, h, 0), h))
  BY <1>2 DEF Change
<1>3. ASSUME NEW h \in Host, RestoreServer(h) PROVE Change("restore", h, Unmark(settings, h))
  BY <1>3 DEF Change
<1>4. ASSUME NEW new \in Host
      PROVE  Change("duplicate", new, Unmark(Put(settings, new, gestures + 1), new))
  BY <1>4 DEF Change
<1>5. ASSUME NEW i \in Item
      PROVE  /\ Change("edit", i, Put(settings, i, gestures + 1))
             /\ Change("erase", i, Put(settings, i, 0))
  BY <1>5 DEF Change
<1>6. ASSUME NEW c \in Scope PROVE Change("scope", c, settings) /\ Change("reset", c, settings)
  BY <1>6 DEF Change
<1> QED BY <1>1, <1>2, <1>3, <1>4, <1>5, <1>6
  DEF EditServer, DeleteServer, RestoreServer, DuplicateServer, EditItem, DeleteItem,
      SaveScope, ResetScope

----------------------------------------------------------------------------
(* What an action does to the queue and to the requests.                   *)

\* Who sends what, and about which keys transactions are.
Shape ==
    /\ \A s \in Sender : Idle(s) => wire[s] = NoRequest
    /\ ~Idle("turn") => wire["turn"].what \in IF Scoped(Head(queue)) THEN {"get", "save", "reload"}
                                                                   ELSE {"save", "stats"}
    /\ ~Idle("purge") => wire["purge"].what \in {"purge", "clear"}
    /\ ~Idle("session") => wire["session"].what \in {"login", "load", "password"}
    /\ wire["session"].at = "sent" /\ wire["session"].what = "login" => logins < MaxLogins
    /\ \A i \in DOMAIN queue :
          /\ Scoped(queue[i]) <=> queue[i].key \in Scope
          /\ queue[i].op \in {"duplicate", "delete", "restore"} => queue[i].key \in Host
          /\ queue[i].shared \/ i = 1

\* A gesture: its transaction is the last, and is the running one if the queue
\* was empty.
LEMMA GestureFacts ==
  ASSUME TypeOK, NEW op, NEW key, NEW copy, Change(op, key, copy), Gesture(op, key, copy)
  PROVE  /\ gestures < MaxGestures /\ gestures' = gestures + 1
         /\ settings' = copy
         /\ \E t \in TransactionType :
               /\ t.n = gestures + 1 /\ t.op = op /\ t.key = key /\ (t.shared \/ queue = <<>>)
               /\ Undoable(t) => t.undo = settings
               /\ Scoped(t) <=> op \in {"scope", "reset"}
               /\ Undoable(t) <=> op \in {"duplicate", "delete"}
               /\ queue' = Append(queue, t)
               /\ queue = <<>> => wire'["turn"] = IF Scoped(t) THEN Request("get", token, Empty)
                                                  ELSE Request("save", token, copy)
         /\ queue # <<>> => wire'["turn"] = wire["turn"]
         /\ wire' \in [Sender -> RequestType]
         /\ wire'["purge"] = wire["purge"] /\ wire'["session"] = wire["session"]
         /\ latest' = [latest EXCEPT ![key] = gestures + 1]
         /\ acked' = acked \ {key}
         /\ exposed' = IF Exposing(key) THEN exposed \cup {gestures + 1} ELSE exposed
         /\ drift' = (drift \/ ~Idle("purge"))
         /\ stored' = stored /\ view = "dashboard" /\ view' = view /\ rows' = rows
         /\ UNCHANGED <<server, token, logins, faults>>
<1> DEFINE undo == IF op \in {"duplicate", "delete"} THEN settings ELSE Empty
           t == Transaction(op, key, undo)
<1>1. /\ gestures < MaxGestures /\ gestures' = gestures + 1 /\ settings' = copy
      /\ Enqueue(t, copy)
      /\ latest' = [latest EXCEPT ![key] = gestures + 1]
      /\ acked' = acked \ {key}
      /\ exposed' = IF Exposing(key) THEN exposed \cup {gestures + 1} ELSE exposed
      /\ drift' = (drift \/ ~Idle("purge"))
      /\ view = "dashboard" /\ UNCHANGED <<server, view, token, rows, logins, faults>>
  BY DEF Gesture
<1>2. key \in Key /\ copy \in Settings /\ op \in Op /\ undo \in Settings
  BY <1>1, ChangeFacts, EmptyType DEF TypeOK
<1>3. /\ t \in TransactionType
      /\ t.n = gestures + 1 /\ t.op = op /\ t.key = key /\ t.undo = undo
      /\ t.shared = (queue # <<>>)
      /\ Scoped(t) <=> op \in {"scope", "reset"}
      /\ Undoable(t) <=> op \in {"duplicate", "delete"}
  BY <1>1, <1>2, TransactionFacts DEF Op
<1>4. Undoable(t) => t.undo = settings
  BY <1>3
<1> HIDE DEF t, undo
<1>5. /\ queue' = Append(queue, t)
      /\ wire' = IF queue = <<>>
                 THEN [wire EXCEPT !["turn"] = IF Scoped(t) THEN Request("get", token, Empty)
                                               ELSE Request("save", token, copy)]
                 ELSE wire
  BY <1>1 DEF Enqueue, FirstRequest
<1>6. /\ Request("get", token, Empty) \in RequestType /\ Request("save", token, copy) \in RequestType
      /\ wire \in [Sender -> RequestType]
  BY <1>2, RequestTypes, EmptyType DEF TypeOK
<1>7. /\ wire' \in [Sender -> RequestType]
      /\ wire'["purge"] = wire["purge"] /\ wire'["session"] = wire["session"]
      /\ queue # <<>> => wire'["turn"] = wire["turn"]
      /\ queue = <<>> => wire'["turn"] = IF Scoped(t) THEN Request("get", token, Empty)
                                         ELSE Request("save", token, copy)
  <2>1. CASE queue = <<>> /\ Scoped(t)
    BY <1>5, <1>6, <2>1 DEF Sender
  <2>2. CASE queue = <<>> /\ ~Scoped(t)
    BY <1>5, <1>6, <2>2 DEF Sender
  <2>3. CASE queue # <<>>
    BY <1>5, <1>6, <2>3
  <2> QED BY <2>1, <2>2, <2>3
<1> QED BY <1>1, <1>3, <1>4, <1>5, <1>7 DEF server

\* Asking for a purge.
LEMMA AskFacts ==
  ASSUME TypeOK, NEW what \in {"purge", "clear"}, NEW hosts \in SUBSET settings.deleted,
         AskPurge(what, hosts)
  PROVE  /\ wire' \in [Sender -> RequestType]
         /\ wire["purge"].at = "none" /\ wire'["purge"].at = "sent"
         /\ wire'["purge"].what = what /\ wire'["purge"].hosts = hosts
         /\ wire'["turn"] = wire["turn"] /\ wire'["session"] = wire["session"]
         /\ gestures < MaxGestures /\ gestures' = gestures + 1
         /\ hosts \subseteq Host
         /\ latest' = [k \in Key |-> IF k \in hosts THEN gestures + 1 ELSE latest[k]]
         /\ acked' = acked \ hosts /\ exposed' = exposed \cup Pending
         /\ drift' = (drift \/ queue # <<>>)
         /\ stored' = stored /\ settings' = settings /\ queue' = queue /\ view' = view
         /\ UNCHANGED <<server, page, logins, faults>>
<1> DEFINE r == [at |-> "sent", what |-> what, token |-> token, hosts |-> hosts,
                 body |-> Empty, rows |-> {}]
<1>1. hosts \subseteq Host
  BY DEF TypeOK, Settings
<1>2. r \in RequestType /\ r.at = "sent" /\ r.what = what /\ r.hosts = hosts
  BY <1>1, EmptyType DEF RequestType, TypeOK
<1> HIDE DEF r
<1>3. wire' = [wire EXCEPT !["purge"] = r]
  BY DEF AskPurge, r
<1>4. wire' \in [Sender -> RequestType] /\ wire'["purge"] = r /\ wire'["turn"] = wire["turn"]
      /\ wire'["session"] = wire["session"]
  BY <1>2, <1>3 DEF TypeOK, Sender
<1> QED BY <1>1, <1>2, <1>4 DEF AskPurge, Idle, server, page

\* An answer, and a failure or a refusal.
LEMMA AnswerFacts ==
  ASSUME TypeOK, NEW s \in Sender, NEW body \in Settings, NEW shown \in SUBSET Host,
         Answer(s, body, shown)
  PROVE  /\ wire' \in [Sender -> RequestType]
         /\ wire'[s].at = "answered" /\ wire'[s].what = wire[s].what
         /\ wire'[s].hosts = wire[s].hosts /\ wire'[s].token = wire[s].token
         /\ wire'[s].body = body /\ wire'[s].rows = shown
         /\ \A r \in Sender : r # s => wire'[r] = wire[r]
<1> DEFINE r == [at |-> "answered", what |-> wire[s].what, token |-> wire[s].token,
                 hosts |-> wire[s].hosts, body |-> body, rows |-> shown]
<1>1. wire[s] \in RequestType
  BY DEF TypeOK
<1>2. r \in RequestType
  BY <1>1 DEF RequestType
<1>3. wire' = [wire EXCEPT ![s] = r]
  BY DEF Answer
<1>4. wire' \in [Sender -> RequestType] /\ wire'[s] = r
      /\ \A q \in Sender : q # s => wire'[q] = wire[q]
  BY <1>2, <1>3 DEF TypeOK
<1> QED BY <1>4

Lost(s) == Refuse(s) \/ Fail(s)

LEMMA LostFacts ==
  ASSUME TypeOK, NEW s \in Sender, Lost(s)
  PROVE  /\ wire' \in [Sender -> RequestType]
         /\ wire'[s].at \in {"failed", "refused"} /\ wire'[s].what = wire[s].what
         /\ wire'[s].hosts = wire[s].hosts /\ wire'[s].body = wire[s].body
         /\ wire[s].at # "none"
         /\ \A r \in Sender : r # s => wire'[r] = wire[r]
         /\ drift' \in BOOLEAN /\ (drift => drift')
         /\ wire[s].at # "sent" => wire[s].at = "answered" /\ drift' = (drift \/ s \in {"turn", "purge"})
         /\ faults' \in 0..MaxFaults
         /\ stored' = stored /\ settings' = settings /\ queue' = queue /\ view' = view
         /\ UNCHANGED <<server, page, gestures, logins, latest, acked, exposed>>
<1>1. \E at \in {"failed", "refused"} : wire' = [wire EXCEPT ![s].at = at]
  BY DEF Lost, Refuse, Fail
<1>2. PICK at \in {"failed", "refused"} : wire' = [wire EXCEPT ![s] = [wire[s] EXCEPT !.at = at]]
  BY <1>1
<1>3. [wire[s] EXCEPT !.at = at] \in RequestType
  BY DEF TypeOK, RequestType
<1>4. /\ wire' \in [Sender -> RequestType] /\ wire'[s] = [wire[s] EXCEPT !.at = at]
      /\ \A r \in Sender : r # s => wire'[r] = wire[r]
  BY <1>2, <1>3 DEF TypeOK
<1>5. /\ wire'[s].at = at /\ wire'[s].what = wire[s].what /\ wire'[s].hosts = wire[s].hosts
      /\ wire'[s].body = wire[s].body
  BY <1>4 DEF TypeOK, RequestType
<1>6. faults' \in 0..MaxFaults
  BY BoundAssumption DEF Lost, Refuse, Fail, Fault, TypeOK
<1>7. /\ drift' \in BOOLEAN /\ (drift => drift')
      /\ wire[s].at # "sent" => wire[s].at = "answered" /\ drift' = (drift \/ s \in {"turn", "purge"})
      /\ wire[s].at # "none"
  BY DEF Lost, Refuse, Fail, TypeOK, history
<1>8. UNCHANGED <<server, page, gestures, logins, latest, acked, exposed>>
  BY DEF Lost, Refuse, Fail, history
<1> QED BY <1>4, <1>5, <1>6, <1>7, <1>8 DEF server, page

\* A sender's next request, or none.
LEMMA SendFacts ==
  ASSUME TypeOK, NEW s \in Sender, NEW r \in RequestType, wire' = [wire EXCEPT ![s] = r]
  PROVE  /\ wire' \in [Sender -> RequestType] /\ wire'[s] = r
         /\ \A q \in Sender : q # s => wire'[q] = wire[q]
BY DEF TypeOK

LEMMA NextFacts ==
  ASSUME TypeOK, NEW what \in {"save", "reload", "stats"}, NEW body \in Settings,
         NextRequest(what, body)
  PROVE  /\ wire' \in [Sender -> RequestType]
         /\ wire'["turn"].at = "sent" /\ wire'["turn"].what = what /\ wire'["turn"].body = body
         /\ wire'["purge"] = wire["purge"] /\ wire'["session"] = wire["session"]
<1> DEFINE r == Request(what, token, body)
<1>1. r \in RequestType /\ r.at = "sent" /\ r.what = what /\ r.body = body
  BY RequestTypes, RequestFacts DEF TypeOK
<1>2. wire' = [wire EXCEPT !["turn"] = r]
  BY DEF NextRequest
<1> HIDE DEF r
<1> QED BY <1>1, <1>2, SendFacts DEF Sender

\* The settings a transaction takes over, and those it goes back to.
LEMMA MergedType ==
  ASSUME TypeOK, NEW key \in Key, NEW answer \in Settings
  PROVE  Merged(key, answer) \in Settings
<1>1. answer.value[key] \in 0..MaxGestures
  BY DEF Settings
<1> QED BY <1>1, PutFacts DEF Merged, TypeOK

LEMMA PayloadType ==
  ASSUME TypeOK, NEW t \in TransactionType, NEW answer \in Settings
  PROVE  /\ ScopedPayload(t, answer) \in Settings /\ Given(t) \in 0..MaxGestures
         /\ t.key \in Key
<1>1. Given(t) \in 0..MaxGestures /\ t.key \in Key
  BY BoundAssumption DEF Given, TransactionType
<1> QED BY <1>1, PutFacts DEF ScopedPayload

LEMMA TakenBackType ==
  ASSUME TypeOK, NEW t \in TransactionType
  PROVE  TakenBack(t) \in Settings
BY DEF TakenBack, TypeOK, TransactionType

----------------------------------------------------------------------------
(* Types.                                                                  *)

\* The steps, with the gestures as one kind and the ways to get no answer too.
LEMMA Steps ==
  ASSUME [Next]_vars
  PROVE  \/ \E op, key, copy : Change(op, key, copy) /\ Gesture(op, key, copy)
         \/ \E what \in {"purge", "clear"} : \E hosts \in SUBSET settings.deleted :
                /\ AskPurge(what, hosts)
                /\ what = "clear" => hosts = settings.deleted
         \/ Login \/ Logout \/ ChangePassword
         \/ (\E s \in Sender : ServeRead(s))
         \/ ServeSave \/ ServePurge \/ ServePassword \/ ServeLogin
         \/ (\E s \in Sender : Lost(s))
         \/ ScopeRead \/ Saved \/ ScopeSaved \/ ScopeReloaded \/ StatsRefreshed \/ TurnFails
         \/ Purged \/ PurgeFails \/ LoggedIn \/ Loaded
         \/ SessionFails \/ PasswordChanged \/ PasswordFails
         \/ (\E h \in Configured : AgentReturns(h)) \/ TokensExpire \/ UNCHANGED vars
<1>1. ASSUME User
      PROVE  \/ \E op, key, copy : Change(op, key, copy) /\ Gesture(op, key, copy)
             \/ \E what \in {"purge", "clear"} : \E hosts \in SUBSET settings.deleted :
                    /\ AskPurge(what, hosts)
                    /\ what = "clear" => hosts = settings.deleted
             \/ Login \/ Logout \/ ChangePassword
  <2>1. ASSUME NEW h \in Host, PurgeDeletedHost(h)
        PROVE  \E hosts \in SUBSET settings.deleted : AskPurge("purge", hosts)
    BY <2>1 DEF PurgeDeletedHost
  <2>2. ASSUME ClearDeletedHosts
        PROVE  \E hosts \in SUBSET settings.deleted :
                  AskPurge("clear", hosts) /\ hosts = settings.deleted
    BY <2>2 DEF ClearDeletedHosts
  <2> QED BY <1>1, <2>1, <2>2, Changes DEF User
<1>2. ASSUME NEW s \in Sender, Answered(s)
      PROVE  \/ \E r \in Sender : ServeRead(r) \/ Lost(r)
             \/ ServeSave \/ ServePurge \/ ServePassword \/ ServeLogin
  BY <1>2 DEF Answered, Lost
<1> QED BY <1>1, <1>2 DEF Next, ReceiveTurn, ReceivePurge, ReceiveSession


LEMMA TypeStep ==
  ASSUME TypeOK, Shape, [Next]_vars
  PROVE  TypeOK'
<1>0. /\ "turn" \in Sender /\ "purge" \in Sender /\ "session" \in Sender
      /\ NoRequest \in RequestType /\ NoRequest.at = "none"
      /\ settings \in Settings /\ stored \in Settings /\ Empty \in Settings
      /\ token \in 0..MaxLogins /\ 0 \in 0..MaxLogins /\ logins \in 0..MaxLogins
      /\ gestures \in 0..MaxGestures
      /\ \A s \in Sender : wire[s].body \in Settings /\ wire[s].rows \in SUBSET Host
      /\ \A s \in Sender : wire[s].what # "none" => wire[s].at # "none"
      /\ queue # <<>> => Head(queue) \in TransactionType /\ Head(queue).key \in Key
  <2>1. NoRequest.what = "none" /\ NoRequest.at = "none"
    BY DEF NoRequest
  <2>2. \A s \in Sender : wire[s].what # "none" => wire[s].at # "none"
    BY <2>1 DEF Shape, Idle
  <2>3. \A s \in Sender : wire[s] \in RequestType
    BY DEF TypeOK
  <2>4. \A s \in Sender : wire[s].body \in Settings /\ wire[s].rows \in SUBSET Host
    BY <2>3 DEF RequestType
  <2>5. queue # <<>> => Head(queue) \in TransactionType
    BY QueueFacts
  <2>6. queue # <<>> => Head(queue).key \in Key
    BY <2>5 DEF TransactionType
  <2> QED BY <2>1, <2>2, <2>4, <2>5, <2>6, RequestTypes, EmptyType, BoundAssumption
      DEF Sender, TypeOK
<1>1. ASSUME NEW op, NEW key, NEW copy, Change(op, key, copy), Gesture(op, key, copy)
      PROVE  TypeOK'
  <2>1. key \in Key /\ copy \in Settings
    BY <1>1, ChangeFacts DEF Gesture
  <2>2. queue' \in Seq(TransactionType) /\ queue' # <<>>
    BY <1>1, GestureFacts, AppendFacts
  <2>3. gestures + 1 \in 1..MaxGestures
    BY <1>0, <1>1, GestureFacts, BoundAssumption
  <2>4. latest' \in [Key -> 0..MaxGestures]
    BY <1>1, <2>1, <2>3, GestureFacts DEF TypeOK
  <2>5. wire' \in [Sender -> RequestType] /\ wire'["turn"].at # "none"
    <3>1. CASE queue = <<>>
      BY <1>1, <3>1, GestureFacts, RequestFacts
    <3>2. CASE queue # <<>>
      BY <1>1, <3>2, GestureFacts DEF TypeOK, Idle
    <3> QED BY <3>1, <3>2
  <2>6. /\ acked' = acked \ {key} /\ (exposed' = exposed \/ exposed' = exposed \cup {gestures + 1})
        /\ drift' \in BOOLEAN
    BY <1>1, GestureFacts
  <2>7. UNCHANGED <<stored, reporting, alive, view, token, rows, logins, faults>>
    BY <1>1, GestureFacts DEF server
  <2>8. settings' \in Settings /\ gestures' \in 0..MaxGestures
    BY <1>1, <2>1, <2>3, GestureFacts
  <2> QED BY <2>2, <2>3, <2>4, <2>5, <2>6, <2>7, <2>8 DEF TypeOK, Idle
<1>2. ASSUME NEW what \in {"purge", "clear"}, NEW hosts \in SUBSET settings.deleted,
             AskPurge(what, hosts)
      PROVE  TypeOK'
  <2>1. gestures + 1 \in 1..MaxGestures
    BY <1>0, <1>2, AskFacts, BoundAssumption
  <2>2. Pending \subseteq 1..MaxGestures
    BY QueueFacts DEF Pending, TransactionType
  <2>3. latest' \in [Key -> 0..MaxGestures]
    BY <1>2, <2>1, AskFacts DEF TypeOK
  <2>4. acked' \subseteq Key /\ exposed' \subseteq 1..MaxGestures /\ drift' \in BOOLEAN
    BY <1>2, <2>2, AskFacts DEF TypeOK
  <2>5. wire' \in [Sender -> RequestType] /\ wire'["turn"] = wire["turn"]
    BY <1>2, AskFacts
  <2>6. UNCHANGED <<stored, reporting, alive, view, token, settings, rows, queue, logins, faults>>
    BY <1>2, AskFacts DEF server, page
  <2>7. gestures' \in 0..MaxGestures
    BY <1>2, <2>1, AskFacts
  <2> QED BY <2>3, <2>4, <2>5, <2>6, <2>7 DEF TypeOK, Idle
<1>3. ASSUME Login PROVE TypeOK'
  <2>1. Pending \subseteq 1..MaxGestures
    BY QueueFacts DEF Pending, TransactionType
  <2>2. wire' \in [Sender -> RequestType] /\ wire'["turn"] = wire["turn"]
    BY <1>0, <1>3, RequestTypes, SendFacts DEF Login, Sender
  <2> QED BY <1>3, <2>1, <2>2 DEF TypeOK, Idle, Login, server, page
<1>4. ASSUME Logout PROVE TypeOK'
  BY <1>0, <1>4 DEF TypeOK, Idle, Logout, server, history
<1>5. ASSUME ChangePassword PROVE TypeOK'
  <2>1. wire' \in [Sender -> RequestType] /\ wire'["turn"] = wire["turn"]
    BY <1>0, <1>5, RequestTypes, SendFacts DEF ChangePassword, Sender
  <2> QED BY <1>5, <2>1 DEF TypeOK, Idle, ChangePassword, server, page, history
<1>6. ASSUME NEW s \in Sender, ServeRead(s) PROVE TypeOK'
  <2>1. reporting \ stored.deleted \in SUBSET Host
    BY DEF TypeOK
  <2>2. wire' \in [Sender -> RequestType] /\ (wire'["turn"].at = "none" <=> wire["turn"].at = "none")
    BY <1>0, <1>6, <2>1, AnswerFacts DEF ServeRead, Authorised
  <2> QED BY <1>6, <2>2 DEF TypeOK, Idle, ServeRead, server, page, history
<1>7. ASSUME ServeSave PROVE TypeOK'
  <2>1. stored' \in Settings
    BY <1>0, <1>7, NormalizeFacts DEF ServeSave
  <2>2. wire' \in [Sender -> RequestType] /\ (wire'["turn"].at = "none" <=> wire["turn"].at = "none")
    BY <1>0, <1>7, <2>1, AnswerFacts DEF ServeSave, Authorised
  <2> QED BY <1>7, <2>1, <2>2 DEF TypeOK, Idle, ServeSave, page, history
<1>8. ASSUME ServePurge PROVE TypeOK'
  <2>1. stored' \in Settings
    <3>1. stored.deleted \in SUBSET Host /\ wire["purge"].hosts \in SUBSET Host
      BY <1>0 DEF Settings, TypeOK, RequestType
    <3> QED BY <1>0, <1>8, <3>1, WithoutFacts DEF ServePurge
  <2>2. wire' \in [Sender -> RequestType] /\ wire'["turn"] = wire["turn"]
    BY <1>0, <1>8, <2>1, AnswerFacts DEF ServePurge
  <2> QED BY <1>8, <2>1, <2>2 DEF TypeOK, Idle, ServePurge, page, history
<1>9. ASSUME ServePassword PROVE TypeOK'
  <2>1. wire' \in [Sender -> RequestType] /\ wire'["turn"] = wire["turn"]
    BY <1>0, <1>9, AnswerFacts DEF ServePassword
  <2> QED BY <1>9, <2>1 DEF TypeOK, Idle, ServePassword, page, history
<1>10. ASSUME ServeLogin PROVE TypeOK'
  <2>1. wire' \in [Sender -> RequestType] /\ wire'["turn"] = wire["turn"]
    BY <1>0, <1>10, AnswerFacts DEF ServeLogin
  <2>2. logins' = logins + 1 /\ logins < MaxLogins /\ alive' = alive \cup {logins'}
    BY <1>10 DEF ServeLogin, Shape
  <2>3. logins' \in 1..MaxLogins
    BY <1>0, <2>2, BoundAssumption
  <2>4. alive' \subseteq 1..MaxLogins /\ logins' \in 0..MaxLogins
    BY <2>2, <2>3, BoundAssumption DEF TypeOK
  <2> QED BY <1>10, <2>1, <2>4 DEF TypeOK, Idle, ServeLogin, page, history
<1>11. ASSUME NEW s \in Sender, Lost(s) PROVE TypeOK'
  <2>1. wire' \in [Sender -> RequestType] /\ (wire'["turn"].at = "none" <=> wire["turn"].at = "none")
    BY <1>0, <1>11, LostFacts
  <2> QED BY <1>11, <2>1, LostFacts DEF TypeOK, Idle, server, page
<1>12. ASSUME ScopeRead PROVE TypeOK'
  <2>1. queue # <<>> /\ ScopedPayload(Head(queue), wire["turn"].body) \in Settings
    BY <1>0, <1>12, PayloadType DEF ScopeRead, TurnAnswered, TurnWaits
  <2>2. wire' \in [Sender -> RequestType] /\ wire'["turn"].at = "sent"
    BY <1>12, <2>1, NextFacts DEF ScopeRead
  <2> QED BY <1>12, <2>1, <2>2 DEF TypeOK, Idle, ScopeRead, server, page, history
<1>13. ASSUME Saved PROVE TypeOK'
  <2>1. wire' \in [Sender -> RequestType] /\ wire'["turn"].at = "sent"
    BY <1>0, <1>13, NextFacts DEF Saved
  <2>2. queue # <<>> /\ acked' \subseteq Key
    BY <1>0, <1>13 DEF Saved, TurnAnswered, TurnWaits, Acknowledge, TypeOK
  <2> QED BY <1>0, <1>13, <2>1, <2>2 DEF TypeOK, Idle, Saved, server
<1>14. ASSUME ScopeSaved PROVE TypeOK'
  <2>1. queue # <<>> /\ acked' \subseteq Key
    BY <1>0, <1>14 DEF ScopeSaved, TurnAnswered, TurnWaits, Acknowledge, TypeOK
  <2>2. settings' \in Settings
    BY <1>0, <1>14, <2>1, MergedType DEF ScopeSaved
  <2>3. /\ wire' \in [Sender -> RequestType] /\ (wire'["turn"].at = "none" <=> queue' = <<>>)
        /\ queue' \in Seq(TransactionType)
    <3>1. CASE NextRequest("reload", Empty) /\ UNCHANGED queue
      BY <1>0, <2>1, <3>1, NextFacts DEF TypeOK
    <3>2. CASE EndTurn(settings', token)
      BY <1>0, <2>1, <2>2, <3>2, EndTurnFacts
    <3> QED BY <1>14, <3>1, <3>2 DEF ScopeSaved
  <2> QED BY <1>14, <2>1, <2>2, <2>3 DEF TypeOK, Idle, ScopeSaved, server
<1>15. ASSUME ScopeReloaded PROVE TypeOK'
  <2>1. queue # <<>>
    BY <1>15 DEF ScopeReloaded, TurnAnswered, TurnWaits
  <2>2. settings' \in Settings
    BY <1>0, <1>15, <2>1, MergedType DEF ScopeReloaded
  <2>3. /\ wire' \in [Sender -> RequestType] /\ (wire'["turn"].at = "none" <=> queue' = <<>>)
        /\ queue' \in Seq(TransactionType)
    BY <1>0, <1>15, <2>1, <2>2, EndTurnFacts DEF ScopeReloaded
  <2> QED BY <1>15, <2>2, <2>3 DEF TypeOK, Idle, ScopeReloaded, server, history
<1>16. ASSUME StatsRefreshed PROVE TypeOK'
  <2>1. queue # <<>> /\ token' \in 0..MaxLogins /\ rows' \subseteq Host
    BY <1>0, <1>16 DEF StatsRefreshed, TurnWaits, TypeOK
  <2>2. /\ wire' \in [Sender -> RequestType] /\ (wire'["turn"].at = "none" <=> queue' = <<>>)
        /\ queue' \in Seq(TransactionType)
    BY <1>0, <1>16, <2>1, EndTurnFacts DEF StatsRefreshed
  <2> QED BY <1>16, <2>1, <2>2 DEF TypeOK, Idle, StatsRefreshed, server, history
<1>17. ASSUME TurnFails PROVE TypeOK'
  <2>1. /\ queue # <<>> /\ token' \in 0..MaxLogins
        /\ view' \in {"login", "loading", "dashboard"}
    BY <1>0, <1>17 DEF TurnFails, SessionAfter, TypeOK
  <2>2. settings' \in Settings
    BY <1>0, <1>17, <2>1, TakenBackType DEF TurnFails
  <2>3. /\ wire' \in [Sender -> RequestType] /\ (wire'["turn"].at = "none" <=> queue' = <<>>)
        /\ queue' \in Seq(TransactionType)
    BY <1>0, <1>17, <2>1, <2>2, EndTurnFacts DEF TurnFails
  <2>4. drift' \in BOOLEAN
    BY <1>17 DEF TurnFails
  <2> QED BY <1>17, <2>1, <2>2, <2>3, <2>4 DEF TypeOK, Idle, TurnFails, server
<1>18. ASSUME Purged PROVE TypeOK'
  <2>1. wire' \in [Sender -> RequestType] /\ wire'["turn"] = wire["turn"]
    BY <1>0, <1>18, SendFacts DEF Purged
  <2> QED BY <1>0, <1>18, <2>1 DEF TypeOK, Idle, Purged, server, history
<1>19. ASSUME PurgeFails PROVE TypeOK'
  <2>1. wire' \in [Sender -> RequestType] /\ wire'["turn"] = wire["turn"]
    BY <1>0, <1>19, SendFacts DEF PurgeFails
  <2> QED BY <1>0, <1>19, <2>1 DEF TypeOK, Idle, PurgeFails, SessionAfter, server, history
<1>20. ASSUME LoggedIn PROVE TypeOK'
  <2>1. wire' \in [Sender -> RequestType] /\ wire'["turn"] = wire["turn"]
    BY <1>0, <1>20, RequestTypes, SendFacts DEF LoggedIn
  <2> QED BY <1>0, <1>20, <2>1 DEF TypeOK, Idle, LoggedIn, server, history
<1>21. ASSUME Loaded PROVE TypeOK'
  <2>1. wire' \in [Sender -> RequestType] /\ wire'["turn"] = wire["turn"]
    BY <1>0, <1>21, SendFacts DEF Loaded
  <2>2. drift' \in BOOLEAN
    BY <1>21 DEF Loaded
  <2> QED BY <1>0, <1>21, <2>1, <2>2 DEF TypeOK, Idle, Loaded, server
<1>22. ASSUME SessionFails \/ PasswordChanged \/ PasswordFails PROVE TypeOK'
  <2>1. wire' = [wire EXCEPT !["session"] = NoRequest]
    BY <1>22 DEF SessionFails, PasswordChanged, PasswordFails
  <2>2. wire' \in [Sender -> RequestType] /\ wire'["turn"] = wire["turn"]
    BY <1>0, <2>1, SendFacts
  <2>3. token' \in 0..MaxLogins /\ view' \in {"login", "loading", "dashboard"}
    BY <1>0, <1>22 DEF TypeOK, SessionFails, PasswordChanged, PasswordFails, SessionAfter
  <2>4. UNCHANGED <<server, settings, rows, queue, gestures, logins, faults, history>>
    BY <1>22 DEF SessionFails, PasswordChanged, PasswordFails
  <2> QED BY <2>2, <2>3, <2>4 DEF TypeOK, Idle, server, history
<1>23. ASSUME NEW h \in Configured, AgentReturns(h) PROVE TypeOK'
  <2>1. stored' \in Settings /\ reporting' \subseteq Host
    BY <1>0, <1>23, HostAssumption, MarkFacts DEF AgentReturns, TypeOK
  <2>2. faults' \in 0..MaxFaults /\ drift' \in BOOLEAN
    BY <1>23, BoundAssumption DEF AgentReturns, Fault, TypeOK
  <2> QED BY <1>23, <2>1, <2>2 DEF TypeOK, Idle, AgentReturns, page
<1>24. ASSUME TokensExpire PROVE TypeOK'
  <2>1. faults' \in 0..MaxFaults /\ alive' = {}
    BY <1>24, BoundAssumption DEF TokensExpire, Fault, TypeOK
  <2> QED BY <1>24, <2>1 DEF TypeOK, Idle, TokensExpire, page, history
<1>25. CASE UNCHANGED vars
  BY <1>25 DEF TypeOK, Idle, vars, server, page, history
<1> QED BY <1>1, <1>2, <1>3, <1>4, <1>5, <1>6, <1>7, <1>8, <1>9, <1>10, <1>11, <1>12, <1>13,
    Steps, <1>14, <1>15, <1>16, <1>17, <1>18, <1>19, <1>20, <1>21, <1>22, <1>23, <1>24, <1>25

\* How a running transaction ends: the copy that the next one is built from.
TurnOver(copy) ==
    /\ queue # <<>>
    /\ queue' = Tail(queue)
    /\ wire'["purge"] = wire["purge"] /\ wire'["session"] = wire["session"]
    /\ queue' = <<>> => wire'["turn"] = NoRequest /\ wire'["turn"].at = "none"
                        /\ wire'["turn"].what = "none"
    /\ queue' # <<>> => wire'["turn"].at = "sent"
    /\ queue' # <<>> /\ Scoped(Head(queue')) => wire'["turn"].what = "get"
    /\ queue' # <<>> /\ ~Scoped(Head(queue')) =>
          wire'["turn"].what = "save" /\ wire'["turn"].body = copy
    /\ UNCHANGED <<server, gestures, logins, faults, latest, exposed>>

LEMMA ScopeSavedFacts ==
  ASSUME TypeOK, ScopeSaved
  PROVE  /\ queue # <<>> /\ wire["turn"].what = "save" /\ wire["turn"].at = "answered"
         /\ Scoped(Head(queue)) /\ Head(queue) \in TransactionType
         /\ settings' = Merged(Head(queue).key, wire["turn"].body) /\ settings' \in Settings
         /\ Acknowledge(Head(queue), wire["turn"].body)
         /\ \/ TurnOver(settings')
            \/ /\ queue' = queue /\ wire'["turn"].at = "sent" /\ wire'["turn"].what = "reload"
               /\ wire'["purge"] = wire["purge"] /\ wire'["session"] = wire["session"]
         /\ UNCHANGED <<server, view, token, rows, gestures, logins, faults, latest, exposed, drift>>
<1>1. /\ queue # <<>> /\ wire["turn"].what = "save" /\ wire["turn"].at = "answered"
      /\ Scoped(Head(queue))
      /\ settings' = Merged(Head(queue).key, wire["turn"].body)
      /\ Acknowledge(Head(queue), wire["turn"].body)
      /\ UNCHANGED <<server, view, token, rows, gestures, logins, faults, latest, exposed, drift>>
  BY DEF ScopeSaved, TurnAnswered, TurnWaits
<1>2. Head(queue) \in TransactionType /\ wire["turn"].body \in Settings
  BY <1>1, QueueFacts, WireFacts DEF Sender
<1>3. settings' \in Settings
  BY <1>1, <1>2, MergedType DEF TransactionType
<1>4. CASE NextRequest("reload", Empty) /\ UNCHANGED queue
  BY <1>1, <1>2, <1>3, <1>4, NextFacts, EmptyType
<1>5. CASE EndTurn(settings', token)
  <2>1. token \in 0..MaxLogins
    BY DEF TypeOK
  <2>2. TurnOver(settings')
    BY <1>1, <1>3, <1>5, <2>1, EndTurnFacts DEF TurnOver
  <2> QED BY <1>1, <1>2, <1>3, <2>2
<1> QED BY <1>4, <1>5 DEF ScopeSaved

LEMMA ScopeReloadedFacts ==
  ASSUME TypeOK, Shape, ScopeReloaded
  PROVE  /\ queue # <<>> /\ wire["turn"].what = "reload" /\ wire["turn"].at = "answered"
         /\ Scoped(Head(queue)) /\ Head(queue) \in TransactionType
         /\ settings' = Merged(Head(queue).key, wire["turn"].body) /\ settings' \in Settings
         /\ TurnOver(settings')
         /\ UNCHANGED <<server, view, token, rows, gestures, logins, faults, history>>
<1>1. /\ queue # <<>> /\ wire["turn"].what = "reload" /\ wire["turn"].at = "answered"
      /\ settings' = Merged(Head(queue).key, wire["turn"].body)
      /\ EndTurn(settings', token)
      /\ UNCHANGED <<server, view, token, rows, gestures, logins, faults, history>>
  BY DEF ScopeReloaded, TurnAnswered, TurnWaits
<1>2. /\ Head(queue) \in TransactionType /\ wire["turn"].body \in Settings
      /\ token \in 0..MaxLogins
  BY <1>1, QueueFacts, WireFacts DEF Sender, TypeOK
<1>3. settings' \in Settings
  BY <1>1, <1>2, MergedType DEF TransactionType
<1>4. TurnOver(settings')
  BY <1>1, <1>2, <1>3, EndTurnFacts DEF TurnOver, history
<1>5. Scoped(Head(queue))
  BY <1>1 DEF Shape, Idle
<1> QED BY <1>1, <1>2, <1>3, <1>4, <1>5

LEMMA StatsRefreshedFacts ==
  ASSUME TypeOK, Shape, StatsRefreshed
  PROVE  /\ queue # <<>> /\ wire["turn"].what = "stats" /\ wire["turn"].at # "none"
         /\ ~Scoped(Head(queue)) /\ Head(queue) \in TransactionType
         /\ settings' = settings /\ TurnOver(settings')
         /\ UNCHANGED <<server, view, settings, gestures, logins, faults, history>>
<1>1. /\ queue # <<>> /\ wire["turn"].what = "stats" /\ wire["turn"].at # "none"
      /\ EndTurn(settings, token')
      /\ token' = token \/ token' = 0
      /\ UNCHANGED <<server, view, settings, gestures, logins, faults, history>>
  BY DEF StatsRefreshed, TurnWaits
<1>2. Head(queue) \in TransactionType /\ token' \in 0..MaxLogins /\ settings \in Settings
  BY <1>1, QueueFacts, BoundAssumption DEF TypeOK
<1>3. TurnOver(settings')
  BY <1>1, <1>2, EndTurnFacts DEF TurnOver, history
<1>4. ~Scoped(Head(queue))
  BY <1>1 DEF Shape, Idle
<1> QED BY <1>1, <1>2, <1>3, <1>4

LEMMA TurnFailsFacts ==
  ASSUME TypeOK, Shape, TurnFails
  PROVE  /\ queue # <<>> /\ wire["turn"].what \in {"get", "save", "reload"}
         /\ wire["turn"].at \in {"failed", "refused"}
         /\ Head(queue) \in TransactionType
         /\ ~Scoped(Head(queue)) => wire["turn"].what = "save"
         /\ settings' = TakenBack(Head(queue)) /\ settings' \in Settings /\ TurnOver(settings)
         /\ view' = view \/ view' = "login"
         /\ drift' = (drift \/ IF Undoable(Head(queue))
                               THEN Tail(queue) # <<>> \/ Head(queue).shared
                               ELSE ~Scoped(Head(queue)))
         /\ UNCHANGED <<server, rows, gestures, logins, faults, latest, acked, exposed>>
<1>1. /\ queue # <<>> /\ wire["turn"].what \in {"get", "save", "reload"}
      /\ wire["turn"].at \in {"failed", "refused"}
      /\ settings' = TakenBack(Head(queue))
      /\ EndTurn(settings, token')
      /\ drift' = (drift \/ IF Undoable(Head(queue))
                            THEN Tail(queue) # <<>> \/ Head(queue).shared
                            ELSE ~Scoped(Head(queue)))
      /\ token' = token \/ token' = 0
      /\ view' = view \/ view' = "login"
      /\ UNCHANGED <<server, rows, gestures, logins, faults, latest, acked, exposed>>
  BY DEF TurnFails, SessionAfter
<1>2. Head(queue) \in TransactionType /\ token' \in 0..MaxLogins
  BY <1>1, QueueFacts, BoundAssumption DEF TypeOK
<1>3. settings' \in Settings
  BY <1>1, <1>2, TakenBackType
<1>4. TurnOver(settings)
  <2>1. /\ queue' = Tail(queue)
        /\ wire'["purge"] = wire["purge"] /\ wire'["session"] = wire["session"]
        /\ queue' = <<>> => wire'["turn"] = NoRequest /\ wire'["turn"].at = "none"
                            /\ wire'["turn"].what = "none"
        /\ queue' # <<>> => wire'["turn"].at = "sent"
        /\ queue' # <<>> /\ Scoped(Head(queue')) => wire'["turn"].what = "get"
        /\ queue' # <<>> /\ ~Scoped(Head(queue')) =>
              wire'["turn"].what = "save" /\ wire'["turn"].body = settings
    BY <1>1, <1>2, EndTurnFacts DEF TypeOK
  <2> QED BY <1>1, <2>1 DEF TurnOver
<1>5. ~Scoped(Head(queue)) => wire["turn"].what = "save"
  BY <1>1 DEF Shape, Idle
<1> QED BY <1>1, <1>2, <1>3, <1>4, <1>5

\* Every step keeps the shape of the queue and of the requests.
LEMMA ShapeStep ==
  ASSUME TypeOK, Shape, [Next]_vars
  PROVE  Shape'
<1> DEFINE Waits == /\ \A s \in Sender : Idle(s) => wire[s] = NoRequest
                    /\ ~Idle("turn") => wire["turn"].what \in
                          IF Scoped(Head(queue)) THEN {"get", "save", "reload"} ELSE {"save", "stats"}
                    /\ ~Idle("purge") => wire["purge"].what \in {"purge", "clear"}
                    /\ ~Idle("session") => wire["session"].what \in {"login", "load", "password"}
                    /\ wire["session"].at = "sent" /\ wire["session"].what = "login" =>
                          logins < MaxLogins
           Queued == \A i \in DOMAIN queue :
                        /\ Scoped(queue[i]) <=> queue[i].key \in Scope
                        /\ queue[i].op \in {"duplicate", "delete", "restore"} => queue[i].key \in Host
                        /\ queue[i].shared \/ i = 1
<1>a. Waits /\ Queued
  BY DEF Shape
<1>b. SUFFICES Waits' /\ Queued'
  BY DEF Shape
<1>c. ASSUME queue' = queue PROVE Queued'
  BY <1>a, <1>c
<1>d. /\ NoRequest.at = "none" /\ NoRequest.what = "none" /\ NoRequest \in RequestType
      /\ \A s \in Sender : wire[s].at = "none" => wire[s].what = "none"
  <2>1. NoRequest.at = "none" /\ NoRequest.what = "none"
    BY DEF NoRequest
  <2> QED BY <1>a, <2>1, RequestTypes DEF Idle
<1>e. ASSUME NEW copy, TurnOver(copy), logins' = logins PROVE Waits' /\ Queued'
  <2>1. Queued'
    BY <1>a, <1>e, TailFacts DEF TurnOver
  <2>2. Waits'
    <3>1. CASE queue' = <<>>
      BY <1>a, <1>d, <1>e, <3>1 DEF TurnOver, Idle, Sender
    <3>2. CASE queue' # <<>>
      BY <1>a, <1>e, <3>2 DEF TurnOver, Idle, Sender
    <3> QED BY <3>1, <3>2
  <2> QED BY <2>1, <2>2
<1>1. ASSUME NEW op, NEW key, NEW copy, Change(op, key, copy), Gesture(op, key, copy)
      PROVE  Waits' /\ Queued'
  <2>1. PICK t \in TransactionType :
           /\ t.op = op /\ t.key = key /\ (t.shared \/ queue = <<>>)
           /\ Scoped(t) <=> op \in {"scope", "reset"}
           /\ queue' = Append(queue, t)
           /\ queue = <<>> => wire'["turn"] = IF Scoped(t) THEN Request("get", token, Empty)
                                              ELSE Request("save", token, copy)
    BY <1>1, GestureFacts
  <2>2. Queued'
    <3>1. /\ Scoped(t) <=> t.key \in Scope
          /\ t.op \in {"duplicate", "delete", "restore"} => t.key \in Host
          /\ t.shared \/ Len(queue) + 1 = 1
      <4>1. /\ op \in {"scope", "reset"} <=> key \in Scope
            /\ op \in {"duplicate", "delete", "restore"} => key \in Host
        BY <1>1, ChangeFacts DEF Gesture
      <4>2. t.shared \/ Len(queue) + 1 = 1
        BY <2>1, QueueFacts
      <4> QED BY <2>1, <4>1, <4>2
    <3> QED BY <1>a, <2>1, <3>1, AppendFacts
  <2>3. Waits'
    <3>1. CASE queue = <<>>
      <4>1. Head(queue') = t
        BY <2>1, <3>1, AppendFacts
      <4>2. /\ wire'["turn"].at = "sent"
            /\ wire'["turn"].what = IF Scoped(t) THEN "get" ELSE "save"
        BY <2>1, <3>1, RequestFacts
      <4>3. wire'["purge"] = wire["purge"] /\ wire'["session"] = wire["session"] /\ logins' = logins
        BY <1>1, GestureFacts
      <4> QED BY <1>a, <4>1, <4>2, <4>3 DEF Idle, Sender
    <3>2. CASE queue # <<>>
      <4>1. Head(queue') = Head(queue)
        BY <2>1, <3>2, AppendFacts
      <4>2. /\ wire'["purge"] = wire["purge"] /\ wire'["session"] = wire["session"]
            /\ logins' = logins /\ wire'["turn"] = wire["turn"]
        BY <1>1, <3>2, GestureFacts
      <4> QED BY <1>a, <4>1, <4>2 DEF Idle, Sender
    <3> QED BY <3>1, <3>2
  <2> QED BY <2>2, <2>3
<1>2. ASSUME NEW what \in {"purge", "clear"}, NEW hosts \in SUBSET settings.deleted,
             AskPurge(what, hosts)
      PROVE  Waits' /\ Queued'
  BY <1>2, <1>a, <1>c, AskFacts DEF Idle, Sender
<1>3. ASSUME Login PROVE Waits' /\ Queued'
  <2>1. /\ wire'["turn"] = wire["turn"] /\ wire'["purge"] = wire["purge"]
        /\ wire'["session"] = Request("login", 0, Empty)
    <3>1. Request("login", 0, Empty) \in RequestType
      BY RequestTypes, EmptyType, BoundAssumption
    <3> QED BY <1>3, <3>1, SendFacts DEF Login, Sender
  <2>2. queue' = queue /\ logins' = logins /\ logins < MaxLogins
    BY <1>3 DEF Login, page
  <2> QED BY <1>a, <1>c, <2>1, <2>2, RequestFacts DEF Idle, Sender
<1>4. ASSUME Logout PROVE Waits' /\ Queued'
  BY <1>4, <1>a, <1>c DEF Idle, Logout
<1>5. ASSUME ChangePassword PROVE Waits' /\ Queued'
  <2>1. /\ wire'["turn"] = wire["turn"] /\ wire'["purge"] = wire["purge"]
        /\ wire'["session"] = Request("password", token, Empty)
    BY <1>5, RequestTypes, EmptyType, SendFacts DEF ChangePassword, Sender, TypeOK
  <2>2. queue' = queue /\ logins' = logins
    BY <1>5 DEF ChangePassword, page
  <2> QED BY <1>a, <1>c, <2>1, <2>2, RequestFacts DEF Idle, Sender
<1>6. ASSUME NEW s \in Sender, NEW body \in Settings, NEW shown \in SUBSET Host, wire[s].at = "sent",
             Answer(s, body, shown), queue' = queue,
             logins' = logins \/ s = "session"
      PROVE  Waits' /\ Queued'
  BY <1>6, <1>a, <1>c, AnswerFacts DEF Idle, Sender
<1>7. /\ \A s \in Sender : wire[s].body \in Settings /\ wire[s].rows \in SUBSET Host
      /\ stored \in Settings /\ settings \in Settings /\ Empty \in Settings
      /\ reporting \ stored.deleted \in SUBSET Host /\ {} \in SUBSET Host
      /\ "turn" \in Sender /\ "purge" \in Sender /\ "session" \in Sender
      /\ stored.deleted \in SUBSET Host
  BY WireFacts, EmptyType DEF TypeOK, Sender, RequestType, Settings
<1>8. ASSUME NEW s \in Sender, ServeRead(s) PROVE Waits' /\ Queued'
  BY <1>6, <1>7, <1>8 DEF ServeRead, Authorised, page
<1>9. ASSUME ServeSave PROVE Waits' /\ Queued'
  <2>1. stored' \in Settings
    BY <1>7, <1>9, NormalizeFacts DEF ServeSave
  <2> QED BY <1>6, <1>7, <1>9, <2>1 DEF ServeSave, Authorised, page
<1>10. ASSUME ServePurge PROVE Waits' /\ Queued'
  <2>1. wire["purge"].hosts \in SUBSET Host
    BY <1>7 DEF TypeOK, RequestType
  <2>2. stored' \in Settings
    BY <1>7, <1>10, <2>1, WithoutFacts DEF ServePurge
  <2> QED BY <1>6, <1>7, <1>10, <2>2 DEF ServePurge, Authorised, page
<1>11. ASSUME ServePassword \/ ServeLogin PROVE Waits' /\ Queued'
  BY <1>6, <1>7, <1>11 DEF ServePassword, ServeLogin, Authorised, page
<1>12. ASSUME NEW s \in Sender, Lost(s) PROVE Waits' /\ Queued'
  BY <1>12, <1>a, <1>c, LostFacts DEF Idle, Sender
<1>13. ASSUME ScopeRead PROVE Waits' /\ Queued'
  <2>1. queue # <<>> /\ ScopedPayload(Head(queue), wire["turn"].body) \in Settings
    BY <1>7, <1>13, QueueFacts, PayloadType DEF ScopeRead, TurnAnswered, TurnWaits
  <2>2. /\ wire'["turn"].at = "sent" /\ wire'["turn"].what = "save"
        /\ wire'["purge"] = wire["purge"] /\ wire'["session"] = wire["session"]
    BY <1>13, <2>1, NextFacts DEF ScopeRead
  <2>3. queue' = queue /\ logins' = logins
    BY <1>13 DEF ScopeRead, page
  <2> QED BY <1>a, <1>c, <2>2, <2>3 DEF Idle, Sender
<1>14. ASSUME Saved PROVE Waits' /\ Queued'
  <2>1. /\ wire'["turn"].at = "sent" /\ wire'["turn"].what = "stats"
        /\ wire'["purge"] = wire["purge"] /\ wire'["session"] = wire["session"]
    BY <1>7, <1>14, NextFacts DEF Saved
  <2>2. queue' = queue /\ logins' = logins /\ ~Scoped(Head(queue))
    BY <1>14 DEF Saved
  <2> QED BY <1>a, <1>c, <2>1, <2>2 DEF Idle, Sender
<1>15. ASSUME ScopeSaved PROVE Waits' /\ Queued'
  <2>1. CASE TurnOver(settings')
    BY <1>15, <1>e, <2>1, ScopeSavedFacts
  <2>2. CASE /\ queue' = queue /\ wire'["turn"].at = "sent" /\ wire'["turn"].what = "reload"
             /\ wire'["purge"] = wire["purge"] /\ wire'["session"] = wire["session"]
    BY <1>15, <1>a, <1>c, <2>2, ScopeSavedFacts DEF Idle, Sender
  <2> QED BY <1>15, <2>1, <2>2, ScopeSavedFacts
<1>16. ASSUME ScopeReloaded PROVE Waits' /\ Queued'
  BY <1>16, <1>e, ScopeReloadedFacts
<1>17. ASSUME StatsRefreshed PROVE Waits' /\ Queued'
  BY <1>17, <1>e, StatsRefreshedFacts
<1>18. ASSUME TurnFails PROVE Waits' /\ Queued'
  BY <1>18, <1>e, TurnFailsFacts
<1>19. ASSUME Purged \/ PurgeFails PROVE Waits' /\ Queued'
  <2>1. /\ wire'["purge"] = NoRequest /\ wire'["turn"] = wire["turn"]
        /\ wire'["session"] = wire["session"]
    BY <1>7, <1>19, <1>d, SendFacts DEF Purged, PurgeFails
  <2>2. queue' = queue /\ logins' = logins
    BY <1>19 DEF Purged, PurgeFails
  <2> QED BY <1>a, <1>c, <1>d, <2>1, <2>2 DEF Idle, Sender
<1>20. ASSUME LoggedIn PROVE Waits' /\ Queued'
  <2>1. token' \in 0..MaxLogins
    BY <1>20 DEF LoggedIn, TypeOK
  <2>2. /\ wire'["turn"] = wire["turn"] /\ wire'["purge"] = wire["purge"]
        /\ wire'["session"] = Request("load", token', Empty)
    BY <1>7, <1>20, <2>1, RequestTypes, SendFacts DEF LoggedIn
  <2>3. queue' = queue /\ logins' = logins
    BY <1>20 DEF LoggedIn
  <2> QED BY <1>a, <1>c, <2>2, <2>3, RequestFacts DEF Idle, Sender
<1>21. ASSUME Loaded \/ SessionFails \/ PasswordChanged \/ PasswordFails PROVE Waits' /\ Queued'
  <2>1. /\ wire'["session"] = NoRequest /\ wire'["turn"] = wire["turn"]
        /\ wire'["purge"] = wire["purge"]
    BY <1>7, <1>21, <1>d, SendFacts DEF Loaded, SessionFails, PasswordChanged, PasswordFails
  <2>2. queue' = queue /\ logins' = logins
    BY <1>21 DEF Loaded, SessionFails, PasswordChanged, PasswordFails
  <2> QED BY <1>a, <1>c, <1>d, <2>1, <2>2 DEF Idle, Sender
<1>22. ASSUME (\E h \in Configured : AgentReturns(h)) \/ TokensExpire \/ UNCHANGED vars
       PROVE Waits' /\ Queued'
  <2>1. queue' = queue /\ logins' = logins /\ wire' = wire
    BY <1>22 DEF AgentReturns, TokensExpire, vars, page
  <2> QED BY <1>a, <1>c, <2>1 DEF Idle, Sender
<1> HIDE DEF Waits, Queued
<1> QED BY <1>1, <1>2, <1>3, <1>4, <1>5, <1>8, <1>9, <1>10, <1>11, <1>12, <1>13, <1>14, <1>15,
    <1>16, <1>17, <1>18, <1>19, <1>20, <1>21, <1>22, Steps

----------------------------------------------------------------------------
(* What the remaining actions do, for the invariants about the data.       *)

\* Logins, logouts and the like: nothing that has to do with the settings
\* changes, but for gestures that become exposed.
Still ==
    /\ stored' = stored /\ settings' = settings /\ queue' = queue
    /\ wire'["turn"] = wire["turn"] /\ wire'["purge"] = wire["purge"]
    /\ gestures' = gestures /\ latest' = latest /\ acked' = acked /\ drift' = drift
    /\ exposed \subseteq exposed'

LEMMA ReadFacts ==
  ASSUME TypeOK, ServeRead("turn")
  PROVE  /\ wire["turn"].at = "sent" /\ wire["turn"].what \in {"get", "reload", "stats", "load"}
         /\ wire'["turn"].at = "answered" /\ wire'["turn"].what = wire["turn"].what
         /\ wire'["turn"].body = stored
         /\ wire'["purge"] = wire["purge"] /\ wire'["session"] = wire["session"]
         /\ stored' = stored /\ settings' = settings /\ queue' = queue
         /\ UNCHANGED <<server, page, gestures, logins, faults, history>>
<1>1. /\ wire["turn"].at = "sent" /\ wire["turn"].what \in {"get", "reload", "stats", "load"}
      /\ Answer("turn", stored, reporting \ stored.deleted)
      /\ UNCHANGED <<server, page, gestures, logins, faults, history>>
  BY DEF ServeRead, Authorised
<1>2. stored \in Settings /\ reporting \ stored.deleted \in SUBSET Host
  BY DEF TypeOK
<1> QED BY <1>1, <1>2, AnswerFacts DEF Sender, server, page

LEMMA SaveFacts ==
  ASSUME TypeOK, ServeSave
  PROVE  /\ wire["turn"].at = "sent" /\ wire["turn"].what = "save" /\ queue # <<>>
         /\ wire["turn"].body \in Settings
         /\ stored' = Normalize(wire["turn"].body) /\ stored' \in Settings
         /\ wire'["turn"].at = "answered" /\ wire'["turn"].what = "save"
         /\ wire'["turn"].body = stored'
         /\ wire'["purge"] = wire["purge"] /\ wire'["session"] = wire["session"]
         /\ settings' = settings /\ queue' = queue
         /\ UNCHANGED <<reporting, alive, page, gestures, logins, faults, history>>
<1>1. /\ wire["turn"].at = "sent" /\ wire["turn"].what = "save"
      /\ stored' = Normalize(wire["turn"].body)
      /\ Answer("turn", stored', {})
      /\ UNCHANGED <<reporting, alive, page, gestures, logins, faults, history>>
  BY DEF ServeSave, Authorised
<1>2. queue # <<>> /\ wire["turn"].body \in Settings
  BY <1>1, WireFacts DEF TypeOK, Idle, Sender
<1>3. stored' \in Settings
  BY <1>1, <1>2, NormalizeFacts
<1> QED BY <1>1, <1>2, <1>3, AnswerFacts DEF Sender, page

LEMMA PurgeFacts ==
  ASSUME TypeOK, ServePurge
  PROVE  /\ wire["purge"].at = "sent"
         /\ \E hosts \in SUBSET Host :
               /\ stored' = WithoutHosts(stored, hosts)
               /\ hosts = IF wire["purge"].what = "clear" THEN stored.deleted
                                                          ELSE wire["purge"].hosts
         /\ stored' \in Settings
         /\ wire'["purge"].at = "answered" /\ wire'["purge"].what = wire["purge"].what
         /\ wire'["purge"].body = stored' /\ wire'["purge"].hosts = wire["purge"].hosts
         /\ wire'["turn"] = wire["turn"] /\ wire'["session"] = wire["session"]
         /\ settings' = settings /\ queue' = queue
         /\ UNCHANGED <<reporting, alive, page, gestures, logins, faults, history>>
<1> DEFINE hosts == IF wire["purge"].what = "clear" THEN stored.deleted ELSE wire["purge"].hosts
<1>1. /\ wire["purge"].at = "sent"
      /\ stored' = WithoutHosts(stored, hosts)
      /\ Answer("purge", stored', {})
      /\ UNCHANGED <<reporting, alive, page, gestures, logins, faults, history>>
  BY DEF ServePurge, Authorised
<1>2. hosts \in SUBSET Host /\ stored \in Settings
  BY WireFacts DEF TypeOK, Settings, RequestType, Sender
<1>3. stored' \in Settings
  <2> HIDE DEF hosts
  <2> QED BY <1>1, <1>2, WithoutFacts
<1>4. /\ wire'["purge"].at = "answered" /\ wire'["purge"].what = wire["purge"].what
      /\ wire'["purge"].body = stored' /\ wire'["purge"].hosts = wire["purge"].hosts
      /\ wire'["turn"] = wire["turn"] /\ wire'["session"] = wire["session"]
  BY <1>1, <1>3, AnswerFacts DEF Sender
<1> QED BY <1>1, <1>2, <1>3, <1>4 DEF page

LEMMA ScopeReadFacts ==
  ASSUME TypeOK, Shape, ScopeRead
  PROVE  /\ queue # <<>> /\ wire["turn"].at = "answered" /\ wire["turn"].what = "get"
         /\ Scoped(Head(queue)) /\ Head(queue) \in TransactionType
         /\ wire["turn"].body \in Settings
         /\ wire'["turn"].at = "sent" /\ wire'["turn"].what = "save"
         /\ wire'["turn"].body = ScopedPayload(Head(queue), wire["turn"].body)
         /\ wire'["purge"] = wire["purge"] /\ wire'["session"] = wire["session"]
         /\ stored' = stored /\ settings' = settings /\ queue' = queue
         /\ UNCHANGED <<server, page, gestures, logins, faults, history>>
<1>1. /\ queue # <<>> /\ wire["turn"].at = "answered" /\ wire["turn"].what = "get"
      /\ NextRequest("save", ScopedPayload(Head(queue), wire["turn"].body))
      /\ UNCHANGED <<server, page, gestures, logins, faults, history>>
  BY DEF ScopeRead, TurnAnswered, TurnWaits
<1>2. Head(queue) \in TransactionType /\ wire["turn"].body \in Settings
  BY <1>1, QueueFacts, WireFacts DEF Sender
<1>3. Scoped(Head(queue))
  BY <1>1 DEF Shape, Idle
<1>4. ScopedPayload(Head(queue), wire["turn"].body) \in Settings
  BY <1>2, PayloadType
<1> QED BY <1>1, <1>2, <1>3, <1>4, NextFacts DEF server, page

LEMMA SavedFacts ==
  ASSUME TypeOK, Saved
  PROVE  /\ queue # <<>> /\ wire["turn"].at = "answered" /\ wire["turn"].what = "save"
         /\ ~Scoped(Head(queue)) /\ Head(queue) \in TransactionType
         /\ settings' = wire["turn"].body /\ wire["turn"].body \in Settings
         /\ Acknowledge(Head(queue), wire["turn"].body)
         /\ wire'["turn"].at = "sent" /\ wire'["turn"].what = "stats"
         /\ wire'["purge"] = wire["purge"] /\ wire'["session"] = wire["session"]
         /\ stored' = stored /\ queue' = queue
         /\ UNCHANGED <<server, view, token, rows, queue, gestures, logins, faults, latest,
                        exposed, drift>>
<1>1. /\ queue # <<>> /\ wire["turn"].at = "answered" /\ wire["turn"].what = "save"
      /\ ~Scoped(Head(queue)) /\ settings' = wire["turn"].body
      /\ NextRequest("stats", Empty) /\ Acknowledge(Head(queue), wire["turn"].body)
      /\ UNCHANGED <<server, view, token, rows, queue, gestures, logins, faults, latest,
                     exposed, drift>>
  BY DEF Saved, TurnAnswered, TurnWaits
<1>2. Head(queue) \in TransactionType /\ wire["turn"].body \in Settings
  BY <1>1, QueueFacts, WireFacts DEF Sender
<1> QED BY <1>1, <1>2, NextFacts, EmptyType DEF server

LEMMA PurgedFacts ==
  ASSUME TypeOK, Purged \/ PurgeFails
  PROVE  /\ \/ wire["purge"].at = "answered" /\ settings' = wire["purge"].body
            \/ wire["purge"].at \in {"failed", "refused"} /\ settings' = settings
         /\ wire'["purge"].at = "none"
         /\ wire'["turn"] = wire["turn"] /\ wire'["session"] = wire["session"]
         /\ stored' = stored /\ queue' = queue /\ (view' = view \/ view' = "login")
         /\ UNCHANGED <<server, rows, queue, gestures, logins, faults, history>>
<1>1. /\ \/ wire["purge"].at = "answered" /\ settings' = wire["purge"].body
         \/ wire["purge"].at \in {"failed", "refused"} /\ settings' = settings
      /\ wire' = [wire EXCEPT !["purge"] = NoRequest]
      /\ view' = view \/ view' = "login"
      /\ UNCHANGED <<server, rows, queue, gestures, logins, faults, history>>
  BY DEF Purged, PurgeFails, SessionAfter
<1>2. /\ wire'["purge"] = NoRequest
      /\ wire'["turn"] = wire["turn"] /\ wire'["session"] = wire["session"]
  BY <1>1, RequestTypes, SendFacts DEF Sender
<1>3. NoRequest.at = "none"
  BY DEF NoRequest
<1> QED BY <1>1, <1>2, <1>3 DEF server

LEMMA LoadedFacts ==
  ASSUME TypeOK, Loaded
  PROVE  /\ wire["session"].what = "load" /\ wire'["session"] = NoRequest
         /\ settings' = wire["session"].body /\ settings' \in Settings
         /\ wire'["turn"] = wire["turn"] /\ wire'["purge"] = wire["purge"]
         /\ drift' = (queue # <<>> \/ ~Idle("purge") \/ settings' # stored)
         /\ stored' = stored /\ queue' = queue
         /\ UNCHANGED <<server, token, queue, gestures, logins, faults, latest, acked, exposed>>
<1>1. wire'["session"] = NoRequest
      /\ wire'["turn"] = wire["turn"] /\ wire'["purge"] = wire["purge"]
  BY RequestTypes, SendFacts DEF Sender, Loaded
<1> QED BY <1>1, WireFacts DEF Loaded, Sender, server

LEMMA AgentFacts ==
  ASSUME TypeOK, NEW h \in Configured, AgentReturns(h)
  PROVE  /\ stored' = Unmark(stored, h) /\ h \in Host /\ stored \in Settings
         /\ drift' = (drift \/ h \in stored.deleted \/ \E s \in Sender : ~Idle(s))
         /\ settings' = settings /\ queue' = queue /\ wire' = wire /\ latest' = latest
         /\ UNCHANGED <<alive, page, wire, gestures, logins, latest, acked, exposed>>
BY HostAssumption DEF AgentReturns, page, TypeOK

\* These are the steps, as far as the settings go.
LEMMA Effects ==
  ASSUME TypeOK, Shape, [Next]_vars
  PROVE  \/ Still
         \/ \E op, key, copy : Change(op, key, copy) /\ Gesture(op, key, copy)
         \/ \E what \in {"purge", "clear"} : \E hosts \in SUBSET settings.deleted :
                /\ AskPurge(what, hosts)
                /\ what = "clear" => hosts = settings.deleted
         \/ ServeRead("turn") \/ ServeSave \/ ServePurge \/ Lost("turn") \/ Lost("purge")
         \/ ScopeRead \/ Saved \/ ScopeSaved \/ ScopeReloaded \/ StatsRefreshed \/ TurnFails
         \/ Purged \/ PurgeFails \/ Loaded
         \/ (\E h \in Configured : AgentReturns(h))
<1>1. "turn" \in Sender /\ "purge" \in Sender /\ "session" \in Sender
  BY DEF Sender
<1>2. ASSUME NEW r \in RequestType, wire' = [wire EXCEPT !["session"] = r]
      PROVE  wire'["turn"] = wire["turn"] /\ wire'["purge"] = wire["purge"]
  BY <1>1, <1>2, SendFacts
<1>3. ASSUME NEW body \in Settings, NEW shown \in SUBSET Host, Answer("session", body, shown)
      PROVE  wire'["turn"] = wire["turn"] /\ wire'["purge"] = wire["purge"]
  BY <1>1, <1>3, AnswerFacts
<1>4. /\ NoRequest \in RequestType /\ token \in 0..MaxLogins /\ logins \in 0..MaxLogins
      /\ Request("login", 0, Empty) \in RequestType
      /\ Request("password", token, Empty) \in RequestType
      /\ Request("load", logins, Empty) \in RequestType
      /\ Empty \in Settings /\ stored \in Settings
  BY RequestTypes, EmptyType, BoundAssumption DEF TypeOK
<1>5. CASE Login
  <2>1. wire'["turn"] = wire["turn"] /\ wire'["purge"] = wire["purge"]
    BY <1>2, <1>4, <1>5 DEF Login
  <2> QED BY <1>5, <2>1 DEF Login, Still, server, page
<1>6. CASE Logout
  BY <1>6 DEF Logout, Still, server, history
<1>7. CASE ChangePassword
  <2>1. wire'["turn"] = wire["turn"] /\ wire'["purge"] = wire["purge"]
    BY <1>2, <1>4, <1>7 DEF ChangePassword
  <2> QED BY <1>7, <2>1 DEF ChangePassword, Still, server, page, history
<1>8. CASE ServePassword \/ ServeLogin
  <2>1. wire'["turn"] = wire["turn"] /\ wire'["purge"] = wire["purge"]
    BY <1>3, <1>4, <1>8 DEF ServePassword, ServeLogin
  <2> QED BY <1>8, <2>1 DEF ServePassword, ServeLogin, Still, page, history
<1>9. ASSUME NEW s \in Sender, ServeRead(s) PROVE ServeRead("turn") \/ Still
  <2>1. s # "purge"
    <3>1. ~Idle(s) /\ wire[s].what \notin {"purge", "clear"}
      BY <1>9 DEF ServeRead, Authorised, Idle
    <3> QED BY <3>1 DEF Shape
  <2>2. CASE s = "session"
    <3>1. reporting \ stored.deleted \in SUBSET Host
      BY DEF TypeOK
    <3>2. wire'["turn"] = wire["turn"] /\ wire'["purge"] = wire["purge"]
      BY <1>3, <1>4, <1>9, <2>2, <3>1 DEF ServeRead
    <3> QED BY <1>9, <3>2 DEF ServeRead, Still, server, page, history
  <2> QED BY <1>9, <2>1, <2>2 DEF Sender
<1>10. ASSUME NEW s \in Sender, Lost(s) PROVE Lost("turn") \/ Lost("purge") \/ Still
  <2>1. CASE s = "session"
    <3>1. drift' = drift
      BY <1>10, <2>1 DEF Lost, Refuse, Fail, history, TypeOK
    <3> QED BY <1>1, <1>10, <2>1, <3>1, LostFacts DEF Still
  <2> QED BY <1>10, <2>1 DEF Sender
<1>11. CASE LoggedIn
  <2>1. wire'["turn"] = wire["turn"] /\ wire'["purge"] = wire["purge"]
    BY <1>2, <1>4, <1>11 DEF LoggedIn
  <2> QED BY <1>11, <2>1 DEF LoggedIn, Still, server, history
<1>12. CASE SessionFails \/ PasswordChanged \/ PasswordFails
  <2>1. wire'["turn"] = wire["turn"] /\ wire'["purge"] = wire["purge"]
    BY <1>2, <1>4, <1>12 DEF SessionFails, PasswordChanged, PasswordFails
  <2> QED BY <1>12, <2>1
      DEF SessionFails, PasswordChanged, PasswordFails, Still, server, history
<1>13. CASE TokensExpire \/ UNCHANGED vars
  BY <1>13 DEF TokensExpire, Still, vars, server, page, history
<1> QED BY <1>5, <1>6, <1>7, <1>8, <1>9, <1>10, <1>11, <1>12, <1>13, Steps

----------------------------------------------------------------------------
(* Which transactions are queued.                                          *)

\* A transaction that has been acknowledged and waits for what follows.
Settled(i) == i = 1 /\ wire["turn"].what \in {"stats", "reload"}

\* Transactions are numbered in order, and the latest gesture about a key is
\* none older than those that are queued.
Numbering ==
    /\ \A k \in Key : latest[k] <= gestures
    /\ \A i \in DOMAIN queue : queue[i].n <= latest[queue[i].key]
    /\ \A i, j \in DOMAIN queue : i < j => queue[i].n < queue[j].n

\* A host that is marked as deleted has no entry at the server.
Normal == \A h \in stored.deleted : stored.value[h] = 0

\* What was acknowledged has no transaction left that could change it.
AckedIsOld == \A i \in DOMAIN queue : queue[i].key \in acked => Settled(i)

LEMMA QueuedTypes ==
  ASSUME TypeOK
  PROVE  /\ \A i \in DOMAIN queue : /\ queue[i].n \in 1..MaxGestures /\ queue[i].key \in Key
                                    /\ queue[i].n \in Nat /\ i \in Nat
         /\ \A k \in Key : latest[k] \in Nat
         /\ gestures \in Nat
         /\ DOMAIN latest = Key
<1>1. DOMAIN queue \subseteq Nat /\ \A i \in DOMAIN queue : queue[i] \in TransactionType
  BY QueueFacts
<1>2. \A t \in TransactionType : t.n \in 1..MaxGestures /\ t.key \in Key
  BY DEF TransactionType
<1>3. 1..MaxGestures \subseteq Nat /\ 0..MaxGestures \subseteq Nat
  BY BoundAssumption
<1>4. latest \in [Key -> 0..MaxGestures] /\ gestures \in 0..MaxGestures
  BY DEF TypeOK
<1> QED BY <1>1, <1>2, <1>3, <1>4

LEMMA NumberingStep ==
  ASSUME TypeOK, Shape, Numbering, [Next]_vars
  PROVE  Numbering'
<1>1. ASSUME NEW op, NEW key, NEW copy, Change(op, key, copy), Gesture(op, key, copy)
      PROVE  Numbering'
  <2>1. key \in Key /\ gestures' = gestures + 1 /\ latest' = [latest EXCEPT ![key] = gestures + 1]
    BY <1>1, ChangeFacts, GestureFacts DEF Gesture
  <2>2. PICK t \in TransactionType : t.n = gestures + 1 /\ t.key = key /\ queue' = Append(queue, t)
    BY <1>1, GestureFacts
  <2>3. \A k \in Key : latest'[k] = IF k = key THEN gestures + 1 ELSE latest[k]
    BY <2>1, QueuedTypes
  <2>4. \A k \in Key : latest[k] <= latest'[k] /\ latest'[k] <= gestures'
    BY <2>1, <2>3, QueuedTypes DEF Numbering
  <2>5. \A i \in DOMAIN queue' : \/ i \in DOMAIN queue /\ queue'[i] = queue[i]
                                 \/ i = Len(queue) + 1 /\ queue'[i] = t
    BY <2>2, AppendFacts
  <2>6. \A i \in DOMAIN queue : queue[i].n <= gestures /\ i < Len(queue) + 1
    BY QueueFacts, QueuedTypes DEF Numbering
  <2>7. \A i \in DOMAIN queue' : queue'[i].n <= latest'[queue'[i].key]
    <3> TAKE i \in DOMAIN queue'
    <3>1. CASE i \in DOMAIN queue /\ queue'[i] = queue[i]
      BY <2>3, <2>4, <3>1, QueuedTypes DEF Numbering
    <3>2. CASE queue'[i] = t
      BY <2>1, <2>2, <2>3, <3>2, QueuedTypes
    <3> QED BY <2>5, <3>1, <3>2
  <2>8. \A i, j \in DOMAIN queue' : i < j => queue'[i].n < queue'[j].n
    <3> TAKE i, j \in DOMAIN queue'
    <3> HAVE i < j
    <3>1. CASE j \in DOMAIN queue /\ queue'[j] = queue[j]
      <4>1. i \in DOMAIN queue /\ queue'[i] = queue[i]
        BY <2>5, <2>6, <3>1, QueueFacts
      <4> QED BY <3>1, <4>1 DEF Numbering
    <3>2. CASE j = Len(queue) + 1 /\ queue'[j] = t
      <4>1. i \in DOMAIN queue /\ queue'[i] = queue[i]
        BY <2>5, <3>2, QueueFacts
      <4> QED BY <2>2, <2>6, <3>2, <4>1, QueuedTypes
    <3> QED BY <2>5, <3>1, <3>2
  <2> QED BY <2>4, <2>7, <2>8 DEF Numbering
<1>2. ASSUME NEW what \in {"purge", "clear"}, NEW hosts \in SUBSET settings.deleted,
             AskPurge(what, hosts)
      PROVE  Numbering'
  <2>1. /\ queue' = queue /\ gestures' = gestures + 1
        /\ \A k \in Key : latest'[k] = IF k \in hosts THEN gestures + 1 ELSE latest[k]
    BY <1>2, AskFacts
  <2>2. \A k \in Key : latest[k] <= latest'[k] /\ latest'[k] <= gestures'
    BY <2>1, QueuedTypes DEF Numbering
  <2>3. \A i \in DOMAIN queue : queue[i].n <= latest'[queue[i].key]
    BY <2>1, <2>2, QueuedTypes DEF Numbering
  <2> QED BY <2>1, <2>2, <2>3 DEF Numbering
<1>3. ASSUME queue' = queue, latest' = latest, gestures' = gestures PROVE Numbering'
  BY <1>3 DEF Numbering
<1>4. ASSUME NEW copy, TurnOver(copy) PROVE Numbering'
  <2>1. /\ latest' = latest /\ gestures' = gestures
        /\ \A i \in DOMAIN queue' : i + 1 \in DOMAIN queue /\ queue'[i] = queue[i + 1] /\ i \in Nat
    <3>1. queue' \in Seq(TransactionType)
      BY <1>4, TailFacts DEF TurnOver
    <3> QED BY <1>4, <3>1, TailFacts DEF TurnOver
  <2> QED BY <2>1 DEF Numbering
<1>5. CASE Still
  BY <1>3, <1>5 DEF Still
<1>6. CASE ServeRead("turn") \/ ServeSave \/ ServePurge
  BY <1>3, <1>6, ReadFacts, SaveFacts, PurgeFacts DEF history
<1>7. ASSUME NEW s \in {"turn", "purge"}, Lost(s) PROVE Numbering'
  BY <1>3, <1>7, LostFacts DEF Sender
<1>8. CASE ScopeRead \/ Saved \/ Purged \/ PurgeFails \/ Loaded
  BY <1>3, <1>8, ScopeReadFacts, SavedFacts, PurgedFacts, LoadedFacts DEF history
<1>9. CASE ScopeSaved \/ ScopeReloaded \/ StatsRefreshed \/ TurnFails
  BY <1>3, <1>4, <1>9, ScopeSavedFacts, ScopeReloadedFacts, StatsRefreshedFacts, TurnFailsFacts
<1>10. ASSUME NEW h \in Configured, AgentReturns(h) PROVE Numbering'
  BY <1>3, <1>10, AgentFacts
<1> QED BY <1>1, <1>2, <1>5, <1>6, <1>7, <1>8, <1>9, <1>10, Effects

LEMMA NormalStep ==
  ASSUME TypeOK, Shape, Normal, [Next]_vars
  PROVE  Normal'
<1>1. ASSUME stored' = stored PROVE Normal'
  BY <1>1 DEF Normal
<1>2. stored \in Settings /\ \A s \in Settings : s.deleted \subseteq Key
  BY Keys DEF TypeOK
<1>3. CASE ServeSave
  BY <1>2, <1>3, SaveFacts, NormalizeFacts DEF Normal
<1>4. CASE ServePurge
  <2>1. PICK hosts \in SUBSET Host : stored' = WithoutHosts(stored, hosts)
    BY <1>4, PurgeFacts
  <2>2. /\ stored'.deleted = stored.deleted \ hosts
        /\ \A k \in Key : stored'.value[k] = IF k \in hosts THEN 0 ELSE stored.value[k]
    BY <1>2, <2>1, WithoutFacts
  <2> QED BY <1>2, <2>2 DEF Normal
<1>5. ASSUME NEW h \in Configured, AgentReturns(h) PROVE Normal'
  BY <1>2, <1>5, AgentFacts, MarkFacts DEF Normal
<1>6. CASE Still
  BY <1>1, <1>6 DEF Still
<1>7. ASSUME NEW op, NEW key, NEW copy, Change(op, key, copy), Gesture(op, key, copy)
      PROVE  Normal'
  BY <1>1, <1>7, GestureFacts
<1>8. ASSUME NEW what \in {"purge", "clear"}, NEW hosts \in SUBSET settings.deleted,
             AskPurge(what, hosts)
      PROVE  Normal'
  BY <1>1, <1>8, AskFacts
<1>9. CASE ServeRead("turn")
  BY <1>1, <1>9, ReadFacts
<1>10. ASSUME NEW s \in {"turn", "purge"}, Lost(s) PROVE Normal'
  BY <1>1, <1>10, LostFacts DEF Sender
<1>11. CASE ScopeRead \/ Saved \/ Purged \/ PurgeFails \/ Loaded
  BY <1>1, <1>11, ScopeReadFacts, SavedFacts, PurgedFacts, LoadedFacts
<1>12. CASE ScopeSaved \/ ScopeReloaded \/ StatsRefreshed \/ TurnFails
  BY <1>1, <1>12, ScopeSavedFacts, ScopeReloadedFacts, StatsRefreshedFacts, TurnFailsFacts
     DEF server
<1> QED BY <1>3, <1>4, <1>5, <1>6, <1>7, <1>8, <1>9, <1>10, <1>11, <1>12, Effects

\* An acknowledged key is the head's, until it leaves the queue.
LEMMA AckedIsOldStep ==
  ASSUME TypeOK, Shape, Numbering, AckedIsOld, [Next]_vars
  PROVE  AckedIsOld'
<1>1. ASSUME queue' = queue, wire'["turn"].what = wire["turn"].what, acked' \subseteq acked
      PROVE  AckedIsOld'
  BY <1>1 DEF AckedIsOld, Settled
<1>2. ASSUME NEW copy, TurnOver(copy),
             \A k \in acked' : k \in acked \/ (k = Head(queue).key /\ latest[k] = Head(queue).n)
      PROVE  AckedIsOld'
  <2> SUFFICES ASSUME NEW i \in DOMAIN queue' PROVE queue'[i].key \notin acked'
    BY DEF AckedIsOld
  <2>1. /\ queue # <<>> /\ i + 1 \in DOMAIN queue /\ i + 1 # 1 /\ queue'[i] = queue[i + 1]
        /\ 1 \in DOMAIN queue /\ Head(queue) = queue[1]
    BY <1>2, TailFacts, QueueFacts DEF TurnOver
  <2>2. queue[i + 1].key \notin acked
    BY <2>1 DEF AckedIsOld, Settled
  <2>3. queue[i + 1].key = Head(queue).key => latest[Head(queue).key] # Head(queue).n
    BY <2>1, QueueFacts, QueuedTypes DEF Numbering
  <2> QED BY <1>2, <2>1, <2>2, <2>3
<1>3. ASSUME queue # <<>>, queue' = queue, wire'["turn"].what \in {"stats", "reload"},
             wire["turn"].what \in {"stats", "reload", "save"},
             \A k \in acked' : k \in acked \/ (k = Head(queue).key /\ latest[k] = Head(queue).n)
      PROVE  AckedIsOld'
  <2> SUFFICES ASSUME NEW i \in DOMAIN queue, queue[i].key \in acked', i # 1 PROVE FALSE
    BY <1>3 DEF AckedIsOld, Settled
  <2>1. queue[i].key \notin acked
    BY DEF AckedIsOld, Settled
  <2>2. 1 \in DOMAIN queue /\ Head(queue) = queue[1] /\ 1 < i
    BY <1>3, QueueFacts
  <2>3. queue[i].key = Head(queue).key => latest[Head(queue).key] # Head(queue).n
    BY <2>2, QueuedTypes DEF Numbering
  <2> QED BY <1>3, <2>1, <2>3
<1>4. ASSUME NEW t, NEW answer, Acknowledge(t, answer)
      PROVE  \A k \in acked' : k \in acked \/ (k = t.key /\ latest[k] = t.n)
  BY <1>4 DEF Acknowledge
<1>5. ASSUME NEW op, NEW key, NEW copy, Change(op, key, copy), Gesture(op, key, copy)
      PROVE  AckedIsOld'
  <2>1. PICK t \in TransactionType : t.key = key /\ queue' = Append(queue, t)
    BY <1>5, GestureFacts
  <2>2. acked' = acked \ {key} /\ (queue # <<>> => wire'["turn"] = wire["turn"])
    BY <1>5, GestureFacts
  <2>3. \A i \in DOMAIN queue' : \/ i \in DOMAIN queue /\ queue'[i] = queue[i]
                                 \/ i = Len(queue) + 1 /\ queue'[i] = t
    BY <2>1, AppendFacts
  <2>4. \A i \in DOMAIN queue : queue # <<>>
    BY QueueFacts
  <2> QED BY <2>1, <2>2, <2>3, <2>4 DEF AckedIsOld, Settled
<1>6. ASSUME NEW what \in {"purge", "clear"}, NEW hosts \in SUBSET settings.deleted,
             AskPurge(what, hosts)
      PROVE  AckedIsOld'
  BY <1>1, <1>6, AskFacts
<1>7. CASE Still
  BY <1>1, <1>7 DEF Still
<1>8. CASE ServeRead("turn") \/ ServeSave \/ ServePurge
  BY <1>1, <1>8, ReadFacts, SaveFacts, PurgeFacts DEF history
<1>9. ASSUME NEW s \in {"turn", "purge"}, Lost(s) PROVE AckedIsOld'
  BY <1>1, <1>9, LostFacts DEF Sender
<1>10. CASE ScopeRead
  <2>1. \A i \in DOMAIN queue : queue[i].key \notin acked
    BY <1>10, ScopeReadFacts DEF AckedIsOld, Settled
  <2> QED BY <1>10, <2>1, ScopeReadFacts DEF AckedIsOld, history
<1>11. CASE Purged \/ PurgeFails \/ Loaded
  BY <1>1, <1>11, PurgedFacts, LoadedFacts DEF history
<1>12. CASE Saved
  BY <1>3, <1>4, <1>12, SavedFacts
<1>13. CASE ScopeSaved
  <2>1. \A k \in acked' : k \in acked \/ (k = Head(queue).key /\ latest[k] = Head(queue).n)
    BY <1>4, <1>13, ScopeSavedFacts
  <2>2. CASE TurnOver(settings')
    BY <1>2, <2>1, <2>2
  <2>3. CASE queue' = queue /\ wire'["turn"].what = "reload"
    BY <1>3, <1>13, <2>1, <2>3, ScopeSavedFacts
  <2> QED BY <1>13, <2>2, <2>3, ScopeSavedFacts
<1>14. CASE ScopeReloaded \/ StatsRefreshed \/ TurnFails
  BY <1>2, <1>14, ScopeReloadedFacts, StatsRefreshedFacts, TurnFailsFacts DEF history
<1>15. ASSUME NEW h \in Configured, AgentReturns(h) PROVE AckedIsOld'
  BY <1>1, <1>15, AgentFacts
<1> QED BY <1>5, <1>6, <1>7, <1>8, <1>9, <1>10, <1>11, <1>12, <1>13, <1>14, <1>15, Effects

----------------------------------------------------------------------------
(* What is exposed.                                                        *)

\* Answers that replace the copy otherwise expose what is queued.
Exposed ==
    /\ ~Idle("purge") => Pending \subseteq exposed
    /\ wire["session"].what \in {"login", "load"} => view # "dashboard" /\ Pending \subseteq exposed
    /\ \A i, j \in DOMAIN queue : i < j /\ Undoable(queue[i]) => queue[j].n \in exposed

LEMMA ExposedStep ==
  ASSUME TypeOK, Shape, Exposed, [Next]_vars
  PROVE  Exposed'
<1>1. "turn" \in Sender /\ "purge" \in Sender /\ "session" \in Sender
  BY DEF Sender
<1>2. ASSUME NEW copy, TurnOver(copy), view' = view \/ view' = "login"
      PROVE  Exposed'
  <2>1. \A i \in DOMAIN queue' : i + 1 \in DOMAIN queue /\ queue'[i] = queue[i + 1] /\ i \in Nat
    <3>1. queue' \in Seq(TransactionType)
      BY <1>2, TailFacts DEF TurnOver
    <3> QED BY <1>2, <3>1, TailFacts DEF TurnOver
  <2>2. Pending' \subseteq Pending
    BY <2>1 DEF Pending
  <2>3. /\ wire'["purge"] = wire["purge"] /\ wire'["session"] = wire["session"]
        /\ exposed' = exposed
    BY <1>2 DEF TurnOver
  <2>4. \A i, j \in DOMAIN queue' : i < j /\ Undoable(queue'[i]) => queue'[j].n \in exposed
    BY <2>1 DEF Exposed
  <2> QED BY <1>2, <2>2, <2>3, <2>4 DEF Exposed, Idle
<1>3. ASSUME queue' = queue, view' = view \/ view' = "login", exposed \subseteq exposed',
             Idle("purge")' \/ ~Idle("purge") \/ Pending \subseteq exposed',
             \/ wire'["session"].what \notin {"login", "load"}
             \/ wire["session"].what \in {"login", "load"}
             \/ Pending \subseteq exposed' /\ view = "login"
      PROVE  Exposed'
  <2>1. Pending' = Pending
    BY <1>3 DEF Pending
  <2>2. ~Idle("purge")' => Pending' \subseteq exposed'
    BY <1>3, <2>1 DEF Exposed
  <2>3. wire'["session"].what \in {"login", "load"} =>
           view' # "dashboard" /\ Pending' \subseteq exposed'
    BY <1>3, <2>1 DEF Exposed
  <2>4. \A i, j \in DOMAIN queue' : i < j /\ Undoable(queue'[i]) => queue'[j].n \in exposed'
    BY <1>3 DEF Exposed
  <2> QED BY <2>2, <2>3, <2>4 DEF Exposed
<1>4. ASSUME NEW r \in RequestType, wire' = [wire EXCEPT !["session"] = r]
      PROVE  wire'["session"] = r /\ wire'["purge"] = wire["purge"]
  BY <1>1, <1>4, SendFacts
<1>5. /\ NoRequest \in RequestType /\ NoRequest.what = "none" /\ token \in 0..MaxLogins
      /\ logins \in 0..MaxLogins /\ Request("login", 0, Empty) \in RequestType
      /\ Request("password", token, Empty) \in RequestType
      /\ Request("load", logins, Empty) \in RequestType
      /\ Empty \in Settings /\ stored \in Settings
  <2>1. NoRequest.what = "none"
    BY DEF NoRequest
  <2> QED BY <2>1, RequestTypes, EmptyType, BoundAssumption DEF TypeOK
<1>6. ASSUME NEW op, NEW key, NEW copy, Change(op, key, copy), Gesture(op, key, copy)
      PROVE  Exposed'
  <2>1. PICK t \in TransactionType : t.n = gestures + 1 /\ queue' = Append(queue, t)
    BY <1>6, GestureFacts
  <2>2. /\ wire'["purge"] = wire["purge"] /\ wire'["session"] = wire["session"]
        /\ view = "dashboard"
        /\ exposed' = IF Exposing(key) THEN exposed \cup {gestures + 1} ELSE exposed
    BY <1>6, GestureFacts
  <2>3. \A i \in DOMAIN queue' : \/ i \in DOMAIN queue /\ queue'[i] = queue[i]
                                 \/ i = Len(queue) + 1 /\ queue'[i] = t
    BY <2>1, AppendFacts
  <2>4. ~Idle("purge")' => Pending' \subseteq exposed'
    <3> HAVE ~Idle("purge")'
    <3>1. Pending \subseteq exposed /\ exposed' = exposed \cup {gestures + 1}
      BY <2>2 DEF Idle, Exposed, Exposing
    <3>2. Pending' \subseteq Pending \cup {gestures + 1}
      BY <2>1, <2>3 DEF Pending
    <3> QED BY <3>1, <3>2
  <2>5. wire'["session"].what \notin {"login", "load"}
    BY <2>2 DEF Exposed
  <2>6. ASSUME NEW i \in DOMAIN queue', NEW j \in DOMAIN queue', i < j, Undoable(queue'[i])
        PROVE  queue'[j].n \in exposed'
    <3>1. i \in DOMAIN queue /\ queue'[i] = queue[i]
      BY <2>3, <2>6, QueueFacts, AppendFacts, <2>1
    <3>2. CASE j \in DOMAIN queue /\ queue'[j] = queue[j]
      BY <2>2, <2>6, <3>1, <3>2 DEF Exposed
    <3>3. CASE j = Len(queue) + 1 /\ queue'[j] = t
      BY <2>1, <2>2, <2>6, <3>1, <3>3 DEF Exposing
    <3> QED BY <2>3, <3>2, <3>3
  <2> QED BY <2>4, <2>5, <2>6 DEF Exposed
<1>7. ASSUME NEW what \in {"purge", "clear"}, NEW hosts \in SUBSET settings.deleted,
             AskPurge(what, hosts)
      PROVE  Exposed'
  BY <1>3, <1>7, AskFacts
<1>8. CASE Login
  <2>1. wire'["purge"] = wire["purge"]
    BY <1>4, <1>5, <1>8 DEF Login
  <2>2. /\ view = "login" /\ view' = view /\ queue' = queue /\ exposed' = exposed \cup Pending
    BY <1>8 DEF Login, page
  <2> QED BY <1>3, <2>1, <2>2
<1>9. CASE Logout
  BY <1>3, <1>9 DEF Logout, Idle, history
<1>10. CASE ChangePassword
  <2>1. wire'["purge"] = wire["purge"] /\ wire'["session"] = Request("password", token, Empty)
    BY <1>4, <1>5, <1>10 DEF ChangePassword
  <2>2. view' = view /\ queue' = queue /\ exposed' = exposed
    BY <1>10 DEF ChangePassword, page, history
  <2> QED BY <1>3, <2>1, <2>2, RequestFacts DEF Idle
<1>11. ASSUME NEW s \in Sender, NEW body \in Settings, NEW shown \in SUBSET Host,
              Answer(s, body, shown), queue' = queue, view' = view, exposed' = exposed,
              wire[s].at = "sent"
       PROVE  Exposed'
  <2>1. /\ wire'["session"].what = wire["session"].what
        /\ Idle("purge")' <=> Idle("purge")
    BY <1>1, <1>11, AnswerFacts DEF Idle
  <2> QED BY <1>3, <1>11, <2>1
<1>12. ASSUME NEW s \in Sender, ServeRead(s) PROVE Exposed'
  <2>1. reporting \ stored.deleted \in SUBSET Host
    BY DEF TypeOK
  <2> QED BY <1>5, <1>11, <1>12, <2>1 DEF ServeRead, Authorised, page, history
<1>13. CASE ServeSave
  BY <1>3, <1>13, SaveFacts DEF Idle, page, history
<1>14. CASE ServePurge
  BY <1>3, <1>14, PurgeFacts DEF Idle, page, history
<1>15. CASE ServePassword \/ ServeLogin
  BY <1>1, <1>5, <1>11, <1>15 DEF ServePassword, ServeLogin, Authorised, page, history
<1>16. ASSUME NEW s \in Sender, Lost(s) PROVE Exposed'
  <2>1. /\ wire'["session"].what = wire["session"].what
        /\ Idle("purge")' <=> Idle("purge")
    BY <1>1, <1>16, LostFacts DEF Idle
  <2> QED BY <1>3, <1>16, <2>1, LostFacts
<1>17. CASE ScopeRead
  BY <1>3, <1>17, ScopeReadFacts DEF Idle, page, history
<1>18. CASE Saved
  BY <1>3, <1>18, SavedFacts DEF Idle
<1>19. CASE ScopeSaved
  <2>1. view' = view /\ exposed' = exposed
    BY <1>19, ScopeSavedFacts
  <2>2. CASE TurnOver(settings')
    BY <1>2, <2>1, <2>2
  <2>3. CASE /\ queue' = queue
             /\ wire'["purge"] = wire["purge"] /\ wire'["session"] = wire["session"]
    BY <1>3, <2>1, <2>3 DEF Idle
  <2> QED BY <1>19, <2>2, <2>3, ScopeSavedFacts
<1>20. CASE ScopeReloaded \/ StatsRefreshed \/ TurnFails
  BY <1>2, <1>20, ScopeReloadedFacts, StatsRefreshedFacts, TurnFailsFacts
<1>21. CASE Purged \/ PurgeFails
  BY <1>3, <1>21, PurgedFacts DEF Idle, history
<1>22. CASE LoggedIn
  <2>1. wire'["purge"] = wire["purge"] /\ wire["session"].what = "login"
    BY <1>4, <1>5, <1>22 DEF LoggedIn
  <2>2. view' = view /\ queue' = queue /\ exposed' = exposed
    BY <1>22 DEF LoggedIn, history
  <2> QED BY <1>3, <2>1, <2>2 DEF Idle
<1>23. CASE Loaded
  <2>1. /\ queue' = queue /\ exposed' = exposed /\ wire'["purge"] = wire["purge"]
        /\ wire'["session"].what = "none"
    BY <1>5, <1>23, LoadedFacts
  <2>2. Pending' = Pending
    BY <2>1 DEF Pending
  <2> QED BY <2>1, <2>2 DEF Exposed, Idle
<1>24. CASE SessionFails \/ PasswordChanged \/ PasswordFails
  <2>1. wire'["purge"] = wire["purge"] /\ wire'["session"].what = "none"
    BY <1>4, <1>5, <1>24 DEF SessionFails, PasswordChanged, PasswordFails
  <2>2. (view' = view \/ view' = "login") /\ queue' = queue /\ exposed' = exposed
    BY <1>24 DEF SessionFails, PasswordChanged, PasswordFails, SessionAfter, history
  <2> QED BY <1>3, <2>1, <2>2 DEF Idle
<1>25. ASSUME (\E h \in Configured : AgentReturns(h)) \/ TokensExpire \/ UNCHANGED vars
       PROVE  Exposed'
  <2>1. queue' = queue /\ view' = view /\ exposed' = exposed /\ wire' = wire
    BY <1>25 DEF AgentReturns, TokensExpire, vars, page, history
  <2> QED BY <1>3, <2>1 DEF Idle
<1> QED BY <1>6, <1>7, <1>8, <1>9, <1>10, <1>12, <1>13, <1>14, <1>15, <1>16, <1>17, <1>18,
    <1>19, <1>20, <1>21, <1>22, <1>23, <1>24, <1>25, Steps

----------------------------------------------------------------------------
(* The page and the server.                                                *)

\* The page's copy differs from the server by a change that is still to be posted.
Unsaved == \E i \in DOMAIN queue : ~Scoped(queue[i]) /\ ~Settled(i)

\* The copy is the server's, but for the scope that was just saved.
Synced == IF wire["turn"].what = "save" /\ wire["turn"].at = "answered"
          THEN settings = Put(stored, Head(queue).key, settings.value[Head(queue).key])
          ELSE settings = stored

\* A page that missed nothing: what was answered is what the server has, what
\* is about to be posted for a scope differs from it only there, what would be
\* taken back is it, and the copy is, unless a change is still to be posted.
Agreement ==
    ~drift =>
        /\ Idle("purge") \/ queue = <<>>
        /\ wire["turn"].at = "answered" /\ wire["turn"].what # "stats" => wire["turn"].body = stored
        /\ wire["purge"].at = "answered" => wire["purge"].body = stored
        /\ wire["turn"].what = "save" /\ wire["turn"].at = "sent" /\ Scoped(Head(queue)) =>
              wire["turn"].body = ScopedPayload(Head(queue), stored)
        /\ wire["turn"].what = "save" /\ wire["turn"].at # "answered" /\ Undoable(Head(queue)) =>
              Head(queue).shared \/ Head(queue).undo = stored
        /\ ~Unsaved /\ wire["purge"].at # "answered" => Synced

\* Nothing is queued behind a request that is not on its way.
LEMMA IdleFacts ==
  ASSUME TypeOK, Shape
  PROVE  /\ queue = <<>> => /\ wire["turn"].at = "none" /\ wire["turn"].what = "none"
                            /\ ~Unsaved
         /\ queue # <<>> => /\ wire["turn"].at # "none"
                            /\ 1 \in DOMAIN queue /\ Head(queue) = queue[1]
                            /\ Head(queue) \in TransactionType /\ Head(queue).key \in Key
         /\ wire["turn"].what # "none" => queue # <<>> /\ wire["turn"].at # "none"
         /\ wire["turn"].at # "none" => queue # <<>>
         /\ wire["purge"].what # "none" => wire["purge"].at # "none"
<1>1. NoRequest.at = "none" /\ NoRequest.what = "none"
  BY DEF NoRequest
<1>2. /\ wire["turn"].at = "none" => wire["turn"].what = "none"
      /\ wire["purge"].at = "none" => wire["purge"].what = "none"
  BY <1>1 DEF Shape, Idle, Sender
<1>3. wire["turn"].at = "none" <=> queue = <<>>
  BY DEF TypeOK, Idle
<1>4. queue = <<>> => ~Unsaved
  BY QueueFacts DEF Unsaved
<1>5. queue # <<>> => Head(queue) \in TransactionType /\ Head(queue).key \in Key
  BY QueueFacts, QueuedTypes
<1> QED BY <1>2, <1>3, <1>4, <1>5, QueueFacts

\* A turn is over: the transactions after it are those that are left to save.
LEMMA UnsavedAfter ==
  ASSUME TypeOK, Shape, NEW copy, TurnOver(copy)
  PROVE  /\ Unsaved' <=> \E i \in DOMAIN queue : i # 1 /\ ~Scoped(queue[i])
         /\ wire'["turn"].at \in {"none", "sent"} /\ wire'["turn"].what \in {"none", "get", "save"}
         /\ queue' # <<>> => Head(queue') \in TransactionType /\ Head(queue').shared
         /\ wire'["turn"].what = "save" => /\ queue' # <<>> /\ ~Scoped(Head(queue'))
                                           /\ wire'["turn"].body = copy
<1>1. /\ \A i \in DOMAIN queue' : /\ i + 1 \in DOMAIN queue /\ i + 1 # 1
                                  /\ queue'[i] = queue[i + 1]
      /\ \A i \in DOMAIN queue : i # 1 => i - 1 \in DOMAIN queue' /\ queue[i] = queue'[i - 1]
      /\ queue' # <<>> => Head(queue') = queue[2] /\ 2 \in DOMAIN queue
  BY TailFacts DEF TurnOver
<1>2. /\ wire'["turn"].at \in {"none", "sent"} /\ wire'["turn"].what \in {"none", "get", "save"}
      /\ wire'["turn"].what = "save" => /\ queue' # <<>> /\ ~Scoped(Head(queue'))
                                        /\ wire'["turn"].body = copy
  BY DEF TurnOver
<1>3. Unsaved' <=> \E i \in DOMAIN queue' : ~Scoped(queue'[i])
  BY <1>2 DEF Unsaved, Settled
<1>4. Unsaved' <=> \E i \in DOMAIN queue : i # 1 /\ ~Scoped(queue[i])
  BY <1>1, <1>3
<1>5. queue' # <<>> => Head(queue') \in TransactionType /\ Head(queue').shared
  <2>1. \A i \in DOMAIN queue : queue[i].shared \/ i = 1
    BY DEF Shape
  <2>2. queue' # <<>> => queue[2].shared
    BY <1>1, <2>1
  <2>3. queue' # <<>> => queue[2] \in TransactionType
    BY <1>1, QueueFacts
  <2> QED BY <1>1, <2>2, <2>3
<1> QED BY <1>2, <1>4, <1>5

\* Where a save of one scope leaves the server.
LEMMA ScopeStored ==
  ASSUME TypeOK, Shape, Normal, Agreement, ~drift, ServeSave, Scoped(Head(queue))
  PROVE  stored' = Put(stored, Head(queue).key, Given(Head(queue)))
<1>1. /\ wire["turn"].at = "sent" /\ wire["turn"].what = "save" /\ queue # <<>>
      /\ stored' = Normalize(wire["turn"].body) /\ stored' \in Settings
  BY SaveFacts
<1> DEFINE put == Put(stored, Head(queue).key, Given(Head(queue)))
<1>2. wire["turn"].body = put
  BY <1>1 DEF Agreement, ScopedPayload
<1>3. /\ Head(queue) \in TransactionType /\ Head(queue).key \in Key /\ Head(queue).key \in Scope
      /\ Given(Head(queue)) \in 0..MaxGestures /\ stored \in Settings
  BY <1>1, IdleFacts, PayloadType DEF TypeOK, Shape
<1>4. /\ put \in Settings /\ put.deleted = stored.deleted
      /\ \A k \in Key : k # Head(queue).key => put.value[k] = stored.value[k]
  BY <1>3, PutFacts
<1>5. Head(queue).key \notin stored.deleted /\ stored.deleted \subseteq Key
  BY <1>3, Keys
<1> HIDE DEF put
<1>6. /\ stored'.deleted = put.deleted
      /\ \A k \in Key : stored'.value[k] = IF k \in put.deleted THEN 0 ELSE put.value[k]
  BY <1>1, <1>2, <1>4, NormalizeFacts
<1>7. \A k \in Key : stored'.value[k] = put.value[k]
  BY <1>4, <1>5, <1>6 DEF Normal
<1>8. stored' = put
  BY <1>1, <1>4, <1>6, <1>7, SettingsEqual
<1> QED BY <1>8 DEF put

LEMMA AgreementStep ==
  ASSUME TypeOK, Shape, Normal, Agreement, [Next]_vars
  PROVE  Agreement'
<1>0. stored \in Settings /\ settings \in Settings
  BY DEF TypeOK
\* Nothing that the page could disagree about has changed.
<1>1. ASSUME stored' = stored, settings' = settings, queue' = queue,
             drift => drift', wire'["turn"] = wire["turn"], wire'["purge"] = wire["purge"]
      PROVE  Agreement'
  <2>1. Unsaved' = Unsaved /\ Synced' = Synced
    BY <1>1 DEF Unsaved, Settled, Synced
  <2> QED BY <1>1, <2>1 DEF Agreement, Idle
<1>2. ASSUME NEW op, NEW key, NEW copy, Change(op, key, copy), Gesture(op, key, copy)
      PROVE  Agreement'
  <2> SUFFICES ASSUME ~drift' PROVE Agreement'
    BY DEF Agreement
  <2>1. PICK t \in TransactionType :
           /\ Undoable(t) => t.undo = settings
           /\ Scoped(t) <=> op \in {"scope", "reset"}
           /\ Undoable(t) <=> op \in {"duplicate", "delete"}
           /\ queue' = Append(queue, t)
           /\ queue = <<>> => wire'["turn"] = IF Scoped(t) THEN Request("get", token, Empty)
                                              ELSE Request("save", token, copy)
    BY <1>2, GestureFacts
  <2>2. /\ ~drift /\ Idle("purge") /\ wire'["purge"] = wire["purge"] /\ stored' = stored
        /\ settings' = copy /\ (Scoped(t) => settings' = settings)
    <3>1. /\ drift' = (drift \/ ~Idle("purge")) /\ wire'["purge"] = wire["purge"]
          /\ stored' = stored /\ settings' = copy /\ gestures < MaxGestures
      BY <1>2, GestureFacts
    <3>2. op \in {"scope", "reset"} => copy = settings
      BY <1>2, <3>1, ChangeFacts
    <3> QED BY <2>1, <3>1, <3>2
  <2>3. /\ \A i \in DOMAIN queue : i \in DOMAIN queue' /\ queue'[i] = queue[i]
        /\ \A i \in DOMAIN queue' : i \in DOMAIN queue \/ i = Len(queue) + 1
        /\ Len(queue) + 1 \in DOMAIN queue' /\ queue'[Len(queue) + 1] = t
        /\ Head(queue') = IF queue = <<>> THEN t ELSE Head(queue)
    BY <2>1, AppendFacts
  <2>4. CASE queue = <<>>
    <3>1. /\ wire'["turn"].at = "sent"
          /\ wire'["turn"].what = IF Scoped(t) THEN "get" ELSE "save"
      BY <2>1, <2>4, RequestFacts
    <3>2. settings = stored
      BY <2>2, <2>4, IdleFacts DEF Agreement, Synced, Idle
    <3>3. ~Unsaved' => Scoped(t)
      BY <2>3, <3>1 DEF Unsaved, Settled
    <3>4. ~Unsaved' => Synced'
      BY <2>2, <3>1, <3>2, <3>3 DEF Synced
    <3> QED BY <2>1, <2>2, <2>3, <2>4, <3>1, <3>2, <3>4 DEF Agreement, Idle
  <2>5. CASE queue # <<>>
    <3>1. wire'["turn"] = wire["turn"] /\ Head(queue') = Head(queue)
      BY <1>2, <2>3, <2>5, GestureFacts
    <3>2. ~Unsaved' => ~Unsaved /\ Scoped(t)
      <4>1. Len(queue) + 1 # 1
        BY <2>5, QueueFacts
      <4> QED BY <2>3, <3>1, <4>1 DEF Unsaved, Settled
    <3>3. ~Unsaved' => Synced'
      BY <2>2, <3>1, <3>2 DEF Agreement, Synced, Idle
    <3> QED BY <2>2, <3>1, <3>3 DEF Agreement, Idle
  <2> QED BY <2>4, <2>5
<1>3. ASSUME NEW what \in {"purge", "clear"}, NEW hosts \in SUBSET settings.deleted,
             AskPurge(what, hosts)
      PROVE  Agreement'
  <2> SUFFICES ASSUME ~drift' PROVE Agreement'
    BY DEF Agreement
  <2>1. /\ ~drift /\ queue = <<>> /\ queue' = queue /\ stored' = stored /\ settings' = settings
        /\ wire["purge"].at = "none" /\ wire'["purge"].at = "sent" /\ wire'["turn"] = wire["turn"]
    BY <1>3, AskFacts
  <2>2. settings = stored
    BY <2>1, IdleFacts DEF Agreement, Synced
  <2> QED BY <2>1, <2>2, IdleFacts DEF Agreement, Synced
<1>4. CASE Still
  BY <1>1, <1>4 DEF Still
<1>5. CASE ServeRead("turn")
  <2>1. /\ wire["turn"].what # "save" /\ wire'["turn"].what = wire["turn"].what
        /\ wire'["turn"].body = stored /\ wire'["purge"] = wire["purge"]
        /\ stored' = stored /\ settings' = settings /\ queue' = queue /\ drift' = drift
    BY <1>5, ReadFacts DEF history
  <2>2. Unsaved' = Unsaved /\ Synced' = Synced
    BY <2>1 DEF Unsaved, Settled, Synced
  <2> QED BY <2>1, <2>2 DEF Agreement, Idle
<1>6. CASE ServeSave
  <2> SUFFICES ASSUME ~drift' PROVE Agreement'
    BY DEF Agreement
  <2>1. /\ ~drift /\ wire["turn"].what = "save" /\ wire["turn"].at = "sent" /\ queue # <<>>
        /\ wire'["turn"].what = "save" /\ wire'["turn"].at = "answered"
        /\ wire'["turn"].body = stored' /\ wire'["purge"] = wire["purge"]
        /\ settings' = settings /\ queue' = queue
    BY <1>6, SaveFacts DEF history
  <2>2. Idle("purge") /\ Unsaved' = Unsaved
    BY <2>1 DEF Agreement, Unsaved, Settled
  <2>3. ASSUME ~Unsaved PROVE Synced'
    <3>1. Scoped(Head(queue))
      BY <2>1, <2>3, IdleFacts DEF Unsaved, Settled
    <3>2. settings = stored
      BY <2>1, <2>2, <2>3 DEF Agreement, Synced, Idle
    <3>3. stored' = Put(stored, Head(queue).key, Given(Head(queue)))
      BY <1>6, <2>1, <3>1, ScopeStored
    <3>4. /\ Head(queue).key \in Key /\ Given(Head(queue)) \in 0..MaxGestures
          /\ stored.value[Head(queue).key] \in 0..MaxGestures
      BY <1>0, <2>1, IdleFacts, PayloadType DEF Settings
    <3>5. Put(stored', Head(queue).key, stored.value[Head(queue).key]) = stored
      BY <1>0, <3>3, <3>4, PutSame
    <3> QED BY <2>1, <3>2, <3>5 DEF Synced
  <2> QED BY <2>1, <2>2, <2>3 DEF Agreement, Idle
<1>7. CASE ServePurge
  <2> SUFFICES ASSUME ~drift' PROVE Agreement'
    BY DEF Agreement
  <2>1. /\ ~drift /\ wire["purge"].at = "sent" /\ wire'["purge"].at = "answered"
        /\ wire'["purge"].body = stored' /\ wire'["turn"] = wire["turn"]
        /\ queue' = queue
    BY <1>7, PurgeFacts DEF history
  <2>2. queue = <<>>
    BY <2>1 DEF Agreement, Idle
  <2> QED BY <2>1, <2>2, IdleFacts DEF Agreement
<1>8. ASSUME Lost("turn") PROVE Agreement'
  <2> SUFFICES ASSUME ~drift' PROVE Agreement'
    BY DEF Agreement
  <2>1. /\ wire'["turn"].at \in {"failed", "refused"} /\ wire'["turn"].what = wire["turn"].what
        /\ wire'["purge"] = wire["purge"] /\ ~drift /\ wire["turn"].at = "sent"
        /\ stored' = stored /\ settings' = settings /\ queue' = queue
    BY <1>8, LostFacts DEF Sender
  <2>2. Unsaved' = Unsaved /\ Synced' = Synced
    BY <2>1 DEF Unsaved, Settled, Synced
  <2> QED BY <2>1, <2>2 DEF Agreement, Idle
<1>9. ASSUME Lost("purge") PROVE Agreement'
  <2> SUFFICES ASSUME ~drift' PROVE Agreement'
    BY DEF Agreement
  <2>1. /\ wire'["purge"].at \in {"failed", "refused"} /\ wire["purge"].at = "sent" /\ ~drift
        /\ wire'["turn"] = wire["turn"]
        /\ stored' = stored /\ settings' = settings /\ queue' = queue
    BY <1>9, LostFacts DEF Sender
  <2>2. Unsaved' = Unsaved /\ Synced' = Synced
    BY <2>1 DEF Unsaved, Settled, Synced
  <2> QED BY <2>1, <2>2 DEF Agreement, Idle
<1>10. CASE ScopeRead
  <2>1. /\ wire["turn"].at = "answered" /\ wire["turn"].what = "get" /\ Scoped(Head(queue))
        /\ wire'["turn"].at = "sent" /\ wire'["turn"].what = "save"
        /\ wire'["turn"].body = ScopedPayload(Head(queue), wire["turn"].body)
        /\ wire'["purge"] = wire["purge"] /\ drift' = drift
        /\ stored' = stored /\ settings' = settings /\ queue' = queue
    BY <1>10, ScopeReadFacts DEF history
  <2>2. ~drift => wire["turn"].body = stored
    BY <2>1 DEF Agreement
  <2>3. ~Undoable(Head(queue))
    BY <2>1 DEF Scoped, Undoable
  <2>4. Unsaved' = Unsaved /\ Synced' = Synced
    BY <2>1 DEF Unsaved, Settled, Synced
  <2>5. ~drift => wire'["turn"].body = ScopedPayload(Head(queue'), stored')
    BY <2>1, <2>2
  <2> QED BY <2>1, <2>3, <2>4, <2>5 DEF Agreement, Idle
<1>11. CASE Saved
  <2>1. /\ wire["turn"].at = "answered" /\ wire["turn"].what = "save"
        /\ settings' = wire["turn"].body
        /\ wire'["turn"].at = "sent" /\ wire'["turn"].what = "stats"
        /\ wire'["purge"] = wire["purge"] /\ drift' = drift /\ stored' = stored /\ queue' = queue
    BY <1>11, SavedFacts
  <2>2. ~drift => settings' = stored'
    BY <2>1 DEF Agreement
  <2> QED BY <2>1, <2>2 DEF Agreement, Synced, Idle
\* Once the page has merged what was saved of a scope, it is the server's.
<1>12. ASSUME queue # <<>>, Scoped(Head(queue)), ~drift, Synced, wire["turn"].body = stored,
              settings' = Merged(Head(queue).key, wire["turn"].body)
       PROVE  settings' = stored
  <2> DEFINE key == Head(queue).key
  <2>1. key \in Key /\ settings.value[key] \in 0..MaxGestures /\ stored.value[key] \in 0..MaxGestures
    BY <1>0, <1>12, IdleFacts DEF Settings
  <2>2. settings' = Put(settings, key, stored.value[key])
    BY <1>12 DEF Merged
  <2>3. Put(stored, key, stored.value[key]) = stored
    BY <1>0, <2>1, PutSame
  <2>4. CASE settings = stored
    BY <2>2, <2>3, <2>4
  <2>5. CASE settings = Put(stored, key, settings.value[key])
    <3> DEFINE n == settings.value[key]
               m == stored.value[key]
    <3>1. Put(Put(stored, key, n), key, m) = Put(stored, key, m)
      BY <1>0, <2>1, PutSame
    <3>2. settings' = Put(Put(stored, key, n), key, m)
      BY <2>2, <2>5
    <3> QED BY <2>3, <3>1, <3>2
  <2> QED BY <1>12, <2>4, <2>5 DEF Synced
<1>13. ASSUME NEW copy, TurnOver(copy), stored' = stored, drift => drift',
              ~drift' /\ ~Unsaved' => settings' = stored
       PROVE  Agreement'
  <2> SUFFICES ASSUME ~drift' PROVE Agreement'
    BY DEF Agreement
  <2>1. /\ wire'["turn"].at \in {"none", "sent"} /\ wire'["turn"].what \in {"none", "get", "save"}
        /\ wire'["turn"].what = "save" => queue' # <<>> /\ ~Scoped(Head(queue'))
        /\ queue' # <<>> => Head(queue').shared
        /\ wire'["purge"] = wire["purge"] /\ queue # <<>>
    BY <1>13, UnsavedAfter DEF TurnOver
  <2>2. Idle("purge") /\ Idle("purge")'
    BY <1>13, <2>1 DEF Agreement, Idle
  <2>3. ~Unsaved' => Synced'
    BY <1>13, <2>1 DEF Synced
  <2> QED BY <2>1, <2>2, <2>3 DEF Agreement, Idle
<1>14. ASSUME Scoped(Head(queue)), NEW copy, TurnOver(copy), ~Unsaved' PROVE ~Unsaved
  BY <1>14, UnsavedAfter, IdleFacts DEF Unsaved, TurnOver
<1>15. CASE ScopeSaved
  <2> SUFFICES ASSUME ~drift' PROVE Agreement'
    BY DEF Agreement
  <2>1. /\ ~drift /\ queue # <<>> /\ Scoped(Head(queue)) /\ stored' = stored
        /\ wire["turn"].at = "answered" /\ wire["turn"].what = "save"
        /\ settings' = Merged(Head(queue).key, wire["turn"].body)
    BY <1>15, ScopeSavedFacts DEF server
  <2>2. wire["turn"].body = stored /\ Idle("purge")
    BY <2>1 DEF Agreement
  <2>3. ~Unsaved => settings' = stored
    BY <1>12, <2>1, <2>2 DEF Agreement, Idle
  <2>4. CASE TurnOver(settings')
    BY <1>13, <1>14, <2>1, <2>3, <2>4
  <2>5. CASE /\ queue' = queue /\ wire'["turn"].at = "sent" /\ wire'["turn"].what = "reload"
             /\ wire'["purge"] = wire["purge"]
    <3>1. ~Unsaved' => ~Unsaved
      BY <2>1, <2>5, IdleFacts DEF Unsaved, Settled
    <3>2. ~Unsaved' => Synced'
      BY <2>1, <2>3, <2>5, <3>1 DEF Synced
    <3> QED BY <2>2, <2>5, <3>2 DEF Agreement, Idle
  <2> QED BY <1>15, <2>4, <2>5, ScopeSavedFacts
<1>16. CASE ScopeReloaded
  <2>1. /\ queue # <<>> /\ Scoped(Head(queue)) /\ stored' = stored /\ drift' = drift
        /\ wire["turn"].at = "answered" /\ wire["turn"].what = "reload"
        /\ settings' = Merged(Head(queue).key, wire["turn"].body) /\ TurnOver(settings')
    BY <1>16, ScopeReloadedFacts DEF server, history
  <2>2. ~drift => wire["turn"].body = stored /\ Idle("purge")
    BY <2>1 DEF Agreement
  <2>3. ~drift /\ ~Unsaved => settings' = stored
    BY <1>12, <2>1, <2>2 DEF Agreement, Idle
  <2> QED BY <1>13, <1>14, <2>1, <2>3
<1>17. CASE StatsRefreshed
  <2>1. /\ queue # <<>> /\ stored' = stored /\ drift' = drift /\ wire["turn"].what = "stats"
        /\ settings' = settings /\ TurnOver(settings')
    BY <1>17, StatsRefreshedFacts DEF server, history
  <2>2. ~Unsaved' => ~Unsaved
    BY <2>1, UnsavedAfter DEF Unsaved, Settled
  <2>3. ~drift => Idle("purge")
    BY <2>1 DEF Agreement
  <2>4. ~drift' /\ ~Unsaved' => settings' = stored
    BY <2>1, <2>2, <2>3 DEF Agreement, Synced, Idle
  <2> QED BY <1>13, <2>1, <2>4
<1>18. CASE TurnFails
  <2>1. /\ queue # <<>> /\ stored' = stored /\ TurnOver(settings)
        /\ wire["turn"].at \in {"failed", "refused"}
        /\ ~Scoped(Head(queue)) => wire["turn"].what = "save"
        /\ settings' = TakenBack(Head(queue))
        /\ drift' = (drift \/ IF Undoable(Head(queue))
                              THEN Tail(queue) # <<>> \/ Head(queue).shared
                              ELSE ~Scoped(Head(queue)))
    BY <1>18, TurnFailsFacts DEF server
  <2>2. ASSUME ~drift', ~Unsaved' PROVE settings' = stored
    <3>1. CASE Undoable(Head(queue))
      <4>1. ~Scoped(Head(queue))
        BY <3>1 DEF Scoped, Undoable
      <4> QED BY <2>1, <2>2, <3>1, <4>1 DEF Agreement, TakenBack
    <3>2. CASE ~Undoable(Head(queue))
      <4>1. Scoped(Head(queue)) /\ settings' = settings /\ ~drift
        BY <2>1, <2>2, <3>2 DEF TakenBack
      <4>2. ~Unsaved /\ Idle("purge")
        BY <1>14, <2>1, <2>2, <4>1 DEF Agreement
      <4> QED BY <2>1, <4>1, <4>2 DEF Agreement, Synced, Idle
    <3> QED BY <3>1, <3>2
  <2>3. drift => drift'
    BY <2>1
  <2> QED BY <1>13, <2>1, <2>2, <2>3
<1>19. CASE Purged \/ PurgeFails
  <2> SUFFICES ASSUME ~drift' PROVE Agreement'
    BY DEF Agreement
  <2>1. /\ \/ wire["purge"].at = "answered" /\ settings' = wire["purge"].body
           \/ wire["purge"].at \in {"failed", "refused"} /\ settings' = settings
        /\ wire'["purge"].at = "none" /\ wire'["turn"] = wire["turn"] /\ drift' = drift
        /\ stored' = stored /\ queue' = queue
    BY <1>19, PurgedFacts DEF history
  <2>2. queue = <<>>
    BY <2>1 DEF Agreement, Idle
  <2>3. settings' = stored
    BY <2>1, <2>2, IdleFacts DEF Agreement, Synced
  <2> QED BY <2>1, <2>2, <2>3, IdleFacts DEF Agreement, Synced, Idle
<1>20. CASE Loaded
  <2> SUFFICES ASSUME ~drift' PROVE Agreement'
    BY DEF Agreement
  <2>1. /\ queue = <<>> /\ Idle("purge") /\ settings' = stored /\ stored' = stored
        /\ queue' = queue /\ wire'["turn"] = wire["turn"] /\ wire'["purge"] = wire["purge"]
    BY <1>20, LoadedFacts
  <2> QED BY <2>1, IdleFacts DEF Agreement, Synced, Idle
<1>21. ASSUME NEW h \in Configured, AgentReturns(h) PROVE Agreement'
  <2>1. /\ stored' = Unmark(stored, h) /\ h \in Host
        /\ drift' = (drift \/ h \in stored.deleted \/ \E s \in Sender : ~Idle(s))
        /\ settings' = settings /\ queue' = queue /\ wire' = wire
    BY <1>21, AgentFacts
  <2>2. ~drift' => stored' = stored
    <3> HAVE ~drift'
    <3>1. stored' \in Settings /\ stored'.value = stored.value
          /\ stored'.deleted = stored.deleted \ {h}
      BY <1>0, <2>1, MarkFacts
    <3>2. h \notin stored.deleted
      BY <2>1
    <3>3. stored'.deleted = stored.deleted
      BY <3>1, <3>2
    <3> QED BY <1>0, <3>1, <3>3, SettingsEqual
  <2>3. CASE drift'
    BY <2>3 DEF Agreement
  <2> QED BY <1>1, <2>1, <2>2, <2>3
<1> QED BY <1>2, <1>3, <1>4, <1>5, <1>6, <1>7, <1>8, <1>9, <1>10, <1>11, <1>15, <1>16, <1>17,
    <1>18, <1>19, <1>20, <1>21, Effects

----------------------------------------------------------------------------
(* What was acknowledged.                                                  *)

SameAt(k, a, b) == a.value[k] = b.value[k] /\ (k \in a.deleted <=> k \in b.deleted)

\* What was acknowledged is the same in the copy, at the server and in what is
\* being posted, and no purge is about it.
AckedAgrees ==
    ~drift =>
        /\ \A k \in acked : SameAt(k, settings, stored)
        /\ wire["turn"].what = "save" /\ wire["turn"].at = "sent" /\ ~Scoped(Head(queue)) =>
              \A k \in acked : SameAt(k, wire["turn"].body, stored)
        /\ wire["purge"].at = "sent" =>
              /\ wire["purge"].hosts \cap acked = {}
              /\ wire["purge"].what = "clear" => wire["purge"].hosts = stored.deleted

\* A key that is acknowledged before and after a step has at the server what
\* it had.
Stays == \A k \in acked \cap acked' : SameAt(k, stored', stored)

LEMMA SaveStays ==
  ASSUME TypeOK, Shape, Normal, Agreement, AckedIsOld, AckedAgrees, ServeSave, ~drift
  PROVE  \A k \in acked : SameAt(k, stored', stored)
<1>1. /\ wire["turn"].at = "sent" /\ wire["turn"].what = "save" /\ queue # <<>>
      /\ stored' = Normalize(wire["turn"].body) /\ wire["turn"].body \in Settings
  BY SaveFacts
<1>2. acked \subseteq Key /\ stored \in Settings
  BY DEF TypeOK
<1>3. CASE Scoped(Head(queue))
  <2>1. /\ Head(queue).key \in Key /\ Head(queue).key \notin acked
        /\ Given(Head(queue)) \in 0..MaxGestures
    BY <1>1, IdleFacts, PayloadType DEF AckedIsOld, Settled
  <2>2. stored' = Put(stored, Head(queue).key, Given(Head(queue)))
    BY <1>3, ScopeStored
  <2> QED BY <1>2, <2>1, <2>2, PutFacts DEF SameAt
<1>4. CASE ~Scoped(Head(queue))
  <2>1. \A k \in acked : SameAt(k, wire["turn"].body, stored)
    BY <1>1, <1>4 DEF AckedAgrees
  <2>2. /\ stored'.deleted = wire["turn"].body.deleted
        /\ \A k \in Key : stored'.value[k] = IF k \in wire["turn"].body.deleted THEN 0
                                             ELSE wire["turn"].body.value[k]
    BY <1>1, NormalizeFacts
  <2> QED BY <1>2, <2>1, <2>2 DEF SameAt, Normal
<1> QED BY <1>3, <1>4

LEMMA PurgeStays ==
  ASSUME TypeOK, Shape, AckedAgrees, ServePurge, ~drift
  PROVE  \A k \in acked : SameAt(k, stored', stored)
<1>1. PICK hosts \in SUBSET Host :
         /\ stored' = WithoutHosts(stored, hosts)
         /\ hosts = IF wire["purge"].what = "clear" THEN stored.deleted ELSE wire["purge"].hosts
  BY PurgeFacts
<1>2. hosts \cap acked = {}
  BY <1>1, PurgeFacts DEF AckedAgrees
<1>3. acked \subseteq Key /\ stored \in Settings
  BY DEF TypeOK
<1>4. /\ stored'.deleted = stored.deleted \ hosts
      /\ \A k \in Key : stored'.value[k] = IF k \in hosts THEN 0 ELSE stored.value[k]
  BY <1>1, <1>3, WithoutFacts
<1> QED BY <1>2, <1>3, <1>4 DEF SameAt

LEMMA AckedAgreesStep ==
  ASSUME TypeOK, Shape, Normal, Agreement, AckedIsOld, AckedAgrees, [Next]_vars
  PROVE  AckedAgrees' /\ (~drift' => Stays)
<1>0. stored \in Settings /\ settings \in Settings /\ acked \subseteq Key
  BY DEF TypeOK
<1>1. ASSUME stored' = stored, settings' = settings, queue' = queue, acked' = acked,
             drift => drift', wire'["turn"] = wire["turn"], wire'["purge"] = wire["purge"]
      PROVE  AckedAgrees' /\ Stays
  BY <1>1 DEF AckedAgrees, Stays, SameAt
<1>2. ASSUME stored' = stored PROVE Stays
  BY <1>2 DEF Stays, SameAt
\* The copy has been replaced by the server's settings, or by what was just
\* saved of one scope.
<1>3. ASSUME stored' = stored, settings' = stored,
             wire'["turn"].what = "save" => wire'["turn"].at # "sent",
             wire'["purge"].at # "sent"
      PROVE  AckedAgrees'
  BY <1>3 DEF AckedAgrees, SameAt
<1>4. ASSUME TurnOver(settings'), stored' = stored, drift => drift',
             ~drift => \A k \in acked' : SameAt(k, settings', stored)
      PROVE  AckedAgrees'
  <2> SUFFICES ASSUME ~drift' PROVE AckedAgrees'
    BY DEF AckedAgrees
  <2>1. /\ wire'["purge"] = wire["purge"] /\ queue # <<>>
        /\ wire'["turn"].what = "save" => wire'["turn"].body = settings'
    BY <1>4, UnsavedAfter, IdleFacts DEF TurnOver
  <2>2. wire["purge"].at = "none"
    BY <1>4, <2>1 DEF Agreement, Idle
  <2> QED BY <1>4, <2>1, <2>2 DEF AckedAgrees
<1>5. ASSUME NEW op, NEW key, NEW copy, Change(op, key, copy), Gesture(op, key, copy)
      PROVE  AckedAgrees' /\ Stays
  <2>1. PICK t \in TransactionType :
           /\ queue' = Append(queue, t)
           /\ queue = <<>> => wire'["turn"] = IF Scoped(t) THEN Request("get", token, Empty)
                                              ELSE Request("save", token, copy)
    BY <1>5, GestureFacts
  <2>2. /\ drift' = (drift \/ ~Idle("purge")) /\ wire'["purge"] = wire["purge"]
        /\ stored' = stored /\ settings' = copy /\ acked' = acked \ {key}
        /\ gestures < MaxGestures /\ (queue # <<>> => wire'["turn"] = wire["turn"])
    BY <1>5, GestureFacts
  <2>3. \A k \in acked' : SameAt(k, copy, settings)
    BY <1>0, <1>5, <2>2, ChangeFacts DEF SameAt
  <2>4. AckedAgrees'
    <3> SUFFICES ASSUME ~drift' PROVE AckedAgrees'
      BY DEF AckedAgrees
    <3>1. ~drift /\ wire["purge"].at = "none"
      BY <2>2 DEF Idle
    <3>2. \A k \in acked' : SameAt(k, settings', stored')
      BY <2>2, <2>3, <3>1 DEF AckedAgrees, SameAt
    <3>3. CASE queue = <<>>
      <4>1. /\ Head(queue') = t
            /\ ~Scoped(t) => wire'["turn"].body = copy
            /\ Scoped(t) => wire'["turn"].what = "get"
        BY <2>1, <3>3, AppendFacts, RequestFacts
      <4> QED BY <2>2, <3>1, <3>2, <4>1 DEF AckedAgrees
    <3>4. CASE queue # <<>>
      <4>1. Head(queue') = Head(queue)
        BY <2>1, <3>4, AppendFacts
      <4> QED BY <2>2, <3>1, <3>2, <3>4, <4>1 DEF AckedAgrees
    <3> QED BY <3>3, <3>4
  <2> QED BY <1>2, <2>2, <2>4
<1>6. ASSUME NEW what \in {"purge", "clear"}, NEW hosts \in SUBSET settings.deleted,
             AskPurge(what, hosts), what = "clear" => hosts = settings.deleted
      PROVE  AckedAgrees' /\ Stays
  <2>1. /\ drift' = (drift \/ queue # <<>>) /\ queue' = queue
        /\ stored' = stored /\ settings' = settings
        /\ wire["purge"].at = "none" /\ wire'["turn"] = wire["turn"]
        /\ wire'["purge"].what = what /\ wire'["purge"].hosts = hosts
        /\ acked' = acked \ hosts
    BY <1>6, AskFacts
  <2>2. ~drift' => settings = stored
    BY <2>1, IdleFacts DEF Agreement, Synced
  <2>3. AckedAgrees'
    BY <1>6, <2>1, <2>2 DEF AckedAgrees, SameAt
  <2> QED BY <1>2, <2>1, <2>3
<1>7. CASE Still
  BY <1>1, <1>7 DEF Still
<1>8. CASE ServeRead("turn")
  <2>1. /\ stored' = stored /\ settings' = settings /\ queue' = queue /\ acked' = acked
        /\ drift' = drift /\ wire'["purge"] = wire["purge"] /\ wire'["turn"].at = "answered"
    BY <1>8, ReadFacts DEF history
  <2> QED BY <1>2, <2>1 DEF AckedAgrees
<1>9. CASE ServeSave
  <2>1. /\ drift' = drift /\ acked' = acked /\ settings' = settings
        /\ queue # <<>> /\ wire'["purge"] = wire["purge"] /\ wire'["turn"].at = "answered"
    BY <1>9, SaveFacts DEF history
  <2>2. ~drift => \A k \in acked : SameAt(k, stored', stored)
    BY <1>9, SaveStays
  <2>3. ~drift => wire["purge"].at = "none"
    BY <2>1 DEF Agreement, Idle
  <2>4. ~drift => \A k \in acked : SameAt(k, settings, stored')
    BY <2>2 DEF AckedAgrees, SameAt
  <2> QED BY <2>1, <2>2, <2>3, <2>4 DEF AckedAgrees, Stays
<1>10. CASE ServePurge
  <2>1. /\ drift' = drift /\ acked' = acked /\ settings' = settings /\ queue' = queue
        /\ wire["purge"].at = "sent"
        /\ wire'["turn"] = wire["turn"] /\ wire'["purge"].at = "answered"
    BY <1>10, PurgeFacts DEF history
  <2>2. ~drift => \A k \in acked : SameAt(k, stored', stored)
    BY <1>10, PurgeStays
  <2>3. ~drift => wire["turn"].what = "none"
    BY <2>1, IdleFacts DEF Agreement, Idle
  <2>4. ~drift => \A k \in acked : SameAt(k, settings, stored')
    BY <2>2 DEF AckedAgrees, SameAt
  <2> QED BY <2>1, <2>2, <2>3, <2>4 DEF AckedAgrees, Stays
<1>11. ASSUME NEW s \in {"turn", "purge"}, Lost(s) PROVE AckedAgrees' /\ Stays
  <2>1. /\ stored' = stored /\ settings' = settings /\ queue' = queue /\ acked' = acked
        /\ drift => drift'
        /\ wire'["turn"] = wire["turn"] \/ wire'["turn"].at # "sent"
        /\ wire'["purge"] = wire["purge"] \/ wire'["purge"].at # "sent"
    BY <1>11, LostFacts DEF Sender
  <2> QED BY <1>2, <2>1 DEF AckedAgrees
<1>12. CASE ScopeRead
  <2>1. /\ stored' = stored /\ settings' = settings /\ queue' = queue /\ acked' = acked
        /\ drift' = drift /\ wire'["purge"] = wire["purge"] /\ Scoped(Head(queue))
    BY <1>12, ScopeReadFacts DEF history
  <2> QED BY <1>2, <2>1 DEF AckedAgrees
<1>13. CASE Saved
  <2>1. /\ settings' = wire["turn"].body /\ wire["turn"].at = "answered"
        /\ wire["turn"].what = "save" /\ wire'["turn"].what = "stats"
        /\ stored' = stored /\ drift' = drift /\ wire'["purge"] = wire["purge"] /\ queue # <<>>
    BY <1>13, SavedFacts
  <2>2. ~drift => settings' = stored /\ wire["purge"].at = "none"
    BY <2>1 DEF Agreement, Idle
  <2>3. ~drift' => AckedAgrees'
    BY <1>3, <2>1, <2>2
  <2> QED BY <1>2, <2>1, <2>3 DEF AckedAgrees
\* What the page merges of a scope is what the server has of it.
<1>14. ASSUME queue # <<>>, Scoped(Head(queue)), wire["turn"].body = stored, ~drift,
              settings' = Merged(Head(queue).key, wire["turn"].body),
              \A k \in acked' : k \in acked \/ k = Head(queue).key
       PROVE  \A k \in acked' : SameAt(k, settings', stored)
  <2> DEFINE key == Head(queue).key
  <2>1. key \in Key /\ key \in Scope /\ stored.value[key] \in 0..MaxGestures
    BY <1>0, <1>14, IdleFacts DEF Settings, Shape
  <2>2. /\ settings' = Put(settings, key, stored.value[key])
        /\ key \notin stored.deleted /\ key \notin settings.deleted
    BY <1>0, <1>14, <2>1, Keys DEF Merged
  <2>3. /\ settings'.deleted = settings.deleted /\ settings'.value[key] = stored.value[key]
        /\ \A k \in Key : k # key => settings'.value[k] = settings.value[k]
    BY <1>0, <2>1, <2>2, PutFacts
  <2>4. \A k \in acked : SameAt(k, settings, stored)
    BY <1>14 DEF AckedAgrees
  <2> QED BY <1>0, <1>14, <2>2, <2>3, <2>4 DEF SameAt
<1>15. CASE ScopeSaved
  <2>1. /\ drift' = drift /\ queue # <<>> /\ Scoped(Head(queue)) /\ stored' = stored
        /\ wire["turn"].at = "answered" /\ wire["turn"].what = "save"
        /\ settings' = Merged(Head(queue).key, wire["turn"].body)
        /\ Acknowledge(Head(queue), wire["turn"].body)
    BY <1>15, ScopeSavedFacts DEF server
  <2>2. ~drift => wire["turn"].body = stored /\ wire["purge"].at = "none"
    BY <2>1 DEF Agreement, Idle
  <2>3. ~drift => \A k \in acked' : SameAt(k, settings', stored)
    BY <1>14, <2>1, <2>2 DEF Acknowledge
  <2>4. CASE TurnOver(settings')
    BY <1>2, <1>4, <2>1, <2>3, <2>4
  <2>5. CASE wire'["turn"].what = "reload" /\ wire'["purge"] = wire["purge"]
    BY <1>2, <2>1, <2>2, <2>3, <2>5 DEF AckedAgrees
  <2> QED BY <1>15, <2>4, <2>5, ScopeSavedFacts
<1>16. CASE ScopeReloaded
  <2>1. /\ drift' = drift /\ queue # <<>> /\ Scoped(Head(queue)) /\ stored' = stored
        /\ wire["turn"].at = "answered" /\ wire["turn"].what = "reload"
        /\ settings' = Merged(Head(queue).key, wire["turn"].body)
        /\ TurnOver(settings') /\ acked' = acked
    BY <1>16, ScopeReloadedFacts DEF server, history
  <2>2. ~drift => wire["turn"].body = stored
    BY <2>1 DEF Agreement
  <2>3. ~drift => \A k \in acked' : SameAt(k, settings', stored)
    BY <1>14, <2>1, <2>2
  <2> QED BY <1>2, <1>4, <2>1, <2>3
<1>17. CASE StatsRefreshed
  <2>1. /\ drift' = drift /\ stored' = stored /\ settings' = settings
        /\ TurnOver(settings') /\ acked' = acked
    BY <1>17, StatsRefreshedFacts DEF server, history
  <2>2. ~drift => \A k \in acked' : SameAt(k, settings', stored)
    BY <2>1 DEF AckedAgrees
  <2> QED BY <1>2, <1>4, <2>1, <2>2
<1>18. CASE TurnFails
  <2>1. /\ queue # <<>> /\ stored' = stored /\ TurnOver(settings) /\ acked' = acked
        /\ wire["turn"].at \in {"failed", "refused"}
        /\ ~Scoped(Head(queue)) => wire["turn"].what = "save"
        /\ settings' = TakenBack(Head(queue))
        /\ drift' = (drift \/ IF Undoable(Head(queue))
                              THEN Tail(queue) # <<>> \/ Head(queue).shared
                              ELSE ~Scoped(Head(queue)))
    BY <1>18, TurnFailsFacts DEF server
  <2>2. CASE Undoable(Head(queue))
    <3> SUFFICES ASSUME ~drift' PROVE AckedAgrees' /\ Stays
      BY <1>2, <2>1 DEF AckedAgrees
    <3>1. ~Scoped(Head(queue))
      BY <2>2 DEF Scoped, Undoable
    <3>2. settings' = stored /\ wire["purge"].at = "none" /\ Tail(queue) = <<>>
      BY <2>1, <2>2, <3>1 DEF Agreement, TakenBack, Idle
    <3>3. wire'["turn"].what = "none" /\ wire'["purge"] = wire["purge"]
      BY <2>1, <3>2 DEF TurnOver
    <3> QED BY <1>2, <1>3, <2>1, <3>2, <3>3
  <2>3. CASE ~Undoable(Head(queue))
    <3>1. settings' = settings /\ (drift => drift')
      BY <2>1, <2>3 DEF TakenBack
    <3>2. ~drift => \A k \in acked' : SameAt(k, settings', stored)
      BY <2>1, <3>1 DEF AckedAgrees
    <3> QED BY <1>2, <1>4, <2>1, <3>1, <3>2
  <2> QED BY <2>2, <2>3
<1>19. CASE Purged \/ PurgeFails
  <2>1. /\ \/ wire["purge"].at = "answered" /\ settings' = wire["purge"].body
           \/ wire["purge"].at \in {"failed", "refused"} /\ settings' = settings
        /\ wire'["purge"].at = "none" /\ wire'["turn"] = wire["turn"] /\ drift' = drift
        /\ stored' = stored /\ queue' = queue /\ acked' = acked
    BY <1>19, PurgedFacts DEF history
  <2>2. ~drift => wire["turn"].what = "none"
    BY <2>1, IdleFacts DEF Agreement, Idle
  <2>3. ~drift => settings' = settings \/ settings' = stored
    BY <2>1 DEF Agreement
  <2> QED BY <1>2, <2>1, <2>2, <2>3 DEF AckedAgrees, SameAt
<1>20. CASE Loaded
  <2>1. /\ drift' = (queue # <<>> \/ ~Idle("purge") \/ settings' # stored)
        /\ stored' = stored /\ wire'["turn"] = wire["turn"] /\ wire'["purge"] = wire["purge"]
    BY <1>20, LoadedFacts
  <2>2. ~drift' => AckedAgrees'
    BY <1>3, <2>1, IdleFacts DEF Idle
  <2> QED BY <1>2, <2>1, <2>2 DEF AckedAgrees
<1>21. ASSUME NEW h \in Configured, AgentReturns(h) PROVE AckedAgrees' /\ (~drift' => Stays)
  <2>1. /\ stored' = Unmark(stored, h) /\ h \in Host
        /\ drift' = (drift \/ h \in stored.deleted \/ \E s \in Sender : ~Idle(s))
        /\ settings' = settings /\ queue' = queue /\ wire' = wire /\ acked' = acked
    BY <1>21, AgentFacts
  <2>2. ~drift' => stored' = stored
    <3> HAVE ~drift'
    <3>1. stored' \in Settings /\ stored'.value = stored.value
          /\ stored'.deleted = stored.deleted \ {h}
      BY <1>0, <2>1, MarkFacts
    <3>2. h \notin stored.deleted
      BY <2>1
    <3>3. stored'.deleted = stored.deleted
      BY <3>1, <3>2
    <3> QED BY <1>0, <3>1, <3>3, SettingsEqual
  <2>3. CASE drift'
    BY <2>3 DEF AckedAgrees
  <2> QED BY <1>1, <2>1, <2>2, <2>3
<1> QED BY <1>5, <1>6, <1>7, <1>8, <1>9, <1>10, <1>11, <1>12, <1>13, <1>15, <1>16, <1>17,
    <1>18, <1>19, <1>20, <1>21, Effects

----------------------------------------------------------------------------
(* What is posted.                                                         *)

\* The transaction of the latest gesture about its key, not exposed.
Claims(t) == ~Scoped(t) /\ t.n \notin exposed /\ latest[t.key] = t.n

\* The same after a step.
ClaimsNext(t) == ~Scoped(t) /\ t.n \notin exposed' /\ latest'[t.key] = t.n

\* What is to be posted, and what is being posted, holds the changes it is for.
Held ==
    /\ \A i \in DOMAIN queue : Claims(queue[i]) /\ ~Settled(i) => Keeps(queue[i], settings)
    /\ wire["turn"].what = "save" /\ wire["turn"].at \in {"sent", "answered"} =>
          IF Scoped(Head(queue))
          THEN wire["turn"].body.value[Head(queue).key] = Given(Head(queue))
          ELSE \A i \in DOMAIN queue : Claims(queue[i]) => Keeps(queue[i], wire["turn"].body)

\* A transaction's change is kept by settings that agree on its key.
LEMMA KeepsSame ==
  ASSUME NEW t, NEW a, NEW b, SameAt(t.key, a, b), Keeps(t, a)
  PROVE  Keeps(t, b)
BY DEF SameAt, Keeps, Holds

\* What the server makes of a save keeps what the save kept.
LEMMA KeepsNormalized ==
  ASSUME NEW s \in Settings, NEW t \in TransactionType, Keeps(t, s)
  PROVE  Keeps(t, Normalize(s))
<1>1. t.key \in Key
  BY DEF TransactionType
<1>2. /\ Normalize(s).deleted = s.deleted
      /\ Normalize(s).value[t.key] = IF t.key \in s.deleted THEN 0 ELSE s.value[t.key]
  BY <1>1, NormalizeFacts
<1> QED BY <1>2 DEF Keeps, Holds

LEMMA HeldStep ==
  ASSUME TypeOK, Shape, Numbering, Exposed, Held, [Next]_vars
  PROVE  Held'
<1>0. /\ settings \in Settings /\ stored \in Settings
      /\ \A i \in DOMAIN queue : queue[i] \in TransactionType /\ queue[i].key \in Key
  BY QueueFacts, QueuedTypes DEF TypeOK
\* No transaction claims more than it did.
<1>1. ASSUME settings' = settings, queue' = queue, wire'["turn"] = wire["turn"],
             latest' = latest, exposed \subseteq exposed'
      PROVE  Held'
  BY <1>1 DEF Held, Settled, Claims
<1>2. ASSUME queue' = queue, Pending \subseteq exposed', wire'["turn"] = wire["turn"]
      PROVE  Held'
  <2>1. \A i \in DOMAIN queue : ~ClaimsNext(queue[i])
    BY <1>2 DEF Pending, ClaimsNext
  <2> QED BY <1>2, <2>1 DEF Held, Claims, ClaimsNext
<1>3. ASSUME NEW copy, TurnOver(copy),
             \A i \in DOMAIN queue : i # 1 /\ Claims(queue[i]) =>
                Keeps(queue[i], copy) /\ Keeps(queue[i], settings')
      PROVE  Held'
  <2>1. /\ \A i \in DOMAIN queue' : i + 1 \in DOMAIN queue /\ i + 1 # 1 /\ queue'[i] = queue[i + 1]
        /\ exposed' = exposed /\ latest' = latest
        /\ wire'["turn"].what = "save" => ~Scoped(Head(queue')) /\ wire'["turn"].body = copy
    BY <1>3, TailFacts, UnsavedAfter DEF TurnOver
  <2>2. \A i \in DOMAIN queue' : ClaimsNext(queue'[i]) =>
           Keeps(queue'[i], copy) /\ Keeps(queue'[i], settings')
    BY <1>3, <2>1 DEF Claims, ClaimsNext
  <2> QED BY <2>1, <2>2 DEF Held, Claims, ClaimsNext
<1>4. ASSUME NEW op, NEW key, NEW copy, Change(op, key, copy), Gesture(op, key, copy)
      PROVE  Held'
  <2>1. PICK t \in TransactionType :
           /\ t.n = gestures + 1 /\ t.op = op /\ t.key = key
           /\ Scoped(t) <=> op \in {"scope", "reset"}
           /\ queue' = Append(queue, t)
           /\ queue = <<>> => wire'["turn"] = IF Scoped(t) THEN Request("get", token, Empty)
                                              ELSE Request("save", token, copy)
    BY <1>4, GestureFacts
  <2>2. /\ gestures < MaxGestures /\ settings' = copy
        /\ queue # <<>> => wire'["turn"] = wire["turn"]
        /\ latest' = [latest EXCEPT ![key] = gestures + 1]
        /\ exposed' = IF Exposing(key) THEN exposed \cup {gestures + 1} ELSE exposed
    BY <1>4, GestureFacts
  <2>3. /\ key \in Key
        /\ \A k \in Key : k # key => SameAt(k, settings, copy)
    BY <1>4, <2>2, ChangeFacts DEF SameAt
  <2>4. /\ \A i \in DOMAIN queue' : \/ i \in DOMAIN queue /\ queue'[i] = queue[i]
                                    \/ i = Len(queue) + 1 /\ queue'[i] = t
        /\ Head(queue') = IF queue = <<>> THEN t ELSE Head(queue)
    BY <2>1, AppendFacts
  \* A transaction that still claims its key is about another one.
  <2>5. ASSUME NEW i \in DOMAIN queue, ClaimsNext(queue[i])
        PROVE  Claims(queue[i]) /\ queue[i].key # key
    <3>1. queue[i].n < gestures + 1
      BY QueuedTypes DEF Numbering
    <3>2. queue[i].key # key
      BY <2>2, <2>3, <2>5, <3>1, QueuedTypes DEF ClaimsNext
    <3>3. latest'[queue[i].key] = latest[queue[i].key]
      BY <2>2, <3>2, QueuedTypes
    <3> QED BY <2>2, <2>5, <3>2, <3>3 DEF Claims, ClaimsNext
  <2>6. ClaimsNext(t) => ~Exposing(key) /\ Keeps(t, copy)
    <3> HAVE ClaimsNext(t)
    <3>1. ~Exposing(key) /\ ~Scoped(t)
      BY <2>1, <2>2 DEF ClaimsNext
    <3>2. key \notin rows \cap settings.deleted /\ op \notin {"scope", "reset"}
      BY <2>1, <3>1 DEF Exposing
    <3> QED BY <1>4, <2>1, <2>2, <3>1, <3>2, ChangeKept
  <2>7. ASSUME NEW i \in DOMAIN queue', ClaimsNext(queue'[i]), ~Settled(i)'
        PROVE  Keeps(queue'[i], settings')
    <3>1. CASE i \in DOMAIN queue /\ queue'[i] = queue[i]
      <4>1. Claims(queue[i]) /\ queue[i].key # key
        BY <2>5, <2>7, <3>1
      <4>2. ~Settled(i)
        BY <2>2, <2>7, <3>1, QueueFacts DEF Settled
      <4>3. Keeps(queue[i], settings) /\ SameAt(queue[i].key, settings, copy)
        BY <1>0, <2>3, <3>1, <4>1, <4>2 DEF Held
      <4> QED BY <2>2, <3>1, <4>3, KeepsSame
    <3>2. CASE queue'[i] = t
      BY <2>2, <2>6, <2>7, <3>2
    <3> QED BY <2>4, <3>1, <3>2
  <2>8. CASE queue = <<>>
    <3>1. /\ Scoped(t) => wire'["turn"].what = "get"
          /\ ~Scoped(t) => wire'["turn"].body = copy
      BY <2>1, <2>8, RequestFacts
    <3>2. \A i \in DOMAIN queue' : queue'[i] = t
      BY <2>4, <2>8, QueueFacts
    <3> QED BY <2>4, <2>6, <2>7, <2>8, <3>1, <3>2 DEF Held, Claims, ClaimsNext
  <2>9. CASE queue # <<>>
    <3>1. wire'["turn"] = wire["turn"] /\ Head(queue') = Head(queue)
      BY <2>2, <2>4, <2>9
    <3>2. ASSUME wire["turn"].what = "save", ~Scoped(Head(queue)), wire["turn"].at \in {"sent", "answered"},
                 NEW i \in DOMAIN queue', ClaimsNext(queue'[i])
          PROVE  Keeps(queue'[i], wire["turn"].body)
      <4>1. Exposing(key)
        BY <3>2 DEF Exposing
      <4>2. i \in DOMAIN queue /\ queue'[i] = queue[i]
        BY <2>4, <2>6, <3>2, <4>1
      <4>3. Claims(queue[i])
        BY <2>5, <3>2, <4>2
      <4> QED BY <3>2, <4>2, <4>3 DEF Held
    <3> QED BY <2>7, <3>1, <3>2 DEF Held, Claims, ClaimsNext
  <2> QED BY <2>8, <2>9
<1>5. ASSUME NEW what \in {"purge", "clear"}, NEW hosts \in SUBSET settings.deleted,
             AskPurge(what, hosts)
      PROVE  Held'
  BY <1>2, <1>5, AskFacts
<1>6. CASE Still
  BY <1>1, <1>6 DEF Still
<1>7. CASE ServeRead("turn")
  <2>1. /\ settings' = settings /\ queue' = queue /\ latest' = latest /\ exposed' = exposed
        /\ wire'["turn"].what = wire["turn"].what /\ wire["turn"].what # "save"
    BY <1>7, ReadFacts DEF history
  <2> QED BY <2>1 DEF Held, Settled, Claims
<1>8. CASE ServeSave
  <2>1. /\ settings' = settings /\ queue' = queue /\ latest' = latest /\ exposed' = exposed
        /\ wire["turn"].what = "save" /\ wire["turn"].at = "sent" /\ queue # <<>>
        /\ wire'["turn"].what = "save" /\ wire'["turn"].body = Normalize(wire["turn"].body)
        /\ wire["turn"].body \in Settings
    BY <1>8, SaveFacts DEF history
  <2>2. ASSUME Scoped(Head(queue))
        PROVE  wire'["turn"].body.value[Head(queue).key] = Given(Head(queue))
    <3>1. Head(queue).key \in Key /\ Head(queue).key \in Scope
      BY <2>1, <2>2, IdleFacts DEF Shape
    <3>2. Head(queue).key \notin wire["turn"].body.deleted
      BY <2>1, <3>1, Keys
    <3> QED BY <2>1, <2>2, <3>1, <3>2, NormalizeFacts DEF Held
  <2>3. ASSUME ~Scoped(Head(queue)), NEW i \in DOMAIN queue, Claims(queue[i])
        PROVE  Keeps(queue[i], wire'["turn"].body)
    BY <1>0, <2>1, <2>3, KeepsNormalized DEF Held
  <2> QED BY <2>1, <2>2, <2>3 DEF Held, Settled, Claims
<1>9. CASE ServePurge
  BY <1>1, <1>9, PurgeFacts DEF history
<1>10. ASSUME NEW s \in {"turn", "purge"}, Lost(s) PROVE Held'
  <2>1. /\ settings' = settings /\ queue' = queue /\ latest' = latest /\ exposed' = exposed
        /\ wire'["turn"].what = wire["turn"].what
        /\ wire'["turn"] = wire["turn"] \/ wire'["turn"].at \in {"failed", "refused"}
    BY <1>10, LostFacts DEF Sender
  <2> QED BY <2>1 DEF Held, Settled, Claims
<1>11. CASE ScopeRead
  <2>1. /\ settings' = settings /\ queue' = queue /\ latest' = latest /\ exposed' = exposed
        /\ wire["turn"].what = "get" /\ wire'["turn"].what = "save" /\ Scoped(Head(queue))
        /\ wire["turn"].body \in Settings /\ Head(queue) \in TransactionType
        /\ wire'["turn"].body = ScopedPayload(Head(queue), wire["turn"].body)
    BY <1>11, ScopeReadFacts DEF history
  <2>2. wire'["turn"].body.value[Head(queue).key] = Given(Head(queue))
    BY <2>1, PayloadType, PutFacts DEF ScopedPayload
  <2> QED BY <2>1, <2>2 DEF Held, Settled, Claims
<1>12. CASE Saved
  <2>1. /\ settings' = wire["turn"].body /\ queue' = queue /\ latest' = latest
        /\ exposed' = exposed /\ wire["turn"].what = "save" /\ wire["turn"].at = "answered"
        /\ ~Scoped(Head(queue)) /\ wire'["turn"].what = "stats"
    BY <1>12, SavedFacts
  <2> QED BY <2>1 DEF Held, Claims
\* What is merged of a scope is no other transaction's key.
<1>13. ASSUME queue # <<>>, Scoped(Head(queue)), NEW answer \in Settings,
              settings' = Merged(Head(queue).key, answer)
       PROVE  \A i \in DOMAIN queue : Claims(queue[i]) => i # 1 /\ Keeps(queue[i], settings')
  <2> TAKE i \in DOMAIN queue
  <2> HAVE Claims(queue[i])
  <2>1. Head(queue).key \in Key /\ Head(queue).key \in Scope /\ Head(queue) = queue[1]
    BY <1>13, IdleFacts DEF Shape
  <2>2. i # 1 /\ queue[i].key # Head(queue).key
    BY <1>13, <2>1 DEF Claims, Shape
  <2>3. answer.value[Head(queue).key] \in 0..MaxGestures
    BY <2>1 DEF Settings
  <2>4. SameAt(queue[i].key, settings, settings')
    BY <1>0, <1>13, <2>1, <2>2, <2>3, PutFacts DEF SameAt, Merged
  <2>5. Keeps(queue[i], settings)
    BY <2>2 DEF Held, Settled
  <2> QED BY <2>2, <2>4, <2>5, KeepsSame
<1>14. wire["turn"].body \in Settings
  BY WireFacts DEF Sender
<1>15. CASE ScopeSaved
  <2>1. /\ queue # <<>> /\ Scoped(Head(queue)) /\ latest' = latest /\ exposed' = exposed
        /\ settings' = Merged(Head(queue).key, wire["turn"].body)
    BY <1>15, ScopeSavedFacts
  <2>2. \A i \in DOMAIN queue : Claims(queue[i]) => i # 1 /\ Keeps(queue[i], settings')
    BY <1>13, <1>14, <2>1
  <2>3. CASE TurnOver(settings')
    BY <1>3, <2>2, <2>3
  <2>4. CASE queue' = queue /\ wire'["turn"].what = "reload"
    BY <2>1, <2>2, <2>4 DEF Held, Claims
  <2> QED BY <1>15, <2>3, <2>4, ScopeSavedFacts
<1>16. CASE ScopeReloaded
  <2>1. \A i \in DOMAIN queue : Claims(queue[i]) => i # 1 /\ Keeps(queue[i], settings')
    BY <1>13, <1>14, <1>16, ScopeReloadedFacts
  <2> QED BY <1>3, <1>16, <2>1, ScopeReloadedFacts
<1>17. CASE StatsRefreshed
  <2>1. settings' = settings /\ TurnOver(settings')
    BY <1>17, StatsRefreshedFacts
  <2>2. \A i \in DOMAIN queue : i # 1 /\ Claims(queue[i]) => Keeps(queue[i], settings')
    BY <2>1 DEF Held, Settled
  <2> QED BY <1>3, <2>1, <2>2
<1>18. CASE TurnFails
  <2>1. /\ queue # <<>> /\ TurnOver(settings) /\ settings' = TakenBack(Head(queue))
    BY <1>18, TurnFailsFacts
  <2>2. \A i \in DOMAIN queue : i # 1 /\ Claims(queue[i]) => Keeps(queue[i], settings)
    BY DEF Held, Settled
  <2>3. CASE Undoable(Head(queue))
    <3>1. \A i \in DOMAIN queue : i # 1 => 1 < i /\ queue[i].n \in exposed
      BY <2>1, <2>3, QueueFacts DEF Exposed
    <3> QED BY <1>3, <2>1, <3>1 DEF Claims
  <2>4. CASE ~Undoable(Head(queue))
    BY <1>3, <2>1, <2>2, <2>4 DEF TakenBack
  <2> QED BY <2>3, <2>4
<1>19. CASE Purged \/ PurgeFails
  <2>1. /\ wire["purge"].at # "none" /\ wire'["turn"] = wire["turn"] /\ queue' = queue
        /\ exposed' = exposed
    BY <1>19, PurgedFacts DEF history
  <2> QED BY <1>2, <2>1 DEF Exposed, Idle
<1>20. CASE Loaded
  BY <1>2, <1>20, LoadedFacts DEF Exposed
<1>21. ASSUME NEW h \in Configured, AgentReturns(h) PROVE Held'
  BY <1>1, <1>21, AgentFacts
<1> QED BY <1>4, <1>5, <1>6, <1>7, <1>8, <1>9, <1>10, <1>11, <1>12, <1>15, <1>16, <1>17,
    <1>18, <1>19, <1>20, <1>21, Effects

----------------------------------------------------------------------------
(* One scope.                                                              *)

\* The step that ScopeAlone allows.
Alone ==
    (TurnWaits("get") \/ TurnWaits("save") \/ TurnWaits("reload")) /\ Scoped(Head(queue))
      /\ wire'["turn"] # wire["turn"] =>
        LET key == Head(queue).key
        IN  /\ settings' = Put(settings, key, settings'.value[key])
            /\ drift \/ stored' = Put(stored, key, stored'.value[key])

LEMMA AloneStep ==
  ASSUME TypeOK, Shape, Normal, Agreement, [Next]_vars
  PROVE  Alone
<1> SUFFICES ASSUME queue # <<>>, wire["turn"].what \in {"get", "save", "reload"},
                    Scoped(Head(queue)), wire'["turn"] # wire["turn"]
             PROVE  /\ settings' = Put(settings, Head(queue).key, settings'.value[Head(queue).key])
                    /\ drift \/ stored' = Put(stored, Head(queue).key,
                                              stored'.value[Head(queue).key])
  BY DEF Alone, TurnWaits
<1> DEFINE key == Head(queue).key
<1>1. settings \in Settings /\ stored \in Settings /\ key \in Key /\ Head(queue) \in TransactionType
  BY IdleFacts DEF TypeOK
<1>2. /\ Put(settings, key, settings.value[key]) = settings
      /\ Put(stored, key, stored.value[key]) = stored
  BY <1>1, PutSame
<1>3. ASSUME NEW answer \in Settings, settings' = Merged(key, answer)
      PROVE  settings' = Put(settings, key, settings'.value[key])
  <2>1. settings' = Put(settings, key, answer.value[key]) /\ answer.value[key] \in 0..MaxGestures
    BY <1>1, <1>3 DEF Merged, Settings
  <2> QED BY <1>1, <2>1, PutFacts
<1>4. wire["turn"].body \in Settings
  BY WireFacts DEF Sender
<1>5. ASSUME NEW op, NEW k, NEW copy, Change(op, k, copy), Gesture(op, k, copy) PROVE FALSE
  BY <1>5, GestureFacts
<1>6. ASSUME NEW what \in {"purge", "clear"}, NEW hosts \in SUBSET settings.deleted,
             AskPurge(what, hosts)
      PROVE  FALSE
  BY <1>6, AskFacts
<1>7. ~Still
  BY DEF Still
<1>8. CASE ServeRead("turn")
  BY <1>2, <1>8, ReadFacts
<1>9. CASE ServeSave
  <2>1. settings' = settings
    BY <1>9, SaveFacts
  <2>2. drift \/ stored' = Put(stored, key, Given(Head(queue)))
    BY <1>9, ScopeStored
  <2>3. Given(Head(queue)) \in 0..MaxGestures
    BY <1>1, PayloadType
  <2> QED BY <1>1, <1>2, <2>1, <2>2, <2>3, PutFacts
<1>10. ~ServePurge
  BY PurgeFacts
<1>11. ASSUME NEW s \in {"turn", "purge"}, Lost(s)
       PROVE  settings' = settings /\ stored' = stored
  BY <1>11, LostFacts DEF Sender
<1>12. CASE ScopeRead
  BY <1>2, <1>12, ScopeReadFacts
<1>13. ~Saved
  BY SavedFacts
<1>14. CASE ScopeSaved
  BY <1>2, <1>3, <1>4, <1>14, ScopeSavedFacts DEF server
<1>15. CASE ScopeReloaded
  BY <1>2, <1>3, <1>4, <1>15, ScopeReloadedFacts DEF server
<1>16. ~StatsRefreshed
  BY StatsRefreshedFacts
<1>17. CASE TurnFails
  <2>1. settings' = settings
    BY <1>17, TurnFailsFacts DEF TakenBack, Scoped, Undoable
  <2> QED BY <1>2, <1>17, <2>1, TurnFailsFacts DEF server
<1>18. ~Purged /\ ~PurgeFails /\ ~Loaded
  BY PurgedFacts, LoadedFacts
<1>19. ASSUME NEW h \in Configured, AgentReturns(h) PROVE FALSE
  BY <1>19, AgentFacts
<1> QED BY <1>2, <1>5, <1>6, <1>7, <1>8, <1>9, <1>10, <1>11, <1>12, <1>13, <1>14, <1>15,
    <1>16, <1>17, <1>18, <1>19, Effects

----------------------------------------------------------------------------
(* Theorems.                                                               *)

\* The inductive invariant.
IndInv ==
    /\ TypeOK /\ Shape
    /\ Numbering /\ Normal /\ AckedIsOld
    /\ Exposed /\ Held
    /\ Agreement /\ AckedAgrees

LEMMA InitInvariant == Init => IndInv
<1> SUFFICES ASSUME Init PROVE IndInv
  OBVIOUS
<1>1. /\ NoRequest.at = "none" /\ NoRequest.what = "none" /\ NoRequest \in RequestType
      /\ Request("load", 1, Empty) \in RequestType
      /\ Request("load", 1, Empty).at = "sent" /\ Request("load", 1, Empty).what = "load"
  <2>1. NoRequest.at = "none" /\ NoRequest.what = "none"
    BY DEF NoRequest
  <2>2. 1 \in 0..MaxLogins
    BY BoundAssumption
  <2> QED BY <2>1, <2>2, RequestTypes, RequestFacts, EmptyType
<1>2. /\ wire["turn"] = NoRequest /\ wire["purge"] = NoRequest
      /\ wire["session"] = NoRequest \/ (wire["session"] = Request("load", 1, Empty) /\ view = "loading")
      /\ wire \in [Sender -> RequestType]
  <2>1. CASE wire = [s \in Sender |-> NoRequest]
    BY <1>1, <2>1 DEF Sender
  <2>2. CASE /\ wire = [s \in Sender |-> IF s = "session" THEN Request("load", 1, Empty)
                                                         ELSE NoRequest]
             /\ view = "loading"
    BY <1>1, <2>2 DEF Sender
  <2> QED BY <2>1, <2>2 DEF Init
<1>3. /\ stored = Empty /\ settings = Empty /\ rows = {} /\ reporting = {} /\ queue = <<>>
      /\ gestures = 0 /\ faults = 0 /\ latest = [k \in Key |-> 0]
      /\ acked = {} /\ exposed = {} /\ drift = FALSE
      /\ logins \in {0, 1} /\ alive \subseteq {1} /\ token \in {0, 1}
      /\ view \in {"login", "loading"}
  BY DEF Init
<1>4. TypeOK
  <2>1. latest \in [Key -> 0..MaxGestures]
    BY <1>3, BoundAssumption
  <2>2. 0 \in 0..MaxLogins /\ 1 \in 1..MaxLogins /\ 1 \in 0..MaxLogins /\ 0 \in 0..MaxGestures
        /\ 0 \in 0..MaxFaults
    BY BoundAssumption
  <2>3. queue \in Seq(TransactionType)
    BY <1>3
  <2>4. Idle("turn") <=> queue = <<>>
    BY <1>1, <1>2, <1>3 DEF Idle
  <2> QED BY <1>2, <1>3, <2>1, <2>2, <2>3, <2>4, EmptyType DEF TypeOK
<1>5. DOMAIN queue = {}
  BY <1>3
<1>6. Shape
  BY <1>1, <1>2, <1>5 DEF Shape, Idle, Sender
<1>7. Numbering /\ Normal /\ AckedIsOld
  BY <1>3, <1>5 DEF Numbering, Normal, AckedIsOld, Empty
<1>8. Exposed
  BY <1>1, <1>2, <1>3, <1>5 DEF Exposed, Idle, Pending
<1>9. Agreement
  BY <1>1, <1>2, <1>3 DEF Agreement, Synced, Idle
<1>10. AckedAgrees
  BY <1>1, <1>2, <1>3 DEF AckedAgrees
<1>11. Held
  BY <1>1, <1>2, <1>5 DEF Held
<1> QED BY <1>4, <1>6, <1>7, <1>8, <1>9, <1>10, <1>11 DEF IndInv

LEMMA StepInvariant == IndInv /\ [Next]_vars => IndInv'
BY TypeStep, ShapeStep, NumberingStep, NormalStep, AckedIsOldStep, ExposedStep, HeldStep,
   AgreementStep, AckedAgreesStep DEF IndInv

\* The inductive invariant holds throughout: what is queued is numbered in
\* order, a page that missed nothing agrees with the server but for what it
\* has still to post, what was acknowledged is the same on both sides, and
\* every save holds the changes it is for.
THEOREM PageInvariant == Spec => []IndInv
<1>1. Spec => Init /\ [][Next]_vars
  BY DEF Spec
<1> QED BY <1>1, InitInvariant, StepInvariant, PTL

\* The variables keep their types, and a transaction waits exactly while one is
\* queued.
THEOREM TypeCorrect == Spec => []TypeOK
<1>1. IndInv => TypeOK
  BY DEF IndInv
<1> QED BY <1>1, PageInvariant, PTL

\* The answer that lets the page say "synced" (saveSettingsFull,
\* saveScopedSettings) holds the user's change, unless it was exposed.
THEOREM SyncedIsSaved == Spec => []SavedMeansStored
<1>1. IndInv => SavedMeansStored
  <2> SUFFICES ASSUME IndInv, TurnAnswered("save"), Head(queue).n \notin exposed,
                      latest[Head(queue).key] = Head(queue).n
               PROVE  Holds(Head(queue), wire["turn"].body)
    BY DEF SavedMeansStored
  <2>1. /\ queue # <<>> /\ wire["turn"].what = "save" /\ wire["turn"].at = "answered"
        /\ 1 \in DOMAIN queue /\ Head(queue) = queue[1]
    BY QueueFacts DEF IndInv, TurnAnswered, TurnWaits
  <2>2. CASE Scoped(Head(queue))
    <3>1. wire["turn"].body.value[Head(queue).key] = Given(Head(queue))
      BY <2>1, <2>2 DEF IndInv, Held
    <3> QED BY <2>2, <3>1 DEF Holds, Scoped
  <2>3. CASE ~Scoped(Head(queue))
    <3>1. Keeps(Head(queue), wire["turn"].body)
      BY <2>1, <2>3 DEF IndInv, Held, Claims
    <3> QED BY <3>1 DEF Keeps
  <2> QED BY <2>2, <2>3
<1> QED BY <1>1, PageInvariant, PTL

\* When nothing is under way the dashboard shows the server's settings, as long
\* as the page missed nothing.
THEOREM QuietAgrees == Spec => []QuietPageAgrees
<1>1. IndInv => QuietPageAgrees
  <2> SUFFICES ASSUME IndInv, ~drift, \A s \in Sender : Idle(s) PROVE settings = stored
    BY DEF QuietPageAgrees
  <2>1. queue = <<>> /\ wire["purge"].at = "none"
    BY DEF IndInv, TypeOK, Idle, Sender
  <2>2. TypeOK /\ Shape /\ Agreement
    BY DEF IndInv
  <2> QED BY <2>1, <2>2, IdleFacts DEF Agreement, Synced
<1> QED BY <1>1, PageInvariant, PTL

\* What a save was acknowledged for stays at the server: no later save, failure
\* or roll-back of this page takes it back, as long as the page missed nothing.
THEOREM AcknowledgedIsKept == Spec => AcknowledgedStays
<1> DEFINE Kept == ~drift' => \A k \in acked \cap acked' :
                      /\ stored'.value[k] = stored.value[k]
                      /\ k \in stored'.deleted <=> k \in stored.deleted
<1>1. IndInv /\ [Next]_vars => [Kept]_vars
  <2> SUFFICES ASSUME IndInv, [Next]_vars PROVE Kept
    OBVIOUS
  <2>1. ~drift' => Stays
    BY AckedAgreesStep DEF IndInv
  <2> QED BY <2>1 DEF Stays, SameAt
<1>2. Spec => [][Next]_vars
  BY DEF Spec
<1> QED BY <1>1, <1>2, PageInvariant, PTL DEF AcknowledgedStays

\* A save of one scope changes nothing else, neither in the page's unsaved copy
\* nor at the server, though it posts all the settings (saveScopedSettings).
THEOREM ScopesAreSeparate == Spec => ScopeAlone
<1>1. IndInv /\ [Next]_vars => [Alone]_vars
  BY AloneStep DEF IndInv
<1>2. Spec => [][Next]_vars
  BY DEF Spec
<1>3. Spec => [][Alone]_vars
  BY <1>1, <1>2, PageInvariant, PTL
<1> QED BY <1>3 DEF ScopeAlone, Alone

----------------------------------------------------------------------------
(* Why turns end.                                                          *)

\* How far a transaction is: what it asks for, and what it heard.
StepNo(r) ==
    [get |-> 0, save |-> 3, reload |-> 6, stats |-> 6][r.what]
    + [sent |-> 0, answered |-> 1, failed |-> 2, refused |-> 2][r.at]

\* The steps that the changes to come and the queued ones take at most.
Work == 9 * (MaxGestures - gestures)
        + (IF queue = <<>> THEN 0 ELSE 9 * Len(queue) - StepNo(wire["turn"]))

\* Nothing adds to the work, and every step of the running transaction is some.
Advances == Work' <= Work /\ (queue # <<>> /\ wire'["turn"] # wire["turn"] => Work' < Work)

\* The answer of the running transaction is on its way, or has come and is one
\* that a handler of the page takes.
Attended ==
    \/ wire["turn"].at = "sent" /\ wire["turn"].what \in {"get", "save", "reload", "stats"}
    \/ TurnAnswered("get") \/ TurnAnswered("save") \/ TurnAnswered("reload")
    \/ TurnWaits("stats") /\ wire["turn"].at \in {"answered", "failed", "refused"}
    \/ wire["turn"].what \in {"get", "save", "reload"} /\ wire["turn"].at \in {"failed", "refused"}

LEMMA StepFacts ==
  /\ \A r : r.what \in {"get", "save", "reload", "stats"}
            /\ r.at \in {"sent", "answered", "failed", "refused"} =>
                 StepNo(r) \in Nat /\ StepNo(r) <= 8
  /\ \A r, q : r.what = q.what /\ r.what \in {"get", "save", "reload", "stats"} =>
        /\ r.at = "sent" /\ q.at = "answered" => StepNo(r) < StepNo(q)
        /\ r.at \in {"sent", "answered"} /\ q.at \in {"failed", "refused"} => StepNo(r) < StepNo(q)
  /\ \A r, q : r.at = "answered" /\ q.at = "sent" =>
        /\ r.what = "get" /\ q.what = "save" => StepNo(r) < StepNo(q)
        /\ r.what = "save" /\ q.what \in {"reload", "stats"} => StepNo(r) < StepNo(q)
  /\ \A r : r.at = "sent" /\ r.what \in {"get", "save"} => StepNo(r) <= 3
BY DEF StepNo

LEMMA WorkFacts ==
  ASSUME TypeOK, Shape
  PROVE  /\ Work \in Nat
         /\ queue # <<>> => /\ StepNo(wire["turn"]) \in Nat /\ StepNo(wire["turn"]) <= 8
                            /\ Attended /\ wire["turn"].what \in {"get", "save", "reload", "stats"}
         /\ gestures \in Nat /\ MaxGestures \in Nat /\ gestures <= MaxGestures
         /\ Len(queue) \in Nat /\ (queue # <<>> => Len(queue) >= 1)
<1>1. /\ gestures \in Nat /\ MaxGestures \in Nat /\ gestures <= MaxGestures
      /\ Len(queue) \in Nat /\ (queue # <<>> => Len(queue) >= 1)
  BY BoundAssumption, QueueFacts DEF TypeOK
<1>2. ASSUME queue # <<>>
      PROVE  /\ wire["turn"].what \in {"get", "save", "reload", "stats"}
             /\ wire["turn"].at \in {"sent", "answered", "failed", "refused"}
  <2>1. ~Idle("turn") /\ wire["turn"] \in RequestType
    BY <1>2 DEF TypeOK, Sender
  <2>2. wire["turn"].what \in {"get", "save", "reload", "stats"}
    BY <2>1 DEF Shape
  <2> QED BY <2>1, <2>2 DEF Idle, RequestType
<1>3. queue # <<>> => StepNo(wire["turn"]) \in Nat /\ StepNo(wire["turn"]) <= 8
  BY <1>2, StepFacts
<1>4. queue # <<>> => Attended
  BY <1>2 DEF Attended, TurnAnswered, TurnWaits
<1>5. Work \in Nat
  <2>1. CASE queue = <<>>
    BY <1>1, <2>1 DEF Work
  <2>2. CASE queue # <<>>
    <3>1. Work = 9 * (MaxGestures - gestures) + (9 * Len(queue) - StepNo(wire["turn"]))
      BY <2>2 DEF Work
    <3> QED BY <1>1, <1>3, <2>2, <3>1
  <2> QED BY <2>1, <2>2
<1> QED BY <1>1, <1>2, <1>3, <1>4, <1>5

\* The same of the next state.
Bounded ==
    /\ Work \in Nat
    /\ queue # <<>> => StepNo(wire["turn"]) \in Nat /\ StepNo(wire["turn"]) <= 8

LEMMA WorkFactsNext ==
  TypeOK' /\ Shape' =>
    /\ Work' \in Nat
    /\ queue' # <<>> => StepNo(wire'["turn"]) \in Nat /\ StepNo(wire'["turn"]) <= 8
<1>1. TypeOK /\ Shape => Bounded
  BY WorkFacts DEF Bounded
<1>2. TypeOK' /\ Shape' => Bounded'
  BY <1>1, PTL
<1> QED BY <1>2 DEF Bounded

\* The end of a turn, and its other steps.
LEMMA TurnOverAdvances ==
  ASSUME TypeOK, Shape, TypeOK', Shape', NEW copy, TurnOver(copy)
  PROVE  Advances
<1>1. /\ queue # <<>> /\ gestures' = gestures /\ Len(queue') = Len(queue) - 1
      /\ Len(queue) \in Nat /\ Len(queue) >= 1 /\ gestures \in Nat /\ MaxGestures \in Nat
  <2>1. queue # <<>> /\ gestures' = gestures /\ queue' = Tail(queue)
    BY DEF TurnOver
  <2> QED BY <2>1, HeadTailProperties, WorkFacts DEF TypeOK
<1>2. StepNo(wire["turn"]) \in Nat /\ StepNo(wire["turn"]) <= 8
  BY <1>1, WorkFacts
<1>3. Work = 9 * (MaxGestures - gestures) + (9 * Len(queue) - StepNo(wire["turn"]))
  BY <1>1 DEF Work
<1>4. CASE queue' = <<>>
  <2>1. Work' = 9 * (MaxGestures - gestures)
    BY <1>1, <1>4 DEF Work
  <2>2. Work' < Work
    BY <1>1, <1>2, <1>3, <2>1
  <2> QED BY <2>2, WorkFacts, WorkFactsNext DEF Advances
<1>5. CASE queue' # <<>>
  <2>1. Work' = 9 * (MaxGestures - gestures) + (9 * (Len(queue) - 1) - StepNo(wire'["turn"]))
    BY <1>1, <1>5 DEF Work
  <2>2. StepNo(wire'["turn"]) \in Nat
    BY <1>5, WorkFactsNext
  <2>3. Work' < Work
    BY <1>1, <1>2, <1>3, <2>1, <2>2
  <2> QED BY <2>3, WorkFacts, WorkFactsNext DEF Advances
<1> QED BY <1>4, <1>5

LEMMA TurnGoesOn ==
  ASSUME TypeOK, Shape, TypeOK', Shape', queue # <<>>, queue' = queue, gestures' = gestures,
         StepNo(wire["turn"]) < StepNo(wire'["turn"])
  PROVE  Advances
<1>1. /\ Work = 9 * (MaxGestures - gestures) + (9 * Len(queue) - StepNo(wire["turn"]))
      /\ Work' = 9 * (MaxGestures - gestures) + (9 * Len(queue) - StepNo(wire'["turn"]))
  BY DEF Work
<1>2. /\ StepNo(wire["turn"]) \in Nat /\ StepNo(wire'["turn"]) \in Nat
      /\ gestures \in Nat /\ MaxGestures \in Nat /\ Len(queue) \in Nat
  BY WorkFacts, WorkFactsNext
<1>3. Work' < Work
  BY <1>1, <1>2
<1> QED BY <1>3, WorkFacts, WorkFactsNext DEF Advances

LEMMA TurnWaitsOn ==
  ASSUME TypeOK, Shape, queue' = queue, gestures' = gestures, wire'["turn"] = wire["turn"]
  PROVE  Advances
<1>1. Work' = Work
  BY DEF Work
<1> QED BY <1>1, WorkFacts DEF Advances

\* A change takes no more work than was set aside for it.
LEMMA GestureAdvances ==
  ASSUME TypeOK, Shape, TypeOK', Shape', NEW op, NEW key, NEW copy, Change(op, key, copy),
         Gesture(op, key, copy)
  PROVE  Advances
<1>1. PICK t \in TransactionType :
         /\ queue' = Append(queue, t)
         /\ queue = <<>> => wire'["turn"] = IF Scoped(t) THEN Request("get", token, Empty)
                                            ELSE Request("save", token, copy)
  BY GestureFacts
<1>2. gestures' = gestures + 1 /\ (queue # <<>> => wire'["turn"] = wire["turn"])
  BY GestureFacts
<1>3. queue' # <<>> /\ Len(queue') = Len(queue) + 1
  BY <1>1, AppendFacts, AppendProperties DEF TypeOK
<1>4. /\ gestures \in Nat /\ MaxGestures \in Nat /\ Len(queue) \in Nat
      /\ queue = <<>> <=> Len(queue) = 0
  BY WorkFacts, QueueFacts
<1>5. Work' = 9 * (MaxGestures - (gestures + 1)) + (9 * (Len(queue) + 1) - StepNo(wire'["turn"]))
  BY <1>2, <1>3 DEF Work
<1>6. StepNo(wire'["turn"]) \in Nat
  BY <1>3, WorkFactsNext
<1>7. CASE queue = <<>>
  <2>1. Work = 9 * (MaxGestures - gestures)
    BY <1>4, <1>7 DEF Work
  <2>2. Work' <= Work
    BY <1>4, <1>5, <1>6, <1>7, <2>1
  <2> QED BY <1>7, <2>2 DEF Advances
<1>8. CASE queue # <<>>
  <2>1. Work = 9 * (MaxGestures - gestures) + (9 * Len(queue) - StepNo(wire["turn"]))
    BY <1>8 DEF Work
  <2>2. wire'["turn"] = wire["turn"]
    BY <1>2, <1>8
  <2>3. Work' <= Work
    BY <1>4, <1>5, <1>6, <2>1, <2>2
  <2> QED BY <2>2, <2>3 DEF Advances
<1> QED BY <1>7, <1>8

LEMMA AskAdvances ==
  ASSUME TypeOK, Shape, NEW what \in {"purge", "clear"}, NEW hosts \in SUBSET settings.deleted,
         AskPurge(what, hosts)
  PROVE  Advances
<1>1. queue' = queue /\ gestures' = gestures + 1 /\ wire'["turn"] = wire["turn"]
  BY AskFacts
<1> DEFINE rest == IF queue = <<>> THEN 0 ELSE 9 * Len(queue) - StepNo(wire["turn"])
<1>2. /\ Work = 9 * (MaxGestures - gestures) + rest
      /\ Work' = 9 * (MaxGestures - (gestures + 1)) + rest
  BY <1>1 DEF Work
<1>3. gestures \in Nat /\ MaxGestures \in Nat /\ rest \in Int
  BY WorkFacts
<1> HIDE DEF rest
<1>4. Work' <= Work
  BY <1>2, <1>3
<1> QED BY <1>1, <1>4 DEF Advances

LEMMA WorkStep ==
  ASSUME TypeOK, Shape, TypeOK', Shape', [Next]_vars
  PROVE  Advances
<1>0. queue # <<>> => wire["turn"].what \in {"get", "save", "reload", "stats"}
  BY WorkFacts
<1>1. CASE Still
  BY <1>1, TurnWaitsOn DEF Still
<1>2. ASSUME NEW op, NEW key, NEW copy, Change(op, key, copy), Gesture(op, key, copy)
      PROVE  Advances
  BY <1>2, GestureAdvances
<1>3. ASSUME NEW what \in {"purge", "clear"}, NEW hosts \in SUBSET settings.deleted,
             AskPurge(what, hosts)
      PROVE  Advances
  BY <1>3, AskAdvances
<1>4. CASE ServeRead("turn")
  <2>1. queue # <<>> /\ queue' = queue /\ gestures' = gestures
    <3>1. ~Idle("turn")
      BY <1>4, ReadFacts DEF Idle
    <3> QED BY <1>4, <3>1, ReadFacts DEF TypeOK
  <2>2. StepNo(wire["turn"]) < StepNo(wire'["turn"])
    BY <1>0, <1>4, <2>1, ReadFacts, StepFacts
  <2> QED BY <2>1, <2>2, TurnGoesOn
<1>5. CASE ServeSave
  <2>1. StepNo(wire["turn"]) < StepNo(wire'["turn"])
    BY <1>5, SaveFacts, StepFacts
  <2> QED BY <1>5, <2>1, SaveFacts, TurnGoesOn
<1>6. CASE Lost("turn")
  <2>1. queue # <<>> /\ queue' = queue /\ gestures' = gestures
    <3>1. ~Idle("turn")
      BY <1>6, LostFacts DEF Idle, Sender
    <3> QED BY <1>6, <3>1, LostFacts DEF TypeOK, Sender
  <2>2. StepNo(wire["turn"]) < StepNo(wire'["turn"])
    <3>1. /\ wire'["turn"].at \in {"failed", "refused"} /\ wire'["turn"].what = wire["turn"].what
          /\ wire["turn"].at \in {"sent", "answered"}
      BY <1>6, LostFacts DEF Sender
    <3> QED BY <1>0, <2>1, <3>1, StepFacts
  <2> QED BY <2>1, <2>2, TurnGoesOn
<1>7. CASE ServePurge \/ Lost("purge")
  <2>1. queue' = queue /\ gestures' = gestures /\ wire'["turn"] = wire["turn"]
    BY <1>7, PurgeFacts, LostFacts DEF Sender
  <2> QED BY <2>1, TurnWaitsOn
<1>8. CASE ScopeRead
  <2>1. StepNo(wire["turn"]) < StepNo(wire'["turn"])
    BY <1>8, ScopeReadFacts, StepFacts
  <2> QED BY <1>8, <2>1, ScopeReadFacts, TurnGoesOn
<1>9. CASE Saved
  <2>1. StepNo(wire["turn"]) < StepNo(wire'["turn"])
    BY <1>9, SavedFacts, StepFacts
  <2> QED BY <1>9, <2>1, SavedFacts, TurnGoesOn
<1>10. CASE ScopeSaved
  <2>1. CASE TurnOver(settings')
    BY <2>1, TurnOverAdvances
  <2>2. CASE queue' = queue /\ wire'["turn"].at = "sent" /\ wire'["turn"].what = "reload"
    <3>1. /\ queue # <<>> /\ wire["turn"].what = "save" /\ wire["turn"].at = "answered"
          /\ gestures' = gestures
      BY <1>10, ScopeSavedFacts
    <3>2. StepNo(wire["turn"]) < StepNo(wire'["turn"])
      BY <2>2, <3>1, StepFacts
    <3> QED BY <2>2, <3>1, <3>2, TurnGoesOn
  <2> QED BY <1>10, <2>1, <2>2, ScopeSavedFacts
<1>11. CASE ScopeReloaded \/ StatsRefreshed \/ TurnFails
  <2>1. TurnOver(settings') \/ TurnOver(settings)
    BY <1>11, ScopeReloadedFacts, StatsRefreshedFacts, TurnFailsFacts
  <2> QED BY <2>1, TurnOverAdvances
<1>12. CASE Purged \/ PurgeFails \/ Loaded
  <2>1. queue' = queue /\ gestures' = gestures /\ wire'["turn"] = wire["turn"]
    BY <1>12, PurgedFacts, LoadedFacts
  <2> QED BY <2>1, TurnWaitsOn
<1>13. ASSUME NEW h \in Configured, AgentReturns(h) PROVE Advances
  BY <1>13, AgentFacts, TurnWaitsOn
<1> QED BY <1>1, <1>2, <1>3, <1>4, <1>5, <1>6, <1>7, <1>8, <1>9, <1>10, <1>11, <1>12, <1>13,
    Effects

\* Why every queued transaction ends, whatever failed before it: the running one
\* always has an answer on its way or at a handler that takes it, each of its
\* steps uses up work, and no event adds any - a failure starts no retry
\* (state.settingsQueue, and the handlers' catch and finally).  That the answers
\* come is the fairness TurnsEnd assumes.
THEOREM TurnsAdvance ==
  Spec => /\ [](Work \in Nat /\ (queue # <<>> => Attended))
          /\ [][Work' <= Work /\ (queue # <<>> /\ wire'["turn"] # wire["turn"] => Work' < Work)]_vars
<1>1. IndInv => Work \in Nat /\ (queue # <<>> => Attended)
  BY WorkFacts DEF IndInv
<1>2. IndInv /\ IndInv' /\ [Next]_vars =>
         [Work' <= Work /\ (queue # <<>> /\ wire'["turn"] # wire["turn"] => Work' < Work)]_vars
  BY WorkStep DEF IndInv, Advances
<1>3. Spec => [][Next]_vars
  BY DEF Spec
<1> QED BY <1>1, <1>2, <1>3, PageInvariant, PTL

----------------------------------------------------------------------------
(* Why loading ends.                                                       *)

\* A page that is loading waits for the answer to its load, or has it.
Awaited == view = "loading" => ~Idle("session") /\ wire["session"].what = "load"

LEMMA LoadingStep ==
  ASSUME TypeOK, Shape, Awaited, [Next]_vars
  PROVE  Awaited'
<1> SUFFICES ASSUME view' = "loading"
             PROVE  wire'["session"].at # "none" /\ wire'["session"].what = "load"
  BY DEF Awaited, Idle
<1>0. "session" \in Sender /\ "turn" \in Sender /\ "purge" \in Sender
  BY DEF Sender
<1> DEFINE Same == wire'["session"] = wire["session"]
<1>a. ASSUME view = "loading", Same
      PROVE  wire'["session"].at # "none" /\ wire'["session"].what = "load"
  BY <1>a DEF Awaited, Idle
<1>1. ASSUME NEW op, NEW key, NEW copy, Change(op, key, copy), Gesture(op, key, copy)
      PROVE  FALSE
  BY <1>1, GestureFacts
<1>2. ASSUME NEW what, NEW hosts, AskPurge(what, hosts) PROVE FALSE
  BY <1>2 DEF AskPurge, page
<1>3. ASSUME Login \/ Logout \/ ChangePassword PROVE FALSE
  BY <1>3 DEF Login, Logout, ChangePassword, page
<1>4. ASSUME NEW s \in Sender, ServeRead(s)
      PROVE  wire'["session"].at # "none" /\ wire'["session"].what = "load"
  <2>1. view = "loading" /\ Answer(s, stored, reporting \ stored.deleted)
    BY <1>4 DEF ServeRead, page
  <2>2. stored \in Settings /\ reporting \ stored.deleted \in SUBSET Host
    BY DEF TypeOK
  <2> QED BY <1>0, <2>1, <2>2, AnswerFacts DEF Awaited, Idle
<1>5. CASE ServeSave
  BY <1>5, <1>a, SaveFacts DEF page
<1>6. CASE ServePurge
  BY <1>6, <1>a, PurgeFacts DEF page
<1>7. ASSUME ServePassword \/ ServeLogin PROVE FALSE
  BY <1>7 DEF ServePassword, ServeLogin, Authorised, Awaited, page
<1>8. ASSUME NEW s \in Sender, Lost(s)
      PROVE  wire'["session"].at # "none" /\ wire'["session"].what = "load"
  BY <1>0, <1>8, LostFacts DEF Awaited, Idle, page
<1>9. CASE ScopeRead
  BY <1>9, <1>a, ScopeReadFacts DEF page
<1>10. CASE Saved
  BY <1>10, <1>a, SavedFacts
<1>11. CASE ScopeSaved
  BY <1>11, <1>a, ScopeSavedFacts DEF TurnOver
<1>12. CASE ScopeReloaded
  BY <1>12, <1>a, ScopeReloadedFacts DEF TurnOver
<1>13. CASE StatsRefreshed
  BY <1>13, <1>a, StatsRefreshedFacts DEF TurnOver
<1>14. CASE TurnFails
  BY <1>14, <1>a, TurnFailsFacts DEF TurnOver
<1>15. CASE Purged \/ PurgeFails
  BY <1>15, <1>a, PurgedFacts
<1>16. ASSUME LoggedIn \/ Loaded \/ SessionFails \/ PasswordChanged \/ PasswordFails PROVE FALSE
  <2>1. ASSUME LoggedIn PROVE FALSE
    BY <2>1 DEF LoggedIn, Awaited
  <2>2. ASSUME PasswordChanged \/ PasswordFails PROVE FALSE
    BY <2>2 DEF PasswordChanged, PasswordFails, SessionAfter, Awaited
  <2> QED BY <1>16, <2>1, <2>2 DEF Loaded, SessionFails
<1>17. ASSUME NEW h \in Configured, AgentReturns(h)
       PROVE  wire'["session"].at # "none" /\ wire'["session"].what = "load"
  BY <1>17, <1>a, AgentFacts DEF page
<1>18. CASE TokensExpire \/ UNCHANGED vars
  BY <1>18, <1>a DEF TokensExpire, vars, page
<1> QED BY <1>1, <1>2, <1>3, <1>4, <1>5, <1>6, <1>7, <1>8, <1>9, <1>10, <1>11, <1>12, <1>13,
    <1>14, <1>15, <1>16, <1>17, <1>18, Steps

\* Why a page that is loading shows the dashboard or the login form in the end:
\* until then its load is under way, or has an answer that Loaded or SessionFails
\* takes (enterDashboard and the catch behind it when the page is opened).
THEOREM LoadingIsAwaited ==
  Spec => [](view = "loading" => ~Idle("session") /\ wire["session"].what = "load")
<1>1. Init => Awaited
  BY DEF Init, Awaited, Idle, Sender, Request
<1>2. IndInv /\ Awaited /\ [Next]_vars => Awaited'
  BY LoadingStep DEF IndInv
<1>3. Spec => Init /\ [][Next]_vars
  BY DEF Spec
<1>4. Spec => []Awaited
  BY <1>1, <1>2, <1>3, PageInvariant, PTL
<1> QED BY <1>4 DEF Awaited
=============================================================================
