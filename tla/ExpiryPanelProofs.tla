------------------------- MODULE ExpiryPanelProofs -------------------------
(***************************************************************************)
(* Proofs about the expiry panel: the lines of the table, the types, the   *)
(* order of the servers, and decorations that call for each other, for any *)
(* versions of the statistics and any limits of the retries.               *)
(***************************************************************************)
EXTENDS ExpiryPanel, TLAPS

----------------------------------------------------------------------------
(* The lines of the table.                                                 *)

Lines == rows \subseteq Row /\ DOMAIN line = Row
PInv == Lines /\ RowsDecorated

\* Nothing is decorated before the first answer.
LEMMA PanelInitially == PanelInit => PInv
BY DEF PanelInit, PInv, Lines, RowsDecorated

\* A step that leaves the table and the latest answer alone leaves the rows
\* decorated, as long as it calls for no decoration to be dropped.
LEMMA TableAlone ==
    ASSUME PInv, UNCHANGED <<rows, line, latest>>, pending => pending'
    PROVE  PInv'
<1>1. Servers(latest)' = Servers(latest)
  BY DEF Servers
<1> QED
  BY <1>1 DEF PInv, Lines, RowsDecorated

\* A change of the tree calls for a decoration, unless there is nothing to
\* decorate with.
LEMMA MoveObserved ==
    ASSUME AfterMove
    PROVE  /\ pending => pending'
           /\ pending' \/ Servers(latest) = <<>>
BY DEF AfterMove, Observed

\* Decorating gives every row that is matched its line.
LEMMA Decorated ==
    ASSUME PInv, Decorate
    PROVE  PInv'
<1> DEFINE matched == rows \cap DOMAIN Servers(latest)
<1>1. /\ rows' = rows /\ latest' = latest
      /\ line' = [r \in Row |-> IF r \in Replaced(matched) THEN Servers(latest)[r] ELSE line[r]]
  BY DEF Decorate
<1>2. Servers(latest)' = Servers(latest)
  BY <1>1 DEF Servers
<1>3. \A r \in matched : r \in Replaced(matched) \/ line[r] = Servers(latest)[r]
  BY DEF Replaced
<1>4. \A r \in matched : line'[r] = Servers(latest)[r]
  BY <1>1, <1>3 DEF PInv, Lines
<1> QED
  BY <1>1, <1>2, <1>4 DEF PInv, Lines, RowsDecorated

\* An answer that is drawn calls for a decoration.
LEMMA Rendered ==
    ASSUME PInv, NEW v, NEW waiting, Render(v, waiting)
    PROVE  PInv'
<1>1. /\ rows' = rows /\ line' = line /\ latest' = v
      /\ pending' = (pending \/ Servers(v) # <<>>)
  BY DEF Render
<1>2. Servers(latest)' = Servers(v)
  BY <1>1 DEF Servers
<1>3. ~pending' => Servers(v) = <<>>
  BY <1>1
<1>4. ~pending' => DOMAIN Servers(latest)' = {}
  BY <1>2, <1>3
<1> QED
  BY <1>1, <1>4 DEF PInv, Lines, RowsDecorated

\* The bundle's changes call for a decoration when there is one to make.
LEMMA Moved ==
    ASSUME PInv, BodyChanges \/ \E set \in SUBSET Row : TableChanges(set)
    PROVE  PInv'
<1>1. AfterMove /\ latest' = latest /\ rows' \subseteq Row /\ DOMAIN line' = Row
  BY DEF BodyChanges, TableChanges
<1>2. Servers(latest)' = Servers(latest)
  BY <1>1 DEF Servers
<1>3. ~pending' => DOMAIN Servers(latest)' = {}
  BY <1>1, <1>2, MoveObserved
<1> QED
  BY <1>1, <1>3 DEF PInv, Lines, RowsDecorated

\* Every step keeps the rows decorated.
LEMMA PanelInductive == PInv /\ [PanelNext]_panelVars => PInv'
<1> SUFFICES ASSUME PInv, [PanelNext]_panelVars
             PROVE  PInv'
  OBVIOUS
<1>1. ASSUME NEW p \in 1..MaxPolls, Poll(p) \/ BundleAsks(p) \/ ServePoll(p)
      PROVE  PInv'
  BY <1>1, TableAlone DEF Poll, BundleAsks, ServePoll, panelTree, panelScript
<1>2. ASSUME NEW p \in 1..MaxPolls, PollArrives(p)
      PROVE  PInv'
  BY <1>2, Rendered DEF PollArrives
<1>3. ASSUME NEW p \in 1..MaxPolls, PollLost(p)
      PROVE  PInv'
  BY <1>3, TableAlone, MoveObserved DEF PollLost
<1>4. ASSUME NEW v \in Version, TimerFires(v)
      PROVE  PInv'
  BY <1>4, Rendered DEF TimerFires
<1>5. CASE Decorate
  BY <1>5, Decorated
<1>6. CASE BodyChanges \/ \E set \in SUBSET Row : TableChanges(set)
  BY <1>6, Moved
<1>7. CASE Publish \/ UNCHANGED panelVars
  BY <1>7, TableAlone DEF Publish, panelVars, panelTree, panelScript
<1> QED
  BY <1>1, <1>2, <1>3, <1>4, <1>5, <1>6, <1>7 DEF PanelNext

\* When no decoration is pending every row carries its server's line, for any
\* limit on the retries: what the retries miss the observer catches
\* (scheduleRowDecoration, decorateRows, observeTableUpdates).
THEOREM RowsStayDecorated == PanelSpec => []RowsDecorated
<1>1. PInv => RowsDecorated
  BY DEF PInv
<1> QED
  BY <1>1, PanelInitially, PanelInductive, PTL DEF PanelSpec

----------------------------------------------------------------------------
(* The types of the panel.                                                 *)

Shown == latest \in Version \cup {None} /\ (content.kind = "servers" =>
            content = Drawn(Servers(latest)) /\ (hidden <=> Servers(latest) = <<>>))
Emptiness == ~body => rows = {} /\ content = NoPanel
Carried == \A r \in Row : line[r] = NoLine \/ (r \in rows /\ line[r] \in Info)
Counted == tries \in 0..MaxTries /\ attempts \in 0..MaxAttempts
PollStates == {"free", "asked"} \cup {ToString(v) : v \in Version}
Asking == published \in Version /\ polls \in [1..MaxPolls -> PollStates]
Flags == body \in BOOLEAN /\ hidden \in BOOLEAN /\ pending \in BOOLEAN
PanelTypes == Shown /\ Emptiness /\ Carried /\ Counted /\ Asking /\ Flags /\ Lines

\* Every version of the statistics lists records of servers.
LEMMA ServersTyped == \A v \in Version \cup {None} : \A i \in DOMAIN Servers(v) : Servers(v)[i] \in Info
<1>1. Stats \in Seq(Seq(Info)) /\ Version = DOMAIN Stats
  BY StatsAssumption DEF Version
<1>2. \A v \in Version : Stats[v] \in Seq(Info)
  BY <1>1
<1>3. \A v \in Version : \A i \in DOMAIN Stats[v] : Stats[v][i] \in Info
  BY <1>2
<1> QED
  BY <1>3 DEF Servers

LEMMA PanelTypesInit == PanelInit => PanelTypes
<1>1. 1 \in Version
  BY StatsAssumption DEF Version
<1>2. "free" \in PollStates /\ "asked" \in PollStates
  BY DEF PollStates
<1>3. NoPanel.kind = "none"
  BY DEF NoPanel
<1>4. PanelInit => Asking
  BY <1>1, <1>2 DEF PanelInit, Asking
<1>5. PanelInit => Shown /\ Emptiness
  BY <1>3 DEF PanelInit, Shown, Emptiness
<1>6. PanelInit => Carried /\ Lines /\ Flags
  BY DEF PanelInit, Carried, Lines, Flags
<1>7. PanelInit => Counted
  BY LimitAssumption DEF PanelInit, Counted
<1> QED
  BY <1>4, <1>5, <1>6, <1>7 DEF PanelTypes

\* What follows a change of the tree is of its type.
LEMMA MoveTyped ==
    ASSUME PanelTypes, AfterMove
    PROVE  pending' \in BOOLEAN /\ tries' \in 0..MaxTries
<1>1. pending \in BOOLEAN /\ tries \in 0..MaxTries /\ 0 \in 0..MaxTries
  BY LimitAssumption DEF PanelTypes, Flags, Counted
<1>2. CASE Observed(TRUE, Servers(latest))
  BY <1>1, <1>2 DEF AfterMove
<1>3. CASE ~Observed(TRUE, Servers(latest))
  BY <1>1, <1>3 DEF AfterMove
<1> QED
  BY <1>2, <1>3

\* An answer to draw is shown, if there is a body to show it in.
LEMMA RenderTyped ==
    ASSUME PanelTypes, NEW v \in Version, NEW waiting, Render(v, waiting),
           polls' \in [1..MaxPolls -> PollStates]
    PROVE  PanelTypes'
<1> DEFINE some == Servers(v) # <<>>
<1>1. /\ latest' = v /\ tries' = 0 /\ pending' = (pending \/ some)
      /\ UNCHANGED <<published, body, rows, line>>
  BY DEF Render
<1>2. Flags' /\ Lines' /\ Carried'
  <2>1. hidden' \in BOOLEAN
    BY DEF Render, PanelTypes, Flags
  <2>2. pending' \in BOOLEAN
    BY <1>1 DEF PanelTypes, Flags
  <2> QED
    BY <1>1, <2>1, <2>2 DEF PanelTypes, Flags, Lines, Carried
<1>3. Counted'
  BY <1>1, LimitAssumption DEF Render, RendersAgain, PanelTypes, Counted
<1>4. Asking'
  BY <1>1 DEF PanelTypes, Asking
<1>5. Emptiness'
  BY <1>1 DEF Render, PanelTypes, Emptiness
<1>6. Shown'
  <2>1. CASE body
    <3>1. content' = Drawn(Servers(v)) /\ hidden' = (Servers(v) = <<>>)
      BY <2>1 DEF Render
    <3>2. Servers(latest)' = Servers(v)
      BY <1>1 DEF Servers
    <3> QED
      BY <1>1, <3>1, <3>2 DEF Shown
  <2>2. CASE ~body
    <3>1. content' = NoPanel
      BY <2>2 DEF Render, PanelTypes, Emptiness
    <3> QED
      BY <1>1, <3>1 DEF Shown, NoPanel
  <2> QED
    BY <2>1, <2>2
<1> QED
  BY <1>2, <1>3, <1>4, <1>5, <1>6 DEF PanelTypes

\* What the panel shows stays so as long as nothing touches it.
LEMMA ShownAlone ==
    ASSUME Shown, UNCHANGED <<latest, content, hidden>>
    PROVE  Shown'
<1>1. Servers(latest)' = Servers(latest)
  BY DEF Servers
<1> QED
  BY <1>1 DEF Shown

\* Decorating gives a row in the table the record of a server.
LEMMA DecorateTyped ==
    ASSUME PanelTypes, Decorate
    PROVE  PanelTypes'
<1> DEFINE list == Servers(latest)
           matched == rows \cap DOMAIN list
           changed == Observed(Replaced(matched) # {}, list)
           again == Cardinality(matched) < Len(list) /\ tries < MaxTries
<1>1. /\ line' = [r \in Row |-> IF r \in Replaced(matched) THEN list[r] ELSE line[r]]
      /\ pending' = (changed \/ again)
      /\ tries' = IF changed THEN 0 ELSE IF again THEN tries + 1 ELSE tries
      /\ UNCHANGED <<published, polls, body, rows, content, hidden, latest, attempts>>
  BY DEF Decorate
<1>2. again => tries < MaxTries
  OBVIOUS
<1>3. pending' \in BOOLEAN
  BY <1>1
<1>4. \A r \in Replaced(matched) : r \in rows /\ list[r] \in Info
  BY ServersTyped DEF Replaced, PanelTypes, Shown
<1> HIDE DEF changed, again, matched, list
<1>5. Counted'
  BY <1>1, <1>2, LimitAssumption DEF PanelTypes, Counted
<1>6. Carried' /\ Lines'
  BY <1>1, <1>4 DEF PanelTypes, Carried, Lines
<1>7. Shown' /\ Emptiness' /\ Asking' /\ Flags'
  BY <1>1, <1>3, ShownAlone DEF PanelTypes, Emptiness, Asking, Flags
<1> QED
  BY <1>5, <1>6, <1>7 DEF PanelTypes

\* The bundle's changes of the tree.
LEMMA MovesTyped ==
    ASSUME PanelTypes, BodyChanges \/ \E set \in SUBSET Row : TableChanges(set)
    PROVE  PanelTypes'
<1>1. pending' \in BOOLEAN /\ tries' \in 0..MaxTries
  BY MoveTyped DEF BodyChanges, TableChanges
<1>2. CASE BodyChanges
  <2>1. /\ body' = ~body /\ hidden' = FALSE /\ rows' = {} /\ content' = NoPanel
        /\ line' = [r \in Row |-> NoLine] /\ UNCHANGED <<published, polls, latest, attempts>>
    BY <1>2 DEF BodyChanges
  <2>2. Shown'
    BY <2>1 DEF PanelTypes, Shown, NoPanel
  <2> QED
    BY <1>1, <2>1, <2>2 DEF PanelTypes, Emptiness, Carried, Counted, Asking, Flags, Lines
<1>3. ASSUME NEW set \in SUBSET Row, TableChanges(set)
      PROVE  PanelTypes'
  <2>1. /\ body /\ rows' = set /\ line' = [r \in Row |-> IF r \in set THEN line[r] ELSE NoLine]
        /\ UNCHANGED <<published, polls, body, content, hidden, latest, attempts>>
    BY <1>3 DEF TableChanges
  <2>2. Carried'
    BY <2>1 DEF PanelTypes, Carried
  <2> QED
    BY <1>1, <2>1, <2>2, ShownAlone DEF PanelTypes, Emptiness, Counted, Asking, Flags, Lines
<1> QED
  BY <1>2, <1>3

\* A failed request shows itself in the body, or not at all.
LEMMA LossTyped ==
    ASSUME PanelTypes, NEW p \in 1..MaxPolls, PollLost(p)
    PROVE  PanelTypes'
<1>1. /\ polls' = [polls EXCEPT ![p] = "free"]
      /\ UNCHANGED <<published, body, rows, line, hidden, latest, attempts>>
  BY DEF PollLost
<1>2. Asking'
  BY <1>1 DEF PanelTypes, Asking, PollStates
<1>3. pending' \in BOOLEAN /\ tries' \in 0..MaxTries
  BY MoveTyped DEF PollLost, PanelTypes, Flags, Counted
<1>4. Shown' /\ Emptiness'
  <2>1. CASE body /\ content' = ErrorPanel
    <3>1. content'.kind = "error"
      BY <2>1 DEF ErrorPanel, NoPanel
    <3> QED
      BY <1>1, <2>1, <3>1 DEF PanelTypes, Shown, Emptiness
  <2>2. CASE UNCHANGED content
    BY <1>1, <2>2, ShownAlone DEF PanelTypes, Emptiness
  <2> QED
    BY <2>1, <2>2 DEF PollLost
<1> QED
  BY <1>1, <1>2, <1>3, <1>4 DEF PanelTypes, Carried, Counted, Flags, Lines

\* A request is asked for, by the script or the bundle, and answered with the version the server has.
LEMMA PollTyped ==
    ASSUME PanelTypes, NEW p \in 1..MaxPolls, Poll(p) \/ BundleAsks(p) \/ ServePoll(p)
    PROVE  PanelTypes'
<1>1. /\ \E a \in PollStates : polls' = [polls EXCEPT ![p] = a]
      /\ UNCHANGED <<published, body, rows, line, content, hidden, latest, pending, tries, attempts>>
  <2>1. published \in Version
    BY DEF PanelTypes, Asking
  <2> QED
    BY <2>1 DEF Poll, BundleAsks, ServePoll, panelTree, panelScript, PollStates
<1>2. Asking'
  BY <1>1 DEF PanelTypes, Asking
<1> QED
  BY <1>1, <1>2, ShownAlone DEF PanelTypes, Emptiness, Carried, Counted, Flags, Lines

\* Every step of the panel keeps its types.
LEMMA PanelTypesKept == PanelTypes /\ [PanelNext]_panelVars => PanelTypes'
<1> SUFFICES ASSUME PanelTypes, [PanelNext]_panelVars
             PROVE  PanelTypes'
  OBVIOUS
<1>1. ASSUME NEW p \in 1..MaxPolls, PollArrives(p)
      PROVE  PanelTypes'
  <2>1. PICK v \in Version : Render(v, timers)
    BY <1>1 DEF PollArrives
  <2>2. polls' \in [1..MaxPolls -> PollStates]
    BY <1>1 DEF PollArrives, PanelTypes, Asking, PollStates
  <2> QED
    BY <2>1, <2>2, RenderTyped
<1>2. ASSUME NEW v \in Version, TimerFires(v)
      PROVE  PanelTypes'
  BY <1>2, RenderTyped DEF TimerFires, PanelTypes, Asking
<1>3. CASE Publish
  <2>1. published' \in Version
    BY <1>3, StatsAssumption DEF Publish, PanelTypes, Asking, Version
  <2> QED
    BY <1>3, <2>1, ShownAlone
    DEF Publish, panelTree, panelScript, PanelTypes, Emptiness, Carried, Counted, Asking, Flags,
        Lines
<1>4. CASE UNCHANGED panelVars
  BY <1>4, ShownAlone
  DEF panelVars, panelTree, panelScript, PanelTypes, Emptiness, Carried, Counted, Asking, Flags,
      Lines
<1> QED
  BY <1>1, <1>2, <1>3, <1>4, PollTyped, LossTyped, DecorateTyped, MovesTyped DEF PanelNext

\* Types of the panel's variables; the panel shows the servers of the latest
\* answer, the table is hidden just when there are none, and a row carries a
\* server's line only while it is in the table (render, decorateRows).
THEOREM PanelKeepsTypes == PanelSpec => []PanelTypeOK
<1>1. PanelTypes => PanelTypeOK
  BY DEF PanelTypes, Shown, Emptiness, Carried, Counted, Asking, PollStates, Flags, Lines, PanelTypeOK
<1> QED
  BY <1>1, PanelTypesInit, PanelTypesKept, PTL DEF PanelSpec

----------------------------------------------------------------------------
(* The order of the servers.                                               *)

LEMMA RankTyped == ASSUME NEW s \in Info PROVE RiskRank(s) \in 0..6
BY DEF RiskRank

\* sortByDue compares by whether there is a date, the date, and the name.
LEMMA DueOrders ==
    ASSUME NEW servers \in Seq(Info)
    PROVE  LET S == DOMAIN servers
           IN  /\ \A i \in S : ~DueBefore(servers, i, i)
               /\ \A i, j \in S : i # j => DueBefore(servers, i, j) \/ DueBefore(servers, j, i)
               /\ \A i, j, k \in S : DueBefore(servers, i, j) /\ DueBefore(servers, j, k)
                                       => DueBefore(servers, i, k)
<1> DEFINE S == DOMAIN servers
           undated(i) == IF Dated(servers[i]) THEN 0 ELSE 1
           day(i) == IF Dated(servers[i]) THEN servers[i].days ELSE 0
<1>1. \A i \in S : i \in Int /\ undated(i) \in Int /\ day(i) \in Int
  <2>1. \A i \in S : servers[i] \in Info /\ i \in Int
    OBVIOUS
  <2>2. \A i \in S : servers[i].days \in Int
    BY <2>1 DEF Info
  <2> QED BY <2>1, <2>2
<1>2. \A i, j \in S :
         DueBefore(servers, i, j) <=>
             \/ undated(i) < undated(j)
             \/ undated(i) = undated(j) /\ day(i) < day(j)
             \/ undated(i) = undated(j) /\ day(i) = day(j) /\ i < j
  <2> SUFFICES ASSUME NEW i \in S, NEW j \in S
               PROVE  DueBefore(servers, i, j) <=>
                         \/ undated(i) < undated(j)
                         \/ undated(i) = undated(j) /\ day(i) < day(j)
                         \/ undated(i) = undated(j) /\ day(i) = day(j) /\ i < j
    OBVIOUS
  <2>1. servers[i] \in Info /\ servers[j] \in Info /\ i \in Int /\ j \in Int
    OBVIOUS
  <2>2. CASE Dated(servers[i]) /\ Dated(servers[j])
    BY <2>1, <2>2 DEF DueBefore, Info
  <2>3. CASE Dated(servers[i]) /\ ~Dated(servers[j])
    BY <2>3 DEF DueBefore, Dated
  <2>4. CASE ~Dated(servers[i]) /\ Dated(servers[j])
    BY <2>4 DEF DueBefore, Dated
  <2>5. CASE ~Dated(servers[i]) /\ ~Dated(servers[j])
    <3>1. DueBefore(servers, i, j) <=> i < j
      BY <2>5 DEF DueBefore, Dated
    <3> QED BY <2>5, <3>1
  <2> QED BY <2>2, <2>3, <2>4, <2>5
<1> HIDE DEF S, day, undated
<1>3. \A i \in S : ~DueBefore(servers, i, i)
  BY <1>1, <1>2
<1>4. \A i, j \in S : i # j => DueBefore(servers, i, j) \/ DueBefore(servers, j, i)
  BY <1>1, <1>2
<1>5. \A i, j, k \in S : DueBefore(servers, i, j) /\ DueBefore(servers, j, k)
                           => DueBefore(servers, i, k)
  BY <1>1, <1>2
<1> QED BY <1>3, <1>4, <1>5 DEF S

\* sortByRisk gives one order of any servers, whatever the algorithm of the
\* sort: no server comes before itself, of two one comes before the other, and
\* what comes before another comes before all that this one does.
THEOREM RiskOrders ==
    ASSUME NEW servers \in Seq(Info)
    PROVE  LET S == DOMAIN servers
           IN  /\ \A i \in S : ~RiskBefore(servers, i, i)
               /\ \A i, j \in S : i # j => RiskBefore(servers, i, j) \/ RiskBefore(servers, j, i)
               /\ \A i, j, k \in S : RiskBefore(servers, i, j) /\ RiskBefore(servers, j, k)
                                       => RiskBefore(servers, i, k)
<1> DEFINE S == DOMAIN servers
           rank(i) == RiskRank(servers[i])
<1>1. \A i \in S : rank(i) \in Int
  BY RankTyped
<1>2. \A i, j \in S : RiskBefore(servers, i, j) <=>
         rank(i) < rank(j) \/ (rank(i) = rank(j) /\ DueBefore(servers, i, j))
  <2> SUFFICES ASSUME NEW i \in S, NEW j \in S
               PROVE  RiskBefore(servers, i, j) <=>
                         rank(i) < rank(j) \/ (rank(i) = rank(j) /\ DueBefore(servers, i, j))
    OBVIOUS
  <2>1. rank(i) = rank(j) => (RiskBefore(servers, i, j) <=> DueBefore(servers, i, j))
    BY DEF RiskBefore
  <2>2. rank(i) # rank(j) => (RiskBefore(servers, i, j) <=> rank(i) < rank(j))
    BY DEF RiskBefore
  <2> HIDE DEF rank
  <2> QED BY <1>1, <2>1, <2>2
<1>3. /\ \A i \in S : ~DueBefore(servers, i, i)
      /\ \A i, j \in S : i # j => DueBefore(servers, i, j) \/ DueBefore(servers, j, i)
      /\ \A i, j, k \in S : DueBefore(servers, i, j) /\ DueBefore(servers, j, k)
                              => DueBefore(servers, i, k)
  BY DueOrders
<1> HIDE DEF S, rank
<1>4. \A i \in S : ~RiskBefore(servers, i, i)
  BY <1>1, <1>2, <1>3
<1>5. \A i, j \in S : i # j => RiskBefore(servers, i, j) \/ RiskBefore(servers, j, i)
  BY <1>1, <1>2, <1>3
<1>6. \A i, j, k \in S : RiskBefore(servers, i, j) /\ RiskBefore(servers, j, k)
                           => RiskBefore(servers, i, k)
  BY <1>1, <1>2, <1>3
<1> QED BY <1>4, <1>5, <1>6 DEF S

----------------------------------------------------------------------------
(* Decorations that call for each other.                                   *)

\* The rows a decoration would change.
Unlike == Replaced(rows \cap DOMAIN Servers(latest))

\* How often decorating may still call for another decoration.
Patience == IF Unlike # {} THEN MaxTries + 1 + (MaxTries - tries) ELSE MaxTries - tries

\* Right after a decoration no matched row carries another line.
LEMMA NothingLeftToReplace ==
    ASSUME Lines, Decorate
    PROVE  Unlike' = {}
<1> DEFINE matched == rows \cap DOMAIN Servers(latest)
<1>1. /\ rows' = rows /\ latest' = latest
      /\ line' = [r \in Row |-> IF r \in Replaced(matched) THEN Servers(latest)[r] ELSE line[r]]
  BY DEF Decorate
<1>2. \A r \in matched : line'[r] = Servers(latest)[r]
  BY <1>1 DEF Lines, Replaced
<1>3. Servers(latest)' = Servers(latest)
  BY <1>1 DEF Servers
<1> QED BY <1>1, <1>2, <1>3 DEF Unlike, Replaced

\* expiry.js does not chase itself: of decorations in a row, the observer and the
\* retries call for at most 2 * MaxTries + 2, each leaving less of the patience
\* than it found.
THEOREM DecorationWearsOff ==
    PanelSpec => /\ [](Patience \in 0..(2 * MaxTries + 1))
                 /\ [][Decorate => ~pending' \/ Patience' < Patience]_panelVars
<1>1. PanelTypes => Patience \in 0..(2 * MaxTries + 1)
  BY LimitAssumption DEF PanelTypes, Counted, Patience
<1>2. PanelTypes /\ PanelTypes' => [Decorate => ~pending' \/ Patience' < Patience]_panelVars
  <2> SUFFICES ASSUME PanelTypes, PanelTypes', Decorate, pending' PROVE Patience' < Patience
    OBVIOUS
  <2>1. /\ tries \in Nat /\ tries <= MaxTries /\ tries' \in Nat /\ tries' <= MaxTries
        /\ MaxTries \in Nat
    BY LimitAssumption DEF PanelTypes, Counted
  <2>2. Patience' = MaxTries - tries'
    BY NothingLeftToReplace DEF PanelTypes, Patience
  <2>3. CASE Unlike # {}
    <3>1. Patience = MaxTries + 1 + (MaxTries - tries)
      BY <2>3 DEF Patience
    <3>2. MaxTries - tries' < MaxTries + 1 + (MaxTries - tries)
      <4>1. \A m, a, b \in Nat : a <= m => m - b < m + 1 + (m - a)
        OBVIOUS
      <4> QED BY <2>1, <4>1
    <3> QED BY <2>2, <3>1, <3>2
  <2>4. CASE Unlike = {}
    <3>1. Patience = MaxTries - tries
      BY <2>4 DEF Patience
    <3>2. tries < MaxTries /\ tries' = tries + 1
      BY <2>4 DEF Decorate, Observed, Unlike
    <3> QED BY <2>1, <2>2, <3>1, <3>2
  <2> QED BY <2>3, <2>4
<1>3. PanelSpec => []PanelTypes
  BY PanelTypesInit, PanelTypesKept, PTL DEF PanelSpec
<1> QED
  BY <1>1, <1>2, <1>3, PTL DEF PanelSpec
=============================================================================
