---------------------------- MODULE ExpiryPanel ----------------------------
(***************************************************************************)
(* web/static/js/expiry.js: the panel of servers about to expire, and the  *)
(* line it adds to every row of the public page's table.  Both live in a   *)
(* tree that another program draws: the page's own bundle mounts the body  *)
(* and the rows when it pleases.  The script asks for the statistics every *)
(* five seconds and listens to the answers the bundle gets; it draws again *)
(* what it finds missing a limited number of times, and whenever the tree  *)
(* changes - its own changes included.                                     *)
(*                                                                         *)
(* Abstraction.  A row and its expanded form are one; what a line says is  *)
(* the server's record.  A change of the tree is seen in the step that     *)
(* made it: isDecorating is off again before an observer is called.        *)
(***************************************************************************)
EXTENDS Integers, FiniteSets, SequencesExt

CONSTANTS
    Stats,        \* the servers in each version of stats.json
    MaxChips,     \* how many servers the panel lists (8)
    MaxTries,     \* decorations repeated because a row is missing (20)
    MaxAttempts,  \* renderings repeated because the body is missing (40)
    MaxPolls,     \* bound: requests under way
    MaxLost,      \* bound: requests that fail
    MaxMoves      \* bound: changes the page's bundle makes to the tree, and requests
                  \* it makes of its own

Version == DOMAIN Stats
Row == 1..Max({Len(Stats[v]) : v \in Version})
None == 0                               \* no statistics yet

\* A server's expire record; days is 0 when there is no date to count from.
Info == [status : {"none", "permanent", "expired", "unknown", "dated"}, days : Int,
         auto : BOOLEAN, renewal : {"off", "renewed", "missing_cycle", "too_many_cycles"}]

ASSUME StatsAssumption ==
    /\ Stats \in Seq(Seq(Info)) /\ Stats # <<>>
    /\ \A v \in Version : \A i \in DOMAIN Stats[v] :
         /\ Stats[v][i].status = "expired" <=> Stats[v][i].days < 0
         /\ Stats[v][i].status \notin {"expired", "dated"} => Stats[v][i].days = 0

ASSUME LimitAssumption == MaxTries \in Nat /\ MaxAttempts \in Nat

VARIABLES
    published,  \* the version the server has
    polls,      \* requests under way: free, asked, or the version answered
    body,       \* the bundle has mounted the element the panel goes into
    rows,       \* rows of the table
    line,       \* the line each row carries
    content,    \* the panel
    hidden,     \* the table is hidden because there is nothing in it
    latest,     \* latestServers
    pending,    \* decoratePending
    tries,      \* decorateRetries
    timers,     \* renderings waiting for their timer, by version
    attempts,   \* renderRetryAttempts
    lost, moves \* counters of the bounds

panelTree == <<body, rows, line, content, hidden>>
panelScript == <<latest, pending, tries, timers, attempts>>
panelVars == <<published, polls, panelTree, panelScript, lost, moves>>

Servers(v) == IF v = None THEN <<>> ELSE Stats[v]
NoLine == [status |-> "undecorated"]
NoPanel == [kind |-> "none", chips |-> <<>>, next |-> 0]
ErrorPanel == [NoPanel EXCEPT !.kind = "error"]

----------------------------------------------------------------------------
(* Who is at risk.                                                         *)

BrokenRenewal == {"missing_cycle", "too_many_cycles"}

\* autoRenewalHealthy
Renews(s) == s.auto /\ s.renewal \notin BrokenRenewal

NeedsAttention(s) ==
    \/ s.status \in {"none", "expired", "unknown"}
    \/ s.status = "dated" /\ ~Renews(s) /\ (s.days <= 30 \/ s.renewal = "missing_cycle")

\* riskRank: the first that applies.
RiskRank(s) ==
    IF s.status = "none" THEN 0
    ELSE IF s.status = "permanent" THEN 6
    ELSE IF s.status = "expired" THEN 1
    ELSE IF s.status = "unknown" THEN 2
    ELSE IF s.renewal \in BrokenRenewal THEN 3
    ELSE IF s.days <= 7 THEN 4
    ELSE IF s.days <= 30 THEN 5 ELSE 6

\* sortByDue: servers without a date last; equal ones by their name.
Dated(s) == s.status \notin {"none", "permanent"}
DueBefore(servers, i, j) ==
    LET a == servers[i] b == servers[j] IN
    IF Dated(a) # Dated(b) THEN Dated(a)
    ELSE IF Dated(a) /\ a.days # b.days THEN a.days < b.days ELSE i < j

\* Mutant of RiskBefore: by the date alone.
RiskBeforeDue(servers, i, j) == DueBefore(servers, i, j)

\* sortByRisk
RiskBefore(servers, i, j) ==
    LET a == RiskRank(servers[i]) b == RiskRank(servers[j]) IN
    IF a # b THEN a < b ELSE DueBefore(servers, i, j)

Those(servers, Test(_)) == {i \in DOMAIN servers : Test(servers[i])}

\* renderPanel, renderEmptyPanel
Drawn(servers) ==
    LET attention == SetToSortSeq(Those(servers, NeedsAttention),
                                  LAMBDA i, j : RiskBefore(servers, i, j))
        due == SetToSortSeq(Those(servers, Dated), LAMBDA i, j : DueBefore(servers, i, j))
        ahead == SelectSeq(due, LAMBDA i : servers[i].days >= 0)
    IN [kind |-> "servers", chips |-> SubSeq(attention, 1, Min({MaxChips, Len(attention)})),
        next |-> IF ahead = <<>> THEN 0 ELSE Head(ahead)]

----------------------------------------------------------------------------
(* Decorating the rows.                                                    *)

\* The mutation observer: a changed tree is decorated again, with new patience.
Observed(changed, list) == changed /\ list # <<>>

\* Mutant of Replaced: a line is replaced though it is the same.
ReplacedAlways(matched) == matched

\* replaceManagedNode: the rows whose line is not what it should be.
Replaced(matched) == {r \in matched : line[r] # Servers(latest)[r]}

\* scheduleRowDecoration's run, decorateRows.
Decorate ==
    LET list == Servers(latest)
        matched == rows \cap DOMAIN list
        changed == Observed(Replaced(matched) # {}, list)
        again == Cardinality(matched) < Len(list) /\ tries < MaxTries
    IN /\ pending
       /\ line' = [r \in Row |-> IF r \in Replaced(matched) THEN list[r] ELSE line[r]]
       /\ pending' = (changed \/ again)
       /\ tries' = IF changed THEN 0 ELSE IF again THEN tries + 1 ELSE tries
       /\ UNCHANGED <<published, polls, body, rows, content, hidden, latest, timers, attempts,
                      lost, moves>>

\* Mutant of AfterMove: the observer waits for the next answer.
AfterMoveNothing == UNCHANGED <<pending, tries>>

\* observeTableUpdates, for a change that is the bundle's.
AfterMove ==
    IF Observed(TRUE, Servers(latest)) THEN pending' = TRUE /\ tries' = 0
    ELSE UNCHANGED <<pending, tries>>

TableChanges(set) ==
    /\ body /\ set # rows /\ moves < MaxMoves /\ moves' = moves + 1
    /\ rows' = set
    /\ line' = [r \in Row |-> IF r \in set THEN line[r] ELSE NoLine]
    /\ AfterMove
    /\ UNCHANGED <<published, polls, body, content, hidden, latest, timers, attempts, lost>>

\* What was in the body goes with it; a new one shows its table.
BodyChanges ==
    /\ moves < MaxMoves /\ moves' = moves + 1
    /\ body' = ~body /\ hidden' = FALSE
    /\ rows' = {} /\ line' = [r \in Row |-> NoLine] /\ content' = NoPanel
    /\ AfterMove
    /\ UNCHANGED <<published, polls, latest, timers, attempts, lost>>

----------------------------------------------------------------------------
(* Asking and rendering.                                                   *)

\* The limit of the renderings repeated because the body is missing.
RendersAgain == attempts < MaxAttempts

\* render; waiting: the timers that are left, the one that fired taken out.
Render(v, waiting) ==
    /\ latest' = v
    /\ tries' = 0
    /\ pending' = (pending \/ Servers(v) # <<>>)
    /\ IF body
       THEN /\ content' = Drawn(Servers(v))
            /\ hidden' = (Servers(v) = <<>>)
            /\ attempts' = 0
            /\ timers' = waiting
       ELSE /\ UNCHANGED <<content, hidden>>
            /\ IF RendersAgain
               THEN attempts' = attempts + 1 /\ timers' = [waiting EXCEPT ![v] = @ + 1]
               ELSE UNCHANGED attempts /\ timers' = waiting
    /\ UNCHANGED <<published, body, rows, line, lost, moves>>

\* setInterval.  Five seconds are longer than both series of retries, one every
\* 80 ms.
Poll(p) ==
    /\ polls[p] = "free" /\ ~pending /\ \A v \in Version : timers[v] = 0
    /\ polls' = [polls EXCEPT ![p] = "asked"]
    /\ UNCHANGED <<published, panelTree, panelScript, lost, moves>>

\* The bundle asks when it pleases, in the middle of a series of retries too: every
\* answer it gets is drawn as well (installStatsFetchBridge).
BundleAsks(p) ==
    /\ polls[p] = "free" /\ moves < MaxMoves /\ moves' = moves + 1
    /\ polls' = [polls EXCEPT ![p] = "asked"]
    /\ UNCHANGED <<published, panelTree, panelScript, lost>>

ServePoll(p) ==
    /\ polls[p] = "asked"
    /\ polls' = [polls EXCEPT ![p] = ToString(published)]
    /\ UNCHANGED <<published, panelTree, panelScript, lost, moves>>

\* Answers may overtake each other.
PollArrives(p) ==
    /\ \E v \in Version : polls[p] = ToString(v) /\ Render(v, timers)
    /\ polls' = [polls EXCEPT ![p] = "free"]

\* renderErrorPanel; a failed request of the bundle is not shown.
PollLost(p) ==
    /\ polls[p] # "free" /\ lost < MaxLost /\ lost' = lost + 1
    /\ polls' = [polls EXCEPT ![p] = "free"]
    /\ \/ /\ body /\ content' = ErrorPanel /\ AfterMove
       \/ UNCHANGED <<content, pending, tries>>
    /\ UNCHANGED <<published, body, rows, line, hidden, latest, timers, attempts, moves>>

\* The timer draws the answer it was set for, though a later one may have come.
TimerFires(v) ==
    /\ timers[v] > 0
    /\ Render(v, [timers EXCEPT ![v] = @ - 1])
    /\ UNCHANGED polls

Publish ==
    /\ published < Len(Stats) /\ published' = published + 1
    /\ UNCHANGED <<polls, panelTree, panelScript, lost, moves>>

----------------------------------------------------------------------------
\* The script runs before the bundle has drawn anything, and asks at once.
PanelInit ==
    /\ published = 1
    /\ polls = [p \in 1..MaxPolls |-> IF p = 1 THEN "asked" ELSE "free"]
    /\ body = FALSE /\ rows = {} /\ line = [r \in Row |-> NoLine]
    /\ content = NoPanel /\ hidden = FALSE
    /\ latest = None /\ pending = FALSE /\ tries = 0
    /\ timers = [v \in Version |-> 0] /\ attempts = 0
    /\ lost = 0 /\ moves = 0

PanelNext ==
    \/ \E p \in 1..MaxPolls : Poll(p) \/ BundleAsks(p) \/ ServePoll(p) \/ PollArrives(p) \/ PollLost(p)
    \/ \E v \in Version : TimerFires(v)
    \/ Decorate
    \/ \E set \in SUBSET Row : TableChanges(set)
    \/ BodyChanges
    \/ Publish

\* The interval and the timers of the browser, its animation frames (the page is
\* in sight from time to time), and the end of every request.
PanelFairness ==
    /\ WF_panelVars(\E p \in 1..MaxPolls : Poll(p))
    /\ \A p \in 1..MaxPolls : WF_panelVars(ServePoll(p)) /\ WF_panelVars(PollArrives(p))
    /\ \A v \in Version : WF_panelVars(TimerFires(v))
    /\ WF_panelVars(Decorate)

PanelSpec == PanelInit /\ [][PanelNext]_panelVars /\ PanelFairness

----------------------------------------------------------------------------
\* Types of the variables; the panel shows the servers the rows are decorated
\* with, and the table is hidden just when there are none.
PanelTypeOK ==
    /\ published \in Version /\ latest \in Version \cup {None}
    /\ polls \in [1..MaxPolls -> {"free", "asked"} \cup {ToString(v) : v \in Version}]
    /\ {body, hidden, pending} \subseteq BOOLEAN
    /\ rows \subseteq Row /\ (~body => rows = {} /\ content = NoPanel)
    /\ \A r \in Row : line[r] = NoLine \/ (r \in rows /\ line[r] \in Info)
    /\ tries \in 0..MaxTries /\ attempts \in 0..MaxAttempts
    /\ content.kind = "servers" => /\ content = Drawn(Servers(latest))
                                   /\ hidden <=> Servers(latest) = <<>>

\* What the panel should say of some servers: as many as fit of those that need
\* attention, none of them less at risk than one left out, and the one that is
\* due next - if every date can be read (one that cannot counts as today's).
Says(p, servers) ==
    LET listed == {p.chips[i] : i \in DOMAIN p.chips}
        wanting == {i \in DOMAIN servers : NeedsAttention(servers[i])}
        ahead == {i \in DOMAIN servers : servers[i].status = "dated"}
    IN /\ listed \subseteq wanting /\ Cardinality(listed) = Len(p.chips)
       /\ Len(p.chips) = Min({MaxChips, Cardinality(wanting)})
       /\ \A i \in listed, j \in wanting \ listed : RiskRank(servers[i]) <= RiskRank(servers[j])
       /\ (\A i \in DOMAIN servers : servers[i].status # "unknown") =>
             IF ahead = {} THEN p.next = 0
             ELSE p.next \in ahead /\ \A i \in ahead : servers[p.next].days <= servers[i].days

\* Once the server and the tree stay as they are the panel shows the servers the
\* server has, whatever was lost, overtaken or drawn too early; the riskiest are
\* never left out for others.
PanelCatchesUp ==
    <>[](body => /\ content.kind = "servers" /\ Says(content, Servers(published))
                 /\ hidden <=> Servers(published) = <<>>)

\* When no decoration is pending every row of the table carries the line of its
\* server in the latest answer, though rows come and go after the last retry.
RowsDecorated ==
    ~pending => \A r \in rows \cap DOMAIN Servers(latest) : line[r] = Servers(latest)[r]

\* Decoration comes to rest: a decoration makes the observer call for another
\* only while it changes something, so the script does not chase itself.
DecorationSettles == []<>(~pending)
=============================================================================
