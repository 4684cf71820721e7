----------------------------- MODULE AdminStore -----------------------------
(***************************************************************************)
(* server/src/admin.rs: the settings, deletion markers, access keys,       *)
(* install tokens and session version in admin-overrides.json.  Every      *)
(* operation copies the data under the mutex, changes its copy, rewrites   *)
(* the file in place without the mutex and only then replaces the data in  *)
(* memory.  Requests and the report thread do this side by side; each file *)
(* operation may fail; the process or the machine may stop anywhere.       *)
(*                                                                         *)
(* Abstraction.  Of the settings: which hosts have an override (or a place *)
(* in a server group or an alert rule, which follow the same lines) and    *)
(* which are marked deleted, as one excludes the other.  A token is its    *)
(* name, it may expire at any time, and its access group exists.  Rejected *)
(* input (a wrong uid or password, settings that are not valid) changes    *)
(* nothing.                                                                *)
(***************************************************************************)
EXTENDS Naturals, FiniteSets

CONSTANTS
    Host,        \* server names
    Token,       \* install tokens
    Request,     \* threads that may be inside an operation
    MaxVersion,  \* bound: changes of the credentials
    Empty,       \* the file does not exist or has been truncated
    Garbled      \* the file cannot be parsed

Data == [overrides : SUBSET Host, deleted : SUBSET Host,
         tokens : SUBSET Token, version : 0..MaxVersion]

ASSUME BoundAssumption == MaxVersion \in Nat
ASSUME FileAssumption == Empty # Garbled /\ {Empty, Garbled} \cap Data = {}

VARIABLES
    data,         \* ADMIN_STATE.data
    file,         \* what a read of admin-overrides.json returns
    settled,      \* the text that was synced last, {} while that is the file's
    request,      \* request |-> the operation it is in (see Done)
    issued,       \* tokens that were generated
    handed,       \* tokens an operation returned: the only ones an agent may show
    expired,      \* tokens past expires_at
    granted,      \* history: how often each token was exchanged for an access key
    lost,         \* history: an operation replaced data it had not copied, or a
                  \* start did not find the data the process before it had
    spoiled       \* history: no save has ended that nothing overlapped, since
                  \* one was overlapped, failed or was cut short

vars == <<data, file, settled, request, issued, handed, expired, granted, lost, spoiled>>

Default == [overrides |-> {}, deleted |-> {}, tokens |-> {}, version |-> 0]

\* new: what the operation made of its copy.  token: the one it creates or consumes.
\* lifecycle: its caller holds StatsMgr.lifecycle_lock.
\* fresh: no other operation changed memory since this one copied it.
\* alone: no other operation was writing the file while this one was.
Done == [at |-> "idle", new |-> Default, token |-> {},
         lifecycle |-> FALSE, fresh |-> FALSE, alone |-> FALSE]

----------------------------------------------------------------------------
(* What the operations make of their copy.                                 *)

\* Mutant of Normalize: a deleted host keeps its override.
NormalizeTokens(d) == [d EXCEPT !.tokens = @ \ expired]

\* normalize_admin_data
Normalize(d) == [d EXCEPT !.overrides = @ \ d.deleted, !.tokens = @ \ expired]

\* Mutant of Replacement: credentials are not merged from the current data.
ReplacementBare(current, overrides, deleted) ==
    Normalize([Default EXCEPT !.overrides = overrides, !.deleted = deleted,
                              !.tokens = current.tokens])

\* prepare_replacement: what was posted, but for the credentials and tokens.
Replacement(current, overrides, deleted) ==
    Normalize([current EXCEPT !.overrides = overrides, !.deleted = deleted])

WithoutMarkers(current, hosts) ==
    Normalize([current EXCEPT !.overrides = @ \ hosts, !.deleted = @ \ hosts])

WithToken(current, token) == [current EXCEPT !.tokens = (@ \ expired) \cup {token}]

\* Mutant of Consumed: the token is looked up but stays.
ConsumedNot(current, token) == [current EXCEPT !.tokens = @ \ expired]

Consumed(current, token) == [current EXCEPT !.tokens = @ \ (expired \cup {token})]

----------------------------------------------------------------------------
(* The start of each operation, up to its first file operation.            *)

Begin(r, new, token, lifecycle) ==
    /\ request[r].at = "idle"
    /\ request' = [request EXCEPT ![r] = [Done EXCEPT !.at = "open", !.new = new,
                     !.token = token, !.lifecycle = lifecycle, !.fresh = TRUE]]
    /\ UNCHANGED <<data, file, settled, handed, expired, granted, lost, spoiled>>

LifecycleFree == \A r \in Request : ~request[r].lifecycle

Replace(r, overrides, deleted) ==
    /\ Begin(r, Replacement(data, overrides, deleted), {}, FALSE)
    /\ UNCHANGED issued

\* The report thread keeps the lifecycle lock meanwhile, and so does a purge.
ClearDeletedHostMarker(r, h) ==
    /\ LifecycleFree /\ h \in data.deleted
    /\ Begin(r, [data EXCEPT !.deleted = @ \ {h}], {}, TRUE)
    /\ UNCHANGED issued

PurgeDeletedHosts(r, hosts) ==
    /\ LifecycleFree /\ hosts # {}
    /\ Begin(r, WithoutMarkers(data, hosts), {}, TRUE)
    /\ UNCHANGED issued

\* The key is one of the settings that are left out; the data is written back.
EnsureDefaultAccessKey(r) ==
    /\ Begin(r, Normalize(data), {}, FALSE)
    /\ UNCHANGED issued

CreateInstallToken(r, token) ==
    /\ token \notin issued
    /\ issued' = issued \cup {token}
    /\ Begin(r, WithToken(data, token), {token}, FALSE)

ConsumeInstallToken(r, token) ==
    /\ token \in (data.tokens \cap handed) \ expired
    /\ Begin(r, Consumed(data, token), {token}, FALSE)
    /\ UNCHANGED issued

UpdateAdminCredentials(r) ==
    /\ data.version < MaxVersion
    /\ Begin(r, [Normalize(data) EXCEPT !.version = @ + 1], {}, FALSE)
    /\ UNCHANGED issued

----------------------------------------------------------------------------
(* write_data.                                                             *)

Writing == {r \in Request : request[r].at \in {"write", "sync", "publish"}}

\* The open truncates the file, for whoever is writing it too.
OpenFile(r) ==
    /\ request[r].at = "open"
    /\ file' = Empty
    /\ settled' = IF settled = {} THEN {file} ELSE settled
    /\ request' = [q \in Request |->
                     IF q = r THEN [request[r] EXCEPT !.at = "write", !.alone = Writing = {}]
                     ELSE [request[q] EXCEPT !.alone = FALSE]]
    /\ spoiled' = (spoiled \/ Writing # {})
    /\ UNCHANGED <<data, issued, handed, expired, granted, lost>>

\* Each writer has its own offset 0: after another's text, the rest of that
\* text remains if it was longer.
WriteContents(r) ==
    /\ request[r].at = "write"
    /\ file' \in {request[r].new} \cup (IF file = Empty THEN {} ELSE {Garbled})
    /\ settled' = IF settled = {} THEN {file} ELSE settled
    /\ request' = [request EXCEPT ![r].at = "sync"]
    /\ UNCHANGED <<data, issued, handed, expired, granted, lost, spoiled>>

\* Mutant of SyncFile: the file is not synced.
SyncFileNot(r) ==
    /\ request[r].at = "sync"
    /\ request' = [request EXCEPT ![r].at = "publish"]
    /\ UNCHANGED <<data, file, settled, issued, handed, expired, granted, lost, spoiled>>

SyncFile(r) ==
    /\ request[r].at = "sync"
    /\ settled' = {}
    /\ request' = [request EXCEPT ![r].at = "publish"]
    /\ UNCHANGED <<data, file, issued, handed, expired, granted, lost, spoiled>>

\* An error while writing may leave a part of the text; one of sync_all or
\* set_permissions leaves all of it.  Memory keeps the data it had.
FailWrite(r) ==
    /\ \/ request[r].at = "open" /\ UNCHANGED <<file, settled, spoiled>>
       \/ /\ request[r].at = "write"
          /\ file' \in {file, Garbled}
          /\ settled' = IF settled = {} THEN {file} ELSE settled
          /\ spoiled' = TRUE
       \/ /\ request[r].at \in {"sync", "publish"}
          /\ UNCHANGED <<file, settled>>
          /\ spoiled' = TRUE
    /\ request' = [request EXCEPT ![r] = Done]
    /\ UNCHANGED <<data, issued, handed, expired, granted, lost>>

\* The copy becomes the data, and the operation returns Ok.
Publish(r) ==
    /\ request[r].at = "publish"
    /\ data' = request[r].new
    /\ lost' = (lost \/ ~request[r].fresh)
    /\ spoiled' = (spoiled /\ ~request[r].alone)
    /\ handed' = handed \cup request[r].token
    /\ granted' = [t \in Token |-> IF t \in request[r].token \cap handed /\ granted[t] < 2
                                   THEN granted[t] + 1 ELSE granted[t]]
    /\ request' = [q \in Request |->
                     IF q = r THEN Done
                     ELSE [request[q] EXCEPT !.fresh = @ /\ data' = data]]
    /\ UNCHANGED <<file, settled, issued, expired>>

----------------------------------------------------------------------------
(* Time passes; the process or the machine stops and starts.               *)

Expire(token) ==
    /\ token \in issued \ expired
    /\ expired' = expired \cup {token}
    /\ UNCHANGED <<data, file, settled, request, issued, handed, granted, lost, spoiled>>

\* Mutant of Load: what cannot be parsed is kept as it is.
LoadRaw(content) == IF content = Empty THEN Default ELSE content

\* init: without a file that can be read and parsed, the defaults.
Load(content) == IF content \in Data THEN Normalize(content) ELSE Default

Start(readable) ==
    /\ data' = IF readable THEN Load(file') ELSE Default
    /\ request' = [r \in Request |-> Done]
    /\ lost' = (lost \/ data' # Normalize(data))
    /\ spoiled' = (spoiled \/ Writing # {} \/ ~readable)
    /\ UNCHANGED <<issued, handed, expired, granted>>

Restart(readable) == UNCHANGED <<file, settled>> /\ Start(readable)

\* A power loss undoes a rewrite that was not synced, or leaves a part of it.
\* (Or an older one that was not synced either, which is lost in the same way.)
Recoverable == IF settled = {} THEN {file} ELSE settled \cup {file, Garbled}

PowerLoss(content) ==
    /\ content \in Recoverable
    /\ file' = content
    /\ settled' = {}
    /\ Start(TRUE)

Init ==
    /\ data = Default
    /\ file = Empty
    /\ settled = {}
    /\ request = [r \in Request |-> Done]
    /\ issued = {}
    /\ expired = {}
    /\ handed = {}
    /\ granted = [t \in Token |-> 0]
    /\ lost = FALSE
    /\ spoiled = TRUE

Operation(r) ==
    \/ \E overrides, deleted \in SUBSET Host : Replace(r, overrides, deleted)
    \/ \E h \in Host : ClearDeletedHostMarker(r, h)
    \/ \E hosts \in SUBSET Host : PurgeDeletedHosts(r, hosts)
    \/ EnsureDefaultAccessKey(r)
    \/ \E token \in Token : CreateInstallToken(r, token)
    \/ \E token \in Token : ConsumeInstallToken(r, token)
    \/ UpdateAdminCredentials(r)

WriteData(r) ==
    \/ OpenFile(r) \/ WriteContents(r) \/ SyncFile(r) \/ FailWrite(r) \/ Publish(r)

Next ==
    \/ \E r \in Request : Operation(r) \/ WriteData(r)
    \/ \E token \in Token : Expire(token)
    \/ \E readable \in BOOLEAN : Restart(readable)
    \/ \E content \in Recoverable : PowerLoss(content)

Spec == Init /\ [][Next]_vars

----------------------------------------------------------------------------
RequestType ==
    [at : {"idle", "open", "write", "sync", "publish"},
     new : Data, token : SUBSET Token,
     lifecycle : BOOLEAN, fresh : BOOLEAN, alone : BOOLEAN]

\* Types of the variables.
TypeOK ==
    /\ data \in Data
    /\ file \in Data \cup {Empty, Garbled}
    /\ settled \subseteq Data \cup {Empty, Garbled}
    /\ request \in [Request -> RequestType]
    /\ issued \subseteq Token /\ expired \cup handed \subseteq issued
    /\ granted \in [Token -> 0..2]
    /\ {lost, spoiled} \subseteq BOOLEAN

\* Once a save has been answered that no other save overlapped, a restart
\* finds the data that memory holds, after a power loss too - and whatever
\* went wrong with the file before.
AnsweredSaveIsDurable ==
    Writing = {} /\ ~spoiled => Load(file) = Normalize(data) /\ Recoverable = {file}

\* A host that is marked deleted has no override, in memory or in any copy,
\* whichever operations ran side by side: its override cannot come back with it.
DeletedHasNoOverride ==
    \A d \in {data} \cup ({file} \cap Data) \cup {request[r].new : r \in Request} :
        d.overrides \cap d.deleted = {}

\* A token is exchanged once, however saves, crashes and other operations
\* interleave, as long as no operation replaced data it had not copied.
TokenOnceUnlessLost == lost \/ \A t \in Token : granted[t] <= 1

\* Sessions that a change of credentials ended stay ended: the version that
\* their claims carry does not come back, unless an update was lost.
SessionsStayEnded == [][data'.version >= data.version \/ lost']_vars

\* README: an install token is invalid as soon as the install script has been
\* fetched with it.
TokenConsumedOnce == \A t \in Token : granted[t] <= 1
=============================================================================
