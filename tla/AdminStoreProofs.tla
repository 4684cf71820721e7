-------------------------- MODULE AdminStoreProofs --------------------------
(***************************************************************************)
(* Theorems of AdminStore for every set of hosts, tokens and concurrent    *)
(* operations and every bound on the changes of credentials.               *)
(***************************************************************************)
EXTENDS AdminStore, TLAPS

(***************************************************************************)
(* Data, and what the operations make of it, field by field.               *)
(***************************************************************************)

LEMMA DataEqual ==
  ASSUME NEW d \in Data, NEW e \in Data, d.overrides = e.overrides, d.deleted = e.deleted,
         d.tokens = e.tokens, d.version = e.version
  PROVE  d = e
  BY DEF Data

LEMMA DefaultType == Default \in Data
  BY BoundAssumption DEF Default, Data

LEMMA DoneType == Done \in RequestType
  BY DefaultType DEF Done, RequestType

LEMMA NormalizeFields ==
  ASSUME NEW d \in Data
  PROVE  LET n == Normalize(d)
         IN  /\ n \in Data
             /\ n.overrides = d.overrides \ d.deleted /\ n.deleted = d.deleted
             /\ n.tokens = d.tokens \ expired /\ n.version = d.version
  BY DEF Normalize, Data

LEMMA LoadType == ASSUME NEW c PROVE Load(c) \in Data
  BY NormalizeFields, DefaultType DEF Load

\* Normalizing again changes nothing.
LEMMA NormalizeTwice == ASSUME NEW d \in Data PROVE Normalize(Normalize(d)) = Normalize(d)
<1> DEFINE n == Normalize(d)
           m == Normalize(n)
<1>1. /\ n \in Data
      /\ n.overrides = d.overrides \ d.deleted /\ n.deleted = d.deleted
      /\ n.tokens = d.tokens \ expired /\ n.version = d.version
  BY NormalizeFields
<1> HIDE DEF n
<1>2. /\ m \in Data
      /\ m.overrides = n.overrides \ n.deleted /\ m.deleted = n.deleted
      /\ m.tokens = n.tokens \ expired /\ m.version = n.version
  BY <1>1, NormalizeFields
<1> HIDE DEF m
<1>3. m.overrides = n.overrides /\ m.tokens = n.tokens
  BY <1>1, <1>2
<1>4. m = n
  BY <1>1, <1>2, <1>3, DataEqual
<1> QED BY <1>4 DEF m, n

LEMMA ReplacementFields ==
  ASSUME NEW d \in Data, NEW overrides, NEW deleted,
         overrides \subseteq Host, deleted \subseteq Host
  PROVE  LET n == Replacement(d, overrides, deleted)
         IN  /\ n \in Data
             /\ n.overrides = overrides \ deleted /\ n.deleted = deleted
             /\ n.tokens = d.tokens \ expired /\ n.version = d.version
<1> DEFINE e == [d EXCEPT !.overrides = overrides, !.deleted = deleted]
<1>1. /\ e \in Data
      /\ e.overrides = overrides /\ e.deleted = deleted
      /\ e.tokens = d.tokens /\ e.version = d.version
  BY DEF Data
<1> HIDE DEF e
<1>2. Replacement(d, overrides, deleted) = Normalize(e)
  BY DEF Replacement, e
<1> QED BY <1>1, <1>2, NormalizeFields

LEMMA WithoutMarkersFields ==
  ASSUME NEW d \in Data, NEW hosts \in SUBSET Host
  PROVE  LET n == WithoutMarkers(d, hosts)
         IN  /\ n \in Data
             /\ n.overrides = (d.overrides \ hosts) \ (d.deleted \ hosts)
             /\ n.deleted = d.deleted \ hosts
             /\ n.tokens = d.tokens \ expired /\ n.version = d.version
<1> DEFINE e == [d EXCEPT !.overrides = @ \ hosts, !.deleted = @ \ hosts]
<1>1. /\ e \in Data
      /\ e.overrides = d.overrides \ hosts /\ e.deleted = d.deleted \ hosts
      /\ e.tokens = d.tokens /\ e.version = d.version
  BY DEF Data
<1> HIDE DEF e
<1>2. WithoutMarkers(d, hosts) = Normalize(e)
  BY DEF WithoutMarkers, e
<1> QED BY <1>1, <1>2, NormalizeFields

(***************************************************************************)
(* Every operation makes a copy of the data that is no worse than the data *)
(* and may add one new token, or remove one that it consumes.              *)
(***************************************************************************)

Separate(d) == d.overrides \cap d.deleted = {}

Creates(new, token) ==
    /\ token \cap issued = {}
    /\ new.tokens \subseteq data.tokens \cup token
    /\ issued' = issued \cup token

Consumes(new, token) ==
    /\ token \subseteq data.tokens \cap handed
    /\ new.tokens \subseteq data.tokens \ token
    /\ issued' = issued

Copied(r, new, token, lifecycle) ==
    /\ Begin(r, new, token, lifecycle)
    /\ new \in Data /\ token \subseteq Token /\ lifecycle \in BOOLEAN
    /\ Separate(data) => Separate(new)
    /\ new.version >= data.version
    /\ Creates(new, token) \/ Consumes(new, token)

LEMMA OperationCopies ==
  ASSUME TypeOK, NEW r \in Request, Operation(r)
  PROVE  \E new, token, lifecycle : Copied(r, new, token, lifecycle)
<1>0. /\ data \in Data /\ data.version \in 0..MaxVersion /\ data.version >= data.version
      /\ issued \subseteq Token /\ handed \subseteq issued
  BY BoundAssumption DEF TypeOK, Data
<1>1. CASE \E overrides, deleted \in SUBSET Host : Replace(r, overrides, deleted)
  <2>1. PICK overrides \in SUBSET Host, deleted \in SUBSET Host : Replace(r, overrides, deleted)
    BY <1>1
  <2> DEFINE new == Replacement(data, overrides, deleted)
  <2>2. /\ new \in Data
        /\ new.overrides = overrides \ deleted /\ new.deleted = deleted
        /\ new.tokens = data.tokens \ expired /\ new.version = data.version
    BY <1>0, ReplacementFields
  <2>3. Begin(r, new, {}, FALSE) /\ issued' = issued
    BY <2>1 DEF Replace
  <2> HIDE DEF new
  <2>4. Copied(r, new, {}, FALSE)
    BY <1>0, <2>2, <2>3 DEF Copied, Separate, Creates
  <2> QED BY <2>4
<1>2. CASE \E h \in Host : ClearDeletedHostMarker(r, h)
  <2>1. PICK h \in Host : ClearDeletedHostMarker(r, h)
    BY <1>2
  <2> DEFINE new == [data EXCEPT !.deleted = @ \ {h}]
  <2>2. /\ new \in Data
        /\ new.overrides = data.overrides /\ new.deleted = data.deleted \ {h}
        /\ new.tokens = data.tokens /\ new.version = data.version
    BY <1>0 DEF Data
  <2>3. Begin(r, new, {}, TRUE) /\ issued' = issued
    BY <2>1 DEF ClearDeletedHostMarker
  <2> HIDE DEF new
  <2>4. Copied(r, new, {}, TRUE)
    BY <1>0, <2>2, <2>3 DEF Copied, Separate, Creates
  <2> QED BY <2>4
<1>3. CASE \E hosts \in SUBSET Host : PurgeDeletedHosts(r, hosts)
  <2>1. PICK hosts \in SUBSET Host : PurgeDeletedHosts(r, hosts)
    BY <1>3
  <2> DEFINE new == WithoutMarkers(data, hosts)
  <2>2. /\ new \in Data
        /\ new.overrides = (data.overrides \ hosts) \ (data.deleted \ hosts)
        /\ new.deleted = data.deleted \ hosts
        /\ new.tokens = data.tokens \ expired /\ new.version = data.version
    BY <1>0, WithoutMarkersFields
  <2>3. Begin(r, new, {}, TRUE) /\ issued' = issued
    BY <2>1 DEF PurgeDeletedHosts
  <2> HIDE DEF new
  <2>4. Copied(r, new, {}, TRUE)
    BY <1>0, <2>2, <2>3 DEF Copied, Separate, Creates
  <2> QED BY <2>4
<1>4. CASE EnsureDefaultAccessKey(r)
  <2> DEFINE new == Normalize(data)
  <2>2. /\ new \in Data
        /\ new.overrides = data.overrides \ data.deleted /\ new.deleted = data.deleted
        /\ new.tokens = data.tokens \ expired /\ new.version = data.version
    BY <1>0, NormalizeFields
  <2>3. Begin(r, new, {}, FALSE) /\ issued' = issued
    BY <1>4 DEF EnsureDefaultAccessKey
  <2> HIDE DEF new
  <2>4. Copied(r, new, {}, FALSE)
    BY <1>0, <2>2, <2>3 DEF Copied, Separate, Creates
  <2> QED BY <2>4
<1>5. CASE \E token \in Token : CreateInstallToken(r, token)
  <2>1. PICK token \in Token : CreateInstallToken(r, token)
    BY <1>5
  <2> DEFINE new == WithToken(data, token)
  <2>2. /\ new \in Data
        /\ new.overrides = data.overrides /\ new.deleted = data.deleted
        /\ new.tokens = (data.tokens \ expired) \cup {token} /\ new.version = data.version
    BY <1>0 DEF WithToken, Data
  <2>3. Begin(r, new, {token}, FALSE) /\ token \notin issued /\ issued' = issued \cup {token}
    BY <2>1 DEF CreateInstallToken
  <2> HIDE DEF new
  <2>4. Copied(r, new, {token}, FALSE)
    BY <1>0, <2>2, <2>3 DEF Copied, Separate, Creates
  <2> QED BY <2>4
<1>6. CASE \E token \in Token : ConsumeInstallToken(r, token)
  <2>1. PICK token \in Token : ConsumeInstallToken(r, token)
    BY <1>6
  <2> DEFINE new == Consumed(data, token)
  <2>2. /\ new \in Data
        /\ new.overrides = data.overrides /\ new.deleted = data.deleted
        /\ new.tokens = data.tokens \ (expired \cup {token}) /\ new.version = data.version
    BY <1>0 DEF Consumed, Data
  <2>3. /\ Begin(r, new, {token}, FALSE)
        /\ token \in (data.tokens \cap handed) \ expired /\ issued' = issued
    BY <2>1 DEF ConsumeInstallToken
  <2> HIDE DEF new
  <2>4. Copied(r, new, {token}, FALSE)
    BY <1>0, <2>2, <2>3 DEF Copied, Separate, Consumes
  <2> QED BY <2>4
<1>7. CASE UpdateAdminCredentials(r)
  <2> DEFINE n == Normalize(data)
             new == [n EXCEPT !.version = @ + 1]
  <2>1. /\ n \in Data
        /\ n.overrides = data.overrides \ data.deleted /\ n.deleted = data.deleted
        /\ n.tokens = data.tokens \ expired /\ n.version = data.version
    BY <1>0, NormalizeFields
  <2>3. Begin(r, new, {}, FALSE) /\ issued' = issued /\ data.version < MaxVersion
    BY <1>7 DEF UpdateAdminCredentials
  <2> HIDE DEF n
  <2>2. /\ new \in Data
        /\ new.overrides = n.overrides /\ new.deleted = n.deleted
        /\ new.tokens = n.tokens /\ new.version = data.version + 1
    BY <1>0, <2>1, <2>3, BoundAssumption DEF Data
  <2> HIDE DEF new
  <2>5. new.version >= data.version
    BY <1>0, <2>2, BoundAssumption
  <2>4. Copied(r, new, {}, FALSE)
    BY <1>0, <2>1, <2>2, <2>3, <2>5 DEF Copied, Separate, Creates
  <2> QED BY <2>4
<1> QED BY <1>1, <1>2, <1>3, <1>4, <1>5, <1>6, <1>7 DEF Operation

(***************************************************************************)
(* The inductive invariant.  Tokens: a copy that is still fresh knows of   *)
(* every token that was exchanged, and one that consumes a token took it   *)
(* from the data memory still holds.  File: a writer that nothing has      *)
(* overlapped finds the file as it left it; every other one has spoiled    *)
(* it.                                                                     *)
(***************************************************************************)

CopiesSeparate ==
    /\ Separate(data)
    /\ \A c \in {file} \cup settled : c \in Data => Separate(c)
    /\ \A r \in Request : Separate(request[r].new)

FreshNotOlder ==
    \A r \in Request : request[r].fresh => request[r].new.version >= data.version

OneCreator ==
    /\ \A r \in Request : request[r].token \subseteq issued
    /\ \A r, q \in Request : \A t \in request[r].token \cap request[q].token :
          t \in handed \/ r = q

GrantedWasHanded == \A t \in Token : granted[t] # 0 => t \in handed

ConsumerSawToken ==
    \A r \in Request : request[r].fresh =>
        \A t \in request[r].token \cap handed : t \in data.tokens /\ t \notin request[r].new.tokens

GrantedIsGone ==
    lost \/ \A t \in Token : granted[t] # 0 =>
               /\ t \notin data.tokens
               /\ \A r \in Request : request[r].fresh => t \notin request[r].new.tokens

Tokens ==
    OneCreator /\ GrantedWasHanded /\ ConsumerSawToken /\ GrantedIsGone /\ TokenOnceUnlessLost

AloneInFile ==
    \A r \in Request :
        /\ request[r].alone => Writing = {r}
        /\ r \in Writing /\ ~request[r].alone => spoiled

AloneWrote ==
    \A r \in Request : request[r].alone =>
        /\ request[r].at = "write" => file = Empty
        /\ request[r].at \in {"sync", "publish"} => file = request[r].new
        /\ request[r].at = "publish" => settled = {}

FileIsData ==
    Writing = {} /\ ~spoiled =>
        settled = {} /\ file \in Data /\ Normalize(file) = Normalize(data)

File == AloneInFile /\ AloneWrote /\ FileIsData

IInv == TypeOK /\ CopiesSeparate /\ FreshNotOlder /\ Tokens /\ File

LEMMA InitIInv == Init => IInv
<1> SUFFICES ASSUME Init PROVE IInv
  OBVIOUS
<1>1. /\ Separate(Default)
      /\ \A r \in Request : request[r] = Done
      /\ Done.at = "idle" /\ Done.new = Default /\ Done.token = {}
      /\ ~Done.fresh /\ ~Done.alone
  BY DEF Init, Done, Default, Separate
<1>2. TypeOK
  <2>1. data \in Data /\ request \in [Request -> RequestType]
    BY DefaultType, DoneType DEF Init
  <2>2. granted \in [Token -> 0..2]
    BY DEF Init
  <2>3. {lost, spoiled} \subseteq BOOLEAN
    BY DEF Init
  <2> QED BY <2>1, <2>2, <2>3 DEF Init, TypeOK
<1>3. CopiesSeparate
  BY <1>1, FileAssumption DEF Init, CopiesSeparate
<1>4. FreshNotOlder
  BY <1>1 DEF FreshNotOlder
<1>5. Tokens
  BY <1>1 DEF Init, Tokens, OneCreator, GrantedWasHanded, ConsumerSawToken, GrantedIsGone,
              TokenOnceUnlessLost
<1>6. File
  BY <1>1 DEF Init, File, AloneInFile, AloneWrote, FileIsData, Writing
<1> QED BY <1>2, <1>3, <1>4, <1>5, <1>6 DEF IInv

LEMMA OperationIInv ==
  ASSUME IInv, NEW r \in Request, Operation(r)
  PROVE  IInv'
<1>1. PICK new, token, lifecycle : Copied(r, new, token, lifecycle)
  BY OperationCopies DEF IInv
<1> DEFINE req == [Done EXCEPT !.at = "open", !.new = new, !.token = token,
                               !.lifecycle = lifecycle, !.fresh = TRUE]
<1>2. /\ req \in RequestType /\ req.at = "open" /\ req.new = new /\ req.token = token
      /\ req.fresh /\ ~req.alone
  BY <1>1, DefaultType DEF Copied, Done, RequestType
<1>3. /\ request' = [request EXCEPT ![r] = req] /\ request[r].at = "idle"
      /\ UNCHANGED <<data, file, settled, handed, expired, granted, lost, spoiled>>
  BY <1>1 DEF Copied, Begin
<1> HIDE DEF req
<1>4. /\ request' \in [Request -> RequestType]
      /\ request'[r] = req /\ \A q \in Request \ {r} : request'[q] = request[q]
  BY <1>2, <1>3 DEF IInv, TypeOK
<1>5. TypeOK'
  <2>1. issued' \subseteq Token /\ issued \subseteq issued'
    BY <1>1 DEF Copied, Creates, Consumes, IInv, TypeOK
  <2> QED BY <1>3, <1>4, <2>1 DEF IInv, TypeOK
<1>6. CopiesSeparate'
  <2>1. Separate(new)
    BY <1>1 DEF IInv, CopiesSeparate, Copied
  <2> QED BY <1>2, <1>3, <1>4, <2>1 DEF IInv, CopiesSeparate
<1>7. FreshNotOlder'
  BY <1>1, <1>2, <1>3, <1>4 DEF IInv, FreshNotOlder, Copied
<1>8. Tokens'
  <2>1. OneCreator'
    BY <1>1, <1>2, <1>3, <1>4 DEF IInv, TypeOK, Tokens, OneCreator, Copied, Creates, Consumes
  <2>2. GrantedWasHanded' /\ TokenOnceUnlessLost'
    BY <1>3 DEF IInv, Tokens, GrantedWasHanded, TokenOnceUnlessLost
  <2>3. ConsumerSawToken'
    BY <1>1, <1>2, <1>3, <1>4
    DEF IInv, TypeOK, Tokens, ConsumerSawToken, Copied, Creates, Consumes
  <2>4. GrantedIsGone'
    BY <1>1, <1>2, <1>3, <1>4
    DEF IInv, TypeOK, Tokens, GrantedWasHanded, GrantedIsGone, Copied, Creates, Consumes
  <2> QED BY <2>1, <2>2, <2>3, <2>4 DEF Tokens
<1>9. File'
  <2>1. Writing' = Writing
    BY <1>2, <1>3, <1>4 DEF Writing
  <2>2. r \notin Writing
    BY <1>3 DEF Writing
  <2> QED BY <1>2, <1>3, <1>4, <2>1, <2>2
          DEF IInv, File, AloneInFile, AloneWrote, FileIsData, Normalize
<1> QED BY <1>5, <1>6, <1>7, <1>8, <1>9 DEF IInv


(***************************************************************************)
(* The steps of write_data.                                                *)
(***************************************************************************)

LEMMA OpenFileIInv ==
  ASSUME IInv, NEW r \in Request, OpenFile(r)
  PROVE  IInv'
<1> DEFINE opened == [request[r] EXCEPT !.at = "write", !.alone = Writing = {}]
<1>1. /\ request[r].at = "open" /\ file' = Empty
      /\ settled' = IF settled = {} THEN {file} ELSE settled
      /\ request' = [q \in Request |->
                       IF q = r THEN opened ELSE [request[q] EXCEPT !.alone = FALSE]]
      /\ spoiled' = (spoiled \/ Writing # {})
      /\ UNCHANGED <<data, issued, handed, expired, granted, lost>>
  BY DEF OpenFile
<1>2. \A q \in Request :
        /\ request'[q] \in RequestType
        /\ request'[q].new = request[q].new /\ request'[q].token = request[q].token
        /\ request'[q].fresh = request[q].fresh
        /\ request'[q].at = IF q = r THEN "write" ELSE request[q].at
        /\ request'[q].alone = (q = r /\ Writing = {})
  BY <1>1 DEF IInv, TypeOK, RequestType
<1>3. request' \in [Request -> RequestType]
  BY <1>1, <1>2
<1> HIDE DEF opened
<1>4. TypeOK'
  <2>1. spoiled' \in BOOLEAN
    BY <1>1 DEF IInv, TypeOK
  <2>2. settled' \subseteq Data \cup {Empty, Garbled} /\ file' \in Data \cup {Empty, Garbled}
    BY <1>1 DEF IInv, TypeOK
  <2> QED BY <1>1, <1>3, <2>1, <2>2 DEF IInv, TypeOK
<1>5. CopiesSeparate'
  BY <1>1, <1>2, FileAssumption DEF IInv, CopiesSeparate
<1>6. FreshNotOlder'
  BY <1>1, <1>2 DEF IInv, FreshNotOlder
<1>7. Tokens'
  BY <1>1, <1>2 DEF IInv, Tokens, OneCreator, GrantedWasHanded, ConsumerSawToken, GrantedIsGone,
                    TokenOnceUnlessLost
<1>8. File'
  <2>1. Writing' = Writing \cup {r}
    <3>1. \A q \in Request : q \in Writing' <=> q \in Writing \/ q = r
      BY <1>2 DEF Writing
    <3> QED BY <3>1 DEF Writing
  <2>2. AloneInFile'
    BY <1>1, <1>2, <2>1 DEF AloneInFile
  <2>3. AloneWrote'
    BY <1>1, <1>2 DEF AloneWrote
  <2>4. FileIsData'
    BY <2>1 DEF FileIsData
  <2> QED BY <2>2, <2>3, <2>4 DEF File
<1> QED BY <1>4, <1>5, <1>6, <1>7, <1>8 DEF IInv

\* What a step of r leaves of the requests when it only moves r on.
Moved(r, at) ==
    /\ request' \in [Request -> RequestType]
    /\ request'[r].at = at
    /\ \A q \in Request :
          /\ request'[q].new = request[q].new /\ request'[q].token = request[q].token
          /\ request'[q].fresh = request[q].fresh /\ request'[q].alone = request[q].alone
          /\ q # r => request'[q].at = request[q].at

LEMMA MoveType ==
  ASSUME TypeOK, NEW r \in Request, NEW at \in {"sync", "publish"},
         request' = [request EXCEPT ![r].at = at]
  PROVE  Moved(r, at)
  BY DEF TypeOK, RequestType, Moved

LEMMA MoveKeeps ==
  ASSUME IInv, NEW r \in Request, NEW at \in {"sync", "publish"}, Moved(r, at),
         request[r].at \in {"write", "sync"},
         UNCHANGED <<data, issued, handed, expired, granted, lost, spoiled>>
  PROVE  /\ FreshNotOlder' /\ Tokens' /\ AloneInFile' /\ FileIsData'
         /\ Writing' = Writing /\ r \in Writing
<1>1. Writing' = Writing /\ r \in Writing
  BY DEF Moved, Writing
<1>2. FreshNotOlder'
  BY DEF IInv, FreshNotOlder, Moved
<1>3. Tokens'
  BY DEF IInv, Tokens, OneCreator, GrantedWasHanded, ConsumerSawToken, GrantedIsGone,
         TokenOnceUnlessLost, Moved
<1>4. AloneInFile'
  BY <1>1 DEF IInv, File, AloneInFile, Moved
<1>5. FileIsData'
  BY <1>1 DEF FileIsData
<1> QED BY <1>1, <1>2, <1>3, <1>4, <1>5

LEMMA WriteContentsIInv ==
  ASSUME IInv, NEW r \in Request, WriteContents(r)
  PROVE  IInv'
<1>1. /\ request[r].at = "write"
      /\ file' \in {request[r].new} \cup (IF file = Empty THEN {} ELSE {Garbled})
      /\ settled' = IF settled = {} THEN {file} ELSE settled
      /\ UNCHANGED <<data, issued, handed, expired, granted, lost, spoiled>>
      /\ Moved(r, "sync")
  BY MoveType DEF WriteContents, IInv
<1>2. /\ FreshNotOlder' /\ Tokens' /\ AloneInFile' /\ FileIsData'
      /\ Writing' = Writing /\ r \in Writing
  BY <1>1, MoveKeeps
<1>3. file' \in Data \cup {Garbled} /\ (file' \in Data => file' = request[r].new)
  BY <1>1, FileAssumption DEF IInv, TypeOK, RequestType
<1>4. TypeOK'
  <2>1. settled' \subseteq Data \cup {Empty, Garbled}
    BY <1>1 DEF IInv, TypeOK
  <2> QED BY <1>1, <1>3, <2>1 DEF IInv, TypeOK, Moved
<1>5. CopiesSeparate'
  BY <1>1, <1>3 DEF IInv, CopiesSeparate, Moved
<1>6. AloneWrote'
  BY <1>1, <1>2 DEF IInv, File, AloneInFile, AloneWrote, Moved
<1> QED BY <1>2, <1>4, <1>5, <1>6 DEF IInv, File

LEMMA SyncFileIInv ==
  ASSUME IInv, NEW r \in Request, SyncFile(r)
  PROVE  IInv'
<1>1. /\ request[r].at = "sync" /\ settled' = {}
      /\ UNCHANGED <<data, file, issued, handed, expired, granted, lost, spoiled>>
      /\ Moved(r, "publish")
  BY MoveType DEF SyncFile, IInv
<1>2. /\ FreshNotOlder' /\ Tokens' /\ AloneInFile' /\ FileIsData'
      /\ Writing' = Writing /\ r \in Writing
  BY <1>1, MoveKeeps
<1>3. TypeOK'
  BY <1>1 DEF IInv, TypeOK, Moved
<1>4. CopiesSeparate'
  BY <1>1 DEF IInv, CopiesSeparate, Moved
<1>5. AloneWrote'
  BY <1>1, <1>2 DEF IInv, File, AloneInFile, AloneWrote, Moved
<1> QED BY <1>2, <1>3, <1>4, <1>5 DEF IInv, File

LEMMA FailWriteIInv ==
  ASSUME IInv, NEW r \in Request, FailWrite(r)
  PROVE  IInv'
<1>1. /\ request' = [request EXCEPT ![r] = Done]
      /\ UNCHANGED <<data, issued, handed, expired, granted, lost>>
      /\ settled' = settled \/ settled' = {file}
      /\ file' = file \/ file' = Garbled
      /\ \/ request[r].at = "open" /\ UNCHANGED <<file, settled, spoiled>>
         \/ r \in Writing /\ spoiled'
  BY DEF FailWrite, Writing
<1>2. /\ Done \in RequestType /\ Done.at = "idle" /\ Done.new = Default /\ Done.token = {}
      /\ ~Done.fresh /\ ~Done.alone /\ Separate(Default)
  BY DoneType DEF Done, Default, Separate
<1>3. /\ request' \in [Request -> RequestType]
      /\ request'[r] = Done /\ \A q \in Request \ {r} : request'[q] = request[q]
  BY <1>1, <1>2 DEF IInv, TypeOK
<1>4. TypeOK'
  <2>1. spoiled' \in BOOLEAN
    BY <1>1 DEF FailWrite, IInv, TypeOK
  <2> QED BY <1>1, <1>3, <2>1 DEF IInv, TypeOK
<1>5. CopiesSeparate'
  BY <1>1, <1>2, <1>3, FileAssumption DEF IInv, CopiesSeparate
<1>6. FreshNotOlder'
  BY <1>1, <1>2, <1>3 DEF IInv, FreshNotOlder
<1>7. Tokens'
  <2>1. OneCreator'
    BY <1>1, <1>2, <1>3 DEF IInv, Tokens, OneCreator
  <2>2. GrantedWasHanded' /\ TokenOnceUnlessLost'
    BY <1>1 DEF IInv, Tokens, GrantedWasHanded, TokenOnceUnlessLost
  <2>3. ConsumerSawToken' /\ GrantedIsGone'
    BY <1>1, <1>2, <1>3 DEF IInv, Tokens, ConsumerSawToken, GrantedIsGone
  <2> QED BY <2>1, <2>2, <2>3 DEF Tokens
<1>8. File'
  <2>1. Writing' = Writing \ {r}
    <3>1. \A q \in Request : q \in Writing' <=> q \in Writing /\ q # r
      BY <1>2, <1>3 DEF Writing
    <3> QED BY <3>1 DEF Writing
  <2>2. CASE request[r].at = "open" /\ UNCHANGED <<file, settled, spoiled>>
    <3>1. Writing' = Writing
      BY <2>1, <2>2 DEF Writing
    <3>2. AloneInFile'
      <4>1. r \notin Writing' /\ ~request'[r].alone
        BY <1>2, <1>3, <2>1
      <4>2. \A q \in Request \ {r} : request'[q].alone = request[q].alone
        BY <1>3
      <4> QED BY <2>2, <3>1, <4>1, <4>2 DEF IInv, File, AloneInFile
    <3>3. AloneWrote'
      BY <1>2, <1>3, <2>2 DEF IInv, File, AloneWrote
    <3>4. FileIsData'
      BY <1>1, <2>2, <3>1 DEF IInv, File, FileIsData, Normalize
    <3> QED BY <3>2, <3>3, <3>4 DEF File
  <2>3. CASE r \in Writing /\ spoiled'
    <3>1. \A q \in Request : ~request'[q].alone
      BY <1>2, <1>3, <2>3 DEF IInv, File, AloneInFile
    <3> QED BY <2>3, <3>1 DEF File, AloneInFile, AloneWrote, FileIsData
  <2> QED BY <1>1, <2>2, <2>3
<1> QED BY <1>4, <1>5, <1>6, <1>7, <1>8 DEF IInv

\* The copy of r becomes the data; other copies are fresh only if it made no
\* difference.
LEMMA PublishIInv ==
  ASSUME IInv, NEW r \in Request, Publish(r)
  PROVE  IInv'
<1> DEFINE others(q) == [request[q] EXCEPT !.fresh = @ /\ data' = data]
<1>1. /\ request[r].at = "publish" /\ data' = request[r].new
      /\ lost' = (lost \/ ~request[r].fresh)
      /\ spoiled' = (spoiled /\ ~request[r].alone)
      /\ handed' = handed \cup request[r].token
      /\ request' = [q \in Request |-> IF q = r THEN Done ELSE others(q)]
      /\ UNCHANGED <<file, settled, issued, expired>>
  BY DEF Publish
<1>2. /\ Done \in RequestType /\ Done.at = "idle" /\ Done.new = Default /\ Done.token = {}
      /\ ~Done.fresh /\ ~Done.alone /\ Separate(Default)
  BY DoneType DEF Done, Default, Separate
<1>3. \A q \in Request \ {r} :
        /\ request'[q] \in RequestType
        /\ request'[q].new = request[q].new /\ request'[q].token = request[q].token
        /\ request'[q].at = request[q].at /\ request'[q].alone = request[q].alone
        /\ request'[q].fresh = (request[q].fresh /\ data' = data)
  BY <1>1 DEF IInv, TypeOK, RequestType
<1> HIDE DEF others
<1>4. request'[r] = Done /\ request' \in [Request -> RequestType]
  BY <1>1, <1>2, <1>3
<1>5. \A t \in Token :
        granted'[t] = IF t \in request[r].token \cap handed /\ granted[t] < 2
                      THEN granted[t] + 1 ELSE granted[t]
  BY DEF Publish
<1>6. TypeOK'
  <2>1. data' \in Data /\ request[r].token \subseteq issued
    BY <1>1 DEF IInv, TypeOK, RequestType, Tokens, OneCreator
  <2>2. granted' \in [Token -> 0..2]
    BY DEF Publish, IInv, TypeOK
  <2>3. lost' \in BOOLEAN /\ spoiled' \in BOOLEAN
    BY <1>1 DEF IInv, TypeOK
  <2> QED BY <1>1, <1>4, <2>1, <2>2, <2>3 DEF IInv, TypeOK
<1>7. CopiesSeparate'
  BY <1>1, <1>2, <1>3, <1>4 DEF IInv, CopiesSeparate
<1>8. FreshNotOlder'
  BY <1>2, <1>3, <1>4 DEF IInv, FreshNotOlder
<1>9. Tokens'
  <2>1. OneCreator'
    BY <1>1, <1>2, <1>3, <1>4 DEF IInv, Tokens, OneCreator
  <2>2. GrantedWasHanded'
    BY <1>1, <1>5 DEF IInv, Tokens, GrantedWasHanded
  <2>3. ConsumerSawToken'
    BY <1>1, <1>2, <1>3, <1>4 DEF IInv, Tokens, OneCreator, ConsumerSawToken
  <2>4. CASE lost'
    BY <2>1, <2>2, <2>3, <2>4 DEF Tokens, GrantedIsGone, TokenOnceUnlessLost
  <2>5. CASE ~lost'
    <3>1. request[r].fresh /\ ~lost
      BY <1>1, <2>5
    <3>2. \A t \in request[r].token \cap handed :
             t \in data.tokens /\ t \notin data'.tokens
      BY <1>1, <3>1 DEF IInv, Tokens, ConsumerSawToken
    <3>3. \A t \in Token : t \in request[r].token \cap handed => granted[t] = 0
      BY <3>1, <3>2 DEF IInv, Tokens, GrantedIsGone
    <3>4. \A t \in Token : granted[t] # 0 => t \notin data'.tokens
      BY <1>1, <3>1 DEF IInv, Tokens, GrantedIsGone
    <3>5. TokenOnceUnlessLost'
      BY <1>5, <3>1, <3>3 DEF IInv, Tokens, TokenOnceUnlessLost
    <3>6. \A t \in Token : granted'[t] # 0 => t \notin data'.tokens
      BY <1>5, <3>2, <3>4
    <3>7. \A t \in Token, q \in Request : granted'[t] # 0 /\ request'[q].fresh =>
             t \notin request'[q].new.tokens
      <4> SUFFICES ASSUME NEW t \in Token, NEW q \in Request, granted'[t] # 0, request'[q].fresh
                   PROVE  t \notin request'[q].new.tokens
        OBVIOUS
      <4>1. q # r /\ request[q].fresh /\ data' = data /\ request'[q].new = request[q].new
        BY <1>2, <1>3, <1>4
      <4>2. granted[t] # 0
        BY <1>5, <3>2, <4>1
      <4> QED BY <3>1, <4>1, <4>2 DEF IInv, Tokens, GrantedIsGone
    <3> QED BY <2>1, <2>2, <2>3, <3>5, <3>6, <3>7 DEF Tokens, GrantedIsGone
  <2> QED BY <2>4, <2>5
<1>10. File'
  <2>1. Writing' = Writing \ {r} /\ r \in Writing
    <3>1. \A q \in Request : q \in Writing' <=> q \in Writing /\ q # r
      BY <1>2, <1>3, <1>4 DEF Writing
    <3> QED BY <1>1, <3>1 DEF Writing
  <2>2. CASE request[r].alone
    <3>1. Writing' = {} /\ file' = data' /\ settled' = {} /\ data' \in Data
      BY <1>1, <1>6, <2>1, <2>2 DEF IInv, TypeOK, File, AloneInFile, AloneWrote
    <3>2. \A q \in Request : ~request'[q].alone
      BY <1>2, <1>3, <1>4, <2>1, <2>2 DEF IInv, File, AloneInFile
    <3>3. Normalize(file)' = Normalize(data)'
      BY <3>1 DEF Normalize
    <3> QED BY <3>1, <3>2, <3>3 DEF File, AloneInFile, AloneWrote, FileIsData
  <2>3. CASE ~request[r].alone
    <3>1. spoiled /\ spoiled'
      BY <1>1, <2>1, <2>3 DEF IInv, File, AloneInFile
    <3>2. AloneInFile'
      BY <1>2, <1>3, <1>4, <2>1, <3>1 DEF IInv, File, AloneInFile
    <3>3. AloneWrote'
      BY <1>1, <1>2, <1>3, <1>4 DEF IInv, File, AloneWrote
    <3> QED BY <3>1, <3>2, <3>3 DEF File, FileIsData
  <2> QED BY <2>2, <2>3
<1> QED BY <1>6, <1>7, <1>8, <1>9, <1>10 DEF IInv


(***************************************************************************)
(* Time and restarts.                                                      *)
(***************************************************************************)

LEMMA ExpireIInv ==
  ASSUME IInv, NEW token \in Token, Expire(token)
  PROVE  IInv'
<1>1. /\ expired \subseteq expired' /\ expired' \subseteq issued
      /\ UNCHANGED <<data, file, settled, request, issued, handed, granted, lost, spoiled>>
  BY DEF Expire, IInv, TypeOK
<1>2. TypeOK'
  BY <1>1 DEF IInv, TypeOK
<1>3. CopiesSeparate' /\ FreshNotOlder'
  BY <1>1 DEF IInv, CopiesSeparate, FreshNotOlder
<1>4. Tokens'
  BY <1>1 DEF IInv, Tokens, OneCreator, GrantedWasHanded, ConsumerSawToken, GrantedIsGone,
              TokenOnceUnlessLost
<1>5. File'
  <2>1. Writing' = Writing
    BY <1>1 DEF Writing
  <2>2. AloneInFile' /\ AloneWrote'
    BY <1>1, <2>1 DEF IInv, File, AloneInFile, AloneWrote
  <2>3. ASSUME Writing = {}, ~spoiled
        PROVE  /\ settled = {} /\ file \in Data
               /\ [file EXCEPT !.overrides = @ \ file.deleted, !.tokens = @ \ expired']
                    = [data EXCEPT !.overrides = @ \ data.deleted, !.tokens = @ \ expired']
    <3>1. settled = {} /\ file \in Data /\ Normalize(file) = Normalize(data) /\ data \in Data
      BY <2>3 DEF IInv, TypeOK, File, FileIsData
    <3>2. /\ file.overrides \ file.deleted = data.overrides \ data.deleted
          /\ file.deleted = data.deleted /\ file.tokens \ expired = data.tokens \ expired
          /\ file.version = data.version
      BY <3>1, NormalizeFields
    <3>3. file.tokens \ expired' = data.tokens \ expired'
      BY <1>1, <3>2
    <3> DEFINE f == [file EXCEPT !.overrides = @ \ file.deleted, !.tokens = @ \ expired']
               d == [data EXCEPT !.overrides = @ \ data.deleted, !.tokens = @ \ expired']
    <3>4. /\ f \in Data
          /\ f.overrides = file.overrides \ file.deleted /\ f.deleted = file.deleted
          /\ f.tokens = file.tokens \ expired' /\ f.version = file.version
      BY <3>1 DEF Data
    <3>5. /\ d \in Data
          /\ d.overrides = data.overrides \ data.deleted /\ d.deleted = data.deleted
          /\ d.tokens = data.tokens \ expired' /\ d.version = data.version
      BY <3>1 DEF Data
    <3> HIDE DEF f, d
    <3>6. /\ f.overrides = d.overrides /\ f.deleted = d.deleted
          /\ f.tokens = d.tokens /\ f.version = d.version
      BY <3>2, <3>3, <3>4, <3>5
    <3>7. f = d
      BY <3>4, <3>5, <3>6, DataEqual
    <3> QED BY <3>1, <3>7 DEF f, d
  <2>4. FileIsData'
    <3>1. /\ Normalize(file)' = [file EXCEPT !.overrides = @ \ file.deleted, !.tokens = @ \ expired']
          /\ Normalize(data)' = [data EXCEPT !.overrides = @ \ data.deleted, !.tokens = @ \ expired']
      BY <1>1 DEF Normalize
    <3>2. ASSUME Writing = {}, ~spoiled
          PROVE  settled = {} /\ file \in Data /\ Normalize(file)' = Normalize(data)'
      BY <2>3, <3>1, <3>2
    <3> QED BY <1>1, <2>1, <3>2 DEF FileIsData
  <2> QED BY <2>2, <2>4 DEF File
<1> QED BY <1>2, <1>3, <1>4, <1>5 DEF IInv

\* A start, with or without a power loss before it.
LEMMA StartIInv ==
  ASSUME IInv, NEW readable \in BOOLEAN, Start(readable),
         file' \in {file} \cup settled \cup {Garbled},
         settled' \in {settled, {}},
         ~spoiled /\ Writing = {} => file' = file
  PROVE  IInv'
<1>1. /\ data' = IF readable THEN Load(file') ELSE Default
      /\ lost' = (lost \/ data' # Normalize(data))
      /\ spoiled' = (spoiled \/ Writing # {} \/ ~readable)
      /\ UNCHANGED <<issued, handed, expired, granted>>
  BY DEF Start
<1>2. /\ Done \in RequestType /\ Done.at = "idle" /\ Done.new = Default /\ Done.token = {}
      /\ ~Done.fresh /\ ~Done.alone /\ Separate(Default)
  BY DoneType DEF Done, Default, Separate
<1>3. request' \in [Request -> RequestType] /\ \A r \in Request : request'[r] = Done
  BY <1>2 DEF Start
<1>4. data' \in Data /\ Separate(data')
  <2>1. CASE data' = Default
    BY <1>2, <2>1, DefaultType
  <2>2. CASE file' \in Data /\ data' = Normalize(file')
    BY <2>2, NormalizeFields DEF Separate
  <2> QED BY <1>1, <2>1, <2>2 DEF Load
<1>5. TypeOK'
  <2>1. lost' \in BOOLEAN /\ spoiled' \in BOOLEAN
    BY <1>1 DEF IInv, TypeOK
  <2>2. /\ file' \in Data \cup {Empty, Garbled}
        /\ settled' \subseteq Data \cup {Empty, Garbled}
    BY DEF IInv, TypeOK
  <2> QED BY <1>1, <1>3, <1>4, <2>1, <2>2 DEF IInv, TypeOK
<1>6. CopiesSeparate'
  <2>1. \A c \in {file'} \cup settled' : c \in Data => Separate(c)
    BY FileAssumption DEF IInv, CopiesSeparate
  <2> QED BY <1>2, <1>3, <1>4, <2>1 DEF CopiesSeparate
<1>7. FreshNotOlder'
  BY <1>2, <1>3 DEF FreshNotOlder
<1>8. Tokens'
  <2>1. OneCreator' /\ ConsumerSawToken'
    BY <1>2, <1>3 DEF OneCreator, ConsumerSawToken
  <2>2. GrantedWasHanded' /\ TokenOnceUnlessLost'
    BY <1>1 DEF IInv, Tokens, GrantedWasHanded, TokenOnceUnlessLost
  <2>3. GrantedIsGone'
    <3>1. ~lost' => ~lost /\ data'.tokens = data.tokens \ expired
      BY <1>1, NormalizeFields DEF IInv, TypeOK
    <3> QED BY <1>1, <1>2, <1>3, <3>1 DEF IInv, Tokens, GrantedIsGone
  <2> QED BY <2>1, <2>2, <2>3 DEF Tokens
<1>9. File'
  <2>1. Writing' = {} /\ AloneInFile' /\ AloneWrote'
    BY <1>2, <1>3 DEF Writing, AloneInFile, AloneWrote
  <2>2. FileIsData'
    <3> SUFFICES ASSUME ~spoiled'
                 PROVE  settled' = {} /\ file' \in Data /\ Normalize(file)' = Normalize(data)'
      BY DEF FileIsData
    <3>1. Writing = {} /\ ~spoiled /\ readable
      BY <1>1
    <3>2. file' = file /\ settled' = {} /\ file \in Data
      BY <3>1 DEF IInv, File, FileIsData
    <3>3. data' = Normalize(file)
      BY <1>1, <3>1, <3>2 DEF Load
    <3>4. Normalize(Normalize(file)) = Normalize(file)
      BY <3>2, NormalizeTwice
    <3>5. Normalize(file)' = Normalize(file) /\ Normalize(data)' = Normalize(Normalize(file))
      BY <1>1, <3>2, <3>3 DEF Normalize
    <3> QED BY <3>2, <3>4, <3>5
  <2> QED BY <2>1, <2>2 DEF File
<1> QED BY <1>5, <1>6, <1>7, <1>8, <1>9 DEF IInv

LEMMA NextIInv == ASSUME IInv, [Next]_vars PROVE IInv'
<1>1. CASE \E r \in Request : Operation(r)
  BY <1>1, OperationIInv
<1>2. CASE \E r \in Request : WriteData(r)
  BY <1>2, OpenFileIInv, WriteContentsIInv, SyncFileIInv, FailWriteIInv, PublishIInv DEF WriteData
<1>3. CASE \E token \in Token : Expire(token)
  BY <1>3, ExpireIInv
<1>4. CASE \E readable \in BOOLEAN : Restart(readable)
  BY <1>4, StartIInv DEF Restart
<1>5. CASE \E content \in Recoverable : PowerLoss(content)
  <2>1. PICK content \in Recoverable : PowerLoss(content)
    BY <1>5
  <2>2. file' \in {file} \cup settled \cup {Garbled} /\ settled' = {} /\ Start(TRUE)
    BY <2>1 DEF PowerLoss, Recoverable
  <2>3. ~spoiled /\ Writing = {} => file' = file
    BY <2>1 DEF PowerLoss, Recoverable, IInv, File, FileIsData
  <2> QED BY <2>2, <2>3, StartIInv
<1>6. CASE UNCHANGED vars
  BY <1>6
  DEF vars, IInv, TypeOK, CopiesSeparate, FreshNotOlder, Tokens, OneCreator, GrantedWasHanded,
      ConsumerSawToken, GrantedIsGone, TokenOnceUnlessLost, File, AloneInFile, AloneWrote,
      FileIsData, Writing, Normalize
<1> QED BY <1>1, <1>2, <1>3, <1>4, <1>5, <1>6 DEF Next

LEMMA Invariance == Spec => []IInv
<1>1. IInv /\ [Next]_vars => IInv'
  BY NextIInv
<1> QED BY InitIInv, <1>1, PTL DEF Spec

(***************************************************************************)
(* The theorems.                                                           *)
(***************************************************************************)

\* The variables of the settings store keep their types.
THEOREM TypeCorrect == Spec => []TypeOK
<1>1. IInv => TypeOK
  BY DEF IInv
<1> QED BY Invariance, <1>1, PTL

\* A save that was answered and that nothing overlapped is what every later
\* start finds (write_data, init), however many operations there are.
THEOREM AnsweredSaveSurvives == Spec => []AnsweredSaveIsDurable
<1>1. IInv => AnsweredSaveIsDurable
  BY DEF IInv, File, FileIsData, AnsweredSaveIsDurable, Load, Recoverable
<1> QED BY Invariance, <1>1, PTL

\* Deletion markers and overrides exclude each other (normalize_admin_data) in
\* memory, in every copy and in the file.
THEOREM OverridesGoWithDeletion == Spec => []DeletedHasNoOverride
<1>1. IInv => DeletedHasNoOverride
  BY DEF IInv, CopiesSeparate, Separate, DeletedHasNoOverride
<1> QED BY Invariance, <1>1, PTL

\* An install token is exchanged at most once as long as no operation replaced
\* data it had not copied (consume_install_token).
THEOREM TokenSpentOnce == Spec => []TokenOnceUnlessLost
<1>1. IInv => TokenOnceUnlessLost
  BY DEF IInv, Tokens
<1> QED BY Invariance, <1>1, PTL

\* The version that ends sessions only goes back when an update was lost
\* (update_admin_credentials and every other operation that writes it back).
THEOREM VersionMonotone == Spec => SessionsStayEnded
<1>1. ASSUME IInv, [Next]_vars PROVE data'.version >= data.version \/ lost'
  <2>0. data \in Data /\ data.version \in 0..MaxVersion /\ data.version >= data.version
    BY <1>1, BoundAssumption DEF IInv, TypeOK, Data
  <2>1. CASE UNCHANGED data
    BY <2>0, <2>1
  <2>2. CASE \E r \in Request : Publish(r)
    BY <1>1, <2>2 DEF Publish, IInv, FreshNotOlder
  <2>3. CASE \E readable \in BOOLEAN : Start(readable)
    BY <2>0, <2>3, NormalizeFields DEF Start
  <2> QED BY <1>1, <2>1, <2>2, <2>3
          DEF Next, Operation, WriteData, Replace, ClearDeletedHostMarker, PurgeDeletedHosts,
              EnsureDefaultAccessKey, CreateInstallToken, ConsumeInstallToken,
              UpdateAdminCredentials, Begin, OpenFile, WriteContents, SyncFile, FailWrite,
              Expire, Restart, PowerLoss, vars
<1>2. IInv /\ [Next]_vars => [data'.version >= data.version \/ lost']_vars
  BY <1>1
<1> QED BY Invariance, <1>2, PTL DEF Spec, SessionsStayEnded
=============================================================================
