----------------------------- MODULE Attachments -----------------------------
(***************************************************************************)
(* The life of an attachment: reservation, direct upload to MinIO,         *)
(* verification and promotion, binding to one message, and removal of what *)
(* was never bound.                                                        *)
(*                                                                         *)
(* The rows live in PostgreSQL, the bytes in MinIO, and no transaction     *)
(* spans the two.  Three kinds of actors work on them at once:             *)
(*   Completions  requests POST /attachments/{id}/complete                 *)
(*   Sends        message creations (REST or WebSocket) with attachments   *)
(*   Cleaners     one AttachmentCleanupWorker per backend instance         *)
(* Each awaited storage call, and each row lock, is a step of its own, so  *)
(* the actors interleave wherever the code awaits.                         *)
(***************************************************************************)
EXTENDS Integers, FiniteSets

CONSTANTS
    Att,            \* attachment ids (uuid4, never reused)
    Scopes,         \* authorised (conversation, member) pairs
    Completions,    \* completion requests; each runs once
    Sends,          \* message creations; each runs once and names its message
    Cleaners,       \* cleanup workers; each runs again and again
    Contents,       \* byte strings a client may PUT; the ETag is their digest
    RightSize,      \* those with the reserved file_size
    Infected,       \* those ClamAV answers FOUND for
    ScanMode,       \* settings.attachment_scan_mode
    UploadExpire,   \* how long a PUT through the presigned URL may land
    PendingTTL,     \* settings.attachment_pending_ttl_hours
    BatchLimit,     \* rows per cleanup transaction (100 in the code)
    MaxPerMessage,  \* settings.attachment_max_per_message
    MaxTime,        \* bound: last clock value explored
    MaxFaults,      \* bound: failures of cleanup workers or of their storage calls
    Null

Workers == Completions \cup Sends \cup Cleaners

\* config.py: the upload URL lives at most 60 minutes, a pending row at least
\* one hour, so a URL never outlives the age at which its row is abandoned.
ASSUME ClockAssumption ==
    /\ UploadExpire \in Nat /\ PendingTTL \in Nat /\ MaxTime \in Nat
    /\ UploadExpire =< PendingTTL
    /\ MaxFaults \in Nat /\ BatchLimit \in Nat \ {0} /\ MaxPerMessage \in Nat

ASSUME SetAssumption ==
    /\ RightSize \subseteq Contents /\ Infected \subseteq Contents
    /\ ScanMode \in {"disabled", "clamav"}
    /\ Completions \cap Sends = {}
    /\ Completions \cap Cleaners = {}
    /\ Sends \cap Cleaners = {}
    /\ Null \notin Workers \cup Att \cup Scopes \cup Contents

\* What MinIO holds under a key: bytes and the Content-Type sent with the PUT.
Objects == [bytes : Contents, type : {"declared", "other"}]
NoObject == [bytes |-> Null, type |-> "none"]

VARIABLES
    \* PostgreSQL, table attachments, one function per column
    status,       \* free: id not drawn yet; live: a row; gone: row deleted
    scope,        \* conversation_id and uploader_id
    storage_key,  \* which prefix the object is under
    uploaded_at,
    message_id,
    created_at,
    \* PostgreSQL, the rest
    messages,     \* attachments of the message each send committed
    sent_at,      \* created_at of that message
    lock,         \* row locks (FOR UPDATE): the worker whose transaction holds it
    \* MinIO
    staging,      \* objects under pending/
    objects,      \* objects under objects/
    \* completion requests
    compPc, compAtt,
    etag,         \* ETag the stat saw
    scanned,      \* history: the content the scanner read and found clean
    \* message creations
    sendPc, sender, want,
    \* cleanup workers
    cleanPc, cutoff, batch, todo, deleted,
    redisLock,    \* Redis key locks:attachment-cleanup: the holder of the token
    now,          \* the clock
    faults        \* failures injected so far

rowVars == <<status, scope, storage_key, uploaded_at, message_id, created_at>>
messageVars == <<messages, sent_at>>
storeVars == <<staging, objects>>
compVars == <<compPc, compAtt, etag, scanned>>
sendVars == <<sendPc, sender, want>>
cleanVars == <<cleanPc, cutoff, batch, todo, deleted>>
vars == <<rowVars, messageVars, lock, storeVars, compVars, sendVars, cleanVars,
          redisLock, now, faults>>

-----------------------------------------------------------------------------
\* The object the row's storage_key names.
Stored(a) == IF storage_key[a] = "pending" THEN staging[a] ELSE objects[a]

\* authorize_download lets the members of the conversation through.
Downloadable(a) ==
    status[a] = "live" /\ message_id[a] # Null /\ uploaded_at[a] = "set"

\* Locks are released by COMMIT, ROLLBACK or the loss of the session.
Unlocked(w) == [a \in Att |-> IF lock[a] = w THEN Null ELSE lock[a]]

Init ==
    /\ status = [a \in Att |-> "free"]
    /\ scope = [a \in Att |-> Null]
    /\ storage_key = [a \in Att |-> "pending"]
    /\ uploaded_at = [a \in Att |-> "null"]
    /\ message_id = [a \in Att |-> Null]
    /\ created_at = [a \in Att |-> 0]
    /\ messages = [s \in Sends |-> {}]
    /\ sent_at = [s \in Sends |-> 0]
    /\ lock = [a \in Att |-> Null]
    /\ staging = [a \in Att |-> NoObject]
    /\ objects = [a \in Att |-> NoObject]
    /\ compPc = [p \in Completions |-> "new"]
    /\ compAtt = [p \in Completions |-> Null]
    /\ etag = [p \in Completions |-> Null]
    /\ scanned = [p \in Completions |-> Null]
    /\ sendPc = [s \in Sends |-> "new"]
    /\ sender = [s \in Sends |-> Null]
    /\ want = [s \in Sends |-> {}]
    /\ cleanPc = [c \in Cleaners |-> "idle"]
    /\ cutoff = [c \in Cleaners |-> 0]
    /\ batch = [c \in Cleaners |-> {}]
    /\ todo = [c \in Cleaners |-> {}]
    /\ deleted = [c \in Cleaners |-> {}]
    /\ redisLock = Null
    /\ now = 0
    /\ faults = 0

-----------------------------------------------------------------------------
(* The client: reserve and PUT.                                            *)

\* AttachmentService.reserve for an authorised member and valid metadata: the
\* row and the URL exist together once the transaction commits.  Reservations
\* stop early enough for the bounded clock to see them abandoned.
Reserve(a, sc) ==
    /\ status[a] = "free"
    /\ now + PendingTTL < MaxTime
    /\ status' = [status EXCEPT ![a] = "live"]
    /\ scope' = [scope EXCEPT ![a] = sc]
    /\ created_at' = [created_at EXCEPT ![a] = now]
    /\ UNCHANGED <<storage_key, uploaded_at, message_id, messageVars, lock,
                   storeVars, compVars, sendVars, cleanVars, redisLock, now, faults>>

\* A presigned URL names the pending key and stays good until it expires,
\* whatever became of the row since.
UrlLive(a) == status[a] # "free" /\ now =< created_at[a] + UploadExpire

Put(a, o) ==
    /\ UrlLive(a)
    /\ staging' = [staging EXCEPT ![a] = o]
    /\ UNCHANGED <<rowVars, messageVars, lock, objects, compVars, sendVars,
                   cleanVars, redisLock, now, faults>>

-----------------------------------------------------------------------------
(* AttachmentService.complete, one step per awaited storage call.  The row *)
(* lock taken by get_by_id_for_update is held until COMMIT or until the    *)
(* request's session closes.                                               *)

\* The request ends without committing: its transaction is rolled back and what
\* it had verified is forgotten.
CompleteEnds(p) ==
    /\ compPc' = [compPc EXCEPT ![p] = "done"]
    /\ lock' = Unlocked(p)
    /\ etag' = [etag EXCEPT ![p] = Null]
    /\ scanned' = [scanned EXCEPT ![p] = Null]
    /\ UNCHANGED compAtt

\* The row is found and locked; a caller who is not the uploader gets 404 and
\* leaves as CompleteAbort does.
CompleteBegin(p, a) ==
    /\ compPc[p] = "new"
    /\ lock[a] = Null
    /\ status[a] = "live" /\ uploaded_at[a] = "null"
    /\ compPc' = [compPc EXCEPT ![p] = "stat"]
    /\ compAtt' = [compAtt EXCEPT ![p] = a]
    /\ lock' = [lock EXCEPT ![a] = p]
    /\ UNCHANGED <<rowVars, messageVars, storeVars, etag, scanned, sendVars,
                   cleanVars, redisLock, now, faults>>

\* The row is gone (404) or already finalised (the stored answer is repeated).
CompleteRepeats(p, a) ==
    /\ compPc[p] = "new"
    /\ lock[a] = Null
    /\ \/ status[a] = "gone"
       \/ status[a] = "live" /\ uploaded_at[a] = "set"
    /\ compPc' = [compPc EXCEPT ![p] = "done"]
    /\ UNCHANGED <<rowVars, messageVars, lock, storeVars, compAtt, etag, scanned,
                   sendVars, cleanVars, redisLock, now, faults>>

\* Size and media type of the staged object are the reserved ones.
MetadataMatches(a) ==
    /\ staging[a] # NoObject
    /\ staging[a].bytes \in RightSize
    /\ staging[a].type = "declared"

CompleteStat(p) ==
    /\ compPc[p] = "stat"
    /\ \/ /\ MetadataMatches(compAtt[p])
          /\ compPc' = [compPc EXCEPT ![p] = "scan"]
          /\ etag' = [etag EXCEPT ![p] = staging[compAtt[p]].bytes]
          /\ UNCHANGED <<compAtt, scanned, lock>>
       \/ ~MetadataMatches(compAtt[p]) /\ CompleteEnds(p)
    /\ UNCHANGED <<rowVars, messageVars, storeVars, sendVars, cleanVars,
                   redisLock, now, faults>>

\* scanner.scan reads whatever the key holds when it is called.
ScanPasses(a) ==
    \/ ScanMode = "disabled"
    \/ staging[a].bytes \in Contents \ Infected

ScannedContent(a) == IF ScanMode = "clamav" THEN staging[a].bytes ELSE Null

CompleteScan(p) ==
    /\ compPc[p] = "scan"
    /\ \/ /\ ScanPasses(compAtt[p])
          /\ compPc' = [compPc EXCEPT ![p] = "copy"]
          /\ scanned' = [scanned EXCEPT ![p] = ScannedContent(compAtt[p])]
          /\ UNCHANGED <<compAtt, etag, lock>>
       \/ ~ScanPasses(compAtt[p]) /\ CompleteEnds(p)
    /\ UNCHANGED <<rowVars, messageVars, storeVars, sendVars, cleanVars,
                   redisLock, now, faults>>

\* Mutant: the copy checks that there is an object, not which one.
AnyStaged(p) == staging[compAtt[p]] # NoObject

\* copy_if_unchanged: a server-side copy conditional on the ETag of the stat.
StillStaged(p) == staging[compAtt[p]].bytes = etag[p]

CompleteCopy(p) ==
    /\ compPc[p] = "copy"
    /\ \/ /\ StillStaged(p)
          /\ objects' = [objects EXCEPT ![compAtt[p]] = staging[compAtt[p]]]
          /\ compPc' = [compPc EXCEPT ![p] = "commit"]
          /\ UNCHANGED <<compAtt, etag, scanned, lock>>
       \/ ~StillStaged(p) /\ CompleteEnds(p) /\ UNCHANGED objects
    /\ UNCHANGED <<rowVars, messageVars, staging, sendVars, cleanVars,
                   redisLock, now, faults>>

CompleteCommit(p) ==
    /\ compPc[p] = "commit"
    /\ storage_key' = [storage_key EXCEPT ![compAtt[p]] = "objects"]
    /\ uploaded_at' = [uploaded_at EXCEPT ![compAtt[p]] = "set"]
    /\ compPc' = [compPc EXCEPT ![p] = "unstage"]
    /\ lock' = Unlocked(p)
    /\ UNCHANGED <<status, scope, message_id, created_at, messageVars, storeVars,
                   compAtt, etag, scanned, sendVars, cleanVars, redisLock, now, faults>>

\* The staged object is removed; a failure is only logged.
CompleteUnstage(p) ==
    /\ compPc[p] = "unstage"
    /\ \/ staging' = [staging EXCEPT ![compAtt[p]] = NoObject]
       \/ UNCHANGED staging
    /\ compPc' = [compPc EXCEPT ![p] = "done"]
    /\ UNCHANGED <<rowVars, messageVars, lock, objects, compAtt, etag, scanned,
                   sendVars, cleanVars, redisLock, now, faults>>

\* Any exception, disconnect or crash before COMMIT.
CompleteAbort(p) ==
    /\ compPc[p] \in {"stat", "scan", "copy", "commit"}
    /\ CompleteEnds(p)
    /\ UNCHANGED <<rowVars, messageVars, storeVars, sendVars, cleanVars,
                   redisLock, now, faults>>

-----------------------------------------------------------------------------
(* MessageService.create with attachment_ids.                              *)

SendEnds(s) ==
    /\ sendPc' = [sendPc EXCEPT ![s] = "done"]
    /\ lock' = Unlocked(s)
    /\ UNCHANGED <<sender, want>>

\* Authorised sender; the ids are distinct and not too many.  A client only
\* knows ids that were reserved.  A message without attachments touches
\* nothing here.
SendBegin(s, sc, ids) ==
    /\ sendPc[s] = "new"
    /\ ids # {} /\ Cardinality(ids) =< MaxPerMessage
    /\ \A a \in ids : status[a] # "free"
    /\ sendPc' = [sendPc EXCEPT ![s] = "locking"]
    /\ sender' = [sender EXCEPT ![s] = sc]
    /\ want' = [want EXCEPT ![s] = ids]
    /\ UNCHANGED <<rowVars, messageVars, lock, storeVars, compVars, cleanVars,
                   redisLock, now, faults>>

\* lock_for_message: one SELECT ... FOR UPDATE takes the row locks one by one,
\* in no stated order, and skips rows that were deleted.
SendLock(s, a) ==
    /\ sendPc[s] = "locking"
    /\ a \in want[s]
    /\ lock[a] = Null
    /\ status[a] = "live"
    /\ lock' = [lock EXCEPT ![a] = s]
    /\ UNCHANGED <<rowVars, messageVars, storeVars, compVars, sendVars, cleanVars,
                   redisLock, now, faults>>

SelectReturned(s) == \A a \in want[s] : lock[a] = s \/ status[a] = "gone"

\* Mutant: the row may already belong to a message.
BindableAgain(a, sc) ==
    status[a] = "live" /\ scope[a] = sc /\ uploaded_at[a] = "set"

\* Mutant: any member may bind what another one uploaded.
BindableByAnyone(a, sc) ==
    status[a] = "live" /\ uploaded_at[a] = "set" /\ message_id[a] = Null

Bindable(a, sc) ==
    /\ status[a] = "live"
    /\ scope[a] = sc
    /\ uploaded_at[a] = "set"
    /\ message_id[a] = Null

\* The rest of the transaction: the message, its receipts, and message_id of
\* every row, committed together.
SendCommit(s) ==
    /\ sendPc[s] = "locking"
    /\ SelectReturned(s)
    /\ \A a \in want[s] : Bindable(a, sender[s])
    /\ messages' = [messages EXCEPT ![s] = want[s]]
    /\ sent_at' = [sent_at EXCEPT ![s] = now]
    /\ message_id' = [a \in Att |-> IF a \in want[s] THEN s ELSE message_id[a]]
    /\ SendEnds(s)
    /\ UNCHANGED <<status, scope, storage_key, uploaded_at, created_at, storeVars,
                   compVars, cleanVars, redisLock, now, faults>>

\* INVALID_ATTACHMENTS
SendReject(s) ==
    /\ sendPc[s] = "locking"
    /\ SelectReturned(s)
    /\ \E a \in want[s] : ~Bindable(a, sender[s])
    /\ SendEnds(s)
    /\ UNCHANGED <<rowVars, messageVars, storeVars, compVars, cleanVars,
                   redisLock, now, faults>>

\* PostgreSQL picks the request as a deadlock victim, or it dies.
SendAbort(s) ==
    /\ sendPc[s] = "locking"
    /\ SendEnds(s)
    /\ UNCHANGED <<rowVars, messageVars, storeVars, compVars, cleanVars,
                   redisLock, now, faults>>

-----------------------------------------------------------------------------
(* AttachmentCleanupWorker.run_once and cleanup_abandoned.                 *)

\* Mutant: the cutoff is the present.
CleanerAcquireNoTTL(c) ==
    /\ cleanPc[c] = "idle"
    /\ redisLock = Null
    /\ redisLock' = c
    /\ cleanPc' = [cleanPc EXCEPT ![c] = "select"]
    /\ cutoff' = [cutoff EXCEPT ![c] = now]
    /\ UNCHANGED <<rowVars, messageVars, lock, storeVars, compVars, sendVars,
                   batch, todo, deleted, now, faults>>

\* SET NX EX, then the cutoff, computed once for all batches.  A worker that
\* does not get the key sleeps for an interval and tries again.
CleanerAcquire(c) ==
    /\ cleanPc[c] = "idle"
    /\ redisLock = Null
    /\ redisLock' = c
    /\ cleanPc' = [cleanPc EXCEPT ![c] = "select"]
    /\ cutoff' = [cutoff EXCEPT ![c] = now - PendingTTL]
    /\ UNCHANGED <<rowVars, messageVars, lock, storeVars, compVars, sendVars,
                   batch, todo, deleted, now, faults>>

\* Mutant: the age is compared with =<.
AbandonedEarly(a, t) ==
    status[a] = "live" /\ message_id[a] = Null /\ created_at[a] =< t

\* Mutant: bound rows are swept too.
AbandonedEvenBound(a, t) == status[a] = "live" /\ created_at[a] < t

Abandoned(a, t) ==
    status[a] = "live" /\ message_id[a] = Null /\ created_at[a] < t

\* Mutant: a plain SELECT.
EligibleUnlocked(c) == {a \in Att : Abandoned(a, cutoff[c])}

\* FOR UPDATE SKIP LOCKED
Eligible(c) == {a \in Att : Abandoned(a, cutoff[c]) /\ lock[a] = Null}

\* ORDER BY created_at LIMIT BatchLimit
OldestOf(chosen, candidates) ==
    /\ chosen \subseteq candidates
    /\ Cardinality(chosen) =< BatchLimit
    /\ Cardinality(chosen) < BatchLimit => chosen = candidates
    /\ \A a \in chosen, b \in candidates \ chosen : created_at[a] =< created_at[b]

CleanerSelect(c, chosen) ==
    /\ cleanPc[c] = "select"
    /\ OldestOf(chosen, Eligible(c))
    /\ cleanPc' = [cleanPc EXCEPT ![c] = "remove"]
    /\ batch' = [batch EXCEPT ![c] = chosen]
    /\ todo' = [todo EXCEPT ![c] = chosen]
    /\ lock' = [a \in Att |-> IF a \in chosen THEN c ELSE lock[a]]
    /\ UNCHANGED <<rowVars, messageVars, storeVars, compVars, sendVars, cutoff,
                   deleted, redisLock, now, faults>>

\* Mutant: the object is truncated, not removed.
TruncateStored(a) ==
    /\ staging' = [staging EXCEPT ![a] = [bytes |-> Null, type |-> "declared"]]
    /\ UNCHANGED objects

\* storage.remove(storage_key)
RemoveStored(a) ==
    \/ /\ storage_key[a] = "pending"
       /\ staging' = [staging EXCEPT ![a] = NoObject]
       /\ UNCHANGED objects
    \/ /\ storage_key[a] = "objects"
       /\ objects' = [objects EXCEPT ![a] = NoObject]
       /\ UNCHANGED staging

\* The loop takes the rows in the order of the query.
NextInBatch(c, a) ==
    /\ cleanPc[c] = "remove"
    /\ a \in todo[c]
    /\ \A b \in todo[c] : created_at[a] =< created_at[b]
    /\ todo' = [todo EXCEPT ![c] = @ \ {a}]

\* The loop body succeeds: the object is gone and the row marked for deletion.
CleanerRemove(c, a) ==
    /\ NextInBatch(c, a)
    /\ RemoveStored(a)
    /\ deleted' = [deleted EXCEPT ![c] = @ \cup {a}]
    /\ UNCHANGED <<rowVars, messageVars, lock, compVars, sendVars, cleanPc,
                   cutoff, batch, redisLock, now, faults>>

\* The storage call raises, before or after MinIO carried it out: `continue`.
CleanerRemoveFails(c, a) ==
    /\ faults < MaxFaults
    /\ NextInBatch(c, a)
    /\ RemoveStored(a) \/ UNCHANGED storeVars
    /\ faults' = faults + 1
    /\ UNCHANGED <<rowVars, messageVars, lock, compVars, sendVars, cleanPc,
                   cutoff, batch, deleted, redisLock, now>>

\* The transaction of the batch ends, and with it its locks.
BatchEnds(c, pc) ==
    /\ lock' = Unlocked(c)
    /\ cleanPc' = [cleanPc EXCEPT ![c] = pc]
    /\ batch' = [batch EXCEPT ![c] = {}]
    /\ todo' = [todo EXCEPT ![c] = {}]
    /\ deleted' = [deleted EXCEPT ![c] = {}]
    /\ UNCHANGED cutoff

\* One COMMIT for the whole batch; another batch only after a full one.
CleanerCommit(c) ==
    /\ cleanPc[c] = "remove"
    /\ todo[c] = {}
    /\ status' = [a \in Att |-> IF a \in deleted[c] THEN "gone" ELSE status[a]]
    /\ BatchEnds(c, IF Cardinality(deleted[c]) < BatchLimit
                      THEN "release" ELSE "select")
    /\ UNCHANGED <<scope, storage_key, uploaded_at, message_id, created_at,
                   messageVars, storeVars, compVars, sendVars, redisLock, now, faults>>

\* RELEASE_LOCK_SCRIPT deletes the key only if it still holds this token.
CleanerRelease(c) ==
    /\ cleanPc[c] = "release"
    /\ redisLock' = IF redisLock = c THEN Null ELSE redisLock
    /\ cleanPc' = [cleanPc EXCEPT ![c] = "idle"]
    /\ cutoff' = [cutoff EXCEPT ![c] = 0]
    /\ UNCHANGED <<rowVars, messageVars, lock, storeVars, compVars, sendVars,
                   batch, todo, deleted, now, faults>>

\* The transaction fails and is rolled back: an exception (the `finally` still
\* releases the key) or the death of the process (the key is left to expire).
CleanerFails(c, pc) ==
    /\ faults < MaxFaults
    /\ cleanPc[c] \in {"select", "remove"}
    /\ BatchEnds(c, pc)
    /\ faults' = faults + 1
    /\ UNCHANGED <<rowVars, messageVars, storeVars, compVars, sendVars,
                   redisLock, now>>

\* Mutant: the key is set without EX.
RedisLockStays ==
    /\ redisLock \notin Cleaners \cup {Null}
    /\ redisLock' = Null
    /\ UNCHANGED <<rowVars, messageVars, lock, storeVars, compVars, sendVars,
                   cleanVars, now, faults>>

\* EX: the key expires by itself, even under a worker that is still busy.
RedisLockExpires ==
    /\ redisLock # Null
    /\ redisLock' = Null
    /\ UNCHANGED <<rowVars, messageVars, lock, storeVars, compVars, sendVars,
                   cleanVars, now, faults>>

Tick ==
    /\ now < MaxTime
    /\ now' = now + 1
    /\ UNCHANGED <<rowVars, messageVars, lock, storeVars, compVars, sendVars,
                   cleanVars, redisLock, faults>>

-----------------------------------------------------------------------------
Client ==
    \E a \in Att : \/ \E sc \in Scopes : Reserve(a, sc)
                   \/ \E o \in Objects : Put(a, o)

CompleteStarts(p) == \E a \in Att : CompleteBegin(p, a) \/ CompleteRepeats(p, a)

CompleteStep(p) ==
    \/ CompleteStat(p) \/ CompleteScan(p) \/ CompleteCopy(p)
    \/ CompleteCommit(p) \/ CompleteUnstage(p)

SendStarts(s) == \E sc \in Scopes, ids \in SUBSET Att : SendBegin(s, sc, ids)

SendStep(s) ==
    \/ \E a \in Att : SendLock(s, a)
    \/ SendCommit(s) \/ SendReject(s)

CleanerStep(c) ==
    \/ CleanerAcquire(c)
    \/ \E chosen \in SUBSET Att : CleanerSelect(c, chosen)
    \/ \E a \in Att : CleanerRemove(c, a)
    \/ CleanerCommit(c) \/ CleanerRelease(c)

CleanerFault(c) ==
    \/ \E a \in Att : CleanerRemoveFails(c, a)
    \/ \E pc \in {"idle", "release"} : CleanerFails(c, pc)

Next ==
    \/ Client
    \/ \E p \in Completions : CompleteStarts(p) \/ CompleteStep(p) \/ CompleteAbort(p)
    \/ \E s \in Sends : SendStarts(s) \/ SendStep(s) \/ SendAbort(s)
    \/ \E c \in Cleaners : CleanerStep(c) \/ CleanerFault(c)
    \/ RedisLockExpires
    \/ Tick

Spec == Init /\ [][Next]_vars

\* A request that began runs to its end (timeouts and PostgreSQL's deadlock
\* detector see to it), workers keep running, keys expire and time passes.
\* Clients owe nothing, and faults are finite.
Fairness ==
    /\ \A p \in Completions : WF_vars(CompleteStep(p))
    /\ \A s \in Sends : WF_vars(SendStep(s)) /\ WF_vars(SendAbort(s))
    /\ \A c \in Cleaners : WF_vars(CleanerStep(c))
    /\ WF_vars(RedisLockExpires)
    /\ WF_vars(Tick)

LiveSpec == Spec /\ Fairness

-----------------------------------------------------------------------------
(* Properties.                                                             *)

\* Type correctness of every variable.
TypeOK ==
    /\ status \in [Att -> {"free", "live", "gone"}]
    /\ scope \in [Att -> Scopes \cup {Null}]
    /\ storage_key \in [Att -> {"pending", "objects"}]
    /\ uploaded_at \in [Att -> {"null", "set"}]
    /\ message_id \in [Att -> Sends \cup {Null}]
    /\ created_at \in [Att -> Int]
    /\ messages \in [Sends -> SUBSET Att]
    /\ sent_at \in [Sends -> Int]
    /\ lock \in [Att -> Workers \cup {Null}]
    /\ staging \in [Att -> Objects \cup {NoObject}]
    /\ objects \in [Att -> Objects \cup {NoObject}]
    /\ compPc \in [Completions ->
                     {"new", "stat", "scan", "copy", "commit", "unstage", "done"}]
    /\ compAtt \in [Completions -> Att \cup {Null}]
    /\ etag \in [Completions -> Contents \cup {Null}]
    /\ scanned \in [Completions -> Contents \cup {Null}]
    /\ sendPc \in [Sends -> {"new", "locking", "done"}]
    /\ sender \in [Sends -> Scopes \cup {Null}]
    /\ want \in [Sends -> SUBSET Att]
    /\ cleanPc \in [Cleaners -> {"idle", "select", "remove", "release"}]
    /\ cutoff \in [Cleaners -> Int]
    /\ batch \in [Cleaners -> SUBSET Att]
    /\ todo \in [Cleaners -> SUBSET Att]
    /\ deleted \in [Cleaners -> SUBSET Att]
    /\ redisLock \in Cleaners \cup {Null}
    /\ now \in Nat
    /\ faults \in 0 .. MaxFaults

\* "Transactional, single-use attachment binding": the attachments of a
\* committed message are live, finalised rows that point back at it and at no
\* other, reserved by its sender in its conversation; and no row points at a
\* message that does not list it.  Sends, completions and sweeps race for the
\* same rows.
BindingConsistent ==
    /\ \A s \in Sends : \A a \in messages[s] :
          /\ status[a] = "live"
          /\ uploaded_at[a] = "set"
          /\ message_id[a] = s
          /\ scope[a] = sender[s]
    /\ \A a \in Att : message_id[a] # Null =>
          a \in messages[message_id[a]]

\* A completion of a that verified the content b: the stat found the reserved
\* size under the ETag of b, and the scanner, if there is one, found clean what
\* the key held when it read it.
VerifiedBy(p, a, b) ==
    /\ compAtt[p] = a
    /\ etag[p] = b /\ b \in RightSize
    /\ ScanMode = "clamav" => scanned[p] \in Contents \ Infected

\* What a member can download is under objects/ and, if it is there at all, is
\* what one completion verified: the content whose length the response announces
\* as Content-Length, promoted by a completion whose scan passed, although the
\* client can PUT other bytes between any two steps of the verification and after
\* it, and another completion or a sweep may work on the attachment as well.  The
\* scan reads the key again, so this does not say that it read the same content.
ServedContentVerified ==
    \A a \in Att : Downloadable(a) =>
        /\ storage_key[a] = "objects"
        /\ objects[a] # NoObject =>
              \E p \in Completions : VerifiedBy(p, a, objects[a].bytes)

\* "A still-valid presigned upload URL therefore cannot replace the scanned
\* object" (docs/operations.md): the content a member can download is the content
\* the scanner read.  The copy is conditional on the ETag of the stat, the read
\* of the scanner is not.
ScannedIsServed ==
    ScanMode = "clamav" =>
        \A a \in Att : Downloadable(a) /\ objects[a] # NoObject =>
            \E p \in Completions : compAtt[p] = a /\ scanned[p] = objects[a].bytes

\* A message sent while its attachment is younger than the pending TTL can
\* always be served, whatever fails in the sweeps.
PromptBindingServed ==
    \A s \in Sends : \A a \in messages[s] :
        sent_at[s] =< created_at[a] + PendingTTL =>
            objects[a].bytes \in RightSize

\* "Finalized attachments can be bound once" and their download streams "an
\* attachment from private storage": whatever a message binds has its bytes.
BoundDownloadable ==
    \A a \in Att : Downloadable(a) => objects[a].bytes \in RightSize

\* A bound attachment can only have lost its bytes to a sweep that failed half
\* way: as long as no storage call or transaction of a cleanup worker fails,
\* whatever a message binds can be served, however requests and sweeps race and
\* however old the attachment is (cleanup_abandoned removes the object before
\* the row, under the row's lock).
LossNeedsFault == faults = 0 => BoundDownloadable

\* Once its row is deleted, the key the row named stays empty: neither a late
\* PUT nor a completion still under way brings the object back (implied by
\* LeftoversExplained below, as the key is of the area the row was left in).
CleanedStaysClean ==
    \A a \in Att : status[a] = "gone" => Stored(a) = NoObject

\* "Unbound reservations are removed from MinIO and PostgreSQL after their
\* configured TTL": a swept reservation leaves nothing in MinIO.
NothingLeftBehind ==
    \A a \in Att : status[a] = "gone" =>
        staging[a] = NoObject /\ objects[a] = NoObject

\* What a swept reservation may leave in MinIO, and why: a staged object only if
\* the row was finalised (its removal failed, or a late PUT brought it back), a
\* delivery object only if a completion copied it and ended before its COMMIT.
LeftoversExplained ==
    \A a \in Att : status[a] = "gone" =>
        /\ staging[a] # NoObject => uploaded_at[a] = "set"
        /\ objects[a] # NoObject =>
              /\ uploaded_at[a] = "null"
              /\ \E p \in Completions : compAtt[p] = a /\ compPc[p] = "done"

\* Two workers whose Redis key expired under one of them still never sweep the
\* same row, and a swept row is neither bound nor being bound or verified.
SweepsDisjoint ==
    \A c \in Cleaners : \A a \in batch[c] :
        /\ status[a] = "live" /\ message_id[a] = Null
        /\ \A d \in Cleaners \ {c} : a \notin batch[d]
        /\ \A p \in Completions :
              compAtt[p] = a => compPc[p] \in {"unstage", "done"}
        /\ lock[a] = c

\* "Immutable delivery object": from the moment an attachment is downloadable
\* its row and its object never change again (of phase and object this is part
\* of OneLife below; here the columns are added).
DeliveryImmutable ==
    [][\A a \in Att : Downloadable(a) =>
          /\ UNCHANGED <<status[a], storage_key[a], message_id[a], scope[a]>>
          /\ UNCHANGED objects[a]]_vars

\* Where an attachment is in its life, as its row tells.
Phase(a) ==
    IF status[a] = "free" THEN "none"
    ELSE IF status[a] = "gone" THEN "deleted"
    ELSE IF message_id[a] # Null THEN "bound"
    ELSE IF uploaded_at[a] = "set" THEN "final" ELSE "reserved"
phases == [a \in Att |-> Phase(a)]

Life == INSTANCE AttachmentLife WITH
    Message <- Sends,
    Verified <- {o \in Objects : o.bytes \in RightSize}, Nothing <- NoObject,
    phase <- phases, object <- objects, attached <- messages

\* Row locks, transactions and storage calls add up to one life: requests and
\* sweeps implement AttachmentLife.  A message takes its attachments in one step,
\* each of them verified and taken once; nothing is finalised, bound or written
\* after it was deleted; what is bound keeps row and bytes.
OneLife == Life!Spec

\* Garbage collection: a reservation that stays unbound past the TTL is in the
\* end deleted (or was bound after all), in spite of worker deaths, expired
\* Redis keys, failed storage calls and requests that hold its row lock.
AbandonedRemoved ==
    \A a \in Att : Abandoned(a, now - PendingTTL) ~> ~Abandoned(a, now - PendingTTL)
=============================================================================
