# Chatterbox: a verification development

TLA+ models of the backend of this repository (`src/backend/app`), the TLC runs
that check them on small instances, and TLAPS proofs of what matters most for
every size of the system. `PROJECT.json` lists components, runs, the source
lines behind every definition, hazards, findings and theorems.

## 1. The system

Several identical FastAPI processes ("instances") share PostgreSQL, Redis and
MinIO; a browser client talks to one instance over REST and a WebSocket. Within
an instance everything is cooperative `asyncio`: code runs without interruption
between two `await`s, and anything may happen at one. Across instances only
row locks and constraints of PostgreSQL, single Redis commands and scripts, and
single MinIO calls are atomic.

| component | state | operations | talks to |
|---|---|---|---|
| Attachments (`attachment_service`, `attachment_repository`, `storage`, `scanning`) | rows in `attachments`; objects under `pending/` and `objects/` | reserve, PUT, complete, download, bind (in message creation) | PostgreSQL, MinIO, ClamAV |
| Attachment cleanup (`attachment_cleanup`) | Redis key `locks:attachment-cleanup` | one worker per instance: acquire, sweep in batches, release | the same rows and objects |
| Messages (`message_service`, `message_repository`) | rows in `messages`; cursors | create, list before / after a cursor | Attachments, Receipts, fan-out |
| Receipts (`receipt_service`) | `delivered_at`, `read_at` per message and user | mark delivered (at send, at connect), mark read through a message | Messages, fan-out |
| Connections and presence (`manager`, `redis_backend`, `presence_service`) | per instance: sockets per user; Redis: a lease per user and instance, an index of users by expiry | connect, disconnect, heartbeat, sweep, lookup | WebSocket endpoint, Redis |
| Fan-out (`manager.send_to_users`, `_listen`) | Pub/Sub subscription, availability flag | publish, deliver, fall back to local delivery | every component that emits events |
| Typing (`manager`, `redis_backend`, `TypingTracker`) | deadlines and event data in Redis, or local timers | start, stop, sweep | fan-out |
| Rate limit | a counter per user, action and window | `allow_action` | Redis |
| Authentication (`auth_service`, `token_repository`) | refresh-token rows | register, login, refresh, logout | PostgreSQL |
| Conversations (`conversation_service`) | conversations and members, unique `direct_key` | create direct, list, authorise | PostgreSQL |
| Real-time client (`frontend/src/realtime`, `hooks`, `stores`) | socket, retry timer, message and presence stores | connect, reconnect with back-off, recover after a cursor, apply events | WebSocket, REST |

What is hard about it:

* **Two stores, one truth.** An attachment is a row and an object, and no
  transaction spans them; four kinds of actors work on both, and the client holds
  a URL that lets it overwrite the staged object at any time.
* **State read before an `await`, used after it.** `complete` reads the staged
  object three times; the presence sweep is six Redis commands; `disconnect`
  decides under the lock and runs its script after it.
* **Crashes and partial failures.** A sweep removes objects one by one and commits
  rows once; an instance dies with its sockets; a Redis call raises half way.
* **Things that must happen in the end.** Abandoned reservations go, offline users
  are reported, leases are renewed.

What makes each component correct: bindings are single-use and agree with the
messages; what is served was verified and never changes; sweeps neither touch
what is in use nor leave anything behind (Attachments). Lookups and events agree
with the sockets there are (Presence). The status of a message only advances, no
delivery is missed, and the sender's page claims nothing that is not stored
(Receipts). Events arrive in order and once (Delivery). Pages of history and
recovered messages leave no gap (Recovery). A typing indicator goes off, and the
rate limit holds and is lifted (Typing). A refresh token is replaced as a whole
or not at all (Sessions). Two users have one direct conversation (Accounts).

How the modules divide the system: `Delivery` is what every component that
publishes events relies on, and its result (in order, once, or not at all) is what
`Recovery`, `Receipts` and `Typing` assume of an event. `Accounts` composes
`Sessions` with the creation of conversations over the same users and handlers.
Three components have an abstract specification that the detailed one implements:
`AttachmentLife`, `ReceiptStatus` and `DirectConversations`.

## 2. Modules

| module | what it is |
|---|---|
| `AttachmentLife` | abstract specification: an attachment is finalised, bound to one message and fixed, or deleted before that |
| `Attachments` | the life of an attachment: client, completions, sends, sweepers; implements `AttachmentLife` |
| `AttachmentsProofs` | theorems about `Attachments` |
| `MCAttachments` | symmetry for TLC |
| `Presence` | the presence of one user over several instances |
| `PresenceProofs` | theorems about `Presence` |
| `MCPresence` | routes and symmetry for TLC |
| `ReceiptStatus` | abstract specification: the status of a message only advances |
| `Receipts` | receipts of one conversation: rows, the three handlers that write them, the sender's page; implements `ReceiptStatus` |
| `ReceiptsProofs` | theorems about `Receipts` |
| `MCReceipts` | symmetry for TLC |
| `Recovery` | one conversation in one browser tab: history pages, events, reconnects, recovery by cursor |
| `RecoveryProofs`, `MCRecovery` | theorems about it; its instance for TLC |
| `Delivery` | the fan-out of events through Redis Pub/Sub or around it, to the sockets of one user |
| `DeliveryProofs`, `MCDelivery` | theorems about it; its instance for TLC |
| `Typing` | the typing indicator of one user, with the rate limit of typing events |
| `TypingProofs`, `MCTyping` | theorems about it; two devices on two instances for TLC |
| `Sessions` | registration, login, and the rotation and revocation of refresh tokens |
| `SessionsProofs`, `MCSessions` | theorems about it; its instance for TLC |
| `DirectConversations` | abstract specification: get or create one conversation per pair |
| `Accounts` | `Sessions` with `create_direct`; implements `DirectConversations` |
| `AccountsProofs`, `MCAccounts` | theorems about it; symmetry for TLC |

### Attachments

State: one function per column of the table (`status`, `scope`, `storage_key`,
`uploaded_at`, `message_id`, `created_at`), the messages that sends committed, the
row locks, the two areas of the bucket, the program counter and local variables of
each worker, the Redis key and a clock. `scanned` is a history: the content that the
scanner of a completion read. `scope` stands for the pair (conversation,
member) that both the reservation and the send are authorised for. A content is one
byte string; its identity is its ETag.

| code | actions |
|---|---|
| `reserve` | `Reserve` |
| PUT to the presigned URL | `Put`, as long as `UrlLive` |
| `complete` | `CompleteBegin` (row lock), `CompleteStat`, `CompleteScan`, `CompleteCopy`, `CompleteCommit`, `CompleteUnstage`; `CompleteRepeats` for the 404 and the already finalised row; `CompleteAbort` for every exception before COMMIT |
| `MessageService.create` | `SendBegin`, `SendLock` (one row at a time, any order), `SendCommit`, `SendReject`, `SendAbort` |
| `run_once`, `cleanup_abandoned` | `CleanerAcquire`, `CleanerSelect`, `CleanerRemove` / `CleanerRemoveFails`, `CleanerCommit`, `CleanerRelease`; `CleanerFails` for a failed transaction or the death of the process |
| key expiry, time | `RedisLockExpires`, `Tick` |

Abstractions. Clocks agree. A PUT in flight lands before the URL's deadline. Members
of a conversation never change, as in the code. A worker does not go on after
PostgreSQL has dropped its session. `created_at` is written when the row is flushed,
after the URL was signed, so `created_at + UploadExpire` is the latest deadline.
The scanner reads what the key holds when it is called, as the code does, and not
the object of the stat; the copy is conditional on the ETag of the stat. A completion that
ends without its COMMIT forgets what it had read.

### Presence

Users share no key but the index, in which each has its own member, so one user is
modelled. State: the sockets of each instance (`conns`), the program counter of each
WebSocket endpoint (`pc`), of the disconnect that a fan-out runs for a stale socket
(`stalePc`) and of each maintenance loop (`mpc`), the leases and the index entry in
Redis, and `view`, the last presence event published to the peers. Lease scores are
kept as the time left, `Absent` when there is no member; a member with 0 left is
expired but still in the set, as in Redis until somebody removes it.

| code | actions |
|---|---|
| `ConnectionManager.connect` | `Accept` (under the lock), `ConnectEval` / `ConnectFails` |
| `websocket_endpoint` | `Announce`, `Close` |
| `ConnectionManager.disconnect` | `LocalRemove` (under the lock), `DisconnectEval` / `DisconnectFails` |
| `mark_user_offline` | `MarkOffline` |
| `deliver_to_user_local` on a closed socket | `StaleRemove`, `StaleEval`, `Hangup` |
| `_maintain`: heartbeat | `HeartbeatBegin`, `HeartbeatEval` |
| `_sweep_presence` | `SweepSearch`, `SweepClaim`, `SweepPurge`, `SweepRead`, `SweepRestore`, `SweepDelete`, `SweepRecheck`, `SweepNotify`: one step per Redis command |
| an exception in an iteration | `MaintainFails` |
| `online_user_ids` by a peer | `Lookup` |
| death of an instance, time | `Crash`, `Tick` |

Abstractions. Clocks agree. Redis as a whole stays reachable; single calls may raise.
The `EXPIRE` of twice the TTL on the presence key never fires before its members have
expired, and is left out. The two commands of `online_user_ids` are one step of
`SweepRecheck`; what runs between them is a `Lookup` before it.
`mark_user_offline` does not fail. The sweep uses one `now`: `expired` remembers
which leases had expired by then.

`Disruptive` and `lost`. At some instants only one instance's memory holds what has to
be done, and the code cannot recover from a crash or an error there. `lost` records what
went: the index entry that a sweep had claimed (`entry`), an offline event that a sweep or
an endpoint had decided and not yet published (`notice`), or an instance that served the
user while its lease was missing until the next heartbeat (`lease`). It is empty again
after the next connect script, which writes lease and entry. `presence_index` has crashes
and errors at every instant (`Disruptive = {"crash", "error"}`), and its properties name in
`lost` what they except. `presence_detect` leaves these instants out (`Disruptive = {}`),
since nothing tells the peers afterwards; `MCPresence_sweeperr.cfg` shows it.

### Receipts

One sender, one recipient (conversations have two members), the recipient on any
number of sockets. State: the rows (`sent`, `delivered`, `read`: a row of a message in
`sent` has `delivered_at` or `read_at` set when the message is in the other two), the
program counter of the request that creates each message (`spc`), of each socket's
endpoint (`cpc`), the rows its handler has loaded (`rows`), the sockets that presence
lookups know of (`up`), and the stores of the sender's page: `stored` and `copy` are the
message objects with the receipt in them, `update` is `receiptUpdates`.

| code | actions |
|---|---|
| `MessageService.create`, by event or by POST | `CreateByEvent`, `CreateByPost` (the latter publishes nothing, as in the code) |
| `handle_message_send` after the commit | `PublishCreated`, `Lookup`, `SelectReceipt`, `CommitDelivered`, `PublishDelivered`; `SendFails` for an exception or a crash between any two |
| `ConnectionManager.connect`, `websocket_endpoint` | `Register`, `SelectPending`, `CommitPending`, `PublishPending` (one event a step), `Receive`, `Close`, `Break` |
| `handle_message_read` | `SelectRead`, `CommitRead`, `PublishRead`, `ReadFails` |
| `useRealtimeChat` on events | `AddRealtimeMessage`, `UpdateReceipt`: parts of the publishing steps, which the page may miss |
| history query, recovery | `FetchHistory`, `Recover` |

Abstractions. Of a timestamp only whether it is set is kept: a later transaction may
overwrite `delivered_at` with a later time, which no property speaks of. No row has
`read_at` without `delivered_at`, so a loaded row without the latter is "sent", and the
event of its delivery says "delivered". The query for the target of a read and the
SELECT that follows are one step. Messages are numbered by their cursors and may commit
in any order. The page's history and recovery take any committed message at any time,
which is more than the page asks for. A lookup may find a lease whose socket is gone,
but finds every socket in `up`; when a lease is lost under a connected socket is the
matter of Presence (`MCPresence_reconnect.cfg`), and such a socket is not in `up`. The
events of one handler reach the page in the order of publication, as `send_to_users`
awaits each; that is `InOrderOnce` of Delivery, which also names the two failures that
break it.

### Recovery

State: the committed rows, the tab's socket with its retry timer and `hasConnected`, its
access token (`good` or `expired`: nothing in the page renews it), the pages of the history query (`cache`, `older`, and `draft` while they are read again), the
messages that came as events or by recovery (`store`), and one record per recovery
(`rec`), since the recovery that a reconnect begins is not cancelled by the next one;
`Slot` bounds how many run at once.
Messages are numbers: their place in the order of the cursor, (created_at, id).
`created_at` is set before the COMMIT, so any number may commit next.

| code | actions |
|---|---|
| `MessageService.create` | `Commit` |
| `RealtimeClient.open`, `onopen`, `onclose`, `onmessage`, `disconnect` | `OpenSocket`, `OnOpen`, `OnClose`, `Receive`, `Disconnect` |
| `get_websocket_user`, `apiRequest` with an expired token | `TokenExpires`; `OnOpen` and the reads of pages need a good token |
| `recoverLoadedConversations` with `page_after` | `StartRecovery` in `OnOpen`, `RecoverPage`, `RecoverFails` |
| `useInfiniteQuery` with `page_before` | `LoadHistory`, `LoadOlder` |
| `invalidateQueries` after a message sent over REST | `Invalidate`, `RefetchPage`, `RefetchEnds`, `RefetchFails` |

`base` (and `rec[s].base`) remember the rows at the first page: a statement speaks of what
was there then. Abstractions. Reading one recovery page and storing it is one step: what
commits in between can only be missed, and a page read later misses less. An event
arrives any number of times, in any order, or never. Handshakes fail and are retried without
bound. `get_websocket_user` refuses an expired token before the socket is accepted; the browser
reports that as 1006 and not as 1008, so `onclose` sets its timer and the client tries again
with the same token. Code 1008, after which the client gives up, can therefore reach it only on
an open socket, where this server does not send it but `onclose` provides for it. A reconnect
recovers the conversations that have a history query, whether or not it has data yet
(`getQueriesData`); one that was never looked at has none, and `OnOpen` allows both while
nothing is loaded. After `Disconnect` the page is gone; that logging out also clears the
query cache and the stores, which no page shows any more, is left out. A new login makes a new
client, which is the module's `Init`.

### Delivery

State: the requests that publish (`home`, `hpc`, `sent`), per instance the backend's
availability flag, its subscription at Redis, the events not yet read, and the listener's
place (`avail`, `sub`, `queue`, `lpc`), and the socket of the one user modelled with what it
received (`sock`, `got`). `due` and `blurred` are histories for the properties.

| code | actions |
|---|---|
| `send_to_users` | `Send`, then `RedisPublish`, or `PublishRaises` and `DeliverLocal`; `LocalRaises` |
| `_listen` | `Listen`, `ListenOther`, `ListenRaises`, `ListenBroken`, `Resubscribe`, `PingFails`, `SubscribeFails`, `DeafBreaks` |
| redis-py's own reconnect in `get_message` | `Reconnect` |
| `deliver_to_user_local` | `Receives`, `DropsStale`, parts of the above |
| `connect`, `disconnect`, a client that is gone | `Register`, `Disconnect`, `Vanish` |
| `lifespan` | `Init`, `Stop` |
| the connection breaks | `Drop` |

Abstractions. Events of other users are not followed, but their delivery may raise and take
the listener, or the handler, down with it (`ListenRaises`, `LocalRaises`). The wait between
two attempts of the listener is left to fairness. A PUBLISH that raises may have been
executed. What redis-py does is taken from how `_subscribe` and `_listen` use it: a `PubSub`
that has subscribed restores its channels when it connects again (`Reconnect`); one whose
SUBSCRIBE raised has recorded none, and `get_message` on it either raises, so that the loop
retries, or returns None for as long as its connection lives (`lpc` is then `deaf`).

### Typing

State: what each page has typed (`tab`), the events it has sent and how far the server is
with the first (`inbox`, `pc`), the typing state in Redis as ticks to its deadline, the timer
of each instance's `TypingTracker`, stops that a timer or a sweep has decided and not sent
(`firing`, `claimed`), the rate-limit counter with its expiry, and the peer's indicator
(`shown`). `recent[a]` is what Redis has admitted since the a-th last tick.

| code | actions |
|---|---|
| `updateDraft`, `stopTyping`, a page that is closed | `StartTyping`, `StopTyping`, `Vanish` |
| `allow_action`, `RATE_LIMIT_SCRIPT` | `Admit`, `AdmitUncounted` (without Redis everything is let through) |
| `typing_start`, `typing_started` | `WriteStart` / `WriteStartFails`, `Publish` / `PublishFails`, `Send` |
| `typing_stop`, `typing_stopped` | `WriteStop` / `WriteStopFails`, `Publish` / `PublishFails`, `Send` |
| `TypingTracker` | `FallBack`, `StopTracker`, `TimerFires`, `TimerSends` |
| `_sweep_typing`, `TYPING_SWEEP_SCRIPT` | `SweepClaim`, `SweepPublish` |
| Redis lost and found, death of an instance, time | `LoseRedis`, `FindRedis`, `Crash`, `Tick` |

Abstractions. An event that is published reaches the peer at once or never: delays and
order are Delivery's. A tick is longer than a sweep interval, so a state that has expired is
claimed before time goes on. The instance of the peer does not die. Two things the code
cannot make up for are recorded in `spoiled`: a stop that is lost (`lost`: published and not
delivered, delivered at an instance that is not the peer's, or held by an instance that
dies), and a state that is removed between the write of a start and its publication
(`overtaken`).

### Sessions and Accounts

State of `Sessions`: committed users and refresh tokens with owner, `revoked_at` and
expiry, and the request that each handler is serving. A request is a transaction at READ
COMMITTED: its reads see what is committed, its UPDATE locks the row and its INSERT the
key until it ends, and what it writes is there for others at its COMMIT. A name stands for
e-mail and username together. `Accounts` adds the conversations and the requests that
create them.

| code | actions |
|---|---|
| `register` | `BeginWithName`, `RegisterSelect`, `RegisterInsert` (409 on conflict), `Issue` |
| `login` | `BeginWithName`, `LoginSelect`, `Issue` |
| `refresh` | `BeginWithToken`, `TokenSelect` (`get_active`), `TokenRevoke`, `Issue` |
| `logout` | `BeginWithToken`, `TokenSelect`, `TokenRevoke`, `LogoutCommit` |
| `create_direct` | `BeginCreate`, `FindUser`, `FindDirect`, `Insert` (or IntegrityError), `CommitDirect`, `FindCreated`, `FindAgain` |
| a failing request, a lost answer, time | `Abort`, `AbortCreate`, `Answered`, `Expire` |

Abstractions. A password is right or wrong, a JWT is valid and names a token that was once
issued. Rows are never deleted, as in the code. `TokenLeft` keeps a token in reserve for
every request that may issue one, so that the finite set of tokens never decides what a
request does.

## 3. Runs

| run | instance | result |
|---|---|---|
| `attachments_race` | 1 attachment, 2 completions, 2 sends, 2 sweepers, 1 fault, contents `good` and `bad` (of the right size, infected) | all safety properties and the refinement hold |
| `attachments_sweep` | 1 attachment, 1 completion, 1 send, 2 sweepers, 2 faults, contents `good` and `long` (wrong size), fairness | `AbandonedRemoved` holds |
| `attachments_lost` | 1 of each, 1 fault | `BoundDownloadable` violated |
| `presence_index` | 2 instances, 2 sockets, stale sockets, 1 Redis error and a crash at any instant | `IndexCoversLeases`, `OnlineHasWitness` hold |
| `presence_detect` | 2 instances, 2 sockets, crash, fairness | `OfflineDetected`, `SnapshotHeals` hold |
| `receipts_status` | 2 messages, 2 sockets, 1 fault | all safety properties and the refinement hold |
| `recovery_pages` | 4 messages, pages of 2 (history) and 1 (recovery), 2 recovery pages, 1 recovery at once, any number of handshakes, an expiring token, 1 fault, fairness | all properties hold |
| `recovery_gap` | 3 messages, pages of 2, 1 recovery at once, no fault | `GapsClosed` violated |
| `delivery_fanout` | 2 instances, 1 handler with 2 events, 2 faults, fairness | all properties hold |
| `typing` | 2 devices on 2 instances, TTL 1, window 2, limit 1, 1 fault, fairness | all properties hold |
| `accounts` | 2 handlers, 2 names, 3 tokens, 2 conversations, 1 fault | all safety properties and the refinement hold |
| `sessions_replay` | 2 handlers, 1 name, 3 tokens, no fault | `SingleSuccessor` violated |

Further configurations stand beside these. They are not listed as runs, because each shows
one more behaviour of a module that the runs above cover:

| configuration | what it shows |
|---|---|
| `MCAttachments_bind` | 2 attachments, 2 members, 2 completions, 2 sends, no sweeper: `BindingConsistent` holds |
| `MCAttachments_orphan` | `NothingLeftBehind` violated |
| `MCAttachments_scan` | `ScannedIsServed` violated |
| `MCPresence_reconnect` | `LastDisconnectOnly` violated |
| `MCPresence_stale`, `MCPresence_sweeperr` | `OfflineDetected` violated, with stale sockets, and with a Redis error inside a sweep |
| `MCReceipts_regress` | `PageMatchesRows` violated |
| `MCDelivery_deaf` | `SubscribedAgain` violated, with one failed SUBSCRIBE |
| `MCTyping_stuck` | `NeverStuck` violated, without any fault |

Properties of Attachments.
`BindingConsistent`: the attachments of a committed message are live, finalised,
reserved by its sender, and point back at it; no row points elsewhere. The run has one
attachment and one scope; overlapping sets of attachments and several scopes are in
`MCAttachments_bind` and in the theorem.
`ServedContentVerified`: what can be downloaded was promoted by a completion that read its
size under its ETag and whose scan passed, although the staged object can be overwritten
between any two steps, by content of the right size as well.
`ScannedIsServed`: the scan read the content that is served. It does not hold.
`PromptBindingServed`: a message sent before its attachment reaches the pending TTL
has its object, whatever fails in a sweep.
`LossNeedsFault`: as long as no sweep fails, whatever a message binds can be downloaded,
however old it is and however requests and sweeps race for it.
`LeftoversExplained`: what outlives a deleted row in MinIO is the staged object of a
finalised row or the copy of a completion that ended before its COMMIT. It implies
`CleanedStaysClean`: nothing refills the key of a deleted row.
`OneLife`: `AttachmentLife`, with the phase of an attachment read off its row. A message
takes its attachments in one step, although their rows are locked one by one; bytes are
written before the row is final and removed before it is deleted. `DeliveryImmutable` (a
downloadable row and its object never change) adds the other columns of the row.
`SweepsDisjoint`: sweeps exclude each other, bindings and completions, although the
Redis lock may expire under its holder.
`AbandonedRemoved`: an abandoned reservation is in the end removed or bound.

Properties of Presence.
`IndexCoversLeases`: sweeps search only the index; every lease has its entry, or a
running sweep has taken the entry and will put it back, unless such a sweep was cut off
(`entry` in `lost`).
`OnlineHasWitness`: while the peers see the user online, an endpoint, the index entry or a
running sweep can still take it back. It is the safety part of `OfflineDetected`, and holds
with failing scripts, lookups and stale sockets. Two things can leave the user online for good,
and the property names them: a fan-out that disconnected a socket and dropped the answer, and a
crash or an error at one of the instants that `lost` records, among them the crash between the
decision that the user is offline and its publication.
`OfflineDetected`: when no socket is left for good, peers are in the end told, nothing
published later contradicts it, and no lease stays fresh.
`SnapshotHeals`: while a socket is open, lookups find the user online again and again.
It cannot be stronger: a racing disconnect or a sweep's DEL may remove the lease of a
connected user until the next heartbeat.

Properties of Receipts.
`StatusOnlyAdvances`: `ReceiptStatus` with `status[m]` read off the rows. The handlers
select without a lock and write later; it holds because each writes only columns it has
set, and sets none to null.
`NoMissedDelivery`: the sender's handler commits the message and then looks for the
recipient; the endpoint registers the socket and then looks for messages. When both are
through, one of them has marked the message.
`NeverOverclaims`: the page never shows more than is committed, whatever events it misses
and whichever of event, object and history comes last.
`PageMatchesRows`: a page that missed nothing shows the status of the rows once no handler
has work left. It does not hold.

Properties of Recovery.
`RecoveryCovers`: a recovery that ends without an error and below the page limit shows
everything that was committed when it began and lies after its cursor, although its pages
interleave with commits, events, other recoveries and refetches.
`CapMeansBacklog`: it is cut off after `MaxPages` pages only if more than those pages hold was
there.
`HistoryContiguous`: no hole between the pages of history, from whichever rows the cursors
were taken, and after a refetch that replaced them all.
`OnlyOlderFolded`: a refetch reads as many pages as before, of more messages than before. What
the tab shows no more afterwards lies before its cursor, where "Load older" finds it.
`Reconnects`: as long as the token is good, the socket is opened again after every close but the
user's own and one with code 1008, however many handshakes fail. With an expired token it never
is: the client retries for ever.
`GapsClosed`: what was committed when a recovery began and is younger than the oldest message
shown is shown when it ends. It does not hold.

Properties of Delivery.
`InOrderOnce`: a socket receives the events of a handler in order and none twice, although
each may go through Redis or around it, as long as no PUBLISH and no ping raised.
`NothingOvertakes`: an event due at an undisturbed instance has arrived or waits in the
channel, and none of its handler's later events has arrived before it.
`ReachesHealthy`: what Redis publishes arrives at every instance that is subscribed, knows it,
and has the socket open, unless it is disturbed before.
`ListenerRecovers`: in the end an instance is subscribed for good, and its flag set, unless it
was stopped, or its SUBSCRIBE failed on a connection that stays up, or a ping failed: then the
flag stays down until the next event.
`SubscribedAgain`: it is subscribed for good unless it was stopped. It does not hold.

Properties of Typing.
`IndicatorBacked`: while the indicator is shown, a state, a timer or a stop under way will put
it out. `IndicatorClears`: it does go off when nobody types any more, whether the devices sent
a stop, vanished or were refused by the limit. Both but for `spoiled`.
`BurstBounded`: in any span of a window's length Redis admits at most twice the limit; the
window is fixed, so once the limit would be wrong.
`LimitLifts`: a refused user is admitted again, however often it tried.
`NeverStuck`: `IndicatorClears` without the exception. It does not hold.

Properties of Sessions and Accounts.
`RotationAtomic`: a token is revoked only by a committed logout or with a committed successor;
no failure half way ends a session. `SuccessorsReplace`: a token and its successor are never
both good. `RevokedRefused`: a request that came in after the revocation is refused, although
`get_active` takes no lock. `SingleSuccessor`: a token has one successor. It does not hold.
`ConflictIsVisible`: who loses the race for a key finds the row of the winner; the `raise`
at the end of `create_direct` is never reached.
`OneConversation`: `DirectConversations`, with `direct[p]` read off the committed rows.

### What the violated properties show

1. `attachments_lost`. Objects are removed before the one commit that deletes their
   rows. After a failed commit the finalised row can still be bound to a message, and
   its download fails for ever. `PromptBindingServed` and `LossNeedsFault` are the parts
   that hold: it takes a send later than the pending TTL, and a sweep that failed.
2. `recovery_gap`. Recovery asks for what follows the newest message the page knows. A
   message whose event was lost before a later one arrived, or that was committed after
   one with a later (created_at, id), lies before that cursor. `RecoveryCovers` is the
   part that holds; the gap stays until the history is read again.
3. `sessions_replay`. Two refreshes of one token both find it active; the second UPDATE
   waits for the first, then revokes a revoked row, and both are answered with a pair.
   `RevokedRefused` is the part that holds: a request that begins after the first has
   committed is refused.

And in the further configurations:

* `MCAttachments_orphan`. Only the object named by `storage_key` is removed. A copy
  whose completion did not commit, or a staged object that could not be removed,
  outlives its row. `LeftoversExplained` says that there is no third way.
* `MCAttachments_scan`. The scanner opens the staged key anew. Content that was there at the
  stat and is there again at the copy has its ETag and is promoted, although the scanner read
  what was there in between. docs/operations.md:75-76 says that an upload URL "cannot replace
  the scanned object"; `ServedContentVerified` is the part that holds.
* `MCPresence_reconnect`. `disconnect` runs its Redis script outside the lock, and the
  sockets of an instance share one lease: the script of a leaving socket removes the
  lease a new one has just written, and offline is published with a socket open.
  The next heartbeat restores the lease, but nobody publishes online again.
* `MCPresence_stale`. `deliver_to_user_local` drops the answer of `disconnect`, and the
  endpoint's own `disconnect` then returns False: offline is never published.
* `MCPresence_sweeperr`. The index entry is removed before the leases are looked at;
  a Redis error in between makes the crash lease invisible to every later sweep.
* `MCReceipts_regress`. The sender's handler commits `delivered_at` and publishes it
  afterwards. The recipient, who has the message, reads it in between, and its
  handler's read event overtakes the delivered event. `updateReceipt` keeps the last
  event, and the page shows Delivered below a message that is read.
* `MCDelivery_deaf`. `_subscribe` closes the old connection and replaces the `PubSub` object
  before it sends SUBSCRIBE. When that raises, the loop goes on to read from an object that
  knows no channel: nothing arrives, nothing raises, and the flag stays down.
* `MCTyping_stuck`. One device writes the state and publishes its start; a stop of the
  other, or a sweep, removes the state in between and publishes first. The start comes
  last and nothing is left to take it back.

### Bounds, and why they are enough

* `MaxTime`: the clock stops. With a TTL of one tick, time 1 is the boundary (a row
  exactly at its TTL, a URL at its deadline) and time 2 lies past it. `Reserve` needs
  room for the row to be abandoned before the clock stops.
* `MaxFaults`: one fault suffices for every partial failure here; the liveness run
  allows two, so that a second sweep may fail too.
* Requests run once. Two of a kind are enough for every race on one row, since each
  property speaks of a row and at most two of its users. With two attachments,
  `MCAttachments_bind.cfg` covers overlapping sets of rows and the deadlock that
  `SendAbort` resolves. The number of attachments, requests and workers is unbounded
  in the theorems.
* `TTL = 1` for presence: a lease is fresh, expired or absent. Two sockets are enough
  for a departure and an arrival, and for two instances serving the user at once.
* Receipts: one message shows a race of two handlers on a row, two the order of a read
  through; each socket connects once, so that two sockets stand for two devices or for a
  reconnect. `MaxFaults` counts failed handlers and missed events together.
  `FetchHistory` is always possible, and deadlock checking stays on.
* Recovery: four messages over recovery pages of one and history pages of two let a
  recovery end, go on and be cut off, and the history have two pages and a third behind
  them; one request fails. Sockets, handshakes and reconnects have no bound. One recovery runs
  at once, and others follow it; several at once are in the theorems only. Deadlock checking is
  off, because a tab that was left and whose token has expired does nothing more.
* Delivery: two events are the least that can be out of order; with two instances one is
  the handler's own and one is not. Two faults let a connection break and a second failure
  meet the recovery from it.
* Typing: `TTL`, `Window` and `Limit` are at the least values at which a deadline, a window
  and a refusal happen; a window of two ticks lets a burst lie across its end. `MaxInbox`
  bounds what a page has sent and the server has not handled. `MCTyping` searches no
  further once `spoiled` is not empty (`Unspoiled`): what is said of the indicator holds
  there by itself, and the rate limit is counted by steps that `spoiled` does not affect.
* Accounts: two handlers are enough for every race on one row or key, two names for the
  one pair, and three tokens for two refreshes of one. The proofs have no bound.
* `delivery_fanout` switches deadlock checking off, because an instance may stop for good.
* Attachment runs switch deadlock checking off: requests run once and the clock is
  bounded, so their system really comes to an end. In Presence a lookup is always
  possible, and deadlock checking stays on.
* Symmetry is used in the safety runs only; workers of one kind, attachments, sockets
  and instances are interchangeable. In the liveness run of Presence the symmetry
  between instances is broken by hand: the first socket always reaches `i1`.

### Fairness

Attachments: a request that has begun goes on (a server-side timeout or PostgreSQL's
deadlock detector ends it otherwise: `SendAbort`), workers loop for ever
(`AttachmentCleanupWorker._run` catches every exception), Redis expires keys, time
passes. Clients owe nothing: `Reserve`, `Put` and the starts of requests are not fair.
Presence: endpoints and maintenance loops of running instances go on, and time passes.
The heartbeat and the sweep of a loop are strongly fair, because the loop tests both in
each iteration, while one may be disabled by another instance in between. A closed
socket is noticed by its endpoint (`Hangup`). Nobody has to connect or leave.
Recovery: timers fire and requests are answered; a handshake may fail any number of times, but
with a good token not for ever (`OnOpen` is strongly fair: the network and the server come back
in the end). Nobody has to send, scroll or log out, no event has to arrive, and the token need
not expire. Delivery: requests and listeners go on, and
the pause of a listener ends; no socket has to come or go. Typing: requests, timers and sweeps
go on, time passes, and a page that is open stops typing by its timer of 1.5 seconds. These are
weak but for the two named. The other modules have no liveness property.

## 4. Proofs

`AttachmentsProofs` proves, from `ClockAssumption` (an upload URL does not outlive the
pending TTL, which `config.py` guarantees by its bounds of at most 60 minutes and at
least one hour) and `SetAssumption` (worker kinds are disjoint, `Null` is none of them),
for any number of everything:

| theorem | statement |
|---|---|
| `TypeCorrect` | `[]TypeOK` |
| `Invariance` | `[]IInv` |
| `SingleUseBinding` | `[]BindingConsistent` |
| `VerifiedContent` | `[]ServedContentVerified` |
| `PromptMessagesServed` | `[]PromptBindingServed` |
| `SweptKeysStayEmpty` | `[]CleanedStaysClean` |
| `ExclusiveSweeps` | `[]SweepsDisjoint` |
| `ImmutableDelivery` | `DeliveryImmutable`, an action property |
| `NoLossWithoutFault` | `[]LossNeedsFault` |
| `OnlyKnownLeftovers` | `[]LeftoversExplained` |
| `Implementation` | `OneLife`: `Attachments` implements `AttachmentLife` |

The argument. None of the properties is inductive: that a sweep never meets a message
being sent rests on both holding the row's lock. `IInv` adds who holds which lock
(`LocksOwned`), how the columns of a row agree (`RowsCoherent`), what a completion knows
between its awaits (`CompletionsCoherent`: the ETag it carries is that of a content of the
right size, and the object it has copied has it), that a finalised object is there until
its row is old enough (`ContentKept`), what a sweep knows of its rows
(`SweepsCoherent`), and that a deleted row lies past its URL's deadline (`GoneRows`).
There is one lemma per action that it keeps `IInv` (`ReserveKeeps` ... `TickKeeps`), and
`InvariantStep` puts them together. Two facts more are inductive relative to `IInv`: while no
sweep has failed, a finalised row without its object is one that a sweep is about to delete
(`Intact`), and a delivery object was copied by a completion that committed, is about to, or
has ended (`Copied`). `VerifiedContent` needs two more: a completion past its scan holds a scan
that passed (`Verifying`), and what a finalised row serves was verified by a completion that
has not begun anything else since (`Vouched`). For the refinement, `PhasesMove` says what a step that writes some rows
does to the phases; `ClientLives`, `CompletionLives`, `SendLives` and `SweepLives` map
`Reserve` to `Reserve`, `CompleteCopy` to `Write`, `CompleteCommit` to `Finalise`, `SendCommit` to `Bind`,
`CleanerRemove` to `Remove` or a stutter, `CleanerCommit` to `Delete`, and the rest to
stutters. It needs from `IInv` that only a finalised row is bound and that a sweep's rows are
not bound. The theorems hold for
either scanner and any set of infected contents.

`PresenceProofs` proves, from `ConstantAssumption`, for any number of instances and
sockets and any TTL:

| theorem | statement |
|---|---|
| `TypeCorrect` | `[]TypeOK`, whatever the disruptions |
| `IndexCovered` | `[]IndexCoversLeases`, whatever the disruptions |
| `OnlineAnsweredFor` | `[]OnlineHasWitness`, whatever the disruptions |

`IndexCoversLeases` needs two facts more: only running instances are in the middle of an
iteration (`SweepersUp`), and the score a sweep writes back was read from a lease
(`RestoresLease`), so that the restore does give the entry back. Neither theorem assumes
anything of `Disruptive`: the steps `MaintainFails(i)` and `Crash(i)` either leave a witness or
put what they took into `lost`. `OnlineHasWitness` needs `IndexCoversLeases`, and that the sockets in the
manager are exactly those of endpoints that have not left (`ConnsExact`): an endpoint that is
not the last one leaves another behind, and the last one runs its script and sees the
answer.

`ReceiptsProofs` proves, from `ConstantAssumption` (messages are numbers), for any number
of messages, sockets and faults:

| theorem | statement |
|---|---|
| `TypeCorrect` | `[]TypeOK` |
| `Invariance` | `[]IInv` |
| `SomebodyMarks` | `[]NoMissedDelivery` |
| `PageIsBehind` | `[]NeverOverclaims` |
| `Implementation` | `StatusOnlyAdvances`: `Receipts` implements `ReceiptStatus` |

`NoMissedDelivery` speaks of handlers that are through, and the step that ends one of them
needs to know what the other still holds. `EndpointAnswers` says it for every instant: for
each message whose request is done, each socket in `up` has yet to select, holds the row, or
finds it delivered. `NeverOverclaims` needs `PageCommitted` (objects and events kept by the
page, also those hidden by others) and `EventsCommitted` (what a handler is about to
publish); `RequestsCommitted` ties a request's place to its row. `SendStepKeeps` and
`SocketStepKeeps` have one step per action. The refinement maps a commit of rows `S` to the
advance of those in `S` that it changes (`DeliveryAdvances`, `ReadAdvances`), and every other
step to a stutter.

`RecoveryProofs` proves, from `ConstantAssumption` (messages are finitely many numbers above
zero, page sizes and limits are positive), for any messages, recoveries at once and sizes:

| theorem | statement |
|---|---|
| `TypeCorrect` | `[]TypeOK`; in it, that nothing is shown that is not committed |
| `Invariance` | `[]IInv` |
| `RecoveryIsComplete` | `[]RecoveryCovers` |
| `CapNeedsBacklog` | `[]CapMeansBacklog` |
| `HistoryHasNoHole` | `[]HistoryContiguous` |
| `DroppedCanBeLoaded` | `OnlyOlderFolded`, an action property |

Everything rests on what a page is. `PageAfterIs` and `PageBeforeIs` say it once: a page has
no hole up to its last row, a next cursor is that row, there is one exactly when rows remain,
and then the page is full. They come from facts on the first and the last n rows of a finite
set (`FirstRowsClosed`, `FirstRowsFull`, `LastRowsClosed`, ...). `IInv` says of a running
recovery that what lies between its start and its cursor is shown (`Covers`) and that its
pages were full (`FullPages`), and of the history, shown or being read, that it has no hole
(`Contiguous`). `RecoverPageKeeps` is the one hard step. For `OnlyOlderFolded`, `DraftBased` adds that the
pages shown during a refetch were committed when its first page was read, so that the new pages,
which have no hole either, contain all of them from their cursor on.

`DeliveryProofs` proves, for any number of instances, handlers, events and faults:

| theorem | statement |
|---|---|
| `TypeCorrect` | `[]TypeOK` |
| `Invariance` | `[]IInv` |
| `OrderIsKept` | `[]InOrderOnce` |
| `NoHoleOnTheWay` | `[]NothingOvertakes` |

An event can go past those that still wait for the listener only if its handler sees the flag
down. `Sequential` says why that does no harm: while the flag is down the listener is not
reading (`Awaited`), and before it reads again it throws away what waits; and a handler that is
about to deliver directly has nothing in a queue that will be read (`DirectAlone`). The steps
fall into four kinds, with a lemma each: `NothingArrives`, `ListenerDelivers`,
`HandlerDelivers`, `RedisDelivers`. `Tracked` follows what is due: the instance reads its
channel and has its socket open, and the event waits or has arrived; that nothing overtakes it
is then the order of queue and socket that `IInv` already has.

`TypingProofs` proves, for any devices, instances, deadlines, limits and faults:

| theorem | statement |
|---|---|
| `TypeCorrect` | `[]TypeOK`; in it, that the counter of the limit never stands without an expiry |
| `Invariance` | `[]IInv` |
| `IndicatorHasEnd` | `[]IndicatorBacked` |
| `BurstsAreBounded` | `[]BurstBounded` |

The step that shows the indicator needs to know that its deadline is set before: `Covered` says
so of every start that is about to be sent. `Running` keeps devices, requests and timers to the
instances that run. `Metered` is the argument for the fixed window: what was admitted since it
began is at most its count and at most the limit, and what the span holds from before it is
at most the limit too, because it all comes from one earlier window.

`SessionsProofs` and `AccountsProofs` prove, from `ConstantAssumption` and `NothingAssumption`
(`None` is no token, pair or conversation), for any number of handlers, names, tokens and
conversations:

| theorem | statement |
|---|---|
| `SessionsInvariance` | `Spec => []SessionsInv`, of `Sessions` by itself |
| `Invariance` | `AccountsSpec => []IInv` |
| `TypeCorrect` | `[]TypeOK` |
| `RotationIsAtomic`, `SuccessorReplaces`, `RevokedStaysRefused` | `[]RotationAtomic`, `[]SuccessorsReplace`, `[]RevokedRefused` |
| `ConflictVisible` | `[]ConflictIsVisible` |
| `Implementation` | `OneConversation`: `Accounts` implements `DirectConversations` |

`SessionsInv` adds what a request knows of its token and its name at each statement (`Sound`).
Its step lemma is used as it stands for the session steps of `Accounts`; `IInv` adds what a
request for a conversation knows (`AsksInv`): after the conflict the row is there, ids and keys
of rows are unique, and two requests at their COMMIT differ in both. The refinement maps
`CommitDirect` to `Create`, `FindDirect`, `FindCreated` and `FindAgain` to `Reply`, and every
other step to `Ask`, `Fail` or a stutter.

Only model-checked: the liveness properties (`AbandonedRemoved`, `OfflineDetected`,
`SnapshotHeals`, `Reconnects`, `ReachesHealthy`, `ListenerRecovers`, `IndicatorClears`,
`LimitLifts`), which the prover cannot treat under fairness, and the violations. Every safety
property of a passing run is a theorem. `CleanedStaysClean` and `DeliveryImmutable` are theorems
only: `LeftoversExplained` and `OneLife`, which `attachments_race` checks, imply the one and
most of the other. Of two liveness properties the safety part is a theorem as well:
`OnlineHasWitness` of `OfflineDetected`, `NothingOvertakes` of `ReachesHealthy`.

## 5. Not modelled

* Presence without Redis: each instance then knows its own users only. The fan-out and the
  typing indicator are modelled in that state.
* The clearing of the stores at logout, the store of online users, the page of a recipient that decides
  when to send a read.
* The lists of conversations, members and unread counts, search and profiles: reads, or writes
  of one row that nothing else depends on.
* Health checks, metrics, tracing, formatting of errors, layout and routing: no state that the
  system acts on. Migrations run once before the program; their constraints are used.
* Password hashing and JWT encoding, abstracted to their outcome.
* Storage calls that keep failing for a whole batch of the oldest rows (they would keep younger
  rows from being selected): outside the bound on faults.

## 6. What could follow

1. Presence without Redis, and the change between the two modes.
2. The store of online users in the page, with the pushed events and the snapshots of Presence.
3. A sliding rate limit as the abstract specification that the fixed window approximates.
