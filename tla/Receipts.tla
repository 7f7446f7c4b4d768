------------------------------- MODULE Receipts -------------------------------
(***************************************************************************)
(* Receipts of the messages that one member, the sender, writes in a       *)
(* conversation: from the rows in PostgreSQL to what the sender's page     *)
(* shows.                                                                  *)
(*                                                                         *)
(* Three handlers write receipts, each in a transaction that selects rows, *)
(* sets their columns and commits: handle_message_send for a recipient it  *)
(* finds online, websocket_endpoint for what a connecting recipient has    *)
(* pending, and handle_message_read.  A row is not locked by the SELECT,   *)
(* so another transaction may commit in between; the UPDATE writes only    *)
(* the columns that were set.  Events follow the commit, one by one.       *)
(*                                                                         *)
(* Of a timestamp, only whether it is set is kept.  Messages are numbered  *)
(* by their cursor, (created_at, id), and may commit in any order.         *)
(***************************************************************************)
EXTENDS Integers

CONSTANTS
    Messages,   \* messages of the sender, in the order of their cursors
    Sockets,    \* WebSocket connections of the recipient, each used once
    MaxFaults   \* bound: handlers that fail, instances that die, events missed

ASSUME ConstantAssumption ==
    Messages \subseteq Nat /\ MaxFaults \in Nat

VARIABLES
    sent,       \* messages committed, each with its receipt row
    delivered,  \* rows with delivered_at
    read,       \* rows with read_at
    spc,        \* spc[m]: where the request that creates m is
    up,         \* sockets that presence lookups know of
    cpc,        \* cpc[c]: where the endpoint of socket c is
    rows,       \* rows[c]: receipts that c's handler has loaded
    stored,     \* messages in the page's realtimeMessages
    copy,       \* copy[m]: status in the message object the page shows
    update,     \* update[m]: receiptUpdates[m] of the page
    faults

dbVars == <<sent, delivered, read>>
socketVars == <<up, cpc, rows>>
pageVars == <<stored, copy, update>>
vars == <<dbVars, spc, socketVars, pageVars, faults>>

\* The status of a row.
Status(m) ==
    IF m \in read THEN "read"
    ELSE IF m \in delivered THEN "delivered"
    ELSE IF m \in sent THEN "sent" ELSE "none"

\* What the page shows below a message.
Shown(m) == IF update[m] # "none" THEN update[m] ELSE copy[m]

Init ==
    /\ sent = {} /\ delivered = {} /\ read = {}
    /\ spc = [m \in Messages |-> "new"]
    /\ up = {}
    /\ cpc = [c \in Sockets |-> "new"]
    /\ rows = [c \in Sockets |-> {}]
    /\ stored = {}
    /\ copy = [m \in Messages |-> "none"]
    /\ update = [m \in Messages |-> "none"]
    /\ faults = 0

Goto(m, next) == spc' = [spc EXCEPT ![m] = next]
CGoto(c, next) == cpc' = [cpc EXCEPT ![c] = next]
Fault == faults < MaxFaults /\ faults' = faults + 1

\* updateReceipt: the last event replaces the one before, unless the page is
\* not connected and misses it.
UpdateReceipt(m, s) ==
    /\ \/ update' = [update EXCEPT ![m] = s] /\ UNCHANGED faults
       \/ Fault /\ UNCHANGED update
    /\ UNCHANGED <<stored, copy>>

\* addRealtimeMessage: an object that is already there stays; the page
\* prefers it to the one from the history.
AddRealtimeMessage(m, s) ==
    /\ stored' = stored \cup {m}
    /\ copy' = IF m \in stored THEN copy ELSE [copy EXCEPT ![m] = s]
    /\ UNCHANGED update

-----------------------------------------------------------------------------
(* The sender's requests.                                                  *)

\* Mutant: the caller goes on without the commit.
CreateUncommitted(m, next) ==
    /\ spc[m] = "new"
    /\ Goto(m, next)
    /\ UNCHANGED <<dbVars, socketVars, pageVars, faults>>

\* MessageService.create commits the message and its receipt.
Create(m, next) ==
    /\ spc[m] = "new"
    /\ sent' = sent \cup {m}
    /\ Goto(m, next)
    /\ UNCHANGED <<delivered, read, socketVars, pageVars, faults>>

\* handle_message_send goes on after the commit.
CreateByEvent(m) == Create(m, "committed")

\* POST /conversations/{id}/messages returns.
CreateByPost(m) == Create(m, "posted")

\* message.created carries the receipts as they were created.
PublishCreated(m) ==
    /\ spc[m] = "committed"
    /\ \/ AddRealtimeMessage(m, "sent") /\ UNCHANGED faults
       \/ Fault /\ UNCHANGED pageVars
    /\ Goto(m, "pushed")
    /\ UNCHANGED <<dbVars, socketVars>>

\* Mutant: only the sockets of the sender's own instance count.
LookupLocal(m) ==
    /\ spc[m] = "pushed"
    /\ Goto(m, "online") \/ Goto(m, "done")
    /\ UNCHANGED <<dbVars, socketVars, pageVars, faults>>

\* online_user_ids: finds what is in up, and perhaps the lease of a socket that
\* is gone.  A lease that is lost while its socket stays is up to Presence.
Lookup(m) ==
    /\ spc[m] = "pushed"
    /\ \/ Goto(m, "online")
       \/ up = {} /\ Goto(m, "done")
    /\ UNCHANGED <<dbVars, socketVars, pageVars, faults>>

\* mark_delivered: the SELECT of the row, unless it is delivered already.
SelectReceipt(m) ==
    /\ spc[m] = "online"
    /\ Goto(m, IF m \in delivered THEN "done" ELSE "found")
    /\ UNCHANGED <<dbVars, socketVars, pageVars, faults>>

\* Mutant: the event goes out, but nothing is committed.
ReportDelivered(m) ==
    /\ spc[m] = "found"
    /\ Goto(m, "marked")
    /\ UNCHANGED <<dbVars, socketVars, pageVars, faults>>

\* Mutant: the UPDATE writes every column of the row as it was loaded.
CommitWholeRow(m) ==
    /\ spc[m] = "found"
    /\ delivered' = delivered \cup {m}
    /\ read' = read \ {m}
    /\ Goto(m, "marked")
    /\ UNCHANGED <<sent, socketVars, pageVars, faults>>

CommitDelivered(m) ==
    /\ spc[m] = "found"
    /\ delivered' = delivered \cup {m}
    /\ Goto(m, "marked")
    /\ UNCHANGED <<sent, read, socketVars, pageVars, faults>>

\* The event shows the row as loaded: delivered_at now, read_at null.
PublishDelivered(m) ==
    /\ spc[m] = "marked"
    /\ UpdateReceipt(m, "delivered")
    /\ Goto(m, "done")
    /\ UNCHANGED <<dbVars, socketVars>>

\* An exception, which dispatch_event catches, a lookup that Redis fails, or
\* the death of the instance.
SendFails(m) ==
    /\ spc[m] \in {"committed", "pushed", "online", "found", "marked"}
    /\ Fault
    /\ Goto(m, "failed")
    /\ UNCHANGED <<dbVars, socketVars, pageVars>>

-----------------------------------------------------------------------------
(* The recipient's sockets.                                                *)

\* ConnectionManager.connect; Redis may fail to take the lease.
Register(c) ==
    /\ cpc[c] = "new"
    /\ \/ up' = up \cup {c} /\ UNCHANGED faults
       \/ Fault /\ UNCHANGED up
    /\ CGoto(c, "registered")
    /\ UNCHANGED <<dbVars, spc, rows, pageVars>>

\* mark_pending_delivered: the SELECT.
SelectPending(c) ==
    /\ cpc[c] = "registered"
    /\ rows' = [rows EXCEPT ![c] = sent \ delivered]
    /\ CGoto(c, "selected")
    /\ UNCHANGED <<dbVars, spc, up, pageVars, faults>>

CommitPending(c) ==
    /\ cpc[c] = "selected"
    /\ delivered' = delivered \cup rows[c]
    /\ CGoto(c, "marked")
    /\ UNCHANGED <<sent, read, spc, up, rows, pageVars, faults>>

\* The events of the loaded rows, in the order of the SELECT: any.
PublishPending(c) ==
    /\ cpc[c] = "marked"
    /\ \E m \in rows[c] :
        /\ UpdateReceipt(m, "delivered")
        /\ rows' = [rows EXCEPT ![c] = @ \ {m}]
    /\ UNCHANGED <<dbVars, spc, up, cpc>>

\* mark_read_through: the SELECT, for a target the recipient has seen.
SelectRead(c) ==
    /\ cpc[c] = "ready"
    /\ \E target \in sent :
        rows' = [rows EXCEPT ![c] = {m \in sent \ read : m =< target}]
    /\ CGoto(c, "reading")
    /\ UNCHANGED <<dbVars, spc, up, pageVars, faults>>

\* read_at is now; delivered_at is now where it was null.
CommitRead(c) ==
    /\ cpc[c] = "reading"
    /\ read' = read \cup rows[c]
    /\ delivered' = delivered \cup rows[c]
    /\ CGoto(c, "acked")
    /\ UNCHANGED <<sent, spc, up, rows, pageVars, faults>>

\* The events, in the order of the cursors.
PublishRead(c) ==
    /\ cpc[c] = "acked"
    /\ \E m \in rows[c] :
        /\ \A n \in rows[c] : m =< n
        /\ UpdateReceipt(m, "read")
        /\ rows' = [rows EXCEPT ![c] = @ \ {m}]
    /\ UNCHANGED <<dbVars, spc, up, cpc>>

\* All events are out: the endpoint receives.
Receive(c) ==
    /\ cpc[c] \in {"marked", "acked"} /\ rows[c] = {}
    /\ CGoto(c, "ready")
    /\ UNCHANGED <<dbVars, spc, up, rows, pageVars, faults>>

Leave(c) ==
    /\ up' = up \ {c}
    /\ rows' = [rows EXCEPT ![c] = {}]
    /\ CGoto(c, "closed")
    /\ UNCHANGED <<dbVars, spc, pageVars>>

\* The recipient hangs up; disconnect.
Close(c) ==
    /\ cpc[c] = "ready"
    /\ Leave(c)
    /\ UNCHANGED faults

\* connection.ready cannot be sent, a transaction fails before the endpoint
\* receives, or the instance dies.
Break(c) ==
    /\ cpc[c] \notin {"new", "closed"}
    /\ Fault
    /\ Leave(c)

\* The transaction of a read fails, or the query of the members after it;
\* dispatch_event answers with an error, and no event goes out.
ReadFails(c) ==
    /\ cpc[c] \in {"reading", "acked"}
    /\ Fault
    /\ rows' = [rows EXCEPT ![c] = {}]
    /\ CGoto(c, "ready")
    /\ UNCHANGED <<dbVars, spc, up, pageVars>>

-----------------------------------------------------------------------------
(* The sender's page.                                                      *)

\* The history query: newer rows, under the objects of the realtime store.
FetchHistory ==
    /\ copy' = [m \in Messages |-> IF m \in stored THEN copy[m] ELSE Status(m)]
    /\ UNCHANGED <<dbVars, spc, socketVars, stored, update, faults>>

\* recoverLoadedConversations, after a reconnect.
Recover(m) ==
    /\ m \in sent
    /\ AddRealtimeMessage(m, Status(m))
    /\ UNCHANGED <<dbVars, spc, socketVars, faults>>

SendStep(m) ==
    \/ CreateByEvent(m) \/ CreateByPost(m) \/ PublishCreated(m) \/ Lookup(m)
    \/ SelectReceipt(m) \/ CommitDelivered(m) \/ PublishDelivered(m) \/ SendFails(m)

SocketStep(c) ==
    \/ Register(c) \/ SelectPending(c) \/ CommitPending(c) \/ PublishPending(c)
    \/ SelectRead(c) \/ CommitRead(c) \/ PublishRead(c) \/ Receive(c)
    \/ Close(c) \/ Break(c) \/ ReadFails(c)

Next ==
    \/ \E m \in Messages : SendStep(m) \/ Recover(m)
    \/ \E c \in Sockets : SocketStep(c)
    \/ FetchHistory

Spec == Init /\ [][Next]_vars

-----------------------------------------------------------------------------
(* Properties.                                                             *)

SendPC == {"new", "committed", "posted", "pushed", "online", "found", "marked",
           "done", "failed"}
SocketPC == {"new", "registered", "selected", "marked", "ready", "reading", "acked",
             "closed"}

\* Every variable has its type.
TypeOK ==
    /\ sent \subseteq Messages /\ delivered \subseteq sent /\ read \subseteq sent
    /\ spc \in [Messages -> SendPC]
    /\ up \subseteq Sockets
    /\ cpc \in [Sockets -> SocketPC]
    /\ rows \in [Sockets -> SUBSET sent]
    /\ stored \subseteq Messages
    /\ copy \in [Messages -> {"none", "sent", "delivered", "read"}]
    /\ update \in [Messages -> {"none", "delivered", "read"}]
    /\ faults \in 0 .. MaxFaults

\* No message falls between the two that mark it delivered, the sender's
\* handler and the recipient's endpoint: one commits before it looks for the
\* other, and so does the other, so one of them sees it.  It holds for a message
\* whose handler ran to its end and a socket that got its lease.
NoMissedDelivery ==
    \A m \in Messages, c \in up :
        spc[m] = "done" /\ cpc[c] \notin {"registered", "selected"} => m \in delivered

\* Status s of message m is no more than PostgreSQL holds.
Justified(m, s) ==
    \/ s = "none"
    \/ s = "sent" /\ m \in sent
    \/ s = "delivered" /\ m \in delivered
    \/ s = "read" /\ m \in read

\* The page never claims a delivery or a read that is not committed, whatever
\* events it misses and in whatever order rows, events and history arrive.
NeverOverclaims == \A m \in Messages : Justified(m, Shown(m))

statuses == [m \in Messages |-> Status(m)]

RS == INSTANCE ReceiptStatus WITH status <- statuses

\* Concurrent transactions on one row never take its status back: the three
\* handlers implement the abstract status of a message.
StatusOnlyAdvances == RS!Spec

\* No handler has work left.
Quiet ==
    /\ \A m \in Messages : spc[m] \in {"new", "posted", "done"}
    /\ \A c \in Sockets : cpc[c] \in {"new", "ready", "closed"}

\* README.md:5, "PostgreSQL remains the source of truth for ... receipts": a page
\* that missed no event ends with the status of the rows.
PageMatchesRows ==
    Quiet => \A m \in Messages : Shown(m) # "none" => Shown(m) = Status(m)
=============================================================================
