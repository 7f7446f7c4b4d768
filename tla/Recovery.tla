------------------------------- MODULE Recovery -------------------------------
(***************************************************************************)
(* One conversation as one browser tab sees it: the pages of history it    *)
(* reads over REST, the events its socket receives, the socket itself with *)
(* its retries, and the recovery by cursor that follows a reconnect.       *)
(*                                                                         *)
(* Messages are numbered by their cursor, (created_at, id).  created_at is *)
(* set before the COMMIT, by the clock of the instance that writes, so     *)
(* messages may commit in any order.  An event of a committed message may  *)
(* arrive at any time while the socket is open, more than once, or never:  *)
(* that is what the fan-out of module Delivery gives.                      *)
(***************************************************************************)
EXTENDS Integers, FiniteSets

CONSTANTS
    Message,       \* the messages of the conversation, numbered by cursor
    HistoryLimit,  \* rows of a history page (50)
    RecoverLimit,  \* rows of a recovery page (100)
    MaxPages,      \* pages of a recovery (20)
    Slot,          \* bound: as many recoveries are under way at once
    MaxFaults      \* bound: requests that fail

ASSUME ConstantAssumption ==
    /\ Message \subseteq Nat \ {0} /\ IsFiniteSet(Message)
    /\ HistoryLimit \in Nat \ {0} /\ RecoverLimit \in Nat \ {0}
    /\ MaxPages \in Nat \ {0}
    /\ MaxFaults \in Nat

None == 0  \* no cursor

VARIABLES
    rows,       \* committed messages
    link,       \* the tab's socket: closed, opening, open, or stopped for good
    retry,      \* a timer (or the first connect) is about to open a socket
    connected,  \* hasConnected
    token,      \* the tab's access token, which nobody renews: good or expired
    loaded,     \* the history query has data
    cache,      \* messages in the pages of the history query
    pages,      \* how many pages those are
    older,      \* cursor of the next older page, None at the end
    base,       \* rows when the first of those pages was read
    draft,      \* the refetch in progress: the same four, or none
    store,      \* realtimeMessages
    rec,        \* rec[s]: a recovery that a reconnect began
    faults

socketVars == <<link, retry, connected, token>>
historyVars == <<loaded, cache, pages, older, base, draft>>
vars == <<rows, socketVars, historyVars, store, rec, faults>>

-----------------------------------------------------------------------------
\* Pages.  A statement selects limit + 1 rows; the last one only tells that
\* there are more.
FirstRows(S, n) == {m \in S : Cardinality({k \in S : k < m}) < n}
LastRows(S, n) == {m \in S : Cardinality({k \in S : k > m}) < n}
Oldest(S) == CHOOSE m \in S : \A k \in S : m <= k
Newest(S) == CHOOSE m \in S : \A k \in S : k <= m

\* The page of history before a cursor, and its next_cursor.
RowsBefore(c) == IF c = None THEN rows ELSE {m \in rows : m < c}
PageBefore(c) == LastRows(RowsBefore(c), HistoryLimit)
\* Mutant: the row fetched beyond the limit becomes the cursor.
NextBeforeLookahead(c) ==
    IF Cardinality(RowsBefore(c)) > HistoryLimit
    THEN Oldest(LastRows(RowsBefore(c), HistoryLimit + 1)) ELSE None
NextBefore(c) ==
    IF Cardinality(RowsBefore(c)) > HistoryLimit
    THEN Oldest(PageBefore(c)) ELSE None

\* The page of recovery after a cursor, and its next_cursor.
RowsAfter(c) == {m \in rows : m > c}
PageAfter(c) == FirstRows(RowsAfter(c), RecoverLimit)
\* Mutant: has_more when the page is exactly full.
NextAfterFull(c) ==
    IF Cardinality(RowsAfter(c)) >= RecoverLimit
    THEN Newest(PageAfter(c)) ELSE None
\* Mutant: the row fetched beyond the limit becomes the cursor.
NextAfterLookahead(c) ==
    IF Cardinality(RowsAfter(c)) > RecoverLimit
    THEN Newest(FirstRows(RowsAfter(c), RecoverLimit + 1)) ELSE None
NextAfter(c) ==
    IF Cardinality(RowsAfter(c)) > RecoverLimit
    THEN Newest(PageAfter(c)) ELSE None

-----------------------------------------------------------------------------
\* What the tab shows, and where its newest message is.
Shown == cache \cup store
NoDraft == [active |-> FALSE, cache |-> {}, pages |-> 0, older |-> None, base |-> {}]
NoRecovery == [state |-> "none", start |-> None, base |-> {}, cursor |-> None, page |-> 0]

Init ==
    /\ rows \in SUBSET Message
    /\ link = "closed" /\ retry = TRUE /\ connected = FALSE /\ token = "good"
    /\ loaded = FALSE /\ cache = {} /\ pages = 0 /\ older = None /\ base = {}
    /\ draft = NoDraft
    /\ store = {}
    /\ rec = [s \in Slot |-> NoRecovery]
    /\ faults = 0

\* A request fails: the network or the server does, or the token is refused.
RequestFails ==
    \/ faults < MaxFaults /\ faults' = faults + 1
    \/ token = "expired" /\ UNCHANGED faults

-----------------------------------------------------------------------------
\* MessageService.create: the COMMIT of a message.
Commit(m) ==
    /\ m \notin rows
    /\ rows' = rows \cup {m}
    /\ UNCHANGED <<socketVars, historyVars, store, rec, faults>>

-----------------------------------------------------------------------------
\* The lifetime of the access token ends; the tab keeps using it.
TokenExpires ==
    /\ token = "good"
    /\ token' = "expired"
    /\ UNCHANGED <<rows, link, retry, connected, historyVars, store, rec, faults>>

\* RealtimeClient.open: a new socket, as often as a timer asks for one.
OpenSocket ==
    /\ link = "closed" /\ retry
    /\ link' = "opening" /\ retry' = FALSE
    /\ UNCHANGED <<rows, connected, token, historyVars, store, rec, faults>>

\* recoverLoadedConversations, for a conversation of which a message is known.
StartRecovery(s) ==
    /\ Shown # {} /\ rec[s].state # "run"
    /\ rec' = [rec EXCEPT ![s] =
          [state |-> "run", start |-> Newest(Shown), base |-> rows,
           cursor |-> Newest(Shown), page |-> 0]]

\* socket.onopen.  An expired token is refused before the socket is accepted.
\* A reconnect recovers the conversations that have a history query, with data
\* or still without; one that was never looked at has none.
OnOpen ==
    /\ link = "opening" /\ token = "good"
    /\ link' = "open" /\ connected' = TRUE
    /\ \/ connected /\ \E s \in Slot : StartRecovery(s)
       \/ (~connected \/ ~loaded \/ Shown = {}) /\ UNCHANGED rec
    /\ UNCHANGED <<rows, retry, token, historyVars, store, faults>>

\* Mutant: only an open socket is retried.
OnCloseOpenOnly ==
    /\ link \in {"opening", "open"}
    /\ \/ link' = "closed" /\ retry' = (link = "open")
       \/ link = "open" /\ link' = "stopped" /\ retry' = FALSE
    /\ UNCHANGED <<rows, connected, token, historyVars, store, rec, faults>>
\* socket.onclose, of an open socket or of one that never opened: a timer is
\* set, unless the close carries code 1008.  A handshake that is refused, also
\* with 1008, reaches the browser as 1006.
OnClose ==
    /\ link \in {"opening", "open"}
    /\ \/ link' = "closed" /\ retry' = TRUE
       \/ link = "open" /\ link' = "stopped" /\ retry' = FALSE
    /\ UNCHANGED <<rows, connected, token, historyVars, store, rec, faults>>

\* RealtimeClient.disconnect, when the page is left.  (Logging out clears the
\* stores as well, which no page shows any more.)
Disconnect ==
    /\ link # "stopped"
    /\ link' = "stopped" /\ retry' = FALSE
    /\ UNCHANGED <<rows, connected, token, historyVars, store, rec, faults>>

\* Mutant: an event of a message that never commits.
ReceiveUncommitted(m) ==
    /\ link = "open"
    /\ store' = store \cup {m}
    /\ UNCHANGED <<rows, socketVars, historyVars, rec, faults>>
\* socket.onmessage with message.created, addRealtimeMessage
Receive(m) ==
    /\ link = "open"
    /\ m \in rows
    /\ store' = store \cup {m}
    /\ UNCHANGED <<rows, socketVars, historyVars, rec, faults>>

-----------------------------------------------------------------------------
\* One page of the loop of recoverLoadedConversations.
RecoverPage(s) ==
    /\ rec[s].state = "run" /\ token = "good"
    /\ LET c == rec[s].cursor
           n == rec[s].page + 1
       IN /\ store' = store \cup PageAfter(c)
          /\ rec' = [rec EXCEPT
                ![s].state = IF NextAfter(c) = None THEN "done"
                             ELSE IF n = MaxPages THEN "capped" ELSE "run",
                ![s].cursor = IF NextAfter(c) = None THEN c ELSE NextAfter(c),
                ![s].page = n]
    /\ UNCHANGED <<rows, socketVars, historyVars, faults>>

\* A request of a recovery fails: Promise.all rejects, nobody retries.
RecoverFails(s) ==
    /\ rec[s].state = "run"
    /\ RequestFails
    /\ rec' = [rec EXCEPT ![s].state = "failed"]
    /\ UNCHANGED <<rows, socketVars, historyVars, store>>

-----------------------------------------------------------------------------
\* The first page of the history query.
LoadHistory ==
    /\ ~loaded /\ token = "good"
    /\ loaded' = TRUE /\ pages' = 1
    /\ cache' = PageBefore(None) /\ older' = NextBefore(None) /\ base' = rows
    /\ UNCHANGED <<rows, socketVars, draft, store, rec, faults>>

\* fetchNextPage: "Load older messages", offered while there is a next page.
LoadOlder ==
    /\ loaded /\ older # None /\ ~draft.active /\ token = "good"
    /\ cache' = cache \cup PageBefore(older) /\ older' = NextBefore(older)
    /\ pages' = pages + 1
    /\ UNCHANGED <<rows, socketVars, loaded, base, draft, store, rec, faults>>

\* A message sent over REST succeeds: its onSuccess invalidates the history,
\* which is read again from its first page.
Invalidate ==
    /\ loaded /\ ~draft.active /\ token = "good"
    /\ draft' = [active |-> TRUE, cache |-> PageBefore(None), pages |-> 1,
                 older |-> NextBefore(None), base |-> rows]
    /\ UNCHANGED <<rows, socketVars, loaded, cache, pages, older, base, store, rec, faults>>

\* The refetch reads as many pages as there were, one by one ...
RefetchPage ==
    /\ draft.active /\ draft.pages < pages /\ draft.older # None /\ token = "good"
    /\ draft' = [draft EXCEPT !.cache = @ \cup PageBefore(draft.older),
                              !.older = NextBefore(draft.older),
                              !.pages = @ + 1]
    /\ UNCHANGED <<rows, socketVars, loaded, cache, pages, older, base, store, rec, faults>>

\* ... and replaces them all at the end.
RefetchEnds ==
    /\ draft.active
    /\ draft.pages = pages \/ draft.older = None
    /\ cache' = draft.cache /\ pages' = draft.pages
    /\ older' = draft.older /\ base' = draft.base
    /\ draft' = NoDraft
    /\ UNCHANGED <<rows, socketVars, loaded, store, rec, faults>>

\* A page cannot be read (after the one retry of the query client): the old
\* pages stay.
RefetchFails ==
    /\ draft.active
    /\ RequestFails
    /\ draft' = NoDraft
    /\ UNCHANGED <<rows, socketVars, loaded, cache, pages, older, base, store, rec>>

-----------------------------------------------------------------------------
SocketStep ==
    \/ TokenExpires \/ OpenSocket \/ OnOpen \/ OnClose \/ Disconnect
    \/ \E m \in Message : Receive(m)
RecoveryStep == \E s \in Slot : RecoverPage(s) \/ RecoverFails(s)
HistoryStep ==
    LoadHistory \/ LoadOlder \/ Invalidate \/ RefetchPage \/ RefetchEnds \/ RefetchFails

Next == (\E m \in Message : Commit(m)) \/ SocketStep \/ RecoveryStep \/ HistoryStep

\* Timers fire and requests are answered.  A handshake may fail any number of
\* times, but not for ever with a good token (strong fairness: the network and
\* the server come back).  Nobody has to send, to scroll, to receive an event or
\* to log out, and the token need not expire.
Fairness ==
    /\ WF_vars(OpenSocket)
    /\ SF_vars(OnOpen)
    /\ \A s \in Slot : WF_vars(RecoverPage(s))
    /\ WF_vars(RefetchPage) /\ WF_vars(RefetchEnds)

Spec == Init /\ [][Next]_vars
FairSpec == Spec /\ Fairness

-----------------------------------------------------------------------------
TypeOK ==
    /\ rows \subseteq Message
    /\ link \in {"closed", "opening", "open", "stopped"}
    /\ token \in {"good", "expired"}
    /\ retry \in BOOLEAN /\ connected \in BOOLEAN /\ loaded \in BOOLEAN
    /\ cache \subseteq rows /\ base \subseteq rows /\ store \subseteq rows
    /\ pages \in Nat /\ older \in cache \cup {None}
    /\ draft \in [active : BOOLEAN, cache : SUBSET rows, pages : Nat,
                  older : rows \cup {None}, base : SUBSET rows]
    /\ rec \in [Slot -> [state : {"none", "run", "done", "capped", "failed"},
                         start : rows \cup {None}, base : SUBSET rows,
                         cursor : rows \cup {None}, page : 0 .. MaxPages]]
    /\ faults \in 0 .. MaxFaults

\* A recovery that ends without an error and below the page cap shows every
\* message that was committed when it began and lies after its cursor, however
\* its pages interleave with commits, events, other recoveries and refetches
\* (page_after, next_cursor and the loop of recoverLoadedConversations).
RecoveryCovers ==
    \A s \in Slot : rec[s].state = "done" =>
        \A m \in rec[s].base : m > rec[s].start => m \in Shown

\* A recovery gives up after MaxPages pages only if more messages than these
\* pages hold lie after its cursor (has_more compares limit + 1 rows).
CapMeansBacklog ==
    \A s \in Slot : rec[s].state = "capped" =>
        Cardinality({m \in rows : m > rec[s].start}) > MaxPages * RecoverLimit

\* Between the pages of history there is no hole: what was committed when the
\* first of them was read, and is not older than the oldest page, is in one of
\* them; at the end of the history that is everything (page_before, next_cursor
\* before the records are reversed, the refetch page by page).
HistoryContiguous ==
    loaded => \A m \in base : older = None \/ m >= older => m \in cache

\* A message that the tab has shown goes away only by being folded into the
\* older pages: when a refetch with more messages than before ends with fewer of
\* the old ones, those it drops lie before the cursor at which "Load older"
\* continues, and at the end of the history none is dropped (the refetch reads
\* page by page while messages commit, events arrive and a recovery adds its own).
OnlyOlderFolded ==
    [][\A m \in Shown \ Shown' : older' # None /\ m < older']_vars

\* As long as the token is good, the socket comes back after every close that
\* is not the user's or one with code 1008, however many handshakes fail on the
\* way (open, onclose).  With an expired token it never does: each handshake is
\* refused before it is accepted, the browser reports 1006 and not 1008, and the
\* client tries again for ever with the token it has.
Reconnects == []<>(link \in {"open", "stopped"} \/ token = "expired")

\* A recovery that ends well leaves no gap: every message committed when it
\* began is shown, from the oldest one on that the tab shows (what README.md
\* says of the lossy Pub/Sub).
GapsClosed ==
    \A s \in Slot : rec[s].state = "done" =>
        \A m \in rec[s].base : (\E k \in Shown : k < m) => m \in Shown
=============================================================================
