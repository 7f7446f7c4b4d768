---------------------------- MODULE ReceiptsProofs ----------------------------
(***************************************************************************)
(* Proofs about Receipts, for any messages, sockets and faults.            *)
(***************************************************************************)
EXTENDS Receipts, TLAPS

USE ConstantAssumption

\* A request is where the rows say it is.
RequestsCommitted ==
    \A m \in Messages : /\ spc[m] = "new" <=> m \notin sent
                        /\ spc[m] = "marked" => m \in delivered

\* What a handler publishes is committed.
EventsCommitted ==
    \A c \in Sockets : /\ cpc[c] = "marked" => rows[c] \subseteq delivered
                       /\ cpc[c] = "acked" => rows[c] \subseteq read

\* When the sender's handler is done, a recipient's endpoint has marked the
\* message, is about to, or has yet to look.
EndpointAnswers ==
    \A m \in Messages, c \in up :
        spc[m] = "done" => \/ m \in delivered
                           \/ cpc[c] = "registered"
                           \/ cpc[c] = "selected" /\ m \in rows[c]

\* Whatever the page keeps was committed.
PageCommitted == \A m \in Messages : Justified(m, copy[m]) /\ Justified(m, update[m])

IInv == TypeOK /\ RequestsCommitted /\ EventsCommitted /\ EndpointAnswers /\ PageCommitted

-----------------------------------------------------------------------------
(* Lemmas about the page.                                                  *)

\* The status of a row is committed.
LEMMA StatusJustified ==
  ASSUME NEW m \in Messages
  PROVE  Justified(m, Status(m))
  BY DEF Justified, Status

\* What was justified stays so, as rows only gain columns.
LEMMA JustifiedLasts ==
  ASSUME sent \subseteq sent', delivered \subseteq delivered', read \subseteq read',
         NEW m, NEW s, Justified(m, s)
  PROVE  Justified(m, s)'
  BY DEF Justified

\* A receipt event of a committed status keeps the page behind the rows.
LEMMA UpdateReceiptKeeps ==
  ASSUME IInv, NEW m \in Messages, NEW s \in {"delivered", "read"},
         Justified(m, s), UpdateReceipt(m, s), UNCHANGED dbVars
  PROVE  /\ PageCommitted'
         /\ update' \in [Messages -> {"none", "delivered", "read"}]
         /\ UNCHANGED <<stored, copy>>
         /\ faults' \in 0 .. MaxFaults
  <1>1. CASE update' = [update EXCEPT ![m] = s] /\ UNCHANGED <<stored, copy, faults>>
    <2>1. PageCommitted'
      BY <1>1 DEF IInv, TypeOK, PageCommitted, Justified, dbVars
    <2> QED
      BY <1>1, <2>1 DEF IInv, TypeOK
  <1>2. CASE Fault /\ UNCHANGED <<update, stored, copy>>
    <2>1. PageCommitted'
      BY <1>2 DEF IInv, PageCommitted, Justified, dbVars
    <2> QED
      BY <1>2, <2>1 DEF IInv, TypeOK, Fault
  <1> QED
    BY <1>1, <1>2 DEF UpdateReceipt

\* So does a message object with a committed status.
LEMMA AddMessageKeeps ==
  ASSUME IInv, NEW m \in Messages, NEW s \in {"none", "sent", "delivered", "read"},
         Justified(m, s), AddRealtimeMessage(m, s), UNCHANGED dbVars
  PROVE  /\ PageCommitted'
         /\ stored' \subseteq Messages
         /\ copy' \in [Messages -> {"none", "sent", "delivered", "read"}]
         /\ UNCHANGED update
  BY DEF AddRealtimeMessage, IInv, TypeOK, PageCommitted, Justified, dbVars

-----------------------------------------------------------------------------
(* The invariant.                                                          *)

\* Initially there is nothing to tell.
LEMMA InvariantInit == Init => IInv
  BY DEF Init, IInv, TypeOK, RequestsCommitted, EventsCommitted, EndpointAnswers,
         PageCommitted, Justified, SendPC, SocketPC

\* The page alone moves.
LEMMA PageStepKeeps ==
  ASSUME IInv, UNCHANGED <<dbVars, spc, socketVars>>, faults' \in 0 .. MaxFaults,
         PageCommitted', stored' \subseteq Messages,
         copy' \in [Messages -> {"none", "sent", "delivered", "read"}],
         update' \in [Messages -> {"none", "delivered", "read"}]
  PROVE  IInv'
  BY DEF IInv, TypeOK, RequestsCommitted, EventsCommitted, EndpointAnswers,
         dbVars, socketVars

\* A new message is neither done nor on the page.
LEMMA CreateKeeps ==
  ASSUME IInv, NEW m \in Messages, NEW next \in {"committed", "posted"}, Create(m, next)
  PROVE  IInv'
  <1> USE DEF Create, Goto, socketVars, pageVars
  <1>1. TypeOK'
    BY DEF IInv, TypeOK, SendPC
  <1>2. RequestsCommitted'
    BY DEF IInv, TypeOK, RequestsCommitted
  <1>3. EventsCommitted'
    BY DEF IInv, EventsCommitted
  <1>4. EndpointAnswers'
    BY DEF IInv, TypeOK, EndpointAnswers
  <1>5. PageCommitted'
    BY JustifiedLasts DEF IInv, PageCommitted
  <1> QED
    BY <1>1, <1>2, <1>3, <1>4, <1>5 DEF IInv

\* A request goes on without writing: it may be done only if the message is
\* delivered, or no socket is registered.
LEMMA RequestGoesOn ==
  ASSUME IInv, NEW m \in Messages, NEW next \in SendPC \ {"new"}, spc[m] # "new",
         spc' = [spc EXCEPT ![m] = next],
         next = "marked" => m \in delivered,
         next = "done" => m \in delivered \/ up = {},
         UNCHANGED <<dbVars, socketVars>>, faults' \in 0 .. MaxFaults,
         PageCommitted', stored' \subseteq Messages,
         copy' \in [Messages -> {"none", "sent", "delivered", "read"}],
         update' \in [Messages -> {"none", "delivered", "read"}]
  PROVE  IInv'
  <1> USE DEF dbVars, socketVars
  <1>1. TypeOK'
    BY DEF IInv, TypeOK
  <1>2. RequestsCommitted'
    BY DEF IInv, TypeOK, RequestsCommitted
  <1>3. EventsCommitted'
    BY DEF IInv, EventsCommitted
  <1>4. EndpointAnswers'
    BY DEF IInv, TypeOK, EndpointAnswers
  <1> QED
    BY <1>1, <1>2, <1>3, <1>4 DEF IInv

\* Each step of a request keeps the invariant.
LEMMA SendStepKeeps ==
  ASSUME IInv, NEW m \in Messages, SendStep(m)
  PROVE  IInv'
  <1>0. /\ faults \in 0 .. MaxFaults /\ stored \subseteq Messages /\ PageCommitted
        /\ copy \in [Messages -> {"none", "sent", "delivered", "read"}]
        /\ update \in [Messages -> {"none", "delivered", "read"}]
    BY DEF IInv, TypeOK
  <1>1. CASE CreateByEvent(m) \/ CreateByPost(m)
    BY <1>1, CreateKeeps DEF CreateByEvent, CreateByPost
  <1>2. CASE PublishCreated(m)
    <2>1. Justified(m, "sent") /\ spc[m] # "new"
      BY <1>2 DEF PublishCreated, IInv, RequestsCommitted, Justified
    <2>2. CASE AddRealtimeMessage(m, "sent") /\ UNCHANGED faults
      BY <1>0, <1>2, <2>1, <2>2, AddMessageKeeps, RequestGoesOn
      DEF PublishCreated, Goto, SendPC
    <2>3. CASE Fault /\ UNCHANGED pageVars
      <3>1. PageCommitted'
        BY <1>0, <1>2, <2>3 DEF PublishCreated, PageCommitted, Justified, dbVars, pageVars
      <3>2. faults' \in 0 .. MaxFaults
        BY <1>0, <2>3 DEF Fault
      <3>3. UNCHANGED <<stored, copy, update>>
        BY <2>3 DEF pageVars
      <3> QED
        BY <1>0, <1>2, <2>1, <3>1, <3>2, <3>3, RequestGoesOn
        DEF PublishCreated, Goto, SendPC
    <2> QED
      BY <1>2, <2>2, <2>3 DEF PublishCreated
  <1>3. CASE Lookup(m) \/ SelectReceipt(m) \/ SendFails(m)
    <2>1. PageCommitted'
      BY <1>0, <1>3
      DEF Lookup, SelectReceipt, SendFails, PageCommitted, Justified, dbVars, pageVars
    <2>2. faults' \in 0 .. MaxFaults
      BY <1>0, <1>3 DEF Lookup, SelectReceipt, SendFails, Fault
    <2>3. UNCHANGED <<dbVars, socketVars, stored, copy, update>> /\ spc[m] # "new"
      BY <1>3 DEF Lookup, SelectReceipt, SendFails, pageVars
    <2>4. CASE Lookup(m)
      BY <1>0, <2>1, <2>2, <2>3, <2>4, RequestGoesOn DEF Lookup, Goto, SendPC
    <2>5. CASE SelectReceipt(m)
      BY <1>0, <2>1, <2>2, <2>3, <2>5, RequestGoesOn DEF SelectReceipt, Goto, SendPC
    <2>6. CASE SendFails(m)
      BY <1>0, <2>1, <2>2, <2>3, <2>6, RequestGoesOn DEF SendFails, Goto, SendPC
    <2> QED
      BY <1>3, <2>4, <2>5, <2>6
  <1>4. CASE CommitDelivered(m)
    <2> USE <1>4 DEF CommitDelivered, Goto, socketVars, pageVars
    <2>1. TypeOK'
      BY DEF IInv, TypeOK, RequestsCommitted, SendPC
    <2>2. RequestsCommitted'
      BY DEF IInv, TypeOK, RequestsCommitted
    <2>3. EventsCommitted'
      BY DEF IInv, EventsCommitted
    <2>4. EndpointAnswers'
      BY DEF IInv, TypeOK, EndpointAnswers
    <2>5. PageCommitted'
      BY JustifiedLasts DEF IInv, PageCommitted
    <2> QED
      BY <2>1, <2>2, <2>3, <2>4, <2>5 DEF IInv
  <1>5. CASE PublishDelivered(m)
    <2>1. m \in delivered /\ spc[m] # "new"
      BY <1>5 DEF PublishDelivered, IInv, RequestsCommitted
    <2>2. Justified(m, "delivered")
      BY <2>1 DEF Justified
    <2> QED
      BY <1>0, <1>5, <2>1, <2>2, UpdateReceiptKeeps, RequestGoesOn
      DEF PublishDelivered, Goto, SendPC
  <1> QED
    BY <1>1, <1>2, <1>3, <1>4, <1>5 DEF SendStep

\* A socket that leaves answers for nothing.
LEMMA LeaveKeeps ==
  ASSUME IInv, NEW c \in Sockets, Leave(c), faults' \in 0 .. MaxFaults
  PROVE  IInv'
  <1> USE DEF Leave, CGoto, dbVars, pageVars
  <1>1. TypeOK'
    BY DEF IInv, TypeOK, SocketPC
  <1>2. RequestsCommitted'
    BY DEF IInv, RequestsCommitted
  <1>3. EventsCommitted'
    BY DEF IInv, TypeOK, EventsCommitted
  <1>4. EndpointAnswers'
    BY DEF IInv, TypeOK, EndpointAnswers
  <1>5. PageCommitted'
    BY DEF IInv, PageCommitted, Justified
  <1> QED
    BY <1>1, <1>2, <1>3, <1>4, <1>5 DEF IInv

\* A handler of a socket goes on without writing to the database, and what it
\* holds in its new place is what that place asks for.
LEMMA SocketGoesOn ==
  ASSUME IInv, NEW c \in Sockets, NEW next \in SocketPC, NEW loaded \in SUBSET sent,
         cpc' = [cpc EXCEPT ![c] = next], rows' = [rows EXCEPT ![c] = loaded],
         next = "marked" => loaded \subseteq delivered,
         next = "acked" => loaded \subseteq read,
         up' \in {up, up \cup {c}},
         \/ next = "registered"
         \/ next = "selected" /\ sent \ delivered \subseteq loaded /\ up' = up
         \/ cpc[c] \notin {"new", "registered", "selected"} /\ up' = up,
         UNCHANGED <<dbVars, spc>>, faults' \in 0 .. MaxFaults, PageCommitted',
         UNCHANGED <<stored, copy>>,
         update' \in [Messages -> {"none", "delivered", "read"}]
  PROVE  IInv'
  <1> USE DEF dbVars
  <1>1. TypeOK'
    BY DEF IInv, TypeOK
  <1>2. RequestsCommitted'
    BY DEF IInv, RequestsCommitted
  <1>3. EventsCommitted'
    BY DEF IInv, TypeOK, EventsCommitted
  <1>4. EndpointAnswers'
    <2> SUFFICES ASSUME NEW m \in Messages, NEW d \in up', spc[m] = "done", m \notin delivered
                 PROVE  \/ cpc'[d] = "registered"
                        \/ cpc'[d] = "selected" /\ m \in rows'[d]
      BY DEF EndpointAnswers
    <2>1. m \in sent
      BY DEF IInv, RequestsCommitted
    <2>2. CASE d # c
      BY <2>2 DEF IInv, TypeOK, EndpointAnswers
    <2>3. CASE d = c
      BY <2>1, <2>3 DEF IInv, TypeOK, EndpointAnswers
    <2> QED
      BY <2>2, <2>3
  <1> QED
    BY <1>1, <1>2, <1>3, <1>4 DEF IInv, TypeOK

\* Each step of a socket's endpoint keeps the invariant.
LEMMA SocketStepKeeps ==
  ASSUME IInv, NEW c \in Sockets, SocketStep(c)
  PROVE  IInv'
  <1>0. /\ faults \in 0 .. MaxFaults /\ PageCommitted /\ rows[c] \in SUBSET sent
        /\ update \in [Messages -> {"none", "delivered", "read"}]
        /\ cpc \in [Sockets -> SocketPC] /\ rows \in [Sockets -> SUBSET sent]
    BY DEF IInv, TypeOK
  <1>1. ASSUME UNCHANGED <<dbVars, pageVars>>
        PROVE  PageCommitted' /\ UNCHANGED <<stored, copy, update>>
    BY <1>0, <1>1 DEF PageCommitted, Justified, dbVars, pageVars
  <1>2. ASSUME Fault PROVE faults' \in 0 .. MaxFaults
    BY <1>0, <1>2 DEF Fault
  <1>3. CASE Register(c)
    <2>1. faults' \in 0 .. MaxFaults /\ up' \in {up, up \cup {c}}
      BY <1>0, <1>2, <1>3 DEF Register
    <2>2. rows' = [rows EXCEPT ![c] = rows[c]]
      BY <1>0, <1>3 DEF Register
    <2>3. UNCHANGED <<dbVars, spc, pageVars>> /\ cpc' = [cpc EXCEPT ![c] = "registered"]
      BY <1>3 DEF Register, CGoto
    <2>4. PageCommitted' /\ UNCHANGED <<stored, copy, update>>
      BY <1>1, <2>3
    <2>5. "registered" \in SocketPC
      BY DEF SocketPC
    <2> QED
      BY <1>0, <2>1, <2>2, <2>3, <2>4, <2>5, SocketGoesOn
  <1>4. CASE SelectPending(c)
    <2>1. /\ rows' = [rows EXCEPT ![c] = sent \ delivered]
          /\ cpc' = [cpc EXCEPT ![c] = "selected"]
          /\ UNCHANGED <<dbVars, spc, up, pageVars, faults>>
      BY <1>4 DEF SelectPending, CGoto
    <2>2. PageCommitted' /\ UNCHANGED <<stored, copy, update>>
      BY <1>1, <2>1
    <2>3. "selected" \in SocketPC /\ sent \ delivered \in SUBSET sent
      BY DEF SocketPC
    <2> QED
      BY <1>0, <2>1, <2>2, <2>3, SocketGoesOn
  <1>5. CASE CommitPending(c)
    <2> USE <1>5 DEF CommitPending, CGoto, pageVars
    <2>1. TypeOK'
      BY DEF IInv, TypeOK, SocketPC
    <2>2. RequestsCommitted'
      BY DEF IInv, RequestsCommitted
    <2>3. EventsCommitted'
      BY DEF IInv, TypeOK, EventsCommitted
    <2>4. EndpointAnswers'
      BY DEF IInv, TypeOK, EndpointAnswers
    <2>5. PageCommitted'
      BY JustifiedLasts DEF IInv, PageCommitted
    <2> QED
      BY <2>1, <2>2, <2>3, <2>4, <2>5 DEF IInv
  <1>6. CASE PublishPending(c) \/ PublishRead(c)
    <2>1. PICK m \in rows[c], s \in {"delivered", "read"} :
            /\ cpc[c] = (IF s = "read" THEN "acked" ELSE "marked")
            /\ UpdateReceipt(m, s)
            /\ rows' = [rows EXCEPT ![c] = @ \ {m}]
            /\ UNCHANGED <<dbVars, spc, up, cpc>>
      BY <1>6 DEF PublishPending, PublishRead
    <2>2. m \in Messages /\ Justified(m, s)
      BY <1>0, <2>1 DEF IInv, TypeOK, EventsCommitted, Justified
    <2>3. /\ PageCommitted' /\ faults' \in 0 .. MaxFaults
          /\ UNCHANGED <<stored, copy>>
          /\ update' \in [Messages -> {"none", "delivered", "read"}]
      BY <2>1, <2>2, UpdateReceiptKeeps
    <2>4. cpc' = [cpc EXCEPT ![c] = cpc[c]] /\ rows' = [rows EXCEPT ![c] = rows[c] \ {m}]
      BY <1>0, <2>1
    <2>5. /\ cpc[c] = "marked" => rows[c] \ {m} \subseteq delivered
          /\ cpc[c] = "acked" => rows[c] \ {m} \subseteq read
      BY DEF IInv, EventsCommitted
    <2>6. cpc[c] \in SocketPC /\ rows[c] \ {m} \in SUBSET sent
      BY <1>0
    <2> QED
      BY <2>1, <2>3, <2>4, <2>5, <2>6, SocketGoesOn
  <1>7. CASE SelectRead(c)
    <2>1. PICK target \in sent :
            rows' = [rows EXCEPT ![c] = {m \in sent \ read : m =< target}]
      BY <1>7 DEF SelectRead
    <2>2. {m \in sent \ read : m =< target} \in SUBSET sent
      OBVIOUS
    <2>3. /\ cpc[c] = "ready" /\ cpc' = [cpc EXCEPT ![c] = "reading"]
          /\ UNCHANGED <<dbVars, spc, up, pageVars, faults>>
      BY <1>7 DEF SelectRead, CGoto
    <2>4. PageCommitted' /\ UNCHANGED <<stored, copy, update>>
      BY <1>1, <2>3
    <2>5. "reading" \in SocketPC
      BY DEF SocketPC
    <2> QED
      BY <1>0, <2>1, <2>2, <2>3, <2>4, <2>5, SocketGoesOn
  <1>8. CASE CommitRead(c)
    <2> USE <1>8 DEF CommitRead, CGoto, pageVars
    <2>1. TypeOK'
      BY DEF IInv, TypeOK, SocketPC
    <2>2. RequestsCommitted'
      BY DEF IInv, RequestsCommitted
    <2>3. EventsCommitted'
      BY DEF IInv, TypeOK, EventsCommitted
    <2>4. EndpointAnswers'
      BY DEF IInv, TypeOK, EndpointAnswers
    <2>5. PageCommitted'
      BY JustifiedLasts DEF IInv, PageCommitted
    <2> QED
      BY <2>1, <2>2, <2>3, <2>4, <2>5 DEF IInv
  <1>9. CASE Receive(c)
    <2>1. rows' = [rows EXCEPT ![c] = rows[c]]
      BY <1>0, <1>9 DEF Receive
    <2>2. /\ cpc[c] \in {"marked", "acked"} /\ cpc' = [cpc EXCEPT ![c] = "ready"]
          /\ UNCHANGED <<dbVars, spc, up, pageVars, faults>>
      BY <1>9 DEF Receive, CGoto
    <2>3. PageCommitted' /\ UNCHANGED <<stored, copy, update>>
      BY <1>1, <2>2
    <2>4. "ready" \in SocketPC
      BY DEF SocketPC
    <2> QED
      BY <1>0, <2>1, <2>2, <2>3, <2>4, SocketGoesOn
  <1>10. CASE Close(c)
    BY <1>0, <1>10, LeaveKeeps DEF Close
  <1>11. CASE Break(c)
    BY <1>2, <1>11, LeaveKeeps DEF Break
  <1>12. CASE ReadFails(c)
    <2>1. /\ cpc[c] \in {"reading", "acked"} /\ cpc' = [cpc EXCEPT ![c] = "ready"]
          /\ rows' = [rows EXCEPT ![c] = {}]
          /\ UNCHANGED <<dbVars, spc, up, pageVars>>
      BY <1>12 DEF ReadFails, CGoto
    <2>2. PageCommitted' /\ UNCHANGED <<stored, copy, update>>
      BY <1>1, <2>1
    <2>3. faults' \in 0 .. MaxFaults
      BY <1>2, <1>12 DEF ReadFails
    <2>4. "ready" \in SocketPC /\ {} \in SUBSET sent
      BY DEF SocketPC
    <2> QED
      BY <1>0, <2>1, <2>2, <2>3, <2>4, SocketGoesOn
  <1> QED
    BY <1>3, <1>4, <1>5, <1>6, <1>7, <1>8, <1>9, <1>10, <1>11, <1>12 DEF SocketStep

\* No step breaks the invariant.
LEMMA InvariantStep == IInv /\ [Next]_vars => IInv'
  <1> SUFFICES ASSUME IInv, [Next]_vars PROVE IInv'
    OBVIOUS
  <1>0. /\ faults \in 0 .. MaxFaults /\ stored \subseteq Messages
        /\ copy \in [Messages -> {"none", "sent", "delivered", "read"}]
        /\ update \in [Messages -> {"none", "delivered", "read"}]
    BY DEF IInv, TypeOK
  <1>1. \A m \in Messages : Status(m) \in {"none", "sent", "delivered", "read"}
    BY DEF Status
  <1>2. ASSUME NEW m \in Messages, Recover(m) PROVE IInv'
    <2>1. AddRealtimeMessage(m, Status(m)) /\ UNCHANGED <<dbVars, spc, socketVars, faults>>
      BY <1>2 DEF Recover
    <2>2. /\ PageCommitted' /\ stored' \subseteq Messages /\ UNCHANGED update
          /\ copy' \in [Messages -> {"none", "sent", "delivered", "read"}]
      BY <1>1, <2>1, StatusJustified, AddMessageKeeps
    <2> QED
      BY <1>0, <2>1, <2>2, PageStepKeeps
  <1>3. CASE FetchHistory
    <2>1. copy' \in [Messages -> {"none", "sent", "delivered", "read"}]
      BY <1>0, <1>1, <1>3 DEF FetchHistory
    <2>2. \A m \in Messages : Justified(m, copy'[m])
      BY <1>3, StatusJustified DEF FetchHistory, IInv, PageCommitted
    <2>3. PageCommitted'
      BY <1>3, <2>2 DEF FetchHistory, IInv, PageCommitted, Justified, dbVars
    <2> QED
      BY <1>0, <1>3, <2>1, <2>3, PageStepKeeps DEF FetchHistory
  <1>4. CASE UNCHANGED vars
    <2>1. PageCommitted'
      BY <1>4 DEF vars, IInv, PageCommitted, Justified, dbVars, pageVars
    <2> QED
      BY <1>0, <1>4, <2>1, PageStepKeeps DEF vars, pageVars
  <1> QED
    BY <1>2, <1>3, <1>4, SendStepKeeps, SocketStepKeeps DEF Next

\* The invariant holds throughout.
THEOREM Invariance == Spec => []IInv
  BY InvariantInit, InvariantStep, PTL DEF Spec

\* Every variable keeps its type.
THEOREM TypeCorrect == Spec => []TypeOK
  <1>1. IInv => TypeOK
    BY DEF IInv
  <1> QED
    BY <1>1, Invariance, PTL

\* A message that is sent while its recipient connects is marked delivered by
\* the one or the other, whatever the two handlers interleave.
THEOREM SomebodyMarks == Spec => []NoMissedDelivery
  <1>1. IInv => NoMissedDelivery
    BY DEF IInv, EndpointAnswers, NoMissedDelivery
  <1> QED
    BY <1>1, Invariance, PTL

\* The page shows no receipt that is not committed.
THEOREM PageIsBehind == Spec => []NeverOverclaims
  <1>1. IInv => NeverOverclaims
    BY DEF IInv, PageCommitted, NeverOverclaims, Shown
  <1> QED
    BY <1>1, Invariance, PTL

-----------------------------------------------------------------------------
(* The handlers implement the status that only advances.                   *)

\* Rows whose status does not change.
LEMMA SameRows ==
  ASSUME UNCHANGED dbVars
  PROVE  statuses' = statuses
  BY DEF dbVars, statuses, Status

\* Committing deliveries advances what was sent, and nothing that was read.
LEMMA DeliveryAdvances ==
  ASSUME TypeOK, NEW S \in SUBSET sent,
         delivered' = delivered \cup S, UNCHANGED <<sent, read>>
  PROVE  RS!Next
  <1> DEFINE T == S \ (delivered \cup read)
  <1>1. T \in SUBSET Messages
    BY DEF TypeOK
  <1>2. \A m \in T : statuses[m] \in {"sent"}
    BY DEF TypeOK, statuses, Status
  <1>3. statuses' = [m \in Messages |-> IF m \in T THEN "delivered" ELSE statuses[m]]
    BY DEF TypeOK, statuses, Status
  <1>4. RS!Deliver(T)
    BY <1>2, <1>3 DEF RS!Deliver, RS!Advance
  <1> QED
    BY <1>1, <1>4 DEF RS!Next

\* Committing reads advances whatever was not read.
LEMMA ReadAdvances ==
  ASSUME TypeOK, NEW S \in SUBSET sent,
         read' = read \cup S, delivered' = delivered \cup S, UNCHANGED sent
  PROVE  RS!Next
  <1> DEFINE T == S \ read
  <1>1. T \in SUBSET Messages
    BY DEF TypeOK
  <1>2. \A m \in T : statuses[m] \in {"sent", "delivered"}
    BY DEF TypeOK, statuses, Status
  <1>3. statuses' = [m \in Messages |-> IF m \in T THEN "read" ELSE statuses[m]]
    BY DEF TypeOK, statuses, Status
  <1>4. RS!ReadThrough(T)
    BY <1>2, <1>3 DEF RS!ReadThrough, RS!Advance
  <1> QED
    BY <1>1, <1>4 DEF RS!Next

\* A message is created once.
LEMMA CreationAdvances ==
  ASSUME TypeOK, RequestsCommitted, NEW m \in Messages, NEW next, Create(m, next)
  PROVE  RS!Next
  <1>1. m \notin sent /\ sent' = sent \cup {m} /\ UNCHANGED <<delivered, read>>
    BY DEF Create, RequestsCommitted
  <1>2. \A n \in {m} : statuses[n] \in {"none"}
    BY <1>1 DEF TypeOK, statuses, Status
  <1>3. statuses' = [n \in Messages |-> IF n \in {m} THEN "sent" ELSE statuses[n]]
    BY <1>1 DEF TypeOK, statuses, Status
  <1>4. RS!Send(m)
    BY <1>2, <1>3 DEF RS!Send, RS!Advance
  <1> QED
    BY <1>4 DEF RS!Next

\* Every step advances statuses or leaves them.
LEMMA StepAdvances == IInv /\ [Next]_vars => [RS!Next]_statuses
  <1> SUFFICES ASSUME IInv, [Next]_vars PROVE RS!Next \/ statuses' = statuses
    OBVIOUS
  <1>0. TypeOK /\ RequestsCommitted
    BY DEF IInv
  <1>1. ASSUME NEW m \in Messages, SendStep(m) PROVE RS!Next \/ UNCHANGED dbVars
    <2>1. CASE CreateByEvent(m) \/ CreateByPost(m)
      BY <1>0, <2>1, CreationAdvances DEF CreateByEvent, CreateByPost
    <2>2. CASE CommitDelivered(m)
      <3>1. {m} \in SUBSET sent
        BY <1>0, <2>2 DEF CommitDelivered, RequestsCommitted
      <3> QED
        BY <1>0, <2>2, <3>1, DeliveryAdvances DEF CommitDelivered
    <2>3. CASE \/ PublishCreated(m) \/ Lookup(m) \/ SelectReceipt(m)
               \/ PublishDelivered(m) \/ SendFails(m)
      BY <2>3 DEF PublishCreated, Lookup, SelectReceipt, PublishDelivered, SendFails
    <2> QED
      BY <1>1, <2>1, <2>2, <2>3 DEF SendStep
  <1>2. ASSUME NEW c \in Sockets, SocketStep(c) PROVE RS!Next \/ UNCHANGED dbVars
    <2>1. CASE CommitPending(c)
      <3>1. rows[c] \in SUBSET sent
        BY <1>0 DEF TypeOK
      <3> QED
        BY <1>0, <2>1, <3>1, DeliveryAdvances DEF CommitPending
    <2>2. CASE CommitRead(c)
      <3>1. rows[c] \in SUBSET sent
        BY <1>0 DEF TypeOK
      <3> QED
        BY <1>0, <2>2, <3>1, ReadAdvances DEF CommitRead
    <2>3. CASE \/ Register(c) \/ SelectPending(c) \/ PublishPending(c)
               \/ SelectRead(c) \/ PublishRead(c) \/ Receive(c)
               \/ Close(c) \/ Break(c) \/ ReadFails(c)
      BY <2>3 DEF Register, SelectPending, PublishPending, SelectRead, PublishRead,
                  Receive, Close, Break, ReadFails, Leave
    <2> QED
      BY <1>2, <2>1, <2>2, <2>3 DEF SocketStep
  <1>3. ASSUME NEW m \in Messages, Recover(m) PROVE UNCHANGED dbVars
    BY <1>3 DEF Recover
  <1>4. CASE FetchHistory \/ UNCHANGED vars
    BY <1>4, SameRows DEF FetchHistory, vars
  <1> QED
    BY <1>1, <1>2, <1>3, <1>4, SameRows DEF Next

\* Receipts implements ReceiptStatus: interleaved transactions without row
\* locks never take the status of a message back.
THEOREM Implementation == Spec => StatusOnlyAdvances
  <1>1. Init => RS!Init
    BY DEF Init, RS!Init, statuses, Status
  <1>2. IInv /\ [Next]_vars => [RS!Next]_statuses
    BY StepAdvances
  <1> QED
    BY <1>1, <1>2, Invariance, PTL DEF Spec, StatusOnlyAdvances, RS!Spec
=============================================================================
