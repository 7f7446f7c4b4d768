---------------------------- MODULE DeliveryProofs ----------------------------
(***************************************************************************)
(* Proofs about Delivery, for any number of instances, handlers, events    *)
(* and faults.                                                             *)
(*                                                                         *)
(* An event may take one of two ways to a socket.  The order holds because *)
(* an instance that delivers directly, its flag being down, is one whose   *)
(* listener will throw away what it has not read before it reads again.    *)
(***************************************************************************)
EXTENDS Delivery, TLAPS

-----------------------------------------------------------------------------
(* Sequences of events.                                                    *)

\* The events of each handler are in the order of publication.
Ordered(q) ==
    \A a, b \in DOMAIN q : (a < b /\ q[a][1] = q[b][1]) => q[a][2] < q[b][2]
\* e is a later event of its handler than all in q.
After(q, e) == \A a \in DOMAIN q : q[a][1] = e[1] => q[a][2] < e[2]
\* All in q are earlier than all in r.
Precedes(q, r) == \A b \in DOMAIN r : After(q, r[b])
\* h has published at most n events of its own that are in q.
UpTo(q, h, n) == \A a \in DOMAIN q : q[a][1] = h => q[a][2] <= n

LEMMA EventType ==
  ASSUME NEW e \in Event
  PROVE  e[1] \in Handler /\ e[2] \in Nat /\ e = <<e[1], e[2]>>
  BY DEF Event

LEMMA AppendFacts ==
  ASSUME NEW q \in Seq(Event), NEW e \in Event
  PROVE  /\ Append(q, e) \in Seq(Event)
         /\ DOMAIN Append(q, e) = DOMAIN q \cup {Len(q) + 1}
         /\ \A a \in DOMAIN q : Append(q, e)[a] = q[a] /\ a <= Len(q) /\ a \in Nat /\ q[a] \in Event
         /\ Append(q, e)[Len(q) + 1] = e
         /\ Len(q) \in Nat
  OBVIOUS

LEMMA TailFacts ==
  ASSUME NEW q \in Seq(Event), q # <<>>
  PROVE  /\ Tail(q) \in Seq(Event) /\ Head(q) \in Event /\ Head(q) = q[1] /\ 1 \in DOMAIN q
         /\ \A a \in DOMAIN Tail(q) : a + 1 \in DOMAIN q /\ Tail(q)[a] = q[a + 1] /\ a \in Nat /\ a > 0
  OBVIOUS

LEMMA AppendOrdered ==
  ASSUME NEW q \in Seq(Event), NEW e \in Event, Ordered(q), After(q, e)
  PROVE  Ordered(Append(q, e))
  <1> DEFINE r == Append(q, e)
  <1>1. /\ DOMAIN r = DOMAIN q \cup {Len(q) + 1} /\ r[Len(q) + 1] = e /\ Len(q) \in Nat
        /\ \A a \in DOMAIN q : r[a] = q[a] /\ a <= Len(q) /\ a \in Nat
    BY AppendFacts
  <1> HIDE DEF r
  <1>2. ASSUME NEW a \in DOMAIN r, NEW b \in DOMAIN r, a < b, r[a][1] = r[b][1]
        PROVE  r[a][2] < r[b][2]
    <2>1. a \in DOMAIN q
      BY <1>1, <1>2
    <2>2. CASE b \in DOMAIN q
      BY <1>1, <1>2, <2>1, <2>2 DEF Ordered
    <2>3. CASE b = Len(q) + 1
      BY <1>1, <1>2, <2>1, <2>3 DEF After
    <2> QED
      BY <1>1, <2>2, <2>3
  <1>3. Ordered(r)
    BY <1>2 DEF Ordered
  <1> QED
    BY <1>3 DEF r

LEMMA TailOrdered ==
  ASSUME NEW q \in Seq(Event), q # <<>>, Ordered(q)
  PROVE  Ordered(Tail(q)) /\ \A b \in DOMAIN Tail(q) : Head(q)[1] = Tail(q)[b][1] => Head(q)[2] < Tail(q)[b][2]
  <1>1. /\ Head(q) = q[1] /\ 1 \in DOMAIN q
        /\ \A a \in DOMAIN Tail(q) : a + 1 \in DOMAIN q /\ Tail(q)[a] = q[a + 1] /\ a \in Nat /\ a > 0
    BY TailFacts
  <1>2. \A a, b \in DOMAIN Tail(q) : a < b => a + 1 < b + 1
    BY <1>1
  <1>3. Ordered(Tail(q))
    BY <1>1, <1>2 DEF Ordered
  <1>4. \A b \in DOMAIN Tail(q) : 1 < b + 1
    BY <1>1
  <1> QED
    BY <1>1, <1>3, <1>4 DEF Ordered

-----------------------------------------------------------------------------
(* The invariant.                                                          *)

\* The last event of h that may be out: one whose delivery raised ends h.
Out(h) == IF hpc[h] = "done" THEN Length ELSE sent[h]

\* What arrived at i, and what its listener is still going to deliver.
Arrived(i) ==
    /\ Ordered(got[i])
    /\ \A h \in Handler : UpTo(got[i], h, Out(h))
Awaited(i) ==
    lpc[i] = "read" =>
        /\ avail[i]
        /\ Ordered(queue[i]) /\ Precedes(got[i], queue[i])
        /\ \A h \in Handler : UpTo(queue[i], h, Out(h))
\* A handler that delivers directly has nothing under way to its own instance.
DirectAlone(h) ==
    (hpc[h] = "local" /\ lpc[home[h]] = "read") => UpTo(queue[home[h]], h, 0)

Sequential ==
    blurred = {} =>
        /\ \A i \in Instance : Arrived(i) /\ Awaited(i)
        /\ \A h \in Handler : DirectAlone(h)

IInv == TypeOK /\ Sequential

LEMMA Types ==
  ASSUME TypeOK
  PROVE  /\ \A i \in Instance : got[i] \in Seq(Event) /\ queue[i] \in Seq(Event)
         /\ \A h \in Handler : /\ sent[h] \in Nat /\ sent[h] <= Length /\ Out(h) \in Nat
                               /\ home[h] \in Instance
                               /\ hpc[h] # "done" => sent[h] < Length /\ Current(h) \in Event
         /\ Length \in Nat
  <1>1. Length \in Nat
    BY ConstantAssumption
  <1>2. \A h \in Handler : sent[h] \in 0 .. Length /\ home[h] \in Instance
    BY DEF TypeOK
  <1>3. \A h \in Handler : hpc[h] # "done" => sent[h] < Length
    BY DEF TypeOK
  <1>4. \A h \in Handler : hpc[h] # "done" => Current(h) \in Event
    BY <1>1, <1>2, <1>3 DEF Current, Event
  <1> QED
    BY <1>1, <1>2, <1>3, <1>4 DEF TypeOK, Out

\* A sequence of events that is empty, or stays below a bound that grows.
LEMMA EmptyFacts ==
  /\ Ordered(<<>>)
  /\ \A q : Precedes(q, <<>>)
  /\ \A h, n : UpTo(<<>>, h, n)
  BY DEF Ordered, Precedes, UpTo

LEMMA UpToGrows ==
  ASSUME NEW q \in Seq(Event), NEW h, NEW m \in Nat, NEW n \in Nat, m <= n, UpTo(q, h, m)
  PROVE  UpTo(q, h, n)
  <1>1. \A a \in DOMAIN q : q[a] \in Event
    OBVIOUS
  <1> QED
    BY <1>1, EventType DEF UpTo

-----------------------------------------------------------------------------
(* Steps, by what they do to the sequences.                                *)

\* Nothing arrives: listeners lose what they hold or keep it.
LEMMA NothingArrives ==
  ASSUME IInv, TypeOK', got' = got, home' = home, sent' = sent,
         blurred' = {} => blurred = {},
         \A h \in Handler : hpc[h] = "done" => hpc'[h] = "done",
         \A h \in Handler : hpc'[h] = "local" =>
            hpc[h] = "local" \/ ~avail[home[h]],
         \A i \in Instance : lpc'[i] = "read" =>
            \/ lpc[i] = "read" /\ avail'[i] = avail[i] /\ queue'[i] = queue[i]
            \/ lpc[i] = "read" /\ avail'[i] /\ queue'[i] = queue[i]
            \/ avail'[i] /\ queue'[i] = <<>>
            \/ lpc[i] = "read" /\ avail'[i] = avail[i] /\ queue'[i] = <<>>
  PROVE  Sequential'
  <1> SUFFICES ASSUME blurred' = {} PROVE /\ \A i \in Instance : Arrived(i)' /\ Awaited(i)'
                                          /\ \A h \in Handler : DirectAlone(h)'
    BY DEF Sequential
  <1>1. /\ \A i \in Instance : Arrived(i) /\ Awaited(i)
        /\ \A h \in Handler : DirectAlone(h)
    BY DEF IInv, Sequential
  <1>2. TypeOK
    BY DEF IInv
  <1>3. \A h \in Handler : Out(h) \in Nat /\ Out(h)' \in Nat /\ Out(h) <= Out(h)'
    BY <1>2, Types DEF Out
  <1>4. ASSUME NEW i \in Instance
        PROVE  Arrived(i)'
    BY <1>1, <1>2, <1>3, Types, UpToGrows DEF Arrived
  <1>5. ASSUME NEW i \in Instance, lpc'[i] = "read"
        PROVE  /\ avail'[i]
               /\ queue'[i] = <<>> \/ (lpc[i] = "read" /\ queue'[i] = queue[i])
    BY <1>1, <1>5 DEF Awaited
  <1>6. ASSUME NEW i \in Instance
        PROVE  Awaited(i)'
    <2> SUFFICES ASSUME lpc'[i] = "read"
                 PROVE  /\ avail'[i]
                        /\ Ordered(queue'[i]) /\ Precedes(got[i], queue'[i])
                        /\ \A h \in Handler : UpTo(queue'[i], h, Out(h)')
      BY DEF Awaited
    <2>1. CASE queue'[i] = <<>>
      BY <1>5, <2>1, EmptyFacts
    <2>2. CASE lpc[i] = "read" /\ queue'[i] = queue[i]
      BY <1>1, <1>2, <1>3, <1>5, <2>2, Types, UpToGrows DEF Awaited
    <2> QED
      BY <1>5, <2>1, <2>2
  <1>7. ASSUME NEW h \in Handler
        PROVE  DirectAlone(h)'
    <2> SUFFICES ASSUME hpc'[h] = "local", lpc'[home[h]] = "read"
                 PROVE  UpTo(queue'[home[h]], h, 0)
      BY DEF DirectAlone
    <2>1. home[h] \in Instance
      BY <1>2, Types
    <2>2. CASE queue'[home[h]] = <<>>
      BY <2>2, EmptyFacts
    <2>3. CASE lpc[home[h]] = "read" /\ queue'[home[h]] = queue[home[h]]
      <3>1. avail[home[h]]
        BY <1>1, <2>1, <2>3 DEF Awaited
      <3> QED
        BY <1>1, <2>3, <3>1 DEF DirectAlone
    <2> QED
      BY <1>5, <2>1, <2>2, <2>3
  <1> QED
    BY <1>4, <1>6, <1>7

\* A listener takes an event out of its queue, and it may arrive.
LEMMA ListenerDelivers ==
  ASSUME IInv, TypeOK', NEW i \in Instance, lpc[i] = "read", queue[i] # <<>>,
         queue' = [queue EXCEPT ![i] = Tail(@)],
         got' = got \/ got' = [got EXCEPT ![i] = Append(@, Head(queue[i]))],
         UNCHANGED handlerVars, blurred' = blurred,
         \A j \in Instance : lpc'[j] = "read" => lpc[j] = "read" /\ (avail'[j] = avail[j] \/ avail'[j])
  PROVE  Sequential'
  <1> SUFFICES ASSUME blurred' = {} PROVE /\ \A j \in Instance : Arrived(j)' /\ Awaited(j)'
                                          /\ \A h \in Handler : DirectAlone(h)'
    BY DEF Sequential
  <1>1. /\ \A j \in Instance : Arrived(j) /\ Awaited(j)
        /\ \A h \in Handler : DirectAlone(h)
    BY DEF IInv, Sequential
  <1>2. TypeOK
    BY DEF IInv
  <1>3. /\ \A h \in Handler : Out(h)' = Out(h) /\ Out(h) \in Nat
        /\ home' = home /\ hpc' = hpc
    BY <1>2, Types DEF Out, handlerVars
  <1> DEFINE q == queue[i]
  <1> DEFINE g == got[i]
  <1> DEFINE e == Head(q)
  <1>4. g \in Seq(Event) /\ q \in Seq(Event) /\ q # <<>>
    BY <1>2, Types
  <1>5. /\ e \in Event /\ e = q[1] /\ 1 \in DOMAIN q /\ Tail(q) \in Seq(Event)
        /\ \A a \in DOMAIN Tail(q) : a + 1 \in DOMAIN q /\ Tail(q)[a] = q[a + 1]
    BY <1>4, TailFacts
  <1>6. /\ Ordered(g) /\ Ordered(q) /\ Precedes(g, q)
        /\ \A h \in Handler : UpTo(g, h, Out(h)) /\ UpTo(q, h, Out(h))
    BY <1>1 DEF Arrived, Awaited
  <1>7. /\ got'[i] = g \/ got'[i] = Append(g, e)
        /\ queue'[i] = Tail(q)
        /\ \A j \in Instance : j # i => got'[j] = got[j] /\ queue'[j] = queue[j]
    BY <1>2 DEF TypeOK
  <1> HIDE DEF q, g, e
  <1>8. Ordered(Append(g, e))
    BY <1>4, <1>5, <1>6, AppendOrdered DEF Precedes
  <1>9. /\ Ordered(Tail(q)) /\ Precedes(g, Tail(q)) /\ Precedes(Append(g, e), Tail(q))
    <2>1. /\ Ordered(Tail(q))
          /\ \A b \in DOMAIN Tail(q) : e[1] = Tail(q)[b][1] => e[2] < Tail(q)[b][2]
      BY <1>4, <1>6, TailOrdered DEF e
    <2>2. Precedes(g, Tail(q))
      BY <1>5, <1>6 DEF Precedes
    <2>3. /\ DOMAIN Append(g, e) = DOMAIN g \cup {Len(g) + 1} /\ Append(g, e)[Len(g) + 1] = e
          /\ \A a \in DOMAIN g : Append(g, e)[a] = g[a]
      BY <1>4, <1>5, AppendFacts
    <2>4. Precedes(Append(g, e), Tail(q))
      BY <2>1, <2>2, <2>3 DEF Precedes, After
    <2> QED
      BY <2>1, <2>2, <2>4
  <1>10. \A h \in Handler, n \in Nat : UpTo(q, h, n) => UpTo(Tail(q), h, n)
    BY <1>5 DEF UpTo
  <1>11. \A h \in Handler : UpTo(Append(g, e), h, Out(h))
    <2>1. /\ DOMAIN Append(g, e) = DOMAIN g \cup {Len(g) + 1} /\ Append(g, e)[Len(g) + 1] = e
          /\ \A a \in DOMAIN g : Append(g, e)[a] = g[a]
      BY <1>4, <1>5, AppendFacts
    <2> QED
      BY <1>5, <1>6, <2>1 DEF UpTo
  <1>12. ASSUME NEW j \in Instance
         PROVE  Arrived(j)' /\ Awaited(j)'
    <2>1. CASE j = i
      <3>1. Arrived(i)'
        BY <1>3, <1>6, <1>7, <1>8, <1>11 DEF Arrived
      <3>2. Awaited(i)'
        BY <1>1, <1>3, <1>6, <1>7, <1>9, <1>10 DEF Awaited
      <3> QED
        BY <2>1, <3>1, <3>2
    <2>2. CASE j # i
      BY <1>1, <1>3, <1>7, <2>2 DEF Arrived, Awaited
    <2> QED
      BY <2>1, <2>2
  <1>13. ASSUME NEW h \in Handler
         PROVE  DirectAlone(h)'
    <2>1. home[h] \in Instance
      BY <1>2, Types
    <2>2. CASE home[h] = i
      BY <1>1, <1>3, <1>7, <1>10, <2>2 DEF DirectAlone, q
    <2>3. CASE home[h] # i
      BY <1>1, <1>3, <1>7, <2>1, <2>3 DEF DirectAlone
    <2> QED
      BY <2>2, <2>3
  <1> QED
    BY <1>12, <1>13

\* A handler delivers its event directly, to its own instance.
LEMMA HandlerDelivers ==
  ASSUME IInv, TypeOK', NEW h \in Handler, hpc[h] = "local",
         got' = got \/ got' = [got EXCEPT ![home[h]] = Append(@, Current(h))],
         UNCHANGED listenerVars, blurred' = blurred, home' = home,
         \A k \in Handler : k # h => hpc'[k] = hpc[k] /\ sent'[k] = sent[k],
         hpc'[h] # "local",
         hpc'[h] = "done" \/ sent'[h] = sent[h] + 1
  PROVE  Sequential'
  <1> SUFFICES ASSUME blurred' = {} PROVE /\ \A j \in Instance : Arrived(j)' /\ Awaited(j)'
                                          /\ \A k \in Handler : DirectAlone(k)'
    BY DEF Sequential
  <1> DEFINE i == home[h]
  <1> DEFINE g == got[i]
  <1> DEFINE e == Current(h)
  <1>1. /\ \A j \in Instance : Arrived(j) /\ Awaited(j)
        /\ \A k \in Handler : DirectAlone(k)
    BY DEF IInv, Sequential
  <1>2. TypeOK
    BY DEF IInv
  <1>3. /\ i \in Instance /\ e \in Event /\ e[1] = h /\ e[2] = sent[h] + 1
        /\ sent[h] \in Nat /\ sent[h] < Length /\ Out(h) = sent[h]
    BY <1>2, Types DEF Current, Out
  <1>4. \A j \in Instance : got[j] \in Seq(Event) /\ queue[j] \in Seq(Event)
    BY <1>2, Types
  <1>5. /\ \A k \in Handler : Out(k) \in Nat /\ Out(k)' \in Nat /\ Out(k) <= Out(k)'
        /\ Out(h)' >= sent[h] + 1
    <2>1. \A k \in Handler : Out(k) \in Nat /\ Out(k)' \in Nat
      BY <1>2, Types DEF Out
    <2>2. \A k \in Handler : k # h => Out(k)' = Out(k)
      BY DEF Out
    <2>3. Length \in Nat
      BY <1>2, Types
    <2>4. Out(h)' >= sent[h] + 1
      BY <1>3, <2>3 DEF Out
    <2> QED
      BY <1>3, <2>1, <2>2, <2>4
  <1>6. queue' = queue /\ lpc' = lpc /\ avail' = avail
    BY DEF listenerVars
  <1>7. /\ got'[i] = g \/ got'[i] = Append(g, e)
        /\ \A j \in Instance : j # i => got'[j] = got[j]
    BY <1>2, <1>3 DEF TypeOK
  <1>8. g \in Seq(Event) /\ Ordered(g) /\ \A k \in Handler : UpTo(g, k, Out(k))
    BY <1>1, <1>3, <1>4 DEF Arrived
  <1>9. lpc[i] = "read" =>
           /\ UpTo(queue[i], h, 0) /\ Ordered(queue[i]) /\ Precedes(g, queue[i]) /\ avail[i]
    BY <1>1, <1>3 DEF DirectAlone, Awaited
  <1> HIDE DEF i, g, e
  <1>10. After(g, e)
    <2>1. \A a \in DOMAIN g : g[a] \in Event
      BY <1>8
    <2> QED
      BY <1>3, <1>8, <2>1, EventType DEF After, UpTo
  <1>11. /\ DOMAIN Append(g, e) = DOMAIN g \cup {Len(g) + 1} /\ Append(g, e)[Len(g) + 1] = e
         /\ \A a \in DOMAIN g : Append(g, e)[a] = g[a]
    BY <1>3, <1>8, AppendFacts
  <1>12. Ordered(Append(g, e))
    BY <1>3, <1>8, <1>10, AppendOrdered
  <1>13. \A k \in Handler : UpTo(g, k, Out(k)') /\ UpTo(Append(g, e), k, Out(k)')
    <2>1. \A k \in Handler : UpTo(g, k, Out(k)')
      BY <1>5, <1>8, UpToGrows
    <2> QED
      BY <1>3, <1>5, <1>11, <2>1 DEF UpTo
  <1>14. lpc[i] = "read" => Precedes(Append(g, e), queue[i])
    <2> SUFFICES ASSUME lpc[i] = "read", NEW b \in DOMAIN queue[i], queue[i][b][1] = h
                 PROVE  FALSE
      BY <1>3, <1>9, <1>11 DEF Precedes, After
    <2>1. queue[i][b] \in Event
      BY <1>3, <1>4
    <2>2. queue[i][b][2] <= 0 /\ queue[i][b][2] \in 1 .. Length
      BY <1>9, <2>1 DEF UpTo, Event
    <2> QED
      BY <2>2, ConstantAssumption
  <1>15. ASSUME NEW j \in Instance
         PROVE  Arrived(j)' /\ Awaited(j)'
    <2>0. \A k \in Handler : UpTo(queue[j], k, Out(k)) => UpTo(queue[j], k, Out(k)')
      BY <1>4, <1>5, UpToGrows
    <2>1. CASE j = i
      <3>1. Arrived(j)'
        BY <1>7, <1>8, <1>12, <1>13, <2>1 DEF Arrived
      <3>2. Awaited(j)'
        BY <1>1, <1>6, <1>7, <1>9, <1>14, <2>0, <2>1 DEF Awaited
      <3> QED
        BY <2>1, <3>1, <3>2
    <2>2. CASE j # i
      <3>1. \A k \in Handler : UpTo(got[j], k, Out(k)) => UpTo(got[j], k, Out(k)')
        BY <1>4, <1>5, UpToGrows
      <3> QED
        BY <1>1, <1>6, <1>7, <2>0, <2>2, <3>1 DEF Arrived, Awaited
    <2> QED
      BY <2>1, <2>2
  <1>16. \A k \in Handler : DirectAlone(k)'
    BY <1>1, <1>6 DEF DirectAlone
  <1> QED
    BY <1>15, <1>16

\* Redis takes an event of h, and every subscribed instance has it in its queue.
LEMMA RedisDelivers ==
  ASSUME IInv, TypeOK', NEW h \in Handler, RedisPublish(h)
  PROVE  Sequential'
  <1> SUFFICES ASSUME blurred' = {} PROVE /\ \A j \in Instance : Arrived(j)' /\ Awaited(j)'
                                          /\ \A k \in Handler : DirectAlone(k)'
    BY DEF Sequential
  <1> DEFINE e == Current(h)
  <1>1. /\ blurred = {} /\ got' = got /\ home' = home /\ lpc' = lpc /\ avail' = avail
        /\ hpc[h] = "publishing" /\ Published(e)
        /\ sent' = [sent EXCEPT ![h] = @ + 1] /\ hpc' = [hpc EXCEPT ![h] = IF sent[h] + 1 = Length THEN "done" ELSE "ready"]
    BY DEF RedisPublish, Advance
  <1>2. TypeOK /\ \A j \in Instance : Arrived(j) /\ Awaited(j)
    BY <1>1 DEF IInv, Sequential
  <1>3. \A k \in Handler : DirectAlone(k)
    BY <1>1 DEF IInv, Sequential
  <1>4. /\ e \in Event /\ e[1] = h /\ e[2] = sent[h] + 1
        /\ sent[h] \in Nat /\ Out(h) = sent[h]
    BY <1>1, <1>2, Types DEF Current, Out
  <1>5. /\ \A k \in Handler : k # h => hpc'[k] = hpc[k] /\ sent'[k] = sent[k]
        /\ sent'[h] = sent[h] + 1 /\ hpc'[h] # "local"
    BY <1>1, <1>2 DEF TypeOK
  <1>6. /\ \A k \in Handler : Out(k) \in Nat /\ Out(k)' \in Nat /\ Out(k) <= Out(k)'
        /\ Out(h)' >= sent[h] + 1
    <2>1. \A k \in Handler : Out(k) \in Nat /\ Out(k)' \in Nat
      <3>1. sent' \in [Handler -> 0 .. Length]
        BY DEF TypeOK
      <3>2. \A k \in Handler : Out(k)' \in Nat
        BY <3>1, ConstantAssumption DEF Out
      <3> QED
        BY <1>2, <3>2, Types
    <2>2. \A k \in Handler : k # h => Out(k)' = Out(k)
      BY <1>5 DEF Out
    <2>3. sent'[h] \in Nat /\ sent'[h] <= Length /\ Length \in Nat
      <3>1. sent' \in [Handler -> 0 .. Length]
        BY DEF TypeOK
      <3> QED
        BY <3>1, ConstantAssumption
    <2>4. Out(h)' >= sent[h] + 1
      BY <1>4, <1>5, <2>3 DEF Out
    <2> QED
      BY <1>4, <2>1, <2>2, <2>4
  <1>7. \A j \in Instance : got[j] \in Seq(Event) /\ queue[j] \in Seq(Event)
    BY <1>2, Types
  <1>8. \A j \in Instance : queue'[j] = queue[j] \/ queue'[j] = Append(queue[j], e)
    BY <1>1 DEF Published
  <1> HIDE DEF e
  <1>9. \A q \in Seq(Event) : UpTo(q, h, Out(h)) => After(q, e)
    <2> SUFFICES ASSUME NEW q \in Seq(Event), UpTo(q, h, Out(h)) PROVE After(q, e)
      OBVIOUS
    <2>1. \A a \in DOMAIN q : q[a] \in Event
      OBVIOUS
    <2> QED
      BY <1>4, <2>1, EventType DEF After, UpTo
  <1>10. ASSUME NEW j \in Instance
         PROVE  Arrived(j)'
    BY <1>1, <1>2, <1>6, <1>7, UpToGrows DEF Arrived
  <1>11. ASSUME NEW j \in Instance
         PROVE  Awaited(j)'
    <2> SUFFICES ASSUME lpc[j] = "read"
                 PROVE  /\ avail[j] /\ Ordered(queue'[j]) /\ Precedes(got[j], queue'[j])
                        /\ \A k \in Handler : UpTo(queue'[j], k, Out(k)')
      BY <1>1 DEF Awaited
    <2> DEFINE q == queue[j]
    <2>1. /\ avail[j] /\ q \in Seq(Event) /\ Ordered(q) /\ Precedes(got[j], q)
          /\ \A k \in Handler : UpTo(q, k, Out(k)')
          /\ After(q, e) /\ After(got[j], e)
      <3>1. /\ avail[j] /\ Ordered(q) /\ Precedes(got[j], q)
            /\ \A k \in Handler : UpTo(q, k, Out(k)) /\ UpTo(got[j], k, Out(k))
        BY <1>2 DEF Awaited, Arrived
      <3> QED
        BY <1>6, <1>7, <1>9, <3>1, UpToGrows
    <2> HIDE DEF q
    <2>2. /\ DOMAIN Append(q, e) = DOMAIN q \cup {Len(q) + 1} /\ Append(q, e)[Len(q) + 1] = e
          /\ \A a \in DOMAIN q : Append(q, e)[a] = q[a]
      BY <1>4, <2>1, AppendFacts
    <2>3. Ordered(Append(q, e))
      BY <1>4, <2>1, AppendOrdered
    <2>4. Precedes(got[j], Append(q, e))
      BY <2>1, <2>2 DEF Precedes
    <2>5. \A k \in Handler : UpTo(Append(q, e), k, Out(k)')
      BY <1>4, <1>6, <2>1, <2>2 DEF UpTo
    <2> QED
      BY <1>8, <2>1, <2>3, <2>4, <2>5 DEF q
  <1>12. ASSUME NEW k \in Handler
         PROVE  DirectAlone(k)'
    <2> SUFFICES ASSUME hpc'[k] = "local", lpc[home[k]] = "read"
                 PROVE  UpTo(queue'[home[k]], k, 0)
      BY <1>1 DEF DirectAlone
    <2>1. k # h /\ hpc[k] = "local" /\ home[k] \in Instance
      BY <1>2, <1>5, Types
    <2> DEFINE q == queue[home[k]]
    <2>2. UpTo(q, k, 0) /\ q \in Seq(Event)
      BY <1>3, <1>7, <2>1 DEF DirectAlone
    <2> HIDE DEF q
    <2>3. /\ DOMAIN Append(q, e) = DOMAIN q \cup {Len(q) + 1} /\ Append(q, e)[Len(q) + 1] = e
          /\ \A a \in DOMAIN q : Append(q, e)[a] = q[a]
      BY <1>4, <2>2, AppendFacts
    <2>4. UpTo(Append(q, e), k, 0)
      BY <1>4, <2>1, <2>2, <2>3 DEF UpTo
    <2> QED
      BY <1>8, <2>1, <2>2, <2>4 DEF q
  <1> QED
    BY <1>10, <1>11, <1>12

-----------------------------------------------------------------------------
(* Types.                                                                  *)

\* What a handler's progress, a delivery and a fault keep typed.
HandlerTypes ==
    /\ home \in [Handler -> Instance]
    /\ hpc \in [Handler -> {"ready", "publishing", "local", "done"}]
    /\ sent \in [Handler -> 0 .. Length]
    /\ \A h \in Handler : hpc[h] # "done" => sent[h] < Length
ListenerTypes ==
    /\ avail \in [Instance -> BOOLEAN]
    /\ sub \in [Instance -> BOOLEAN]
    /\ queue \in [Instance -> Seq(Event)]
    /\ lpc \in [Instance -> {"read", "retry", "deaf", "off"}]
SocketTypes ==
    /\ sock \in [Instance -> {"none", "open", "dead", "gone"}]
    /\ got \in [Instance -> Seq(Event)]
    /\ due \subseteq Instance \X Event
FaultTypes == faults \in 0 .. MaxFaults /\ blurred \subseteq {"publish", "ping"}

LEMMA TypeParts == TypeOK <=> HandlerTypes /\ ListenerTypes /\ SocketTypes /\ FaultTypes
  BY DEF TypeOK, HandlerTypes, ListenerTypes, SocketTypes, FaultTypes

LEMMA TypesStay ==
  /\ HandlerTypes /\ UNCHANGED handlerVars => HandlerTypes'
  /\ ListenerTypes /\ UNCHANGED listenerVars => ListenerTypes'
  /\ SocketTypes /\ UNCHANGED <<sock, got, due>> => SocketTypes'
  /\ FaultTypes /\ (faults' = faults \/ Fault) /\ blurred' = blurred => FaultTypes'
  <1>1. HandlerTypes /\ UNCHANGED handlerVars => HandlerTypes'
    BY DEF HandlerTypes, handlerVars
  <1>2. ListenerTypes /\ UNCHANGED listenerVars => ListenerTypes'
    BY DEF ListenerTypes, listenerVars
  <1>3. SocketTypes /\ UNCHANGED <<sock, got, due>> => SocketTypes'
    BY DEF SocketTypes
  <1>4. FaultTypes /\ (faults' = faults \/ Fault) /\ blurred' = blurred => FaultTypes'
    BY ConstantAssumption DEF FaultTypes, Fault
  <1> QED
    BY <1>1, <1>2, <1>3, <1>4

LEMMA FaultTyped ==
  ASSUME FaultTypes, faults' = faults \/ Fault,
         NEW k \in {"publish", "ping"}, blurred' = blurred \/ blurred' = blurred \cup {k}
  PROVE  FaultTypes'
  <1>1. faults' \in 0 .. MaxFaults
    BY ConstantAssumption DEF FaultTypes, Fault
  <1>2. blurred' \subseteq {"publish", "ping"}
    BY DEF FaultTypes
  <1> QED
    BY <1>1, <1>2 DEF FaultTypes

LEMMA ReceivesTyped ==
  ASSUME SocketTypes, NEW i \in Instance, NEW e \in Event, Receives(i, e)
  PROVE  got' \in [Instance -> Seq(Event)]
  <1>1. got[i] \in Seq(Event) /\ Append(got[i], e) \in Seq(Event)
    BY AppendFacts DEF SocketTypes
  <1>2. got \in [Instance -> Seq(Event)]
    BY DEF SocketTypes
  <1> DEFINE v == IF sock[i] = "open" THEN Append(got[i], e) ELSE got[i]
  <1>3. got' = [got EXCEPT ![i] = v]
    BY DEF Receives
  <1>4. v \in Seq(Event)
    BY <1>1
  <1> HIDE DEF v
  <1> QED
    BY <1>2, <1>3, <1>4

LEMMA HandlerTyped ==
  ASSUME TypeOK, NEW h \in Handler, HandlerStep(h)
  PROVE  TypeOK'
  <1> DEFINE e == Current(h)
  <1>1. HandlerTypes /\ ListenerTypes /\ SocketTypes /\ FaultTypes
    BY TypeParts
  <1>2. hpc[h] # "done" /\ e \in Event /\ home[h] \in Instance /\ sent[h] \in Nat /\ sent[h] < Length
    BY Types DEF HandlerStep, Send, RedisPublish, PublishRaises, DeliverLocal, LocalRaises
  <1> HIDE DEF e
  <1>3. HandlerTypes'
    <2>1. CASE Advance(h)
      BY <1>1, <1>2, <2>1, ConstantAssumption DEF HandlerTypes, Advance
    <2>2. CASE /\ UNCHANGED <<home, sent>>
               /\ \E p \in {"publishing", "local", "done"} : hpc' = [hpc EXCEPT ![h] = p]
      BY <1>1, <1>2, <2>2 DEF HandlerTypes
    <2> QED
      BY <2>1, <2>2 DEF HandlerStep, Send, RedisPublish, PublishRaises, DeliverLocal, LocalRaises
  <1>4. ListenerTypes'
    <2>1. CASE UNCHANGED listenerVars
      BY <1>1, <2>1, TypesStay
    <2>2. CASE UNCHANGED <<avail, sub, lpc>> /\ (Published(e) \/ UNCHANGED queue)
      <3>1. Published(e) => queue' \in [Instance -> Seq(Event)]
        <4> SUFFICES ASSUME Published(e) PROVE queue' \in [Instance -> Seq(Event)]
          OBVIOUS
        <4>1. \A i \in Instance : queue[i] \in Seq(Event) /\ Append(queue[i], e) \in Seq(Event)
          BY <1>1, <1>2, AppendFacts DEF ListenerTypes
        <4> QED
          BY <4>1 DEF Published
      <3> QED
        BY <1>1, <2>2, <3>1 DEF ListenerTypes
    <2> QED
      BY <2>1, <2>2 DEF HandlerStep, Send, RedisPublish, PublishRaises, DeliverLocal, LocalRaises,
                        listenerVars, e
  <1>5. SocketTypes'
    <2>1. sock' = sock \/ DropsStale(home[h])
      BY DEF HandlerStep, Send, RedisPublish, PublishRaises, DeliverLocal, LocalRaises
    <2>2. got' = got \/ Receives(home[h], e)
      BY DEF HandlerStep, Send, RedisPublish, PublishRaises, DeliverLocal, LocalRaises, e
    <2>3. due' = due \/ due' = due \cup {<<i, e>> : i \in {j \in Instance : Healthy(j)}}
      BY DEF HandlerStep, Send, RedisPublish, PublishRaises, DeliverLocal, LocalRaises, e
    <2>4. sock' \in [Instance -> {"none", "open", "dead", "gone"}]
      BY <1>1, <2>1 DEF SocketTypes, DropsStale
    <2>5. got' \in [Instance -> Seq(Event)]
      BY <1>1, <1>2, <2>2, ReceivesTyped DEF SocketTypes
    <2>6. due' \subseteq Instance \X Event
      BY <1>1, <1>2, <2>3 DEF SocketTypes
    <2> QED
      BY <2>4, <2>5, <2>6 DEF SocketTypes
  <1>6. FaultTypes'
    <2>1. faults' = faults \/ Fault
      BY DEF HandlerStep, Send, RedisPublish, PublishRaises, DeliverLocal, LocalRaises
    <2>2. blurred' = blurred \/ blurred' = blurred \cup {"publish"}
      BY DEF HandlerStep, Send, RedisPublish, PublishRaises, DeliverLocal, LocalRaises
    <2> QED
      BY <1>1, <2>1, <2>2, FaultTyped
  <1> QED
    BY <1>3, <1>4, <1>5, <1>6 DEF TypeOK, HandlerTypes, ListenerTypes, SocketTypes, FaultTypes

LEMMA InstanceTyped ==
  ASSUME TypeOK, NEW i \in Instance, ListenerStep(i) \/ SocketStep(i) \/ Stop(i)
  PROVE  TypeOK'
  <1>1. HandlerTypes /\ ListenerTypes /\ SocketTypes /\ FaultTypes
    BY TypeParts
  <1>2. HandlerTypes'
    <2>1. CASE UNCHANGED handlerVars
      BY <1>1, <2>1, TypesStay
    <2>2. CASE Stop(i)
      BY <1>1, <2>2 DEF HandlerTypes, Stop
    <2> QED
      BY <2>1, <2>2 DEF ListenerStep, Read, SocketStep, Listen, ListenRaises, ListenBroken, Reconnect,
           ListenOther, Resubscribe, PingFails, SubscribeFails, DeafBreaks, Drop, Register, Vanish, Disconnect
  <1>3. queue' \in [Instance -> Seq(Event)]
    <2>1. \/ queue' = queue \/ queue' = [queue EXCEPT ![i] = <<>>]
          \/ queue[i] # <<>> /\ queue' = [queue EXCEPT ![i] = Tail(@)]
      BY DEF ListenerStep, Read, SocketStep, Listen, ListenRaises, ListenBroken, Reconnect,
           ListenOther, Resubscribe, PingFails, SubscribeFails, DeafBreaks, Drop, Register, Vanish, Disconnect, Stop, listenerVars
    <2>2. queue[i] # <<>> => Tail(queue[i]) \in Seq(Event)
      BY <1>1, TailFacts DEF ListenerTypes
    <2>3. queue \in [Instance -> Seq(Event)] /\ <<>> \in Seq(Event)
      BY <1>1 DEF ListenerTypes
    <2>4. \A q \in Seq(Event) : [queue EXCEPT ![i] = q] \in [Instance -> Seq(Event)]
      BY <2>3
    <2> QED
      BY <2>1, <2>2, <2>3, <2>4
  <1>4. avail' \in [Instance -> BOOLEAN] /\ sub' \in [Instance -> BOOLEAN]
    <2>1. avail' = avail \/ (\E b \in BOOLEAN : avail' = [avail EXCEPT ![i] = b])
      BY DEF ListenerStep, Read, SocketStep, Listen, ListenRaises, ListenBroken, Reconnect,
           ListenOther, Resubscribe, PingFails, SubscribeFails, DeafBreaks, Drop, Register, Vanish, Disconnect, Stop, listenerVars,
           Unavailable
    <2>2. sub' = sub \/ (\E b \in BOOLEAN : sub' = [sub EXCEPT ![i] = b])
      BY DEF ListenerStep, Read, SocketStep, Listen, ListenRaises, ListenBroken, Reconnect,
           ListenOther, Resubscribe, PingFails, SubscribeFails, DeafBreaks, Drop, Register, Vanish, Disconnect, Stop, listenerVars
    <2> QED
      BY <1>1, <2>1, <2>2 DEF ListenerTypes
  <1>5. lpc' \in [Instance -> {"read", "retry", "deaf", "off"}]
    <2>1. lpc' = lpc \/ \E l \in {"read", "retry", "deaf", "off"} : lpc' = [lpc EXCEPT ![i] = l]
      BY DEF ListenerStep, Read, SocketStep, Listen, ListenRaises, ListenBroken, Reconnect,
           ListenOther, Resubscribe, PingFails, SubscribeFails, DeafBreaks, Drop, Register, Vanish, Disconnect, Stop, listenerVars,
           Unavailable
    <2> QED
      BY <1>1, <2>1 DEF ListenerTypes
  <1>6. sock' \in [Instance -> {"none", "open", "dead", "gone"}]
    <2>1. \/ sock' = sock \/ DropsStale(i)
          \/ \E l \in {"open", "dead", "gone"} : sock' = [sock EXCEPT ![i] = l]
      BY DEF ListenerStep, Read, SocketStep, Listen, ListenRaises, ListenBroken, Reconnect,
           ListenOther, Resubscribe, PingFails, SubscribeFails, DeafBreaks, Drop, Register, Vanish, Disconnect, Stop
    <2> QED
      BY <1>1, <2>1 DEF SocketTypes, DropsStale
  <1>7. got' \in [Instance -> Seq(Event)]
    <2>1. got' = got \/ (queue[i] # <<>> /\ Receives(i, Head(queue[i])))
      BY DEF ListenerStep, Read, SocketStep, Listen, ListenRaises, ListenBroken, Reconnect,
           ListenOther, Resubscribe, PingFails, SubscribeFails, DeafBreaks, Drop, Register, Vanish, Disconnect, Stop
    <2>2. queue[i] # <<>> => Head(queue[i]) \in Event
      BY <1>1, TailFacts DEF ListenerTypes
    <2> QED
      BY <1>1, <2>1, <2>2, ReceivesTyped DEF SocketTypes
  <1>8. due' \subseteq Instance \X Event
    <2>1. due' \subseteq due
      BY DEF ListenerStep, Read, SocketStep, Listen, ListenRaises, ListenBroken, Reconnect,
           ListenOther, Resubscribe, PingFails, SubscribeFails, DeafBreaks, Drop, Register, Vanish, Disconnect, Stop, Disturbed
    <2> QED
      BY <1>1, <2>1 DEF SocketTypes
  <1>9. FaultTypes'
    <2>1. faults' = faults \/ Fault
      BY DEF ListenerStep, Read, SocketStep, Listen, ListenRaises, ListenBroken, Reconnect,
           ListenOther, Resubscribe, PingFails, SubscribeFails, DeafBreaks, Drop, Register, Vanish, Disconnect, Stop
    <2>2. blurred' = blurred \/ blurred' = blurred \cup {"ping"}
      BY DEF ListenerStep, Read, SocketStep, Listen, ListenRaises, ListenBroken, Reconnect,
           ListenOther, Resubscribe, PingFails, SubscribeFails, DeafBreaks, Drop, Register, Vanish, Disconnect, Stop
    <2> QED
      BY <1>1, <2>1, <2>2, FaultTyped
  <1> QED
    BY <1>2, <1>3, <1>4, <1>5, <1>6, <1>7, <1>8, <1>9
    DEF TypeOK, HandlerTypes, ListenerTypes, SocketTypes, FaultTypes

-----------------------------------------------------------------------------
(* The theorems.                                                           *)

LEMMA InvariantInit == Init => IInv
  <1> SUFFICES ASSUME Init PROVE IInv
    OBVIOUS
  <1>1. HandlerTypes
    BY ConstantAssumption DEF Init, HandlerTypes
  <1>2. ListenerTypes
    <2>1. lpc \in [Instance -> {"read", "off"}]
      BY DEF Init
    <2>2. avail = [i \in Instance |-> lpc[i] = "read"] /\ sub = [i \in Instance |-> lpc[i] = "read"]
      BY DEF Init
    <2>3. avail \in [Instance -> BOOLEAN] /\ sub \in [Instance -> BOOLEAN]
      BY <2>2, Zenon
    <2>4. queue \in [Instance -> Seq(Event)]
      BY DEF Init
    <2>5. lpc \in [Instance -> {"read", "retry", "deaf", "off"}]
      BY <2>1
    <2> QED
      BY <2>3, <2>4, <2>5 DEF ListenerTypes
  <1>3. SocketTypes
    BY DEF Init, SocketTypes
  <1>4. FaultTypes
    BY ConstantAssumption DEF Init, FaultTypes
  <1>5. \A i \in Instance : got[i] = <<>> /\ queue[i] = <<>> /\ (lpc[i] = "read" => avail[i])
    BY DEF Init
  <1>6. \A h \in Handler : home[h] \in Instance
    BY DEF Init
  <1>7. Sequential
    BY <1>5, <1>6, EmptyFacts DEF Sequential, Arrived, Awaited, DirectAlone
  <1> QED
    BY <1>1, <1>2, <1>3, <1>4, <1>7, TypeParts DEF IInv

LEMMA HandlerKeeps ==
  ASSUME IInv, NEW h \in Handler, HandlerStep(h)
  PROVE  IInv'
  <1>0. TypeOK /\ TypeOK'
    BY HandlerTyped DEF IInv
  <1>1. h \in Handler /\ hpc \in [Handler -> {"ready", "publishing", "local", "done"}]
    BY <1>0 DEF TypeOK
  <1>2. CASE Send(h)
    <2>1. /\ UNCHANGED <<home, sent, listenerVars, got, blurred>>
          /\ hpc' = [hpc EXCEPT ![h] = IF avail[home[h]] THEN "publishing" ELSE "local"]
          /\ hpc[h] = "ready"
      BY <1>2 DEF Send
    <2>2. /\ \A k \in Handler : hpc[k] = "done" => hpc'[k] = "done"
          /\ \A k \in Handler : hpc'[k] = "local" => hpc[k] = "local" \/ ~avail[home[k]]
      BY <1>1, <2>1
    <2>3. lpc' = lpc /\ avail' = avail /\ queue' = queue
      BY <2>1 DEF listenerVars
    <2>4. Sequential'
      BY <1>0, <2>1, <2>2, <2>3, NothingArrives
    <2> QED
      BY <1>0, <2>4 DEF IInv
  <1>3. CASE RedisPublish(h)
    BY <1>0, <1>3, RedisDelivers DEF IInv
  <1>4. CASE PublishRaises(h)
    <2>1. Sequential'
      BY <1>4 DEF PublishRaises, Sequential
    <2> QED
      BY <1>0, <2>1 DEF IInv
  <1>5. CASE DeliverLocal(h) \/ LocalRaises(h)
    <2>1. /\ hpc[h] = "local" /\ UNCHANGED listenerVars /\ blurred' = blurred /\ home' = home
          /\ got' = got \/ Receives(home[h], Current(h))
          /\ Advance(h) \/ (sent' = sent /\ hpc' = [hpc EXCEPT ![h] = "done"])
      BY <1>5 DEF DeliverLocal, LocalRaises, Advance
    <2>2. got' = got \/ got' = [got EXCEPT ![home[h]] = Append(@, Current(h))]
      <3>1. Receives(home[h], Current(h)) => got' = got \/ got' = [got EXCEPT ![home[h]] = Append(@, Current(h))]
        BY <1>0 DEF Receives, TypeOK
      <3> QED
        BY <2>1, <3>1
    <2>3. /\ \A k \in Handler : k # h => hpc'[k] = hpc[k] /\ sent'[k] = sent[k]
          /\ hpc'[h] # "local" /\ (hpc'[h] = "done" \/ sent'[h] = sent[h] + 1)
      BY <1>0, <2>1 DEF Advance, TypeOK
    <2>4. Sequential'
      BY <1>0, <2>1, <2>2, <2>3, HandlerDelivers
    <2> QED
      BY <1>0, <2>4 DEF IInv
  <1> QED
    BY <1>2, <1>3, <1>4, <1>5 DEF HandlerStep

LEMMA InstanceKeeps ==
  ASSUME IInv, NEW i \in Instance, ListenerStep(i) \/ SocketStep(i) \/ Stop(i)
  PROVE  IInv'
  <1>0. TypeOK /\ TypeOK'
    BY InstanceTyped DEF IInv
  <1>1. CASE \/ Listen(i)
             \/ ListenRaises(i) /\ ~UNCHANGED <<queue, got>>
    <2>1. /\ lpc[i] = "read" /\ queue[i] # <<>> /\ queue' = [queue EXCEPT ![i] = Tail(@)]
          /\ got' = got \/ Receives(i, Head(queue[i]))
          /\ UNCHANGED handlerVars /\ blurred' = blurred
      BY <1>1 DEF Listen, ListenRaises
    <2>2. got' = got \/ got' = [got EXCEPT ![i] = Append(@, Head(queue[i]))]
      <3>1. Receives(i, Head(queue[i])) => got' = got \/ got' = [got EXCEPT ![i] = Append(@, Head(queue[i]))]
        BY <1>0 DEF Receives, TypeOK
      <3> QED
        BY <2>1, <3>1
    <2>3. \A j \in Instance : lpc'[j] = "read" => lpc[j] = "read" /\ (avail'[j] = avail[j] \/ avail'[j])
      BY <1>0, <1>1 DEF Listen, ListenRaises, Unavailable, TypeOK
    <2>4. Sequential'
      BY <1>0, <2>1, <2>2, <2>3, ListenerDelivers
    <2> QED
      BY <1>0, <2>4 DEF IInv
  <1>2. CASE ~(Listen(i) \/ (ListenRaises(i) /\ ~UNCHANGED <<queue, got>>))
    <2>1. /\ got' = got /\ home' = home /\ sent' = sent /\ (blurred' = {} => blurred = {})
      BY <1>2 DEF ListenerStep, Read, SocketStep, ListenRaises, ListenBroken, Reconnect,
           ListenOther, Resubscribe, PingFails, SubscribeFails, DeafBreaks, Drop, Register, Vanish, Disconnect, Stop, handlerVars
    <2>2. /\ \A h \in Handler : hpc[h] = "done" => hpc'[h] = "done"
          /\ \A h \in Handler : hpc'[h] = "local" => hpc[h] = "local" \/ ~avail[home[h]]
      <3>1. CASE hpc' = hpc
        BY <3>1
      <3>2. CASE Stop(i)
        BY <3>2 DEF Stop
      <3> QED
        BY <1>2, <3>1, <3>2 DEF ListenerStep, Read, SocketStep, ListenRaises, ListenBroken, Reconnect,
           ListenOther, Resubscribe, PingFails, SubscribeFails, DeafBreaks, Drop, Register, Vanish, Disconnect, handlerVars
    <2>3. CASE PingFails(i)
      <3>1. Sequential'
        BY <2>3 DEF PingFails, Sequential
      <3> QED
        BY <1>0, <3>1 DEF IInv
    <2>4. CASE ~PingFails(i)
      <3>1. \A j \in Instance : lpc'[j] = "read" =>
              \/ lpc[j] = "read" /\ avail'[j] = avail[j] /\ queue'[j] = queue[j]
              \/ lpc[j] = "read" /\ avail'[j] /\ queue'[j] = queue[j]
              \/ avail'[j] /\ queue'[j] = <<>>
              \/ lpc[j] = "read" /\ avail'[j] = avail[j] /\ queue'[j] = <<>>
        <4>1. CASE UNCHANGED listenerVars
          BY <4>1 DEF listenerVars
        <4>2. CASE ListenRaises(i) \/ ListenBroken(i)
          BY <1>0, <1>2, <4>2 DEF ListenRaises, ListenBroken, Unavailable, TypeOK
        <4>3. CASE Reconnect(i) \/ ListenOther(i)
          BY <1>0, <4>3 DEF Reconnect, ListenOther, TypeOK
        <4>4. CASE Resubscribe(i) \/ Drop(i)
          BY <1>0, <4>4 DEF Resubscribe, Drop, TypeOK
        <4>5. CASE Stop(i)
          <5>1. /\ lpc' = [lpc EXCEPT ![i] = "off"] /\ avail' = [avail EXCEPT ![i] = FALSE]
                /\ queue' = [queue EXCEPT ![i] = <<>>]
            BY <4>5 DEF Stop
          <5>2. lpc'[i] = "off"
            BY <1>0, <5>1 DEF TypeOK
          <5>3. \A j \in Instance : j # i => lpc'[j] = lpc[j] /\ avail'[j] = avail[j] /\ queue'[j] = queue[j]
            BY <1>0, <5>1 DEF TypeOK
          <5> QED
            BY <5>2, <5>3
        <4>6. CASE SubscribeFails(i) \/ DeafBreaks(i)
          <5>1. /\ \E next \in {"retry", "deaf"} : lpc' = [lpc EXCEPT ![i] = next]
                /\ \A j \in Instance : j # i => avail'[j] = avail[j] /\ queue'[j] = queue[j]
            BY <1>0, <4>6 DEF SubscribeFails, DeafBreaks, Unavailable, TypeOK
          <5> QED
            BY <1>0, <5>1 DEF TypeOK
        <4> QED
          BY <1>2, <2>4, <4>1, <4>2, <4>3, <4>4, <4>5, <4>6
          DEF ListenerStep, Read, SocketStep, Register, Vanish, Disconnect
      <3>2. Sequential'
        BY <1>0, <2>1, <2>2, <3>1, NothingArrives
      <3> QED
        BY <1>0, <3>2 DEF IInv
    <2> QED
      BY <2>3, <2>4
  <1> QED
    BY <1>1, <1>2

LEMMA InvariantStep == IInv /\ [Next]_vars => IInv'
  <1> SUFFICES ASSUME IInv, [Next]_vars PROVE IInv'
    OBVIOUS
  <1>1. CASE \E h \in Handler : HandlerStep(h)
    BY <1>1, HandlerKeeps
  <1>2. CASE \E i \in Instance : ListenerStep(i) \/ SocketStep(i) \/ Stop(i)
    BY <1>2, InstanceKeeps
  <1>3. CASE UNCHANGED vars
    <2>1. TypeOK'
      BY <1>3 DEF IInv, TypeOK, vars, handlerVars, listenerVars
    <2>2. Sequential'
      BY <1>3 DEF IInv, Sequential, Arrived, Awaited, DirectAlone, Out, vars, handlerVars, listenerVars
    <2> QED
      BY <2>1, <2>2 DEF IInv
  <1> QED
    BY <1>1, <1>2, <1>3 DEF Next

\* What is under way and what has arrived stays in order: the invariant is
\* inductive.
THEOREM Invariance == Spec => []IInv
  <1> QED
    BY InvariantInit, InvariantStep, PTL DEF Spec

\* Every variable keeps its type; no handler publishes more than its events.
THEOREM TypeCorrect == Spec => []TypeOK
  <1>1. IInv => TypeOK
    BY DEF IInv
  <1> QED
    BY <1>1, Invariance, PTL

\* A socket receives the events of a request in order and none twice, whichever
\* of the two ways each of them takes (send_to_users, _listen), for as long as
\* no PUBLISH and no ping has failed.
THEOREM OrderIsKept == Spec => []InOrderOnce
  <1>1. IInv => InOrderOnce
    BY DEF IInv, Sequential, Arrived, Ordered, InOrderOnce
  <1> QED
    BY <1>1, Invariance, PTL
-----------------------------------------------------------------------------
(* What is due.                                                            *)

Waits(i, e) == \E a \in DOMAIN queue[i] : queue[i][a] = e
Received(i, e) == \E a \in DOMAIN got[i] : got[i][a] = e

\* An instance at which something is due reads the channel and has its socket.
Tracked ==
    \A i \in Instance, e \in Event : <<i, e>> \in due =>
        /\ sub[i] /\ lpc[i] = "read" /\ sock[i] = "open"
        /\ Waits(i, e) \/ Received(i, e)

\* What is in a sequence stays there when it grows.
LEMMA AppendKeeps ==
  ASSUME NEW q \in Seq(Event), NEW x \in Event, NEW e, \E a \in DOMAIN q : q[a] = e
  PROVE  \E a \in DOMAIN Append(q, x) : Append(q, x)[a] = e
  BY AppendFacts

\* An instance that is left alone, but for events that are added, owes nothing new.
LEMMA AloneTracked ==
  ASSUME TypeOK, Tracked, NEW i \in Instance, NEW e \in Event, <<i, e>> \in due, NEW x \in Event,
         sub'[i] = sub[i], lpc'[i] = lpc[i], sock'[i] = sock[i],
         queue'[i] = queue[i] \/ queue'[i] = Append(queue[i], x),
         got'[i] = got[i] \/ got'[i] = Append(got[i], x)
  PROVE  /\ sub'[i] /\ lpc'[i] = "read" /\ sock'[i] = "open"
         /\ Waits(i, e)' \/ Received(i, e)'
  <1>1. /\ sub[i] /\ lpc[i] = "read" /\ sock[i] = "open"
        /\ Waits(i, e) \/ Received(i, e)
    BY DEF Tracked
  <1>2. queue[i] \in Seq(Event) /\ got[i] \in Seq(Event)
    BY Types
  <1>3. Waits(i, e) => Waits(i, e)'
    <2>1. CASE queue'[i] = queue[i]
      BY <2>1 DEF Waits
    <2>2. CASE queue'[i] = Append(queue[i], x)
      BY <1>2, <2>2, AppendKeeps DEF Waits
    <2> QED
      BY <2>1, <2>2
  <1>4. Received(i, e) => Received(i, e)'
    BY <1>2, AppendKeeps DEF Received
  <1> QED
    BY <1>1, <1>3, <1>4

\* A handler adds its event, to the channel or to its own socket.
LEMMA HandlerTracked ==
  ASSUME TypeOK, Tracked, NEW h \in Handler, HandlerStep(h)
  PROVE  Tracked'
  <1> DEFINE x == Current(h)
  <1>0. x \in Event /\ home[h] \in Instance
    BY Types DEF HandlerStep, Send, RedisPublish, PublishRaises, DeliverLocal, LocalRaises
  <1>1. UNCHANGED <<sub, lpc>> /\ (sock' = sock \/ DropsStale(home[h]))
    BY DEF HandlerStep, Send, RedisPublish, PublishRaises, DeliverLocal, LocalRaises, listenerVars
  <1>2. (queue' = queue \/ Published(x)) /\ (got' = got \/ Receives(home[h], x))
    BY DEF HandlerStep, Send, RedisPublish, PublishRaises, DeliverLocal, LocalRaises, listenerVars
  <1>3. \/ due' = due
        \/ Published(x) /\ due' = due \cup {<<i, x>> : i \in {j \in Instance : Healthy(j)}}
    BY DEF HandlerStep, Send, RedisPublish, PublishRaises, DeliverLocal, LocalRaises
  <1> HIDE DEF x
  <1>4. ASSUME NEW i \in Instance
        PROVE  /\ sock[i] = "open" => sock'[i] = "open"
               /\ queue'[i] = queue[i] \/ queue'[i] = Append(queue[i], x)
               /\ got'[i] = got[i] \/ got'[i] = Append(got[i], x)
    <2>1. sock[i] = "open" => sock'[i] = "open"
      BY <1>0, <1>1 DEF DropsStale, TypeOK
    <2>2. queue'[i] = queue[i] \/ queue'[i] = Append(queue[i], x)
      BY <1>2 DEF Published
    <2>3. got'[i] = got[i] \/ got'[i] = Append(got[i], x)
      BY <1>0, <1>2 DEF Receives, TypeOK
    <2> QED
      BY <2>1, <2>2, <2>3
  <1>5. ASSUME NEW i \in Instance, NEW e \in Event, <<i, e>> \in due'
        PROVE  /\ sub'[i] /\ lpc'[i] = "read" /\ sock'[i] = "open"
               /\ Waits(i, e)' \/ Received(i, e)'
    <2>1. CASE <<i, e>> \in due
      <3>1. sock[i] = "open"
        BY <2>1 DEF Tracked
      <3> QED
        BY <1>0, <1>1, <1>4, <2>1, <3>1, AloneTracked
    <2>2. CASE <<i, e>> \notin due
      <3>1. Published(x) /\ Healthy(i) /\ e = x
        BY <1>3, <1>5, <2>2
      <3>2. queue'[i] = Append(queue[i], x) /\ queue[i] \in Seq(Event)
        BY <3>1, Types DEF Published, Healthy
      <3>3. Waits(i, e)'
        BY <1>0, <3>1, <3>2, AppendFacts DEF Waits
      <3> QED
        BY <1>1, <1>4, <3>1, <3>3 DEF Healthy
    <2> QED
      BY <2>1, <2>2
  <1> QED
    BY <1>5 DEF Tracked

\* A listener hands over what it takes, or everything due at its instance is
\* written off together with the connection, the socket or the process.
LEMMA InstanceTracked ==
  ASSUME TypeOK, Tracked, NEW i \in Instance, ListenerStep(i) \/ SocketStep(i) \/ Stop(i)
  PROVE  Tracked'
  <1>1. ASSUME NEW j \in Instance, j # i
        PROVE  /\ sub'[j] = sub[j] /\ lpc'[j] = lpc[j] /\ sock'[j] = sock[j]
               /\ queue'[j] = queue[j] /\ got'[j] = got[j]
    BY <1>1 DEF ListenerStep, Read, SocketStep, Listen, ListenRaises, ListenBroken, Reconnect,
       ListenOther, Resubscribe, PingFails, SubscribeFails, DeafBreaks, Drop, Register, Vanish, Disconnect, Stop, listenerVars,
       Unavailable, Receives, DropsStale, TypeOK
  <1>2. due' \subseteq due
    BY DEF ListenerStep, Read, SocketStep, Listen, ListenRaises, ListenBroken, Reconnect,
       ListenOther, Resubscribe, PingFails, SubscribeFails, DeafBreaks, Drop, Register, Vanish, Disconnect, Stop, Disturbed
  <1>3. ASSUME NEW e \in Event, <<i, e>> \in due'
        PROVE  /\ sub'[i] /\ lpc'[i] = "read" /\ sock'[i] = "open"
               /\ Waits(i, e)' \/ Received(i, e)'
    <2>1. /\ <<i, e>> \in due /\ sub[i] /\ lpc[i] = "read" /\ sock[i] = "open"
          /\ Waits(i, e) \/ Received(i, e)
      BY <1>2, <1>3 DEF Tracked
    <2>2. Listen(i) \/ ListenOther(i)
      BY <1>3, <2>1 DEF ListenerStep, Read, SocketStep, ListenRaises, ListenBroken, Reconnect,
         Resubscribe, PingFails, SubscribeFails, DeafBreaks, Drop, Register, Vanish, Disconnect, Stop, Disturbed
    <2>3. CASE ListenOther(i)
      BY <2>1, <2>3 DEF ListenOther, Waits, Received
    <2>4. CASE Listen(i)
      <3>1. /\ queue[i] # <<>> /\ queue'[i] = Tail(queue[i]) /\ got'[i] = Append(got[i], Head(queue[i]))
            /\ sub' = sub /\ lpc' = lpc /\ sock'[i] = "open"
        BY <2>1, <2>4 DEF Listen, Receives, DropsStale, TypeOK
      <3>2. /\ queue[i] \in Seq(Event) /\ got[i] \in Seq(Event)
            /\ Head(queue[i]) \in Event /\ Head(queue[i]) = queue[i][1]
        BY <3>1, Types, TailFacts
      <3>3. CASE Received(i, e)
        BY <2>1, <3>1, <3>2, <3>3, AppendKeeps DEF Received
      <3>4. CASE e = Head(queue[i])
        <4>1. Received(i, e)'
          BY <3>1, <3>2, <3>4, AppendFacts DEF Received
        <4> QED
          BY <2>1, <3>1, <4>1
      <3>5. CASE Waits(i, e) /\ e # Head(queue[i])
        <4>1. PICK a \in DOMAIN queue[i] : queue[i][a] = e
          BY <3>5 DEF Waits
        <4>2. a # 1
          BY <3>2, <3>5, <4>1
        <4>3. a - 1 \in DOMAIN Tail(queue[i]) /\ Tail(queue[i])[a - 1] = e
          BY <3>1, <3>2, <4>1, <4>2
        <4>4. Waits(i, e)'
          BY <3>1, <4>3 DEF Waits
        <4> QED
          BY <2>1, <3>1, <4>4
      <3> QED
        BY <2>1, <3>3, <3>4, <3>5
    <2> QED
      BY <2>2, <2>3, <2>4
  <1>4. ASSUME NEW j \in Instance, j # i, NEW e \in Event, <<j, e>> \in due'
        PROVE  /\ sub'[j] /\ lpc'[j] = "read" /\ sock'[j] = "open"
               /\ Waits(j, e)' \/ Received(j, e)'
    BY <1>1, <1>2, <1>4, AloneTracked
  <1> QED
    BY <1>3, <1>4 DEF Tracked

LEMMA TrackedStep == IInv /\ Tracked /\ [Next]_vars => Tracked'
  <1> SUFFICES ASSUME TypeOK, Tracked, [Next]_vars PROVE Tracked'
    BY DEF IInv
  <1>1. CASE UNCHANGED vars
    BY <1>1 DEF Tracked, Waits, Received, vars, listenerVars
  <1> QED
    BY <1>1, HandlerTracked, InstanceTracked DEF Next

\* Between PUBLISH and the socket of a healthy instance no event is lost, and
\* none is overtaken by a later one of its handler (send_to_users, _listen): the
\* safety part of ReachesHealthy.
THEOREM NoHoleOnTheWay == Spec => []NothingOvertakes
  <1>1. Init => Tracked
    BY DEF Init, Tracked
  <1>2. IInv /\ Tracked => NothingOvertakes
    <2> SUFFICES ASSUME IInv, Tracked, NEW i \in Instance, NEW e \in Event, <<i, e>> \in due,
                        ~Received(i, e)
                 PROVE  /\ Waits(i, e)
                        /\ blurred = {} => \A a \in DOMAIN got[i] :
                                             got[i][a][1] = e[1] => got[i][a][2] < e[2]
      BY DEF NothingOvertakes, Waits, Received
    <2>1. Waits(i, e) /\ lpc[i] = "read"
      BY DEF Tracked
    <2>2. blurred = {} => Precedes(got[i], queue[i])
      BY <2>1 DEF IInv, Sequential, Awaited
    <2> QED
      BY <2>1, <2>2 DEF Waits, Precedes, After
  <1> QED
    BY <1>1, <1>2, TrackedStep, Invariance, PTL DEF Spec
=============================================================================
