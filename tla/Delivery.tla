------------------------------- MODULE Delivery -------------------------------
(***************************************************************************)
(* The fan-out of events to the sockets of one user, of which each backend *)
(* instance holds at most one.  Handlers publish their events through      *)
(* Redis Pub/Sub to all instances, or, when their own instance takes Redis *)
(* for unavailable or the command raises, to the sockets of their own      *)
(* instance.  A listener per instance reads the channel and delivers; it   *)
(* drops out when the connection is lost or a delivery raises, and then    *)
(* subscribes anew.                                                        *)
(***************************************************************************)
EXTENDS Integers, Sequences

CONSTANTS
    Instance,
    Handler,    \* requests that publish, each on one instance
    Length,     \* events that a handler publishes, in this order: 1 .. Length
    MaxFaults   \* bound: broken connections, raising calls, stops

ASSUME ConstantAssumption ==
    /\ Length \in Nat \ {0}
    /\ MaxFaults \in Nat

Event == Handler \X (1 .. Length)

VARIABLES
    home,     \* home[h]: the instance of handler h
    hpc,      \* hpc[h]: where h is in send_to_users
    sent,     \* sent[h]: events of h that are published
    avail,    \* avail[i]: RedisRealtimeBackend._available
    sub,      \* sub[i]: Redis has a subscription of i
    queue,    \* queue[i]: events of the channel that i has not read yet
    lpc,      \* lpc[i]: the listener: read, retry, deaf (it reads from a
              \* connection without a channel), or off
    sock,     \* sock[i]: the user's socket: none, open, dead, gone
    got,      \* got[i]: what the socket at i received
    due,      \* history: <<i, e>> such that e was published with i healthy since
    faults,
    blurred   \* history: has a PUBLISH raised, or a ping failed, so far

handlerVars == <<home, hpc, sent>>
listenerVars == <<avail, sub, queue, lpc>>
vars == <<handlerVars, listenerVars, sock, got, due, faults, blurred>>

\* lifespan: the backend starts, or Redis is not required and the instance
\* runs without one.
Init ==
    /\ home \in [Handler -> Instance]
    /\ hpc = [h \in Handler |-> "ready"]
    /\ sent = [h \in Handler |-> 0]
    /\ lpc \in [Instance -> {"read", "off"}]
    /\ avail = [i \in Instance |-> lpc[i] = "read"]
    /\ sub = [i \in Instance |-> lpc[i] = "read"]
    /\ queue = [i \in Instance |-> <<>>]
    /\ sock = [i \in Instance |-> "none"]
    /\ got = [i \in Instance |-> <<>>]
    /\ due = {}
    /\ faults = 0 /\ blurred = {}

Fault == faults < MaxFaults /\ faults' = faults + 1

\* The event that h is publishing.
Current(h) == <<h, sent[h] + 1>>
\* Mutant: one event too many.
AdvanceOneMore(h) ==
    /\ sent' = [sent EXCEPT ![h] = @ + 1]
    /\ hpc' = [hpc EXCEPT ![h] = IF sent[h] = Length THEN "done" ELSE "ready"]
    /\ UNCHANGED home
\* h is through with an event and goes on with the next.
Advance(h) ==
    /\ sent' = [sent EXCEPT ![h] = @ + 1]
    /\ hpc' = [hpc EXCEPT ![h] = IF sent[h] + 1 = Length THEN "done" ELSE "ready"]
    /\ UNCHANGED home
\* Nothing that was published before need arrive at i any more.
Disturbed(i) == due' = {d \in due : d[1] # i}

-----------------------------------------------------------------------------
\* ConnectionManager.send_to_users: distributed or not, as the flag says.
Send(h) ==
    /\ hpc[h] = "ready"
    /\ hpc' = [hpc EXCEPT ![h] = IF avail[home[h]] THEN "publishing" ELSE "local"]
    /\ UNCHANGED <<home, sent, listenerVars, sock, got, due, faults, blurred>>

\* PUBLISH at Redis: every subscription of the moment has the event.
Published(e) == queue' = [i \in Instance |-> IF sub[i] THEN Append(queue[i], e) ELSE queue[i]]
Healthy(i) == avail[i] /\ sub[i] /\ lpc[i] = "read" /\ sock[i] = "open"

\* Mutant: without the return, the event is delivered locally as well.
RedisPublishFallsThrough(h) ==
    /\ hpc[h] = "publishing"
    /\ Published(Current(h))
    /\ due' = due \cup {<<i, Current(h)>> : i \in {j \in Instance : Healthy(j)}}
    /\ hpc' = [hpc EXCEPT ![h] = "local"]
    /\ UNCHANGED <<home, sent, avail, sub, lpc, sock, got, faults, blurred>>
\* publish_users succeeds.
RedisPublish(h) ==
    /\ hpc[h] = "publishing"
    /\ Published(Current(h))
    /\ due' = due \cup {<<i, Current(h)>> : i \in {j \in Instance : Healthy(j)}}
    /\ Advance(h)
    /\ UNCHANGED <<avail, sub, lpc, sock, got, faults, blurred>>

\* publish_users raises, before or after Redis has executed the command.
PublishRaises(h) ==
    /\ hpc[h] = "publishing"
    /\ Fault /\ blurred' = blurred \cup {"publish"}
    /\ Published(Current(h)) \/ UNCHANGED queue
    /\ hpc' = [hpc EXCEPT ![h] = "local"]
    /\ UNCHANGED <<home, sent, avail, sub, lpc, sock, got, due>>

\* deliver_to_user_local at instance i: what the socket receives, and what
\* becomes of a dead one (a RuntimeError marks it as stale).
Receives(i, e) == got' = [got EXCEPT ![i] = IF sock[i] = "open" THEN Append(@, e) ELSE @]
DropsStale(i) == sock' = [sock EXCEPT ![i] = IF @ = "dead" THEN "gone" ELSE @]

\* send_to_users without Redis.
DeliverLocal(h) ==
    /\ hpc[h] = "local"
    /\ Receives(home[h], Current(h)) /\ DropsStale(home[h])
    /\ Advance(h)
    /\ UNCHANGED <<listenerVars, due, faults, blurred>>

\* The same, into an exception that deliver_to_user_local does not catch, at
\* this socket or at another target of the event: the handler is through
\* (dispatch_event).
LocalRaises(h) ==
    /\ hpc[h] = "local"
    /\ Fault
    /\ Receives(home[h], Current(h)) \/ UNCHANGED got
    /\ hpc' = [hpc EXCEPT ![h] = "done"]
    /\ UNCHANGED <<home, sent, listenerVars, sock, due, blurred>>

-----------------------------------------------------------------------------
\* The Pub/Sub connection breaks: what was not read is lost.
Drop(i) ==
    /\ sub[i]
    /\ Fault
    /\ sub' = [sub EXCEPT ![i] = FALSE]
    /\ queue' = [queue EXCEPT ![i] = <<>>]
    /\ Disturbed(i)
    /\ UNCHANGED <<handlerVars, avail, lpc, sock, got, blurred>>

\* Mutant: the source instance takes its own events for delivered.
ListenSkipsOwn(i) ==
    /\ lpc[i] = "read" /\ queue[i] # <<>>
    /\ queue' = [queue EXCEPT ![i] = Tail(@)]
    /\ DropsStale(i)
    /\ IF home[Head(queue[i])[1]] = i THEN UNCHANGED got ELSE Receives(i, Head(queue[i]))
    /\ avail' = [avail EXCEPT ![i] = TRUE]
    /\ UNCHANGED <<handlerVars, sub, lpc, due, faults, blurred>>
\* _listen: an event is read and delivered.
Listen(i) ==
    /\ lpc[i] = "read" /\ queue[i] # <<>>
    /\ queue' = [queue EXCEPT ![i] = Tail(@)]
    /\ Receives(i, Head(queue[i])) /\ DropsStale(i)
    /\ avail' = [avail EXCEPT ![i] = TRUE]
    /\ UNCHANGED <<handlerVars, sub, lpc, due, faults, blurred>>

\* The handler of exceptions in _listen, up to the sleep.
Unavailable(i) ==
    /\ avail' = [avail EXCEPT ![i] = FALSE]
    /\ lpc' = [lpc EXCEPT ![i] = "retry"]

\* The channel carries the events of other users as well.
ListenOther(i) ==
    /\ lpc[i] = "read" /\ sub[i]
    /\ avail' = [avail EXCEPT ![i] = TRUE]
    /\ UNCHANGED <<handlerVars, sub, queue, lpc, sock, got, due, faults, blurred>>

\* _listen: an event is read, of this user or of another, and its delivery
\* raises, at this socket or elsewhere.
ListenRaises(i) ==
    /\ lpc[i] = "read" /\ sub[i]
    /\ Fault
    /\ \/ UNCHANGED <<queue, got>>
       \/ /\ queue[i] # <<>>
          /\ queue' = [queue EXCEPT ![i] = Tail(@)]
          /\ Receives(i, Head(queue[i])) \/ UNCHANGED got
    /\ Unavailable(i)
    /\ Disturbed(i)
    /\ UNCHANGED <<handlerVars, sub, sock, blurred>>

\* _listen: get_message finds the connection broken and raises ...
ListenBroken(i) ==
    /\ lpc[i] = "read" /\ ~sub[i]
    /\ Unavailable(i)
    /\ UNCHANGED <<handlerVars, sub, queue, sock, got, due, faults, blurred>>
\* ... or, after a ping that failed, connects, subscribes to the channels it has
\* recorded and returns None.
Reconnect(i) ==
    /\ lpc[i] = "read" /\ ~sub[i] /\ ~avail[i]
    /\ sub' = [sub EXCEPT ![i] = TRUE]
    /\ UNCHANGED <<handlerVars, avail, queue, lpc, sock, got, due, faults, blurred>>

\* Mutant: the old connection is kept.
ResubscribeKeeps(i) ==
    /\ lpc[i] = "retry"
    /\ sub' = [sub EXCEPT ![i] = TRUE]
    /\ avail' = [avail EXCEPT ![i] = TRUE]
    /\ lpc' = [lpc EXCEPT ![i] = "read"]
    /\ Disturbed(i)
    /\ UNCHANGED <<handlerVars, queue, sock, got, faults, blurred>>
\* Mutant: the flag waits for the next event.
ResubscribeSilently(i) ==
    /\ lpc[i] = "retry"
    /\ sub' = [sub EXCEPT ![i] = TRUE]
    /\ queue' = [queue EXCEPT ![i] = <<>>]
    /\ lpc' = [lpc EXCEPT ![i] = "read"]
    /\ Disturbed(i)
    /\ UNCHANGED <<handlerVars, avail, sock, got, faults, blurred>>
\* ping and _subscribe: the old connection is closed, what it holds is lost.
Resubscribe(i) ==
    /\ lpc[i] = "retry"
    /\ sub' = [sub EXCEPT ![i] = TRUE]
    /\ queue' = [queue EXCEPT ![i] = <<>>]
    /\ avail' = [avail EXCEPT ![i] = TRUE]
    /\ lpc' = [lpc EXCEPT ![i] = "read"]
    /\ Disturbed(i)
    /\ UNCHANGED <<handlerVars, sock, got, faults, blurred>>

\* ping raises: the loop reads on from the connection it has.
PingFails(i) ==
    /\ lpc[i] = "retry"
    /\ Fault /\ blurred' = blurred \cup {"ping"}
    /\ lpc' = [lpc EXCEPT ![i] = "read"]
    /\ UNCHANGED <<handlerVars, avail, sub, queue, sock, got, due>>

\* SUBSCRIBE raises, after the old connection was closed and replaced: the new
\* PubSub object has recorded no channel.  Without a connection get_message
\* raises at once and the loop retries; with one it connects, subscribes to
\* nothing and returns None from then on.
SubscribeFails(i) ==
    /\ lpc[i] = "retry"
    /\ Fault
    /\ sub' = [sub EXCEPT ![i] = FALSE]
    /\ queue' = [queue EXCEPT ![i] = <<>>]
    /\ \E next \in {"retry", "deaf"} : lpc' = [lpc EXCEPT ![i] = next]
    /\ Disturbed(i)
    /\ UNCHANGED <<handlerVars, avail, sock, got, blurred>>

\* The connection without a channel breaks and cannot be made again: get_message
\* raises, and the loop retries after all.
DeafBreaks(i) ==
    /\ lpc[i] = "deaf"
    /\ Unavailable(i)
    /\ UNCHANGED <<handlerVars, sub, queue, sock, got, due, faults, blurred>>

-----------------------------------------------------------------------------
\* ConnectionManager.connect; the client goes without a word; its endpoint, or
\* its close, takes the socket out (disconnect).
Register(i) ==
    /\ sock[i] = "none"
    /\ sock' = [sock EXCEPT ![i] = "open"]
    /\ UNCHANGED <<handlerVars, listenerVars, got, due, faults, blurred>>
Vanish(i) ==
    /\ sock[i] = "open"
    /\ sock' = [sock EXCEPT ![i] = "dead"]
    /\ Disturbed(i)
    /\ UNCHANGED <<handlerVars, listenerVars, got, faults, blurred>>
Disconnect(i) ==
    /\ sock[i] \in {"open", "dead"}
    /\ sock' = [sock EXCEPT ![i] = "gone"]
    /\ Disturbed(i)
    /\ UNCHANGED <<handlerVars, listenerVars, got, faults, blurred>>

\* lifespan, after the server has closed its sockets: detach_backend and stop.
Stop(i) ==
    /\ lpc[i] # "off"
    /\ Fault
    /\ lpc' = [lpc EXCEPT ![i] = "off"]
    /\ avail' = [avail EXCEPT ![i] = FALSE]
    /\ sub' = [sub EXCEPT ![i] = FALSE]
    /\ queue' = [queue EXCEPT ![i] = <<>>]
    /\ sock' = [sock EXCEPT ![i] = "gone"]
    /\ hpc' = [h \in Handler |-> IF home[h] = i THEN "done" ELSE hpc[h]]
    /\ Disturbed(i)
    /\ UNCHANGED <<home, sent, got, blurred>>

-----------------------------------------------------------------------------
HandlerStep(h) ==
    Send(h) \/ RedisPublish(h) \/ PublishRaises(h) \/ DeliverLocal(h) \/ LocalRaises(h)
Read(i) == Listen(i) \/ ListenRaises(i) \/ ListenBroken(i) \/ Reconnect(i)
ListenerStep(i) ==
    \/ Read(i) \/ ListenOther(i) \/ Resubscribe(i) \/ PingFails(i)
    \/ SubscribeFails(i) \/ DeafBreaks(i) \/ Drop(i)
SocketStep(i) == Register(i) \/ Vanish(i) \/ Disconnect(i)

Next ==
    \/ \E h \in Handler : HandlerStep(h)
    \/ \E i \in Instance : ListenerStep(i) \/ SocketStep(i) \/ Stop(i)

\* Handlers and listeners go on, and the back-off of a listener ends.  Nobody
\* has to connect or to leave.
Fairness ==
    /\ \A h \in Handler : WF_vars(HandlerStep(h))
    /\ \A i \in Instance : WF_vars(Read(i)) /\ WF_vars(Resubscribe(i))

Spec == Init /\ [][Next]_vars
FairSpec == Spec /\ Fairness

-----------------------------------------------------------------------------
TypeOK ==
    /\ home \in [Handler -> Instance]
    /\ hpc \in [Handler -> {"ready", "publishing", "local", "done"}]
    /\ sent \in [Handler -> 0 .. Length]
    /\ \A h \in Handler : hpc[h] # "done" => sent[h] < Length
    /\ avail \in [Instance -> BOOLEAN]
    /\ sub \in [Instance -> BOOLEAN]
    /\ queue \in [Instance -> Seq(Event)]
    /\ lpc \in [Instance -> {"read", "retry", "deaf", "off"}]
    /\ sock \in [Instance -> {"none", "open", "dead", "gone"}]
    /\ got \in [Instance -> Seq(Event)]
    /\ due \subseteq Instance \X Event
    /\ faults \in 0 .. MaxFaults /\ blurred \subseteq {"publish", "ping"}

\* A socket receives the events of a handler in the order in which they were
\* published, and none twice, although they come through Redis or directly as
\* the flag stands at each of them: what a listener did not read when it drops
\* out is lost, never late (send_to_users, _listen, _subscribe).  Two failures
\* break this: a PUBLISH that raises after Redis has executed it, and a ping
\* that fails while the old connection still holds events.
InOrderOnce ==
    blurred = {} =>
        \A i \in Instance : \A a, b \in DOMAIN got[i] :
            (a < b /\ got[i][a][1] = got[i][b][1]) => got[i][a][2] < got[i][b][2]

\* The way of an event to a healthy instance has no hole in it: as long as the
\* instance is not disturbed, the socket has received the event, or it waits in
\* the channel and, unless a PUBLISH or a ping has failed, no later event of its
\* handler has reached the socket before it (PUBLISH, _listen and the direct way
\* around them).
NothingOvertakes ==
    \A i \in Instance, e \in Event : <<i, e>> \in due =>
        \/ \E a \in DOMAIN got[i] : got[i][a] = e
        \/ /\ \E a \in DOMAIN queue[i] : queue[i][a] = e
           /\ blurred = {} => \A a \in DOMAIN got[i] : got[i][a][1] = e[1] => got[i][a][2] < e[2]

\* An event that Redis publishes arrives at every instance that is subscribed,
\* believes so, and has the user's socket open, unless it is disturbed later.
ReachesHealthy ==
    \A i \in Instance, e \in Event :
        (<<i, e>> \in due) ~> (<<i, e>> \notin due \/ \E a \in DOMAIN got[i] : got[i][a] = e)

\* An instance that lost Redis comes back to it: in the end it is subscribed
\* for good, unless it was stopped or its last attempt failed between the close of
\* the old connection and the SUBSCRIBE of the new one, and unless a ping has
\* failed its flag is set (_listen; after such a failure the flag waits for the
\* next event).
ListenerRecovers ==
    \A i \in Instance :
        <>[](lpc[i] \in {"off", "deaf"} \/ (sub[i] /\ (avail[i] \/ "ping" \in blurred)))

\* The same without the failed SUBSCRIBE as an exception: a running instance is
\* in the end subscribed.
SubscribedAgain == \A i \in Instance : <>[](lpc[i] = "off" \/ sub[i])
=============================================================================
