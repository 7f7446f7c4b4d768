--------------------------------- MODULE Typing ---------------------------------
(***************************************************************************)
(* The typing indicator of one user in one conversation, as the page of    *)
(* the peer shows it.  The user types on several devices.  Each device     *)
(* sends typing.start and typing.stop over its socket; the instance at the *)
(* other end counts the events against the rate limit of the user, keeps a *)
(* typing state with a deadline in Redis, or a timer of its own when Redis *)
(* is not available, and passes the events on.  A sweep of any instance    *)
(* claims a state that has expired and publishes the stop.                 *)
(*                                                                         *)
(* Time is discrete; a deadline is the number of ticks left.  An event     *)
(* that is published reaches the page of the peer at once or never: order  *)
(* is the matter of module Delivery.                                       *)
(***************************************************************************)
EXTENDS Integers, Sequences

CONSTANTS
    Instance,
    Device,
    Home,       \* Home[d]: the instance that device d is connected to
    PeerHome,   \* the instance that the peer is connected to
    TTL,        \* typing_ttl_seconds
    Limit,      \* typing_rate_limit
    Window,     \* realtime_rate_limit_window_seconds
    MaxInbox,   \* bound: events of a device that the server has not handled
    MaxFaults   \* bound: crashes, raising calls, lost events

ASSUME ConstantAssumption ==
    /\ Home \in [Device -> Instance] /\ PeerHome \in Instance
    /\ TTL \in Nat \ {0} /\ Limit \in Nat \ {0} /\ Window \in Nat \ {0}
    /\ MaxInbox \in Nat /\ MaxFaults \in Nat

None == -1  \* no deadline

VARIABLES
    tab,      \* tab[d]: quiet, typing, or gone
    inbox,    \* inbox[d]: events that d has sent; the first one is being handled
    pc,       \* pc[d]: where the handler of that event is
    up,       \* instances that run
    avail,    \* avail[i]: RedisRealtimeBackend._available
    typing,   \* the typing state in Redis: ticks to its deadline, 0 expired
    tracker,  \* tracker[i]: TypingTracker: ticks to the timer, 0 due
    firing,   \* instances whose timer has fired and has not sent yet
    claimed,  \* instances whose sweep has claimed the state, and not published yet
    rate,     \* the counter of the rate limit and the ticks to its expiry
    recent,   \* recent[a]: events that Redis admitted since the a-th last tick
    shown,    \* the page of the peer shows the indicator
    faults,
    spoiled   \* history: what has gone wrong so far, see Spoiling

handlerVars == <<tab, inbox, pc>>
instanceVars == <<up, avail, tracker, firing, claimed>>
rateVars == <<rate, recent>>
vars == <<handlerVars, instanceVars, typing, rateVars, shown, faults, spoiled>>

\* lost: a stop did not reach the peer.   overtaken: a state was removed between
\* its write and the publication of its start.
Spoiling == {"lost", "overtaken"}

Init ==
    /\ tab = [d \in Device |-> "quiet"]
    /\ inbox = [d \in Device |-> <<>>]
    /\ pc = [d \in Device |-> "idle"]
    /\ up = Instance
    /\ avail = [i \in Instance |-> TRUE]
    /\ typing = None
    /\ tracker = [i \in Instance |-> None]
    /\ firing = {} /\ claimed = {}
    /\ rate = [count |-> 0, left |-> 0]
    /\ recent = [a \in 0 .. Window - 1 |-> 0]
    /\ shown = FALSE
    /\ faults = 0 /\ spoiled = {}

Fault == faults < MaxFaults /\ faults' = faults + 1
NoFault == UNCHANGED faults
Spoil(kinds) == spoiled' = spoiled \cup kinds

Event(d) == Head(inbox[d])
\* A start whose state is written and that is not published yet.
StartPending == \E d \in Device : pc[d] \in {"publish", "send"} /\ Event(d) = "start"
Overtakes == IF StartPending THEN {"overtaken"} ELSE {}

\* The handler of d goes on, or is through with the event.
Goto(d, label) == pc' = [pc EXCEPT ![d] = label] /\ UNCHANGED <<tab, inbox>>
Done(d) ==
    /\ pc' = [pc EXCEPT ![d] = "idle"]
    /\ inbox' = [inbox EXCEPT ![d] = Tail(@)]
    /\ UNCHANGED tab

-----------------------------------------------------------------------------
\* The page of the user: updateDraft, stopTyping.  A start follows a stop.
StartTyping(d) ==
    /\ tab[d] = "quiet" /\ Len(inbox[d]) < MaxInbox
    /\ tab' = [tab EXCEPT ![d] = "typing"]
    /\ inbox' = [inbox EXCEPT ![d] = Append(@, "start")]
    /\ UNCHANGED <<pc, instanceVars, typing, rateVars, shown, faults, spoiled>>
StopTyping(d) ==
    /\ tab[d] = "typing" /\ Len(inbox[d]) < MaxInbox
    /\ tab' = [tab EXCEPT ![d] = "quiet"]
    /\ inbox' = [inbox EXCEPT ![d] = Append(@, "stop")]
    /\ UNCHANGED <<pc, instanceVars, typing, rateVars, shown, faults, spoiled>>
\* The page goes without a word; what it has sent may be lost with it.
Vanish(d) ==
    /\ tab[d] # "gone"
    /\ tab' = [tab EXCEPT ![d] = "gone"]
    /\ \/ UNCHANGED inbox
       \/ inbox' = [inbox EXCEPT ![d] = IF pc[d] = "idle" THEN <<>> ELSE <<Head(@)>>]
    /\ UNCHANGED <<pc, instanceVars, typing, rateVars, shown, faults, spoiled>>

-----------------------------------------------------------------------------
\* Mutant: the expiry is left to the caller.
CountsForever == rate' = [rate EXCEPT !.count = IF @ > Limit THEN @ ELSE @ + 1]
\* Mutant: every event puts the expiry off.
CountsRenewed == rate' = [count |-> IF rate.count > Limit THEN rate.count ELSE rate.count + 1,
                          left |-> Window]
\* RATE_LIMIT_SCRIPT: the first event of a window sets its expiry.  Above the
\* limit the value of the counter makes no difference.
Counts == rate' = [count |-> IF rate.count > Limit THEN rate.count ELSE rate.count + 1,
                   left |-> IF rate.count = 0 THEN Window ELSE rate.left]
\* Mutant: off by one.
AllowedOneMore == rate.count < Limit + 1
Allowed == rate.count < Limit
Accepted == recent' = [a \in 0 .. Window - 1 |-> recent[a] + 1]

\* dispatch_event: allow_action ...
Admit(d) ==
    /\ pc[d] = "idle" /\ inbox[d] # <<>>
    /\ avail[Home[d]] /\ Counts
    /\ IF Allowed THEN Accepted /\ Goto(d, "write") ELSE UNCHANGED recent /\ Done(d)
    /\ UNCHANGED <<instanceVars, typing, shown, faults, spoiled>>
\* ... which lets everything through without Redis.
AdmitUncounted(d) ==
    /\ pc[d] = "idle" /\ inbox[d] # <<>>
    /\ IF avail[Home[d]] THEN Fault ELSE NoFault
    /\ Goto(d, "write")
    /\ UNCHANGED <<instanceVars, typing, rateVars, shown, spoiled>>

-----------------------------------------------------------------------------
\* Mutant: the timer is not set.
FallBackUntimed(d) ==
    /\ Goto(d, "send")
    /\ UNCHANGED tracker
\* typing_start without Redis: TypingTracker.start; typing_stop has stopped it.
FallBack(d) ==
    /\ Goto(d, "send")
    /\ IF Event(d) = "start" THEN tracker' = [tracker EXCEPT ![Home[d]] = TTL]
       ELSE UNCHANGED tracker

\* typing_started: HSET and ZADD in one transaction.
WriteStart(d) ==
    /\ pc[d] = "write" /\ Event(d) = "start"
    /\ avail[Home[d]]
    /\ typing' = TTL
    /\ Goto(d, "publish")
    /\ UNCHANGED <<instanceVars, rateVars, shown, faults, spoiled>>
\* It raises, executed or not, or Redis is not available.
WriteStartFails(d) ==
    /\ pc[d] = "write" /\ Event(d) = "start"
    /\ IF avail[Home[d]] THEN Fault /\ typing' \in {typing, TTL}
       ELSE NoFault /\ UNCHANGED typing
    /\ FallBack(d)
    /\ UNCHANGED <<up, avail, firing, claimed, rateVars, shown, spoiled>>

\* typing_stop: TypingTracker.stop ...
StopTracker(d) == tracker' = [tracker EXCEPT ![Home[d]] = None]
\* ... and typing_stopped: ZREM and HDEL in one transaction.
WriteStop(d) ==
    /\ pc[d] = "write" /\ Event(d) = "stop"
    /\ avail[Home[d]]
    /\ StopTracker(d)
    /\ typing' = None
    /\ Spoil(Overtakes)
    /\ Goto(d, "publish")
    /\ UNCHANGED <<up, avail, firing, claimed, rateVars, shown, faults>>
\* It raises, executed or not, or Redis is not available.
WriteStopFails(d) ==
    /\ pc[d] = "write" /\ Event(d) = "stop"
    /\ StopTracker(d)
    /\ IF avail[Home[d]] THEN Fault /\ typing' \in {typing, None}
       ELSE NoFault /\ UNCHANGED typing
    /\ Spoil(Overtakes)
    /\ Goto(d, "send")
    /\ UNCHANGED <<up, avail, firing, claimed, rateVars, shown>>

-----------------------------------------------------------------------------
\* What becomes of the page of the peer: setTyping.
Shows(event) == shown' = (event = "start")
Reaches(event) == Shows(event) /\ NoFault /\ UNCHANGED spoiled
\* An event may be lost; that of a start does no harm.
Misses(event) ==
    Spoil(IF event = "stop" THEN {"lost"} ELSE {}) /\ UNCHANGED shown
PublishedFrom(i, event) == avail[i] /\ (Reaches(event) \/ (Fault /\ Misses(event)))
\* Without Redis, or when PUBLISH raises, the sockets of the instance have it.
DeliveredAt(i, event) ==
    /\ IF avail[i] THEN Fault ELSE NoFault
    /\ IF i = PeerHome THEN Shows(event) /\ UNCHANGED spoiled
       ELSE Misses(event)

\* publish_users at the end of typing_started and typing_stopped.
Publish(d) ==
    /\ pc[d] = "publish"
    /\ PublishedFrom(Home[d], Event(d))
    /\ Done(d)
    /\ UNCHANGED <<instanceVars, typing, rateVars>>
\* It raises, or returns False.
PublishFails(d) ==
    /\ pc[d] = "publish"
    /\ IF avail[Home[d]] THEN Fault ELSE NoFault
    /\ FallBack(d)
    /\ UNCHANGED <<up, avail, firing, claimed, typing, rateVars, shown, spoiled>>

\* send_to_users, by a handler or by a timer.
SentFrom(i, event) == PublishedFrom(i, event) \/ DeliveredAt(i, event)
Send(d) ==
    /\ pc[d] = "send"
    /\ SentFrom(Home[d], Event(d))
    /\ Done(d)
    /\ UNCHANGED <<instanceVars, typing, rateVars>>

\* TypingTracker.expire: the timer has left the table and cannot be stopped.
TimerFires(i) ==
    /\ tracker[i] = 0 /\ i \notin firing
    /\ tracker' = [tracker EXCEPT ![i] = None]
    /\ firing' = firing \cup {i}
    /\ Spoil(Overtakes)
    /\ UNCHANGED <<handlerVars, up, avail, claimed, typing, rateVars, shown, faults>>
TimerSends(i) ==
    /\ i \in firing
    /\ SentFrom(i, "stop")
    /\ firing' = firing \ {i}
    /\ UNCHANGED <<handlerVars, up, avail, tracker, claimed, typing, rateVars>>

-----------------------------------------------------------------------------
\* TYPING_SWEEP_SCRIPT: the state goes to one sweep.
SweepClaim(i) ==
    /\ i \in up \ claimed
    /\ typing = 0
    /\ typing' = None
    /\ claimed' = claimed \cup {i}
    /\ Spoil(Overtakes)
    /\ UNCHANGED <<handlerVars, up, avail, tracker, firing, rateVars, shown, faults>>
\* Mutant: the claim is not followed by the event.
SweepPublishForgets(i) ==
    /\ i \in claimed
    /\ claimed' = claimed \ {i}
    /\ UNCHANGED <<handlerVars, up, avail, tracker, firing, typing, rateVars, shown, faults, spoiled>>
\* _sweep_typing publishes, or publish_users returns False or raises.
SweepPublish(i) ==
    /\ i \in claimed
    /\ claimed' = claimed \ {i}
    /\ \/ PublishedFrom(i, "stop")
       \/ ~avail[i] /\ NoFault /\ Misses("stop")
    /\ UNCHANGED <<handlerVars, up, avail, tracker, firing, typing, rateVars>>

-----------------------------------------------------------------------------
\* The listener of an instance loses Redis, and finds it again (Delivery).
LoseRedis(i) ==
    /\ i \in up /\ avail[i]
    /\ Fault
    /\ avail' = [avail EXCEPT ![i] = FALSE]
    /\ UNCHANGED <<handlerVars, up, tracker, firing, claimed, typing, rateVars, shown, spoiled>>
FindRedis(i) ==
    /\ i \in up /\ ~avail[i]
    /\ avail' = [avail EXCEPT ![i] = TRUE]
    /\ UNCHANGED <<handlerVars, up, tracker, firing, claimed, typing, rateVars, shown, faults, spoiled>>

\* An instance dies, with its sockets, handlers and timers; that of the peer
\* lives.
Crash(i) ==
    /\ i \in up /\ i # PeerHome
    /\ Fault
    /\ up' = up \ {i}
    /\ tab' = [d \in Device |-> IF Home[d] = i THEN "gone" ELSE tab[d]]
    /\ inbox' = [d \in Device |-> IF Home[d] = i THEN <<>> ELSE inbox[d]]
    /\ pc' = [d \in Device |-> IF Home[d] = i THEN "idle" ELSE pc[d]]
    /\ tracker' = [tracker EXCEPT ![i] = None]
    /\ firing' = firing \ {i} /\ claimed' = claimed \ {i}
    /\ Spoil(IF \/ tracker[i] # None \/ i \in firing \/ i \in claimed
                \/ \E d \in Device : Home[d] = i /\ pc[d] \in {"publish", "send"}
             THEN {"lost"} ELSE {})
    /\ UNCHANGED <<avail, typing, rateVars, shown>>

\* The sweeps are more frequent than the ticks.
Tick ==
    /\ typing # 0 /\ \A i \in Instance : tracker[i] # 0
    /\ typing' = IF typing = None THEN None ELSE typing - 1
    /\ tracker' = [i \in Instance |-> IF tracker[i] = None THEN None ELSE tracker[i] - 1]
    /\ rate' = IF rate.left > 1 THEN [rate EXCEPT !.left = @ - 1] ELSE [count |-> 0, left |-> 0]
    /\ recent' = [a \in 0 .. Window - 1 |-> IF a = 0 THEN 0 ELSE recent[a - 1]]
    /\ UNCHANGED <<handlerVars, up, avail, firing, claimed, shown, faults, spoiled>>

-----------------------------------------------------------------------------
PageStep(d) == StartTyping(d) \/ StopTyping(d) \/ Vanish(d)
HandlerStep(d) ==
    \/ Admit(d) \/ AdmitUncounted(d)
    \/ WriteStart(d) \/ WriteStartFails(d) \/ WriteStop(d) \/ WriteStopFails(d)
    \/ Publish(d) \/ PublishFails(d) \/ Send(d)
TimerStep(i) == TimerFires(i) \/ TimerSends(i)
SweepStep(i) == SweepClaim(i) \/ SweepPublish(i)
FaultStep(i) == LoseRedis(i) \/ FindRedis(i) \/ Crash(i)

Next ==
    \/ \E d \in Device : PageStep(d) \/ HandlerStep(d)
    \/ \E i \in Instance : TimerStep(i) \/ SweepStep(i) \/ FaultStep(i)
    \/ Tick

\* Handlers, timers and sweeps go on, time passes, and a page stops typing by
\* its timer of 1.5 seconds.
Fairness ==
    /\ \A d \in Device : WF_vars(HandlerStep(d)) /\ WF_vars(StopTyping(d))
    /\ \A i \in Instance : WF_vars(TimerStep(i)) /\ WF_vars(SweepStep(i))
    /\ WF_vars(Tick)

Spec == Init /\ [][Next]_vars
FairSpec == Spec /\ Fairness
-----------------------------------------------------------------------------
Deadline == None .. TTL

TypeOK ==
    /\ tab \in [Device -> {"quiet", "typing", "gone"}]
    /\ inbox \in [Device -> Seq({"start", "stop"})]
    /\ pc \in [Device -> {"idle", "write", "publish", "send"}]
    /\ \A d \in Device : pc[d] # "idle" => inbox[d] # <<>>
    /\ up \subseteq Instance /\ firing \subseteq up /\ claimed \subseteq up
    /\ avail \in [Instance -> BOOLEAN]
    /\ typing \in Deadline /\ tracker \in [Instance -> Deadline]
    /\ rate \in [count : 0 .. Limit + 1, left : 0 .. Window]
    /\ rate.count > 0 <=> rate.left > 0
    /\ recent \in [0 .. Window - 1 -> Nat]
    /\ shown \in BOOLEAN
    /\ faults \in 0 .. MaxFaults /\ spoiled \subseteq Spoiling

\* While the peer sees the indicator there is something that will put it out:
\* a state in Redis, a timer, or a stop that is about to be sent.  This fails
\* in two ways only: such a stop is lost, or a state is removed, by another
\* device or at its deadline, before its start is published (typing_started,
\* typing_stopped, _sweep_typing, TypingTracker).
IndicatorBacked ==
    shown /\ spoiled = {} =>
        \/ typing # None
        \/ \E i \in Instance : tracker[i] # None
        \/ firing # {} \/ claimed # {}
        \/ \E d \in Device : pc[d] \in {"publish", "send"} /\ Event(d) = "stop"

\* When nobody types any more the indicator goes off, whether the devices have
\* sent their stop, vanished, or were refused by the limit, but for the two ways
\* above (README.md: typing indicators "cannot remain stuck indefinitely").
NobodyTypes == \A d \in Device : tab[d] # "typing" /\ inbox[d] = <<>>
IndicatorClears ==
    <>[]NobodyTypes => <>[](~shown \/ spoiled # {})

\* The same without the exceptions, as README.md:26 has it.
NeverStuck == <>[]NobodyTypes => <>[]~shown

\* In any span as long as a window Redis admits at most twice the limit, from all
\* instances and devices together: a window may end within the span
\* (RATE_LIMIT_SCRIPT).
BurstBounded == recent[Window - 1] <= 2 * Limit

\* A user who was refused is admitted again when the window ends, however often
\* the user tried meanwhile (RATE_LIMIT_SCRIPT sets the expiry once).
LimitLifts == rate.count > 0 ~> rate.count = 0
=============================================================================
