------------------------------ MODULE TypingProofs ------------------------------
(***************************************************************************)
(* Proofs about Typing, for any number of instances, devices and faults    *)
(* and any deadlines and limits.                                           *)
(*                                                                         *)
(* An indicator that is shown has something that will put it out because   *)
(* a start is sent only after that something was set: the start that is    *)
(* on its way is part of the invariant.  The rate limit holds over any     *)
(* span because the span meets at most two windows, each of which counts   *)
(* what it admits.                                                         *)
(***************************************************************************)
EXTENDS Typing, TLAPS

-----------------------------------------------------------------------------
(* The invariant.                                                          *)

\* A deadline is set.
Timed == typing # None \/ \E i \in Instance : tracker[i] # None
StopPending == \E d \in Device : pc[d] \in {"publish", "send"} /\ Event(d) = "stop"
Backed == Timed \/ firing # {} \/ claimed # {} \/ StopPending

\* A start that is about to be sent has its deadline.
Covered ==
    spoiled = {} =>
        /\ StartPending => Timed
        /\ shown => Backed

\* Only instances that run have devices, requests and timers.
Running ==
    /\ \A d \in Device : tab[d] # "gone" \/ inbox[d] # <<>> => Home[d] \in up
    /\ \A i \in Instance : tracker[i] # None => i \in up

\* While a window is open, what was admitted since it began has been counted;
\* what is older comes from one other window, of which the span holds a part.
Began == Window - rate.left
Metered ==
    /\ \A a, b \in 0 .. Window - 1 : a <= b => recent[a] <= recent[b]
    /\ rate.count = 0 => recent[0] = 0 /\ \A a \in 0 .. Window - 1 : recent[a] <= Limit
    /\ rate.count > 0 =>
         /\ recent[Began] <= rate.count /\ recent[Began] <= Limit
         /\ \A a \in 0 .. Window - 1 : recent[a] <= recent[Began] + Limit

IInv == TypeOK /\ Running /\ Covered /\ Metered

LEMMA AppendFacts ==
  ASSUME NEW q \in Seq({"start", "stop"}), NEW e \in {"start", "stop"}
  PROVE  /\ Append(q, e) \in Seq({"start", "stop"}) /\ Append(q, e) # <<>>
         /\ q # <<>> => Head(Append(q, e)) = Head(q)
  <1>1. Append(q, e) \in Seq({"start", "stop"})
    OBVIOUS
  <1>2. Len(Append(q, e)) = Len(q) + 1 /\ Len(q) \in Nat /\ Len(<<>>) = 0
    OBVIOUS
  <1>3. Append(q, e) # <<>>
    BY <1>2
  <1>4. q # <<>> => Head(Append(q, e)) = Head(q)
    OBVIOUS
  <1> QED
    BY <1>1, <1>3, <1>4

LEMMA Types ==
  ASSUME TypeOK
  PROVE  /\ \A d \in Device : Home[d] \in Instance /\ inbox[d] \in Seq({"start", "stop"})
         /\ \A d \in Device : pc[d] # "idle" => inbox[d] # <<>> /\ Event(d) \in {"start", "stop"}
  <1>1. \A d \in Device : Home[d] \in Instance /\ inbox[d] \in Seq({"start", "stop"})
    BY ConstantAssumption DEF TypeOK
  <1>2. \A q \in Seq({"start", "stop"}) : q # <<>> => Head(q) \in {"start", "stop"}
    OBVIOUS
  <1> QED
    BY <1>1, <1>2 DEF TypeOK, Event

-----------------------------------------------------------------------------
(* Types.                                                                  *)

HandlerTypes ==
    /\ tab \in [Device -> {"quiet", "typing", "gone"}]
    /\ inbox \in [Device -> Seq({"start", "stop"})]
    /\ pc \in [Device -> {"idle", "write", "publish", "send"}]
    /\ \A d \in Device : pc[d] # "idle" => inbox[d] # <<>>
InstanceTypes ==
    /\ up \subseteq Instance /\ firing \subseteq up /\ claimed \subseteq up
    /\ avail \in [Instance -> BOOLEAN]
    /\ tracker \in [Instance -> Deadline]
RateTypes ==
    /\ rate \in [count : 0 .. Limit + 1, left : 0 .. Window]
    /\ rate.count > 0 <=> rate.left > 0
    /\ recent \in [0 .. Window - 1 -> Nat]
PeerTypes ==
    /\ typing \in Deadline /\ shown \in BOOLEAN
    /\ faults \in 0 .. MaxFaults /\ spoiled \subseteq Spoiling

LEMMA TypeParts == TypeOK <=> HandlerTypes /\ InstanceTypes /\ RateTypes /\ PeerTypes
  BY DEF TypeOK, HandlerTypes, InstanceTypes, RateTypes, PeerTypes

LEMMA Deadlines == TTL \in Deadline /\ None \in Deadline /\ TTL # None
  BY ConstantAssumption DEF Deadline, None

\* Types of what a step leaves alone.
LEMMA TypesStay ==
  /\ HandlerTypes /\ UNCHANGED handlerVars => HandlerTypes'
  /\ InstanceTypes /\ UNCHANGED instanceVars => InstanceTypes'
  /\ RateTypes /\ UNCHANGED rateVars => RateTypes'
  <1>1. HandlerTypes /\ UNCHANGED handlerVars => HandlerTypes'
    BY DEF HandlerTypes, handlerVars
  <1>2. InstanceTypes /\ UNCHANGED instanceVars => InstanceTypes'
    BY DEF InstanceTypes, instanceVars
  <1>3. RateTypes /\ UNCHANGED rateVars => RateTypes'
    BY DEF RateTypes, rateVars
  <1> QED
    BY <1>1, <1>2, <1>3

LEMMA PeerTyped ==
  ASSUME PeerTypes, typing' \in Deadline, shown' = shown \/ shown' \in BOOLEAN,
         faults' = faults \/ Fault, spoiled' \subseteq Spoiling
  PROVE  PeerTypes'
  <1>1. faults' \in 0 .. MaxFaults
    BY ConstantAssumption DEF PeerTypes, Fault
  <1>2. shown' \in BOOLEAN
    BY DEF PeerTypes
  <1> QED
    BY <1>1, <1>2 DEF PeerTypes

\* A request goes on with the next event, or from one call to the next.
LEMMA HandlerMoves ==
  ASSUME HandlerTypes, NEW d \in Device, inbox[d] # <<>>,
         Done(d) \/ \E l \in {"write", "publish", "send"} : Goto(d, l)
  PROVE  HandlerTypes' /\ tab' = tab /\ \A k \in Device : inbox'[k] # <<>> => inbox[k] # <<>>
  <1>1. CASE Done(d)
    <2>1. Tail(inbox[d]) \in Seq({"start", "stop"})
      BY DEF HandlerTypes
    <2>2. /\ inbox' = [inbox EXCEPT ![d] = Tail(inbox[d])] /\ pc' = [pc EXCEPT ![d] = "idle"]
          /\ tab' = tab
      BY <1>1 DEF Done
    <2>3. inbox' \in [Device -> Seq({"start", "stop"})]
      BY <2>1, <2>2 DEF HandlerTypes
    <2>4. pc' \in [Device -> {"idle", "write", "publish", "send"}] /\ pc'[d] = "idle"
      BY <2>2 DEF HandlerTypes
    <2>5. \A k \in Device : k # d => pc'[k] = pc[k] /\ inbox'[k] = inbox[k]
      BY <2>2 DEF HandlerTypes
    <2> QED
      BY <2>2, <2>3, <2>4, <2>5 DEF HandlerTypes
  <1>2. CASE \E l \in {"write", "publish", "send"} : Goto(d, l)
    BY <1>2 DEF Goto, HandlerTypes
  <1> QED
    BY <1>1, <1>2

\* What the request of a device does.
LEMMA HandlerEffects ==
  ASSUME TypeOK, NEW d \in Device, HandlerStep(d)
  PROVE  /\ inbox[d] # <<>>
         /\ Done(d) \/ \E l \in {"write", "publish", "send"} : Goto(d, l)
         /\ up' = up /\ avail' = avail /\ firing' = firing /\ claimed' = claimed
         /\ tracker' = tracker \/ \E t \in {TTL, None} : tracker' = [tracker EXCEPT ![Home[d]] = t]
         /\ typing' \in {typing, TTL, None}
         /\ UNCHANGED rateVars \/ (Counts /\ ((Allowed /\ Accepted) \/ recent' = recent))
         /\ shown' = shown \/ shown' \in BOOLEAN
         /\ faults' = faults \/ Fault
         /\ spoiled' = spoiled \/ \E k \in SUBSET Spoiling : spoiled' = spoiled \cup k
  <1>0. pc[d] # "idle" => inbox[d] # <<>>
    BY DEF TypeOK
  <1>1. CASE Admit(d)
    BY <1>1 DEF Admit, instanceVars
  <1>2. CASE AdmitUncounted(d)
    BY <1>2 DEF AdmitUncounted, instanceVars, NoFault
  <1>3. CASE WriteStart(d)
    BY <1>0, <1>3 DEF WriteStart, instanceVars
  <1>4. CASE WriteStartFails(d)
    BY <1>0, <1>4 DEF WriteStartFails, NoFault, FallBack
  <1>5. CASE WriteStop(d)
    BY <1>0, <1>5 DEF WriteStop, StopTracker, Spoil, Overtakes, Spoiling
  <1>6. CASE WriteStopFails(d)
    BY <1>0, <1>6 DEF WriteStopFails, StopTracker, NoFault, Spoil, Overtakes, Spoiling
  <1>7. CASE Publish(d)
    BY <1>0, <1>7 DEF Publish, instanceVars, PublishedFrom, Reaches, Shows, Misses, NoFault, Spoil, Spoiling
  <1>8. CASE PublishFails(d)
    BY <1>0, <1>8 DEF PublishFails, FallBack, NoFault
  <1>9. CASE Send(d)
    BY <1>0, <1>9 DEF Send, SentFrom, DeliveredAt, instanceVars, PublishedFrom, Reaches, Shows, Misses,
                      NoFault, Spoil, Spoiling
  <1> QED
    BY <1>1, <1>2, <1>3, <1>4, <1>5, <1>6, <1>7, <1>8, <1>9 DEF HandlerStep

LEMMA HandlerTyped ==
  ASSUME TypeOK, Running, NEW d \in Device, HandlerStep(d)
  PROVE  TypeOK' /\ Running'
  <1>0. /\ HandlerTypes /\ InstanceTypes /\ RateTypes /\ PeerTypes /\ Home[d] \in Instance
        /\ inbox[d] # <<>> /\ Home[d] \in up
    BY TypeParts, HandlerEffects, ConstantAssumption DEF Running
  <1>1. HandlerTypes' /\ tab' = tab /\ \A k \in Device : inbox'[k] # <<>> => inbox[k] # <<>>
    BY <1>0, HandlerEffects, HandlerMoves
  <1>2. InstanceTypes' /\ \A i \in Instance : tracker'[i] # None => i \in up
    <2>1. /\ up' = up /\ avail' = avail /\ firing' = firing /\ claimed' = claimed
          /\ tracker' = tracker \/ \E t \in {TTL, None} : tracker' = [tracker EXCEPT ![Home[d]] = t]
      BY HandlerEffects
    <2>2. tracker' \in [Instance -> Deadline]
      BY <1>0, <2>1, Deadlines DEF InstanceTypes
    <2>3. \A i \in Instance : tracker'[i] # None => tracker[i] # None \/ i = Home[d]
      BY <1>0, <2>1 DEF InstanceTypes
    <2> QED
      BY <1>0, <2>1, <2>2, <2>3 DEF InstanceTypes, Running
  <1>3. RateTypes'
    <2>1. CASE UNCHANGED rateVars
      BY <1>0, <2>1, TypesStay
    <2>2. CASE Counts /\ ((Allowed /\ Accepted) \/ recent' = recent)
      <3>1. rate' \in [count : 0 .. Limit + 1, left : 0 .. Window] /\ (rate'.count > 0 <=> rate'.left > 0)
        BY <1>0, <2>2, ConstantAssumption DEF Counts, RateTypes
      <3>2. recent' \in [0 .. Window - 1 -> Nat]
        BY <1>0, <2>2, ConstantAssumption DEF Accepted, RateTypes
      <3> QED
        BY <3>1, <3>2 DEF RateTypes
    <2> QED
      BY <2>1, <2>2, HandlerEffects
  <1>4. PeerTypes'
    <2>1. typing' \in Deadline
      BY <1>0, HandlerEffects, Deadlines DEF PeerTypes
    <2>2. spoiled' \subseteq Spoiling
      BY <1>0, HandlerEffects DEF PeerTypes
    <2> QED
      BY <1>0, <2>1, <2>2, HandlerEffects, PeerTyped
  <1>5. Running'
    <2>1. up' = up
      BY HandlerEffects
    <2> QED
      BY <1>1, <1>2, <2>1 DEF Running
  <1> QED
    BY <1>1, <1>2, <1>3, <1>4, <1>5 DEF TypeOK, HandlerTypes, InstanceTypes, RateTypes, PeerTypes

LEMMA PageTyped ==
  ASSUME TypeOK, Running, NEW d \in Device, PageStep(d)
  PROVE  TypeOK' /\ Running'
  <1>0. /\ HandlerTypes /\ InstanceTypes /\ RateTypes /\ PeerTypes
        /\ inbox[d] \in Seq({"start", "stop"})
    BY TypeParts DEF TypeOK
  <1>1. /\ UNCHANGED <<instanceVars, typing, rateVars, shown, faults, spoiled>> /\ pc' = pc
        /\ tab[d] # "gone"
        /\ \E t \in {"quiet", "typing", "gone"} : tab' = [tab EXCEPT ![d] = t]
    BY DEF PageStep, StartTyping, StopTyping, Vanish
  <1>2. /\ \E q \in Seq({"start", "stop"}) : inbox' = [inbox EXCEPT ![d] = q] /\ (pc[d] # "idle" => q # <<>>)
    <2>1. CASE StartTyping(d)
      <3>1. Append(inbox[d], "start") \in Seq({"start", "stop"}) /\ Append(inbox[d], "start") # <<>>
        BY <1>0, AppendFacts
      <3> QED
        BY <2>1, <3>1 DEF StartTyping
    <2>2. CASE StopTyping(d)
      <3>1. Append(inbox[d], "stop") \in Seq({"start", "stop"}) /\ Append(inbox[d], "stop") # <<>>
        BY <1>0, AppendFacts
      <3> QED
        BY <2>2, <3>1 DEF StopTyping
    <2>3. CASE Vanish(d)
      <3>1. CASE UNCHANGED inbox
        BY <1>0, <3>1 DEF HandlerTypes
      <3>2. CASE inbox' = [inbox EXCEPT ![d] = IF pc[d] = "idle" THEN <<>> ELSE <<Head(@)>>]
        <4>1. pc[d] # "idle" => <<Head(inbox[d])>> \in Seq({"start", "stop"})
          BY <1>0 DEF HandlerTypes
        <4>2. <<>> \in Seq({"start", "stop"}) /\ <<Head(inbox[d])>> # <<>>
          OBVIOUS
        <4> QED
          BY <3>2, <4>1, <4>2
      <3> QED
        BY <2>3, <3>1, <3>2 DEF Vanish
    <2> QED
      BY <2>1, <2>2, <2>3 DEF PageStep
  <1>3. HandlerTypes'
    BY <1>0, <1>1, <1>2 DEF HandlerTypes
  <1>4. InstanceTypes' /\ RateTypes' /\ PeerTypes'
    <2>1. typing' \in Deadline /\ spoiled' \subseteq Spoiling
      BY <1>0, <1>1 DEF PeerTypes
    <2> QED
      BY <1>0, <1>1, <2>1, TypesStay, PeerTyped
  <1>5. Running'
    <2>1. \A k \in Device : k # d => tab'[k] = tab[k] /\ inbox'[k] = inbox[k]
      BY <1>0, <1>1, <1>2 DEF HandlerTypes
    <2>2. Home[d] \in up /\ up' = up /\ tracker' = tracker
      BY <1>1 DEF Running, instanceVars
    <2> QED
      BY <2>1, <2>2 DEF Running
  <1> QED
    BY <1>3, <1>4, <1>5 DEF TypeOK, HandlerTypes, InstanceTypes, RateTypes, PeerTypes

LEMMA InstanceTyped ==
  ASSUME TypeOK, Running, NEW i \in Instance, TimerStep(i) \/ SweepStep(i) \/ FaultStep(i)
  PROVE  TypeOK' /\ Running'
  <1>0. HandlerTypes /\ InstanceTypes /\ RateTypes /\ PeerTypes
    BY TypeParts
  <1>1. /\ rateVars' = rateVars
        /\ typing' \in {typing, None}
        /\ shown' = shown \/ shown' \in BOOLEAN
        /\ faults' = faults \/ Fault
        /\ spoiled' = spoiled \/ \E k \in SUBSET Spoiling : spoiled' = spoiled \cup k
    <2>1. CASE TimerFires(i)
      BY <2>1 DEF TimerFires, Spoil, Overtakes, Spoiling
    <2>2. CASE TimerSends(i)
      BY <2>2 DEF TimerSends, SentFrom, DeliveredAt, PublishedFrom, Reaches, Shows, Misses, NoFault,
                  Spoil, Spoiling
    <2>3. CASE SweepClaim(i)
      BY <2>3 DEF SweepClaim, Spoil, Overtakes, Spoiling
    <2>4. CASE SweepPublish(i)
      BY <2>4 DEF SweepPublish, PublishedFrom, Reaches, Shows, Misses, NoFault, Spoil, Spoiling
    <2>5. CASE LoseRedis(i) \/ FindRedis(i)
      BY <2>5 DEF LoseRedis, FindRedis
    <2>6. CASE Crash(i)
      BY <2>6 DEF Crash, Spoil, Spoiling
    <2> QED
      BY <2>1, <2>2, <2>3, <2>4, <2>5, <2>6 DEF TimerStep, SweepStep, FaultStep
  <1>2. RateTypes' /\ PeerTypes'
    <2>1. typing' \in Deadline /\ spoiled' \subseteq Spoiling
      BY <1>0, <1>1, Deadlines DEF PeerTypes
    <2> QED
      BY <1>0, <1>1, <2>1, TypesStay, PeerTyped
  <1>3. CASE Crash(i)
    <2>1. /\ up' = up \ {i} /\ firing' = firing \ {i} /\ claimed' = claimed \ {i} /\ avail' = avail
          /\ tracker' = [tracker EXCEPT ![i] = None]
          /\ tab' = [d \in Device |-> IF Home[d] = i THEN "gone" ELSE tab[d]]
          /\ inbox' = [d \in Device |-> IF Home[d] = i THEN <<>> ELSE inbox[d]]
          /\ pc' = [d \in Device |-> IF Home[d] = i THEN "idle" ELSE pc[d]]
      BY <1>3 DEF Crash
    <2>2. HandlerTypes'
      BY <1>0, <2>1 DEF HandlerTypes
    <2>3. InstanceTypes' /\ \A j \in Instance : tracker'[j] # None => j # i /\ tracker[j] # None
      <3>1. tracker' \in [Instance -> Deadline]
        BY <1>0, <2>1, Deadlines DEF InstanceTypes
      <3>2. \A j \in Instance : tracker'[j] # None => j # i /\ tracker[j] # None
        BY <1>0, <2>1 DEF InstanceTypes
      <3> QED
        BY <1>0, <2>1, <3>1, <3>2 DEF InstanceTypes
    <2>4. Running'
      BY <2>1, <2>3 DEF Running
    <2> QED
      BY <1>2, <2>2, <2>3, <2>4 DEF TypeOK, HandlerTypes, InstanceTypes, RateTypes, PeerTypes
  <1>4. CASE ~Crash(i)
    <2>1. UNCHANGED handlerVars /\ up' = up
      BY <1>4 DEF TimerStep, SweepStep, FaultStep, TimerFires, TimerSends, SweepClaim, SweepPublish,
                  LoseRedis, FindRedis
    <2>2. tracker' = tracker \/ tracker' = [tracker EXCEPT ![i] = None]
      BY <1>4 DEF TimerStep, SweepStep, FaultStep, TimerFires, TimerSends, SweepClaim, SweepPublish,
                  LoseRedis, FindRedis
    <2>3. avail' = avail \/ \E b \in BOOLEAN : avail' = [avail EXCEPT ![i] = b]
      BY <1>4 DEF TimerStep, SweepStep, FaultStep, TimerFires, TimerSends, SweepClaim, SweepPublish,
                  LoseRedis, FindRedis
    <2>4. tracker' \in [Instance -> Deadline] /\ \A j \in Instance : tracker'[j] # None => tracker[j] # None
      BY <1>0, <2>2, Deadlines DEF InstanceTypes
    <2>5. firing' \subseteq up
      <3>1. TimerFires(i) => i \in up
        BY DEF TimerFires, Running, None
      <3> QED
        BY <1>0, <1>4, <3>1 DEF InstanceTypes, TimerStep, SweepStep, FaultStep, TimerFires, TimerSends,
           SweepClaim, SweepPublish, LoseRedis, FindRedis
    <2>6. claimed' \subseteq up
      BY <1>0, <1>4 DEF InstanceTypes, TimerStep, SweepStep, FaultStep, TimerFires, TimerSends,
         SweepClaim, SweepPublish, LoseRedis, FindRedis
    <2>7. InstanceTypes'
      BY <1>0, <2>1, <2>3, <2>4, <2>5, <2>6 DEF InstanceTypes
    <2>8. HandlerTypes'
      BY <1>0, <2>1, TypesStay
    <2>9. Running'
      BY <2>1, <2>4 DEF Running, handlerVars
    <2> QED
      BY <1>2, <2>7, <2>8, <2>9 DEF TypeOK, HandlerTypes, InstanceTypes, RateTypes, PeerTypes
  <1> QED
    BY <1>3, <1>4

LEMMA TickTyped ==
  ASSUME TypeOK, Running, Tick
  PROVE  TypeOK' /\ Running'
  <1>0. HandlerTypes /\ InstanceTypes /\ RateTypes /\ PeerTypes
    BY TypeParts
  <1>1. \A t \in Deadline : t # 0 => (IF t = None THEN None ELSE t - 1) \in Deadline
    BY ConstantAssumption DEF Deadline, None
  <1>2. HandlerTypes'
    BY <1>0, TypesStay DEF Tick
  <1>3. InstanceTypes' /\ \A i \in Instance : tracker'[i] # None => tracker[i] # None
    <2>1. /\ UNCHANGED <<up, avail, firing, claimed>> /\ \A i \in Instance : tracker[i] # 0
          /\ tracker' = [i \in Instance |-> IF tracker[i] = None THEN None ELSE tracker[i] - 1]
      BY DEF Tick
    <2>2. tracker' \in [Instance -> Deadline]
      BY <1>0, <1>1, <2>1 DEF InstanceTypes
    <2> QED
      BY <1>0, <2>1, <2>2 DEF InstanceTypes
  <1>4. RateTypes'
    <2>1. rate' \in [count : 0 .. Limit + 1, left : 0 .. Window] /\ (rate'.count > 0 <=> rate'.left > 0)
      BY <1>0, ConstantAssumption DEF Tick, RateTypes
    <2>2. recent' \in [0 .. Window - 1 -> Nat]
      BY <1>0, ConstantAssumption DEF Tick, RateTypes
    <2> QED
      BY <2>1, <2>2 DEF RateTypes
  <1>5. PeerTypes'
    BY <1>0, <1>1 DEF Tick, PeerTypes
  <1>6. Running'
    BY <1>3 DEF Tick, Running, handlerVars
  <1> QED
    BY <1>2, <1>3, <1>4, <1>5, <1>6 DEF TypeOK, HandlerTypes, InstanceTypes, RateTypes, PeerTypes

-----------------------------------------------------------------------------
(* The indicator and what will put it out.                                 *)

\* The events that are about to be sent: when a request is not concerned, begins,
\* goes from one call to the next, or ends.
LEMMA PendingStays ==
  ASSUME TypeOK, pc' = pc, \A d \in Device : pc[d] # "idle" => Event(d)' = Event(d)
  PROVE  (StartPending' <=> StartPending) /\ (StopPending' <=> StopPending)
  BY DEF StartPending, StopPending

LEMMA PendingBegins ==
  ASSUME TypeOK, NEW d \in Device, pc[d] = "idle", Goto(d, "write") \/ Done(d)
  PROVE  (StartPending' => StartPending) /\ (StopPending => StopPending')
  <1>1. \A k \in Device : k # d => pc'[k] = pc[k] /\ inbox'[k] = inbox[k]
    BY DEF Goto, Done, TypeOK
  <1>2. pc'[d] \in {"idle", "write"}
    BY DEF Goto, Done, TypeOK
  <1> QED
    BY <1>1, <1>2 DEF StartPending, StopPending, Event

LEMMA PendingMoves ==
  ASSUME TypeOK, NEW d \in Device, NEW l \in {"publish", "send"}, Goto(d, l), Event(d) = "stop"
  PROVE  StopPending' /\ (StartPending' => StartPending)
  <1>1. inbox' = inbox /\ pc'[d] = l /\ \A k \in Device : k # d => pc'[k] = pc[k]
    BY DEF Goto, TypeOK
  <1> QED
    BY <1>1 DEF StartPending, StopPending, Event

LEMMA PendingEnds ==
  ASSUME TypeOK, NEW d \in Device, Done(d)
  PROVE  StartPending' => StartPending
  <1>1. \A k \in Device : IF k = d THEN pc'[k] = "idle" ELSE pc'[k] = pc[k] /\ inbox'[k] = inbox[k]
    BY DEF Done, TypeOK
  <1> QED
    BY <1>1 DEF StartPending, Event

\* A stop that is sent puts the indicator out or is lost; a start shows it.
LEMMA Sends ==
  ASSUME NEW i \in Instance, NEW event \in {"start", "stop"},
         SentFrom(i, event) \/ (Misses(event) /\ NoFault), spoiled' = {}
  PROVE  /\ spoiled = {}
         /\ event = "stop" => ~shown'
  BY DEF SentFrom, PublishedFrom, DeliveredAt, Reaches, Shows, Misses, Spoil

LEMMA HandlerCovered ==
  ASSUME TypeOK, Covered, NEW d \in Device, HandlerStep(d)
  PROVE  Covered'
  <1> SUFFICES ASSUME spoiled' = {} PROVE (StartPending' => Timed') /\ (shown' => Backed')
    BY DEF Covered
  <1>0. /\ Home[d] \in Instance /\ (pc[d] # "idle" => Event(d) \in {"start", "stop"})
        /\ (pc[d] \in {"publish", "send"} /\ Event(d) = "start" => StartPending)
    BY Types DEF StartPending
  <1>1. spoiled = {} => (StartPending => Timed) /\ (shown => Backed)
    BY DEF Covered
  <1>2. CASE Admit(d) \/ AdmitUncounted(d)
    <2>1. /\ pc[d] = "idle" /\ (Goto(d, "write") \/ Done(d))
          /\ UNCHANGED <<instanceVars, typing, shown, spoiled>>
      BY <1>2 DEF Admit, AdmitUncounted
    <2>2. (StartPending' => StartPending) /\ (StopPending => StopPending')
      BY <2>1, PendingBegins
    <2> QED
      BY <1>1, <2>1, <2>2 DEF Timed, Backed, instanceVars
  <1>3. CASE WriteStart(d)
    <2>1. Timed'
      BY <1>3, Deadlines DEF WriteStart, Timed
    <2> QED
      BY <2>1 DEF Backed
  <1>4. ASSUME FallBack(d), typing' = typing \/ typing' = TTL, shown' = shown, spoiled' = spoiled,
               Event(d) \in {"start", "stop"}
        PROVE  (StartPending' => Timed') /\ (shown' => Backed')
    <2>1. CASE Event(d) = "start"
      <3>1. tracker'[Home[d]] = TTL
        BY <1>0, <1>4, <2>1 DEF FallBack, TypeOK
      <3> QED
        BY <1>0, <3>1, Deadlines DEF Timed, Backed
    <2>2. CASE Event(d) = "stop"
      <3>1. tracker' = tracker /\ Goto(d, "send")
        BY <1>4, <2>2 DEF FallBack
      <3>2. StopPending' /\ (StartPending' => StartPending)
        BY <2>2, <3>1, PendingMoves
      <3>3. Timed => Timed'
        BY <1>4, <3>1, Deadlines DEF Timed
      <3> QED
        BY <1>1, <1>4, <3>2, <3>3 DEF Backed
    <2> QED
      BY <1>4, <2>1, <2>2
  <1>5. CASE WriteStartFails(d)
    BY <1>0, <1>4, <1>5 DEF WriteStartFails
  <1>6. CASE PublishFails(d)
    BY <1>0, <1>4, <1>6 DEF PublishFails
  <1>7. CASE WriteStop(d) \/ WriteStopFails(d)
    <2>1. /\ Event(d) = "stop" /\ Spoil(Overtakes)
          /\ \E l \in {"publish", "send"} : Goto(d, l)
      BY <1>7 DEF WriteStop, WriteStopFails
    <2>2. StopPending' /\ (StartPending' => StartPending)
      BY <2>1, PendingMoves
    <2>3. ~StartPending
      BY <2>1 DEF Spoil, Overtakes
    <2> QED
      BY <2>2, <2>3 DEF Backed
  <1>8. CASE Publish(d) \/ Send(d)
    <2>1. /\ pc[d] \in {"publish", "send"} /\ SentFrom(Home[d], Event(d)) /\ Done(d)
          /\ UNCHANGED <<instanceVars, typing>>
      BY <1>8 DEF Publish, Send, SentFrom
    <2>2. Timed' <=> Timed
      BY <2>1 DEF Timed, instanceVars
    <2>3. Event(d) \in {"start", "stop"} /\ spoiled = {} /\ (Event(d) = "stop" => ~shown')
      BY <1>0, <2>1, Sends
    <2>4. StartPending' => Timed'
      BY <1>1, <2>1, <2>2, <2>3, PendingEnds
    <2>5. shown' => Backed'
      BY <1>0, <1>1, <2>1, <2>2, <2>3 DEF Backed
    <2> QED
      BY <2>4, <2>5
  <1> QED
    BY <1>2, <1>3, <1>5, <1>6, <1>7, <1>8 DEF HandlerStep

LEMMA PageCovered ==
  ASSUME TypeOK, Covered, NEW d \in Device, PageStep(d)
  PROVE  Covered'
  <1>1. UNCHANGED <<instanceVars, typing, shown, spoiled>> /\ pc' = pc
    BY DEF PageStep, StartTyping, StopTyping, Vanish
  <1>2. \A k \in Device : pc[k] # "idle" => Event(k)' = Event(k)
    <2> SUFFICES ASSUME NEW k \in Device, pc[k] # "idle" PROVE Head(inbox'[k]) = Head(inbox[k])
      BY DEF Event
    <2>1. inbox \in [Device -> Seq({"start", "stop"})] /\ inbox[k] \in Seq({"start", "stop"}) /\ inbox[k] # <<>>
      BY DEF TypeOK
    <2>2. CASE \E e \in {"start", "stop"} : inbox' = [inbox EXCEPT ![d] = Append(@, e)]
      BY <2>1, <2>2, AppendFacts
    <2>3. CASE Vanish(d)
      <3>1. CASE UNCHANGED inbox
        BY <3>1
      <3>2. CASE inbox' = [inbox EXCEPT ![d] = IF pc[d] = "idle" THEN <<>> ELSE <<Head(@)>>]
        <4>1. CASE k = d
          <5>1. inbox'[k] = <<Head(inbox[k])>>
            BY <2>1, <3>2, <4>1
          <5>2. Head(<<Head(inbox[k])>>) = Head(inbox[k])
            OBVIOUS
          <5> QED
            BY <5>1, <5>2
        <4>2. CASE k # d
          BY <2>1, <3>2, <4>2
        <4> QED
          BY <4>1, <4>2
      <3> QED
        BY <2>3, <3>1, <3>2 DEF Vanish
    <2> QED
      BY <2>2, <2>3 DEF PageStep, StartTyping, StopTyping
  <1>3. (StartPending' <=> StartPending) /\ (StopPending' <=> StopPending)
    BY <1>1, <1>2, PendingStays
  <1> QED
    BY <1>1, <1>3 DEF Covered, Timed, Backed, instanceVars

LEMMA InstanceCovered ==
  ASSUME TypeOK, Covered, NEW i \in Instance, TimerStep(i) \/ SweepStep(i) \/ FaultStep(i)
  PROVE  Covered'
  <1> SUFFICES ASSUME spoiled' = {} PROVE (StartPending' => Timed') /\ (shown' => Backed')
    BY DEF Covered
  <1>1. spoiled = {} => (StartPending => Timed) /\ (shown => Backed)
    BY DEF Covered
  <1>2. UNCHANGED handlerVars => (StartPending' <=> StartPending) /\ (StopPending' <=> StopPending)
    BY PendingStays DEF handlerVars, Event
  <1>3. CASE TimerFires(i)
    <2>1. UNCHANGED handlerVars /\ i \in firing' /\ ~StartPending
      BY <1>3 DEF TimerFires, Spoil, Overtakes
    <2> QED
      BY <1>2, <2>1 DEF Backed
  <1>4. CASE SweepClaim(i)
    <2>1. UNCHANGED handlerVars /\ i \in claimed' /\ ~StartPending
      BY <1>4 DEF SweepClaim, Spoil, Overtakes
    <2> QED
      BY <1>2, <2>1 DEF Backed
  <1>5. CASE TimerSends(i) \/ SweepPublish(i)
    <2>1. /\ UNCHANGED <<handlerVars, tracker, typing>>
          /\ SentFrom(i, "stop") \/ (Misses("stop") /\ NoFault)
      BY <1>5 DEF TimerSends, SweepPublish, SentFrom
    <2>2. spoiled = {} /\ ~shown'
      BY <2>1, Sends
    <2> QED
      BY <1>1, <1>2, <2>1, <2>2 DEF Timed
  <1>6. CASE LoseRedis(i) \/ FindRedis(i)
    <2>1. UNCHANGED <<handlerVars, tracker, firing, claimed, typing, shown, spoiled>>
      BY <1>6 DEF LoseRedis, FindRedis
    <2> QED
      BY <1>1, <1>2, <2>1 DEF Timed, Backed
  <1>7. CASE Crash(i)
    <2>1. /\ spoiled = {} /\ tracker[i] = None /\ i \notin firing /\ i \notin claimed
          /\ \A d \in Device : Home[d] = i => pc[d] \notin {"publish", "send"}
      BY <1>7 DEF Crash, Spoil
    <2>2. /\ tracker' = tracker /\ firing' = firing /\ claimed' = claimed
          /\ typing' = typing /\ shown' = shown
      <3>1. tracker' = tracker
        BY <1>7, <2>1 DEF Crash, TypeOK
      <3> QED
        BY <1>7, <2>1, <3>1 DEF Crash
    <2>3. \A d \in Device : IF Home[d] = i THEN pc'[d] = "idle" ELSE pc'[d] = pc[d] /\ inbox'[d] = inbox[d]
      BY <1>7 DEF Crash
    <2>4. (StartPending' <=> StartPending) /\ (StopPending' <=> StopPending)
      BY <2>1, <2>3 DEF StartPending, StopPending, Event
    <2> QED
      BY <1>1, <2>1, <2>2, <2>4 DEF Timed, Backed
  <1> QED
    BY <1>3, <1>4, <1>5, <1>6, <1>7 DEF TimerStep, SweepStep, FaultStep

LEMMA TickCovered ==
  ASSUME TypeOK, Covered, Tick
  PROVE  Covered'
  <1>1. \A t \in Deadline : t # 0 /\ t # None => t - 1 # None
    BY ConstantAssumption DEF Deadline, None
  <1>2. typing # None => typing' # None
    BY <1>1 DEF Tick, TypeOK
  <1>3. \A i \in Instance : tracker[i] # None => tracker'[i] # None
    BY <1>1 DEF Tick, TypeOK
  <1>4. UNCHANGED <<handlerVars, firing, claimed, shown, spoiled>>
    BY DEF Tick
  <1>5. (StartPending' <=> StartPending) /\ (StopPending' <=> StopPending)
    BY <1>4, PendingStays DEF handlerVars, Event
  <1> QED
    BY <1>2, <1>3, <1>4, <1>5 DEF Covered, Timed, Backed

-----------------------------------------------------------------------------
(* The rate limit.                                                         *)

LEMMA AdmissionMetered ==
  ASSUME TypeOK, Metered, Counts, (Allowed /\ Accepted) \/ recent' = recent
  PROVE  Metered'
  <1> DEFINE A == 0 .. Window - 1
  <1>0. /\ rate \in [count : 0 .. Limit + 1, left : 0 .. Window] /\ (rate.count > 0 <=> rate.left > 0)
        /\ recent \in [A -> Nat] /\ Window \in Nat \ {0} /\ Limit \in Nat \ {0}
    BY ConstantAssumption DEF TypeOK
  <1>1. /\ rate'.count > 0 /\ rate'.count >= rate.count
        /\ rate.count <= Limit => rate'.count = rate.count + 1
        /\ rate'.left = IF rate.count = 0 THEN Window ELSE rate.left
    BY <1>0 DEF Counts
  <1>2. Began' \in A /\ (rate.count = 0 => Began' = 0) /\ (rate.count > 0 => Began' = Began)
    BY <1>0, <1>1 DEF Began
  <1>3. CASE Allowed /\ Accepted
    <2>1. recent' = [a \in A |-> recent[a] + 1] /\ rate.count < Limit
      BY <1>3 DEF Accepted, Allowed
    <2>2. \A a \in A : recent[a] \in Nat /\ recent'[a] = recent[a] + 1
      BY <1>0, <2>1
    <2>3. \A a, b \in A : a <= b => recent'[a] <= recent'[b]
      BY <2>2 DEF Metered
    <2>4. recent'[Began'] <= rate'.count /\ recent'[Began'] <= Limit
      <3>1. CASE rate.count = 0
        BY <1>0, <1>1, <1>2, <2>1, <2>2, <3>1 DEF Metered
      <3>2. CASE rate.count > 0
        BY <1>0, <1>1, <1>2, <2>1, <2>2, <3>2 DEF Metered
      <3> QED
        BY <1>0, <3>1, <3>2
    <2>5. \A a \in A : recent'[a] <= recent'[Began'] + Limit
      <3>1. CASE rate.count = 0
        BY <1>0, <1>2, <2>2, <3>1 DEF Metered
      <3>2. CASE rate.count > 0
        BY <1>0, <1>2, <2>2, <3>2 DEF Metered
      <3> QED
        BY <1>0, <3>1, <3>2
    <2> QED
      BY <1>0, <1>1, <2>3, <2>4, <2>5 DEF Metered
  <1>4. CASE recent' = recent
    <2>1. \A a, b \in A : a <= b => recent'[a] <= recent'[b]
      BY <1>4 DEF Metered
    <2>2. rate'.count \in Nat \ {0}
      BY <1>0, <1>1 DEF Counts
    <2>3. CASE rate.count = 0
      <3>1. \A a \in A : recent[a] \in Nat /\ recent[a] <= Limit
        BY <1>0, <2>3 DEF Metered
      <3>2. recent[0] = 0 /\ Began' = 0
        BY <1>2, <2>3 DEF Metered
      <3>3. /\ recent'[Began'] <= rate'.count /\ recent'[Began'] <= Limit
            /\ \A a \in A : recent'[a] <= recent'[Began'] + Limit
        BY <1>0, <1>2, <1>4, <2>2, <3>1, <3>2
      <3> QED
        BY <2>1, <2>2, <3>3 DEF Metered
    <2>4. CASE rate.count > 0
      <3>1. /\ Began' = Began /\ Began \in A /\ recent[Began] \in Nat
            /\ recent[Began] <= rate.count /\ recent[Began] <= Limit
            /\ \A a \in A : recent[a] <= recent[Began] + Limit
        BY <1>0, <1>2, <2>4 DEF Metered
      <3>2. recent[Began] <= rate'.count
        BY <1>0, <1>1, <2>2, <3>1
      <3> QED
        BY <1>4, <2>1, <2>2, <3>1, <3>2 DEF Metered
    <2> QED
      BY <1>0, <2>3, <2>4
  <1> QED
    BY <1>3, <1>4

\* When the window ends, all that the span holds was admitted within it.
LEMMA TickMetered ==
  ASSUME TypeOK, Metered, Tick
  PROVE  Metered'
  <1> DEFINE A == 0 .. Window - 1
  <1>0. /\ rate \in [count : 0 .. Limit + 1, left : 0 .. Window] /\ (rate.count > 0 <=> rate.left > 0)
        /\ recent \in [A -> Nat] /\ Window \in Nat \ {0} /\ Limit \in Nat \ {0}
    BY ConstantAssumption DEF TypeOK
  <1>1. recent' = [a \in A |-> IF a = 0 THEN 0 ELSE recent[a - 1]]
    BY DEF Tick
  <1>2. 0 \in A /\ Window - 1 \in A /\ \A a \in A : a # 0 => a - 1 \in A
    BY <1>0
  <1>3. recent'[0] = 0 /\ \A a \in A : a # 0 => recent'[a] = recent[a - 1]
    BY <1>1, <1>2
  <1>4. \A a \in A : recent[a] \in Nat
    BY <1>0
  <1>5. \A a, b \in A : a <= b => recent'[a] <= recent'[b]
    <2> SUFFICES ASSUME NEW a \in A, NEW b \in A, a <= b PROVE recent'[a] <= recent'[b]
      OBVIOUS
    <2>1. CASE a = 0
      BY <1>2, <1>3, <1>4, <2>1
    <2>2. CASE a # 0
      <3>1. b # 0 /\ a - 1 \in A /\ b - 1 \in A /\ a - 1 <= b - 1
        BY <1>0, <1>2, <2>2
      <3> QED
        BY <1>3, <2>2, <3>1 DEF Metered
    <2> QED
      BY <2>1, <2>2
  <1>6. CASE rate.left > 1
    <2>1. rate' = [rate EXCEPT !.left = @ - 1]
      BY <1>6 DEF Tick
    <2>2. /\ rate'.count = rate.count /\ rate.count > 0 /\ Began' = Began + 1
          /\ Began \in A /\ Began' \in A /\ Began' # 0 /\ Began' - 1 = Began
      BY <1>0, <1>6, <2>1 DEF Began
    <2>3. recent'[Began'] = recent[Began]
      BY <1>3, <2>2
    <2>4. \A a \in A : recent'[a] <= recent'[Began'] + Limit
      <3> SUFFICES ASSUME NEW a \in A PROVE recent'[a] <= recent'[Began'] + Limit
        OBVIOUS
      <3>1. CASE a = 0
        BY <1>0, <1>3, <1>4, <2>2, <2>3, <3>1
      <3>2. CASE a # 0
        <4>1. a - 1 \in A /\ recent'[a] = recent[a - 1]
          BY <1>2, <1>3, <3>2
        <4> QED
          BY <2>2, <2>3, <4>1 DEF Metered
      <3> QED
        BY <3>1, <3>2
    <2>5. recent[Began] <= rate.count /\ recent[Began] <= Limit
      BY <2>2 DEF Metered
    <2>6. rate'.count # 0
      BY <1>0, <2>2
    <2> QED
      BY <1>5, <2>2, <2>3, <2>4, <2>5, <2>6 DEF Metered
  <1>7. CASE ~(rate.left > 1)
    <2>1. rate' = [count |-> 0, left |-> 0]
      BY <1>7 DEF Tick
    <2>2. \A a \in A : a # Window - 1 \/ rate.count = 0 \/ Began = Window - 1
      BY <1>0, <1>7 DEF Began
    <2>3. recent[Window - 1] <= Limit
      <3>1. CASE rate.count = 0
        BY <1>2, <3>1 DEF Metered
      <3>2. CASE rate.count > 0
        BY <1>2, <1>0, <2>2, <3>2 DEF Metered
      <3> QED
        BY <1>0, <3>1, <3>2
    <2>4. \A a \in A : recent[a] <= Limit
      <3> SUFFICES ASSUME NEW a \in A PROVE recent[a] <= Limit
        OBVIOUS
      <3>1. a <= Window - 1 /\ recent[a] \in Nat /\ recent[Window - 1] \in Nat
        BY <1>0, <1>2, <1>4
      <3>2. recent[a] <= recent[Window - 1]
        BY <1>2, <3>1 DEF Metered
      <3> QED
        BY <1>0, <2>3, <3>1, <3>2
    <2>5. \A a \in A : recent'[a] <= Limit
      <3> SUFFICES ASSUME NEW a \in A PROVE recent'[a] <= Limit
        OBVIOUS
      <3>1. CASE a = 0
        BY <1>0, <1>3, <3>1
      <3>2. CASE a # 0
        BY <1>2, <1>3, <2>4, <3>2
      <3> QED
        BY <3>1, <3>2
    <2>6. rate'.count = 0 /\ ~(rate'.count > 0)
      BY <2>1
    <2> QED
      BY <1>3, <1>5, <2>5, <2>6 DEF Metered
  <1> QED
    BY <1>6, <1>7

LEMMA MeterStays == Metered /\ UNCHANGED rateVars => Metered'
  BY DEF Metered, Began, rateVars

LEMMA InvariantMetered ==
  ASSUME TypeOK, Metered, [Next]_vars
  PROVE  Metered'
  <1>1. ASSUME NEW d \in Device, HandlerStep(d) PROVE Metered'
    BY <1>1, HandlerEffects, AdmissionMetered, MeterStays
  <1>2. ASSUME NEW d \in Device, PageStep(d) PROVE Metered'
    BY <1>2, MeterStays DEF PageStep, StartTyping, StopTyping, Vanish
  <1>3. ASSUME NEW i \in Instance, TimerStep(i) \/ SweepStep(i) \/ FaultStep(i) PROVE Metered'
    BY <1>3, MeterStays DEF TimerStep, SweepStep, FaultStep, TimerFires, TimerSends, SweepClaim,
       SweepPublish, LoseRedis, FindRedis, Crash
  <1>4. CASE UNCHANGED vars
    BY <1>4, MeterStays DEF vars
  <1> QED
    BY <1>1, <1>2, <1>3, <1>4, TickMetered DEF Next

-----------------------------------------------------------------------------
(* The theorems.                                                           *)

LEMMA InvariantInit == Init => IInv
  <1> SUFFICES ASSUME Init PROVE IInv
    OBVIOUS
  <1>1. HandlerTypes
    BY DEF Init, HandlerTypes
  <1>2. InstanceTypes
    <2>1. tracker \in [Instance -> Deadline]
      BY Deadlines DEF Init
    <2>2. avail \in [Instance -> BOOLEAN]
      BY DEF Init
    <2> QED
      BY <2>1, <2>2 DEF Init, InstanceTypes
  <1>3. RateTypes
    BY ConstantAssumption DEF Init, RateTypes
  <1>4. PeerTypes
    <2>1. shown = FALSE /\ typing = None /\ faults = 0 /\ spoiled = {}
      BY DEF Init
    <2>2. shown \in BOOLEAN
      BY <2>1
    <2>3. faults \in 0 .. MaxFaults
      BY <2>1, ConstantAssumption
    <2> QED
      BY <2>1, <2>2, <2>3, Deadlines DEF PeerTypes
  <1>5. Running
    BY ConstantAssumption DEF Init, Running
  <1>6. Covered
    BY DEF Init, Covered, StartPending
  <1>7. Metered
    BY ConstantAssumption DEF Init, Metered
  <1> QED
    BY <1>1, <1>2, <1>3, <1>4, <1>5, <1>6, <1>7, TypeParts DEF IInv

LEMMA InvariantStep == IInv /\ [Next]_vars => IInv'
  <1> SUFFICES ASSUME IInv, [Next]_vars PROVE IInv'
    OBVIOUS
  <1>0. Metered'
    BY InvariantMetered DEF IInv
  <1>1. CASE \E d \in Device : PageStep(d) \/ HandlerStep(d)
    BY <1>0, <1>1, PageTyped, PageCovered, HandlerTyped, HandlerCovered DEF IInv
  <1>2. CASE \E i \in Instance : TimerStep(i) \/ SweepStep(i) \/ FaultStep(i)
    BY <1>0, <1>2, InstanceTyped, InstanceCovered DEF IInv
  <1>3. CASE Tick
    BY <1>0, <1>3, TickTyped, TickCovered DEF IInv
  <1>4. CASE UNCHANGED vars
    <2>1. TypeOK'
      BY <1>4 DEF IInv, TypeOK, vars, handlerVars, instanceVars, rateVars
    <2>2. Running'
      BY <1>4 DEF IInv, Running, vars, handlerVars, instanceVars
    <2>3. (StartPending' <=> StartPending) /\ (StopPending' <=> StopPending)
      BY <1>4, PendingStays DEF IInv, vars, handlerVars, Event
    <2>4. Covered'
      BY <1>4, <2>3 DEF IInv, Covered, Timed, Backed, vars, instanceVars
    <2> QED
      BY <1>0, <2>1, <2>2, <2>4 DEF IInv
  <1> QED
    BY <1>1, <1>2, <1>3, <1>4 DEF Next

\* The invariant is inductive: besides the types, that a start on its way has
\* its deadline, that dead instances hold nothing, and how the events of the
\* last ticks divide between the open window and the one before.
THEOREM Invariance == Spec => []IInv
  <1> QED
    BY InvariantInit, InvariantStep, PTL DEF Spec

\* Every variable keeps its type, among them that the counter of the rate limit
\* never stands without an expiry (RATE_LIMIT_SCRIPT).
THEOREM TypeCorrect == Spec => []TypeOK
  <1>1. IInv => TypeOK
    BY DEF IInv
  <1> QED
    BY <1>1, Invariance, PTL

\* An indicator that is shown has something left that will put it out, unless a
\* stop was lost or a start overtaken (typing_started, typing_stopped,
\* _sweep_typing, TypingTracker).
THEOREM IndicatorHasEnd == Spec => []IndicatorBacked
  <1>1. IInv => IndicatorBacked
    BY DEF IInv, Covered, Backed, Timed, StopPending, IndicatorBacked
  <1> QED
    BY <1>1, Invariance, PTL

\* In any span as long as a window Redis admits at most twice the limit, however
\* the admissions of all devices and the ends of windows interleave
\* (RATE_LIMIT_SCRIPT).
THEOREM BurstsAreBounded == Spec => []BurstBounded
  <1>1. IInv => BurstBounded
    <2> SUFFICES ASSUME IInv PROVE BurstBounded
      OBVIOUS
    <2>0. /\ rate.count \in 0 .. Limit + 1 /\ rate.left \in 0 .. Window /\ (rate.count > 0 <=> rate.left > 0)
          /\ recent \in [0 .. Window - 1 -> Nat] /\ Window \in Nat \ {0} /\ Limit \in Nat \ {0}
      BY ConstantAssumption DEF IInv, TypeOK
    <2>1. Window - 1 \in 0 .. Window - 1 /\ recent[Window - 1] \in Nat
      BY <2>0
    <2>2. CASE rate.count = 0
      BY <2>0, <2>1, <2>2 DEF IInv, Metered, BurstBounded
    <2>3. CASE rate.count > 0
      <3>1. Began \in 0 .. Window - 1 /\ recent[Began] \in Nat
        BY <2>0, <2>3 DEF Began
      <3> QED
        BY <2>0, <2>1, <2>3, <3>1 DEF IInv, Metered, BurstBounded
    <2> QED
      BY <2>0, <2>2, <2>3
  <1> QED
    BY <1>1, Invariance, PTL
=============================================================================
