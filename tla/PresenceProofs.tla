---------------------------- MODULE PresenceProofs ----------------------------
(***************************************************************************)
(* Proofs about Presence, for any number of instances and sockets and any  *)
(* TTL.                                                                    *)
(*                                                                         *)
(* That the index covers the leases rests on two facts about a sweep that  *)
(* has claimed the entry: its instance still runs, and the score it will   *)
(* write back is one of a lease.  That an online user has a witness rests  *)
(* on it, and on the manager knowing exactly the sockets being served.     *)
(***************************************************************************)
EXTENDS Presence, TLAPS

USE ConstantAssumption
USE DEF socketVars, redisVars, maintVars, Absent

\* Only running instances are in the middle of an iteration.
SweepersUp == \A i \in Instances : mpc[i] # "idle" => i \in up

\* The score to be written back was read from a lease.
RestoresLease == \A i \in Instances : mpc[i] = "restore" => latest[i] # Absent

IInv == TypeOK /\ SweepersUp /\ RestoresLease /\ IndexCoversLeases

-----------------------------------------------------------------------------
(* Lemmas about the operators.                                             *)

\* Purging takes leases away and adds none.
LEMMA PurgedTyped ==
  ASSUME NEW ls \in [Instances -> Absent .. TTL]
  PROVE  /\ Purged(ls) \in [Instances -> Absent .. TTL]
         /\ Present(Purged(ls)) \subseteq Present(ls)
  BY DEF Purged, Present

\* Time never takes a lease away.
LEMMA DownKeeps ==
  ASSUME NEW t \in Absent .. TTL
  PROVE  Down(t) \in Absent .. TTL /\ (Down(t) = Absent <=> t = Absent)
  BY DEF Down

\* The latest score is the score of a member.
LEMMA LatestIsALease ==
  ASSUME NEW ls, NEW t, IsLatest(ls, t)
  PROVE  t # Absent
  <1>1. PICK i \in Present(ls) : ls[i] = t
    BY DEF IsLatest
  <1> QED
    BY <1>1 DEF Present

\* The connect script types its result and enters the user into the index.
LEMMA ConnectScriptTyped ==
  ASSUME TypeOK, NEW i, ConnectScript(i)
  PROVE  /\ lease' \in [Instances -> Absent .. TTL]
         /\ index' \in Absent .. TTL
         /\ index' # Absent
         /\ lost' = {}
  <1>1. Purged(lease) \in [Instances -> Absent .. TTL]
    BY PurgedTyped DEF TypeOK
  <1>2. TTL \in Absent .. TTL /\ TTL # Absent
    OBVIOUS
  <1> QED
    BY <1>1, <1>2 DEF ConnectScript

\* The disconnect script leaves an entry if it leaves a lease.
LEMMA DisconnectScriptCovers ==
  ASSUME TypeOK, NEW i, DisconnectScript(i)
  PROVE  /\ lease' \in [Instances -> Absent .. TTL]
         /\ Present(lease') # {} => index' # Absent
  <1>1. Purged(lease) \in [Instances -> Absent .. TTL]
    BY PurgedTyped DEF TypeOK
  <1>2. lease' \in [Instances -> Absent .. TTL]
    <2>1. Absent \in Absent .. TTL
      OBVIOUS
    <2>2. lease' = [Purged(lease) EXCEPT ![i] = Absent]
      BY DEF DisconnectScript
    <2> HIDE DEF Absent
    <2> QED
      BY <1>1, <2>1, <2>2
  <1>3. ASSUME IsLatest(lease', index') PROVE index' # Absent
    BY <1>3, LatestIsALease
  <1> QED
    BY <1>2, <1>3 DEF DisconnectScript

-----------------------------------------------------------------------------
(* Type correctness.                                                       *)

\* The initial state is well typed.
LEMMA TypeInit == Init => TypeOK
  BY DEF Init, TypeOK

\* Every action keeps every variable in its type.
LEMMA TypeStep == TypeOK /\ [Next]_vars => TypeOK'
  <1> SUFFICES ASSUME TypeOK, [Next]_vars PROVE TypeOK'
    OBVIOUS
  <1> USE DEF Goto, MGoto, GiveUp
  <1>1. ASSUME NEW k \in Sockets, NEW i \in Instances, Accept(k, i) PROVE TypeOK'
    BY <1>1 DEF Accept, TypeOK
  <1>2. ASSUME NEW k \in Sockets, ConnectEval(k) PROVE TypeOK'
    <2>1. /\ lease' \in [Instances -> Absent .. TTL] /\ index' \in Absent .. TTL
          /\ lost' = {}
      BY <1>2, ConnectScriptTyped DEF ConnectEval
    <2> QED
      BY <1>2, <2>1 DEF ConnectEval, TypeOK
  <1>3. ASSUME NEW k \in Sockets, ConnectFails(k) PROVE TypeOK'
    BY <1>3 DEF ConnectFails, TypeOK
  <1>4. ASSUME NEW k \in Sockets, Announce(k) PROVE TypeOK'
    BY <1>4 DEF Announce, TypeOK
  <1>5. ASSUME NEW k \in Sockets, Close(k) PROVE TypeOK'
    BY <1>5 DEF Close, TypeOK
  <1>6. ASSUME NEW k \in Sockets, LocalRemove(k) PROVE TypeOK'
    BY <1>6 DEF LocalRemove, TypeOK
  <1>7. ASSUME NEW k \in Sockets, DisconnectEval(k) PROVE TypeOK'
    <2>1. lease' \in [Instances -> Absent .. TTL]
      BY <1>7, DisconnectScriptCovers DEF DisconnectEval
    <2> QED
      BY <1>7, <2>1 DEF DisconnectEval, TypeOK
  <1>8. ASSUME NEW k \in Sockets, DisconnectFails(k) PROVE TypeOK'
    BY <1>8 DEF DisconnectFails, TypeOK
  <1>9. ASSUME NEW k \in Sockets, MarkOffline(k) PROVE TypeOK'
    BY <1>9 DEF MarkOffline, TypeOK
  <1>10. ASSUME NEW k \in Sockets, StaleRemove(k) PROVE TypeOK'
    BY <1>10 DEF StaleRemove, TypeOK
  <1>11. ASSUME NEW k \in Sockets, StaleEval(k) PROVE TypeOK'
    <2>1. lease' \in [Instances -> Absent .. TTL]
      BY <1>11, DisconnectScriptCovers DEF StaleEval
    <2> QED
      BY <1>11, <2>1 DEF StaleEval, TypeOK
  <1>12. ASSUME NEW i \in Instances, HeartbeatBegin(i) PROVE TypeOK'
    BY <1>12 DEF HeartbeatBegin, TypeOK
  <1>13. ASSUME NEW i \in Instances, HeartbeatEval(i) PROVE TypeOK'
    <2>1. /\ lease' \in [Instances -> Absent .. TTL] /\ index' \in Absent .. TTL
          /\ lost' = {}
      BY <1>13, ConnectScriptTyped DEF HeartbeatEval
    <2> QED
      BY <1>13, <2>1 DEF HeartbeatEval, TypeOK
  <1>14. ASSUME NEW i \in Instances, SweepSearch(i) PROVE TypeOK'
    BY <1>14 DEF SweepSearch, TypeOK
  <1>15. ASSUME NEW i \in Instances, SweepClaim(i) PROVE TypeOK'
    BY <1>15 DEF SweepClaim, TypeOK
  <1>16. ASSUME NEW i \in Instances, SweepPurge(i) PROVE TypeOK'
    <2>1. lease' \in [Instances -> Absent .. TTL]
      BY <1>16 DEF SweepPurge, TypeOK
    <2> QED
      BY <1>16, <2>1 DEF SweepPurge, TypeOK
  <1>17. ASSUME NEW i \in Instances, SweepRead(i) PROVE TypeOK'
    <2>1. mpc' \in [Instances -> {"idle", "beat", "claim", "claimed", "purged",
                                  "restore", "delete", "recheck", "notify"}]
      BY <1>17 DEF SweepRead, TypeOK
    <2>2. latest' \in [Instances -> Absent .. TTL]
      BY <1>17 DEF SweepRead, TypeOK
    <2> QED
      BY <1>17, <2>1, <2>2 DEF SweepRead, TypeOK
  <1>18. ASSUME NEW i \in Instances, SweepRestore(i) PROVE TypeOK'
    BY <1>18 DEF SweepRestore, TypeOK
  <1>19. ASSUME NEW i \in Instances, SweepDelete(i) PROVE TypeOK'
    BY <1>19 DEF SweepDelete, TypeOK
  <1>20. ASSUME NEW i \in Instances, SweepRecheck(i) PROVE TypeOK'
    <2>1. lease' \in [Instances -> Absent .. TTL]
      BY <1>20, PurgedTyped DEF SweepRecheck, TypeOK
    <2> QED
      BY <1>20, <2>1 DEF SweepRecheck, TypeOK
  <1>21. ASSUME NEW i \in Instances, SweepNotify(i) PROVE TypeOK'
    BY <1>21 DEF SweepNotify, TypeOK
  <1>22. ASSUME NEW i \in Instances, MaintainFails(i) PROVE TypeOK'
    BY <1>22 DEF MaintainFails, SweepLoses, TypeOK
  <1>23. ASSUME NEW i \in Instances, Crash(i) PROVE TypeOK'
    <2>1. latest' \in [Instances -> Absent .. TTL]
      BY <1>23 DEF Crash, TypeOK
    <2>2. lost' \subseteq {"entry", "notice", "lease"}
      BY <1>23 DEF Crash, CrashLoses, SweepLoses, TypeOK
    <2> QED
      BY <1>23, <2>1, <2>2 DEF Crash, TypeOK
  <1>24. CASE Lookup
    <2>1. lease' \in [Instances -> Absent .. TTL]
      BY <1>24, PurgedTyped DEF Lookup, TypeOK
    <2> QED
      BY <1>24, <2>1 DEF Lookup, TypeOK
  <1>25. CASE Tick
    BY <1>25, DownKeeps DEF Tick, TypeOK
  <1>26. CASE UNCHANGED vars
    BY <1>26 DEF vars, TypeOK
  <1> QED
    BY <1>1, <1>2, <1>3, <1>4, <1>5, <1>6, <1>7, <1>8, <1>9, <1>10, <1>11,
       <1>12, <1>13, <1>14, <1>15, <1>16, <1>17, <1>18, <1>19, <1>20, <1>21,
       <1>22, <1>23, <1>24, <1>25, <1>26
    DEF Next, EndpointStep, MaintainStep

\* Every variable keeps its type, whatever the disruptions.
THEOREM TypeCorrect == Spec => []TypeOK
  BY TypeInit, TypeStep, PTL DEF Spec

-----------------------------------------------------------------------------
(* The index covers the leases, until an error or a crash strikes between  *)
(* the claim and the restore.                                              *)

\* Steps of endpoints and fan-outs that do not touch Redis, and steps that
\* publish, leave the maintenance loops and the leases alone.
LEMMA QuietKeeps ==
  ASSUME IInv, TypeOK', UNCHANGED <<up, redisVars, maintVars, lost>>
  PROVE  IInv'
  BY DEF IInv, SweepersUp, RestoresLease, IndexCoversLeases

\* The connect script enters the user.
LEMMA ConnectKeeps ==
  ASSUME IInv, TypeOK', NEW i, ConnectScript(i), UNCHANGED <<up, maintVars>>
  PROVE  IInv'
  <1>1. index' # Absent
    BY ConnectScriptTyped DEF IInv
  <1> QED
    BY <1>1 DEF IInv, SweepersUp, RestoresLease, IndexCoversLeases

\* The disconnect script keeps the entry of the leases it leaves.
LEMMA DisconnectKeeps ==
  ASSUME IInv, TypeOK', NEW i, DisconnectScript(i), UNCHANGED <<up, maintVars, lost>>
  PROVE  IInv'
  <1>1. Present(lease') # {} => index' # Absent
    BY DisconnectScriptCovers DEF IInv
  <1> QED
    BY <1>1 DEF IInv, SweepersUp, RestoresLease, IndexCoversLeases

\* A heartbeat writes a lease and the entry together.
LEMMA HeartbeatEvalKeeps ==
  ASSUME IInv, TypeOK', NEW i \in Instances, HeartbeatEval(i)
  PROVE  IInv'
  <1>1. index' # Absent
    BY ConnectScriptTyped DEF IInv, HeartbeatEval
  <1>2. SweepersUp' /\ RestoresLease'
    BY DEF HeartbeatEval, MGoto, IInv, SweepersUp, RestoresLease, TypeOK
  <1> QED
    BY <1>1, <1>2 DEF IInv, IndexCoversLeases

\* A search or the start of a heartbeat touches neither key.
LEMMA BeginKeeps ==
  ASSUME IInv, TypeOK', NEW i \in Instances, HeartbeatBegin(i) \/ SweepSearch(i)
  PROVE  IInv'
  <1>1. /\ mpc[i] = "idle" /\ i \in up
        /\ \E next \in {"beat", "claim"} : mpc' = [mpc EXCEPT ![i] = next]
        /\ UNCHANGED <<up, lease, index, latest, lost>>
    BY DEF HeartbeatBegin, SweepSearch, MGoto
  <1>2. SweepersUp' /\ RestoresLease'
    BY <1>1 DEF IInv, SweepersUp, RestoresLease, TypeOK
  <1>3. IndexCoversLeases'
    BY <1>1 DEF IInv, IndexCoversLeases, TypeOK
  <1> QED
    BY <1>2, <1>3 DEF IInv

\* Whoever takes the entry is the sweep that answers for it.
LEMMA SweepClaimKeeps ==
  ASSUME IInv, TypeOK', NEW i \in Instances, SweepClaim(i)
  PROVE  IInv'
  <1>1. SweepersUp' /\ RestoresLease'
    BY DEF SweepClaim, MGoto, GiveUp, IInv, SweepersUp, RestoresLease, TypeOK
  <1>2. CASE index # Absent
    <2>1. i \in up' /\ mpc'[i] = "claimed"
      BY <1>2 DEF SweepClaim, MGoto, IInv, SweepersUp, TypeOK
    <2> QED
      BY <1>1, <2>1 DEF IInv, IndexCoversLeases
  <1>3. CASE index = Absent
    <2>1. /\ mpc' = [mpc EXCEPT ![i] = "idle"] /\ mpc[i] = "claim"
          /\ UNCHANGED <<up, lease, lost>>
      BY <1>3 DEF SweepClaim, GiveUp
    <2>2. IndexCoversLeases'
      BY <1>3, <2>1 DEF IInv, IndexCoversLeases, TypeOK
    <2> QED
      BY <1>1, <2>2 DEF IInv
  <1> QED
    BY <1>2, <1>3

\* The sweep that purges still holds its claim.
LEMMA SweepPurgeKeeps ==
  ASSUME IInv, TypeOK', NEW i \in Instances, SweepPurge(i)
  PROVE  IInv'
  <1>1. SweepersUp' /\ RestoresLease'
    BY DEF SweepPurge, MGoto, IInv, SweepersUp, RestoresLease, TypeOK
  <1>2. i \in up' /\ mpc'[i] = "purged"
    BY DEF SweepPurge, MGoto, IInv, SweepersUp, TypeOK
  <1> QED
    BY <1>1, <1>2 DEF IInv, IndexCoversLeases

\* Either no lease is left, or the claim is kept until the restore.
LEMMA SweepReadKeeps ==
  ASSUME IInv, TypeOK', NEW i \in Instances, SweepRead(i)
  PROVE  IInv'
  <1>1. SweepersUp'
    BY DEF SweepRead, MGoto, IInv, SweepersUp, TypeOK
  <1>2. CASE Present(lease) = {} /\ MGoto(i, "delete") /\ UNCHANGED latest
    <2>1. RestoresLease'
      BY <1>2 DEF MGoto, IInv, RestoresLease, TypeOK
    <2>2. Present(lease') = {}
      BY <1>2 DEF SweepRead, Present
    <2> QED
      BY <1>1, <2>1, <2>2 DEF IInv, IndexCoversLeases
  <1>3. CASE \E t \in 0 .. TTL : /\ IsLatest(lease, t)
                                /\ latest' = [latest EXCEPT ![i] = t]
                                /\ MGoto(i, "restore")
    <2>1. RestoresLease'
      BY <1>3 DEF MGoto, IInv, RestoresLease, TypeOK
    <2>2. i \in up' /\ mpc'[i] = "restore"
      BY <1>3 DEF SweepRead, MGoto, IInv, SweepersUp, TypeOK
    <2> QED
      BY <1>1, <2>1, <2>2 DEF IInv, IndexCoversLeases
  <1> QED
    BY <1>2, <1>3 DEF SweepRead

\* The restore gives the entry back.
LEMMA SweepRestoreKeeps ==
  ASSUME IInv, TypeOK', NEW i \in Instances, SweepRestore(i)
  PROVE  IInv'
  <1>1. SweepersUp' /\ RestoresLease'
    BY DEF SweepRestore, MGoto, IInv, SweepersUp, RestoresLease, TypeOK
  <1>2. index' # Absent
    BY DEF SweepRestore, IInv, RestoresLease
  <1> QED
    BY <1>1, <1>2 DEF IInv, IndexCoversLeases

\* DEL leaves no lease to cover.
LEMMA SweepDeleteKeeps ==
  ASSUME IInv, TypeOK', NEW i \in Instances, SweepDelete(i)
  PROVE  IInv'
  <1>1. SweepersUp' /\ RestoresLease'
    BY DEF SweepDelete, MGoto, IInv, SweepersUp, RestoresLease, TypeOK
  <1>2. Present(lease') = {}
    BY DEF SweepDelete, Present
  <1> QED
    BY <1>1, <1>2 DEF IInv, IndexCoversLeases

\* What follows the deletion only purges.
LEMMA LastStepsKeep ==
  ASSUME IInv, TypeOK', NEW i \in Instances, SweepRecheck(i) \/ SweepNotify(i)
  PROVE  IInv'
  <1>1. /\ mpc[i] \in {"recheck", "notify"}
        /\ \E next \in {"notify", "idle"} : mpc' = [mpc EXCEPT ![i] = next]
        /\ UNCHANGED <<up, index, latest, lost>>
        /\ lease' = lease \/ lease' = Purged(lease)
    BY DEF SweepRecheck, SweepNotify, MGoto
  <1>2. SweepersUp' /\ RestoresLease'
    BY <1>1 DEF IInv, SweepersUp, RestoresLease, TypeOK
  <1>3. Present(lease') \subseteq Present(lease)
    BY <1>1, PurgedTyped DEF IInv, TypeOK
  <1>4. IndexCoversLeases'
    BY <1>1, <1>3 DEF IInv, IndexCoversLeases, TypeOK
  <1> QED
    BY <1>2, <1>4 DEF IInv

\* A lookup of a peer only purges.
LEMMA LookupKeeps ==
  ASSUME IInv, TypeOK', Lookup
  PROVE  IInv'
  <1>1. Present(lease') \subseteq Present(lease)
    BY PurgedTyped DEF Lookup, IInv, TypeOK
  <1> QED
    BY <1>1 DEF Lookup, IInv, SweepersUp, RestoresLease, IndexCoversLeases

\* An instance that is given up, or dies, answered for nothing or loses an entry.
LEMMA GiveUpKeeps ==
  ASSUME IInv, TypeOK', NEW i \in Instances,
         lost \cup SweepLoses(i) \subseteq lost',
         mpc' = [mpc EXCEPT ![i] = "idle"],
         latest' = [latest EXCEPT ![i] = Absent],
         up' = up \/ up' = up \ {i},
         UNCHANGED <<lease, index>>
  PROVE  IInv'
  <1>1. SweepersUp' /\ RestoresLease'
    BY DEF IInv, SweepersUp, RestoresLease, TypeOK
  <1>2. CASE mpc[i] \in {"claimed", "purged", "restore"}
    <2>1. "entry" \in lost'
      BY <1>2 DEF SweepLoses
    <2> QED
      BY <1>1, <2>1 DEF IInv, IndexCoversLeases
  <1>3. CASE mpc[i] \notin {"claimed", "purged", "restore"}
    <2>1. IndexCoversLeases'
      BY <1>3 DEF IInv, IndexCoversLeases, TypeOK
    <2> QED
      BY <1>1, <2>1 DEF IInv
  <1> QED
    BY <1>2, <1>3

\* Time leaves expired members where they are.
LEMMA TickKeeps ==
  ASSUME IInv, TypeOK', Tick
  PROVE  IInv'
  <1>1. Present(lease') = Present(lease)
    BY DownKeeps DEF Tick, Present, IInv, TypeOK
  <1>2. index' = Absent <=> index = Absent
    BY DownKeeps DEF Tick, IInv, TypeOK
  <1>3. SweepersUp' /\ RestoresLease'
    BY DownKeeps DEF Tick, IInv, SweepersUp, RestoresLease, TypeOK
  <1>4. IndexCoversLeases'
    BY <1>1, <1>2 DEF Tick, IInv, IndexCoversLeases
  <1> QED
    BY <1>3, <1>4 DEF IInv

\* Initially there is no lease and no sweep.
LEMMA InvariantInit == Init => IInv
  BY TypeInit DEF Init, IInv, SweepersUp, RestoresLease, IndexCoversLeases, Present

\* No step breaks the invariant, whatever the disruptions.
LEMMA InvariantStep == IInv /\ [Next]_vars => IInv'
  <1> SUFFICES ASSUME IInv, [Next]_vars PROVE IInv'
    OBVIOUS
  <1>0. TypeOK'
    BY TypeStep DEF IInv
  <1>1. ASSUME NEW k \in Sockets, NEW i \in Instances, Accept(k, i) PROVE IInv'
    BY <1>0, <1>1, QuietKeeps DEF Accept
  <1>2. ASSUME NEW k \in Sockets,
               \/ ConnectFails(k) \/ Announce(k) \/ Close(k) \/ LocalRemove(k)
               \/ DisconnectFails(k) \/ MarkOffline(k) \/ StaleRemove(k)
        PROVE  IInv'
    <2>1. UNCHANGED <<up, redisVars, maintVars, lost>>
      BY <1>2 DEF ConnectFails, Announce, Close, LocalRemove, DisconnectFails,
                  MarkOffline, StaleRemove
    <2> QED
      BY <1>0, <2>1, QuietKeeps
  <1>3. ASSUME NEW k \in Sockets, ConnectEval(k) PROVE IInv'
    BY <1>0, <1>3, ConnectKeeps DEF ConnectEval
  <1>4. ASSUME NEW k \in Sockets, DisconnectEval(k) \/ StaleEval(k) PROVE IInv'
    BY <1>0, <1>4, DisconnectKeeps DEF DisconnectEval, StaleEval
  <1>5. ASSUME NEW i \in Instances, MaintainStep(i) PROVE IInv'
    BY <1>0, <1>5, BeginKeeps, HeartbeatEvalKeeps, SweepClaimKeeps,
       SweepPurgeKeeps, SweepReadKeeps, SweepRestoreKeeps, SweepDeleteKeeps,
       LastStepsKeep DEF MaintainStep
  <1>6. ASSUME NEW i \in Instances, MaintainFails(i) \/ Crash(i) PROVE IInv'
    <2>1. lost \cup SweepLoses(i) \subseteq lost'
      BY <1>6 DEF MaintainFails, Crash, CrashLoses
    <2>2. /\ mpc' = [mpc EXCEPT ![i] = "idle"]
          /\ latest' = [latest EXCEPT ![i] = Absent]
          /\ up' = up \/ up' = up \ {i}
          /\ UNCHANGED <<lease, index>>
      BY <1>6 DEF MaintainFails, Crash, GiveUp
    <2> QED
      BY <1>0, <2>1, <2>2, GiveUpKeeps
  <1>7. CASE Lookup
    BY <1>0, <1>7, LookupKeeps
  <1>8. CASE Tick
    BY <1>0, <1>8, TickKeeps
  <1>9. CASE UNCHANGED vars
    BY <1>0, <1>9, QuietKeeps DEF vars
  <1> QED
    BY <1>1, <1>2, <1>3, <1>4, <1>5, <1>6, <1>7, <1>8, <1>9
    DEF Next, EndpointStep

\* Sweeps can find every lease: a disconnect, a connect, a heartbeat, a lookup
\* and other sweeps may run between the claim of the entry and its restore, and
\* none of them leaves a lease that no sweep will come across; only a crash or an
\* error of the sweep itself can, and the next connect or heartbeat repairs it.
THEOREM IndexCovered == Spec => []IndexCoversLeases
  <1>1. Init => IInv
    BY InvariantInit
  <1>2. IInv /\ [Next]_vars => IInv'
    BY InvariantStep
  <1>3. IInv => IndexCoversLeases
    BY DEF IInv
  <1> QED
    BY <1>1, <1>2, <1>3, PTL DEF Spec

-----------------------------------------------------------------------------
(* Somebody answers for an online user.                                    *)

\* A socket is in the manager's dictionary from its acceptance until its endpoint,
\* or a fan-out, takes it out.
Listed(k, i) ==
    /\ home[k] = i /\ stalePc[k] = "none"
    /\ pc[k] \in {"connecting", "announce", "open", "closing"}
ConnsExact == \A i \in Instances : conns[i] = {k \in Sockets : Listed(k, i)}

\* An endpoint belongs to an instance; nobody touches a socket before that.
Endpoints ==
    \A k \in Sockets : IF pc[k] = "new" THEN stalePc[k] = "none" ELSE home[k] \in Instances

Unstaled == \A k \in Sockets : stalePc[k] = "none"
Serving == \E k \in Sockets : pc[k] \notin {"new", "closed"}
Sweeping ==
    \E i \in up : mpc[i] \in {"claimed", "purged", "restore", "delete", "recheck", "notify"}
Witnessed == Serving \/ index # Absent \/ Sweeping

WitnessInv == IInv /\ Endpoints /\ ConnsExact /\ OnlineHasWitness

\* A step that touches the endpoint of one socket only.
LEMMA EndpointMoves ==
  ASSUME TypeOK, Endpoints, NEW k \in Sockets, pc[k] # "new",
         NEW l \in {"connecting", "announce", "open", "closing", "leaving", "offline", "closed"},
         Goto(k, l), UNCHANGED <<home, stalePc>>
  PROVE  /\ Endpoints' /\ home[k] \in Instances
         /\ \A j \in Sockets, i \in Instances : j # k => (Listed(j, i)' <=> Listed(j, i))
         /\ l # "closed" => Serving'
  BY DEF Goto, Endpoints, Listed, Serving, TypeOK

\* The dictionary keeps up with the endpoints.
LEMMA EndpointsStep ==
  ASSUME TypeOK, Endpoints, ConnsExact, [Next]_vars
  PROVE  Endpoints' /\ ConnsExact'
  <1>1. ASSUME NEW k \in Sockets, NEW i \in Instances, Accept(k, i) PROVE Endpoints' /\ ConnsExact'
    <2>0. /\ pc[k] = "new" /\ home' = [home EXCEPT ![k] = i] /\ stalePc' = stalePc
          /\ conns' = [conns EXCEPT ![i] = @ \cup {k}]
          /\ \E l \in {"connecting", "open"} : pc' = [pc EXCEPT ![k] = l]
      BY <1>1 DEF Accept, Goto
    <2>1. stalePc[k] = "none" /\ \A j \in Instances : ~Listed(k, j)
      BY <2>0 DEF Endpoints, Listed
    <2>2. Listed(k, i)' /\ \A j \in Instances : Listed(k, j)' => j = i
      BY <2>0, <2>1 DEF Listed, TypeOK
    <2>3. \A m \in Sockets, j \in Instances : m # k => (Listed(m, j)' <=> Listed(m, j))
      BY <2>0 DEF Listed, TypeOK
    <2>4. conns'[i] = conns[i] \cup {k} /\ \A j \in Instances : j # i => conns'[j] = conns[j]
      BY <2>0 DEF TypeOK
    <2>5. ConnsExact'
      <3> SUFFICES ASSUME NEW j \in Instances PROVE conns'[j] = {m \in Sockets : Listed(m, j)'}
        BY DEF ConnsExact
      <3>1. conns[j] = {m \in Sockets : Listed(m, j)}
        BY DEF ConnsExact
      <3> QED
        BY <2>1, <2>2, <2>3, <2>4, <3>1
    <2>6. Endpoints'
      BY <2>0 DEF Endpoints, TypeOK
    <2> QED
      BY <2>5, <2>6
  <1>2. ASSUME NEW k \in Sockets,
               \/ ConnectEval(k) \/ ConnectFails(k) \/ Announce(k) \/ Close(k)
               \/ DisconnectEval(k) \/ DisconnectFails(k) \/ MarkOffline(k)
        PROVE  Endpoints' /\ ConnsExact'
    <2>1. /\ UNCHANGED <<home, stalePc, conns>>
          /\ \E l \in {"announce", "open", "closing", "offline", "closed"} :
                /\ Goto(k, l)
                /\ pc[k] \in {"connecting", "announce", "open", "closing"} =>
                      l \in {"announce", "open", "closing"}
          /\ pc[k] \in {"connecting", "announce", "open", "leaving", "offline"}
          /\ pc[k] \in {"leaving", "offline"} =>
                \E l \in {"offline", "closed"} : Goto(k, l)
      BY <1>2 DEF ConnectEval, ConnectFails, Announce, Close, DisconnectEval, DisconnectFails, MarkOffline
    <2>2. Endpoints' /\ \A j \in Sockets, i \in Instances : j # k => (Listed(j, i)' <=> Listed(j, i))
      BY <2>1, EndpointMoves
    <2>3. \A i \in Instances : Listed(k, i)' <=> Listed(k, i)
      BY <2>1 DEF Listed, Goto, TypeOK
    <2>4. \A i \in Instances : {m \in Sockets : Listed(m, i)'} = {m \in Sockets : Listed(m, i)}
      BY <2>2, <2>3
    <2> QED
      BY <2>1, <2>2, <2>4 DEF ConnsExact
  <1>3. ASSUME NEW k \in Sockets, LocalRemove(k) PROVE Endpoints' /\ ConnsExact'
    <2>1. /\ UNCHANGED <<home, stalePc>> /\ pc[k] = "closing"
          /\ conns' = [conns EXCEPT ![home[k]] = @ \ {k}]
          /\ \E l \in {"leaving", "closed"} : Goto(k, l)
      BY <1>3 DEF LocalRemove
    <2>2. /\ Endpoints' /\ home[k] \in Instances
          /\ \A j \in Sockets, i \in Instances : j # k => (Listed(j, i)' <=> Listed(j, i))
      BY <2>1, EndpointMoves
    <2>3. \A i \in Instances : ~Listed(k, i)' /\ (Listed(k, i) => i = home[k])
      BY <2>1 DEF Listed, Goto, TypeOK
    <2>4. \A i \in Instances : conns'[i] = conns[i] \ {k} \/ (i # home[k] /\ conns'[i] = conns[i])
      BY <2>1, <2>2 DEF TypeOK
    <2>5. ConnsExact'
      <3> SUFFICES ASSUME NEW i \in Instances PROVE conns'[i] = {m \in Sockets : Listed(m, i)'}
        BY DEF ConnsExact
      <3>1. conns[i] = {m \in Sockets : Listed(m, i)}
        BY DEF ConnsExact
      <3> QED
        BY <2>2, <2>3, <2>4, <3>1
    <2> QED
      BY <2>2, <2>5
  <1>4. ASSUME NEW k \in Sockets, StaleRemove(k) \/ StaleEval(k) PROVE Endpoints' /\ ConnsExact'
    <2>1. UNCHANGED <<home, pc>> /\ \E l \in {"leaving", "done"} : stalePc' = [stalePc EXCEPT ![k] = l]
      BY <1>4 DEF StaleRemove, StaleEval
    <2>2. /\ StaleRemove(k) => pc[k] # "new"
          /\ StaleEval(k) => stalePc[k] # "none"
      BY DEF StaleRemove, StaleEval
    <2>3. pc[k] # "new" /\ home[k] \in Instances
      BY <1>4, <2>2 DEF Endpoints
    <2>4. Endpoints'
      BY <2>1, <2>3 DEF Endpoints, TypeOK
    <2>5. /\ \A i \in Instances : ~Listed(k, i)' /\ (Listed(k, i) => i = home[k])
          /\ \A j \in Sockets, i \in Instances : j # k => (Listed(j, i)' <=> Listed(j, i))
      BY <2>1 DEF Listed, TypeOK
    <2>6. \A i \in Instances : conns'[i] = conns[i] \ {k} \/ (~Listed(k, i) /\ conns'[i] = conns[i])
      <3>1. CASE StaleRemove(k)
        <4>1. conns' = [conns EXCEPT ![home[k]] = @ \ {k}]
          BY <3>1 DEF StaleRemove
        <4> QED
          BY <2>3, <2>5, <4>1 DEF TypeOK
      <3>2. CASE StaleEval(k)
        BY <2>2, <3>2 DEF StaleEval, Listed
      <3> QED
        BY <1>4, <3>1, <3>2
    <2>7. ConnsExact'
      <3> SUFFICES ASSUME NEW i \in Instances PROVE conns'[i] = {m \in Sockets : Listed(m, i)'}
        BY DEF ConnsExact
      <3>1. conns[i] = {m \in Sockets : Listed(m, i)}
        BY DEF ConnsExact
      <3> QED
        BY <2>5, <2>6, <3>1
    <2> QED
      BY <2>4, <2>7
  <1>5. ASSUME NEW i \in Instances, Crash(i) PROVE Endpoints' /\ ConnsExact'
    <2>1. /\ home' = home /\ conns' = [conns EXCEPT ![i] = {}]
          /\ \A k \in Sockets : pc'[k] = IF home[k] = i THEN "closed" ELSE pc[k]
          /\ \A k \in Sockets : stalePc'[k] = IF home[k] = i /\ stalePc[k] # "none" THEN "done" ELSE stalePc[k]
      BY <1>5 DEF Crash
    <2>2. \A k \in Sockets, j \in Instances : Listed(k, j)' <=> Listed(k, j) /\ j # i
      BY <2>1 DEF Listed
    <2>3. \A j \in Instances : conns'[j] = IF j = i THEN {} ELSE conns[j]
      BY <2>1 DEF TypeOK
    <2>4. ConnsExact'
      <3> SUFFICES ASSUME NEW j \in Instances PROVE conns'[j] = {m \in Sockets : Listed(m, j)'}
        BY DEF ConnsExact
      <3>1. conns[j] = {m \in Sockets : Listed(m, j)}
        BY DEF ConnsExact
      <3> QED
        BY <2>2, <2>3, <3>1
    <2>5. Endpoints'
      BY <2>1 DEF Endpoints
    <2> QED
      BY <2>4, <2>5
  <1>6. ASSUME UNCHANGED socketVars PROVE Endpoints' /\ ConnsExact'
    BY <1>6 DEF Endpoints, ConnsExact, Listed
  <1>7. ASSUME NEW i \in Instances, MaintainStep(i) \/ MaintainFails(i) PROVE UNCHANGED socketVars
    BY <1>7 DEF MaintainStep, MaintainFails, HeartbeatBegin, HeartbeatEval, SweepSearch, SweepClaim,
       SweepPurge, SweepRead, SweepRestore, SweepDelete, SweepRecheck, SweepNotify
  <1>8. Lookup \/ Tick \/ UNCHANGED vars => UNCHANGED socketVars
    BY DEF Lookup, Tick, vars
  <1> QED
    BY <1>1, <1>2, <1>3, <1>4, <1>5, <1>6, <1>7, <1>8 DEF Next, EndpointStep

-----------------------------------------------------------------------------
\* A step of an endpoint leaves a witness: itself, another socket of its
\* instance, or the entry of the leases that remain.
LEMMA EndpointWitness ==
  ASSUME WitnessInv, NEW k \in Sockets, Unstaled',
         EndpointStep(k) \/ Close(k) \/ ConnectFails(k) \/ DisconnectFails(k), view' = "online"
  PROVE  Witnessed'
  <1>0. TypeOK /\ Endpoints
    BY DEF WitnessInv, IInv
  <1>1. CASE ConnectEval(k) \/ ConnectFails(k) \/ Announce(k) \/ Close(k) \/ DisconnectFails(k)
    <2>1. /\ UNCHANGED <<home, stalePc>> /\ pc[k] # "new"
          /\ \E l \in {"announce", "open", "closing", "offline"} : Goto(k, l)
      BY <1>1 DEF ConnectEval, ConnectFails, Announce, Close, DisconnectFails
    <2> QED
      BY <1>0, <2>1, EndpointMoves DEF Witnessed
  <1>2. CASE LocalRemove(k)
    <2>1. /\ UNCHANGED <<home, stalePc>> /\ pc[k] = "closing"
          /\ Goto(k, IF LastLocal(k, home[k]) THEN "leaving" ELSE "closed")
      BY <1>2 DEF LocalRemove
    <2>2. CASE LastLocal(k, home[k])
      BY <1>0, <2>1, <2>2, EndpointMoves DEF Witnessed
    <2>3. CASE ~LastLocal(k, home[k])
      <3>1. home[k] \in Instances /\ conns[home[k]] = {j \in Sockets : Listed(j, home[k])}
        BY <1>0, <2>1 DEF Endpoints, WitnessInv, ConnsExact
      <3>2. Listed(k, home[k])
        BY <2>1 DEF Listed, Unstaled
      <3>3. PICK j \in Sockets : j # k /\ Listed(j, home[k])
        BY <2>3, <3>1, <3>2 DEF LastLocal
      <3>4. pc'[j] = pc[j]
        BY <1>0, <2>1, <3>3 DEF Goto, TypeOK
      <3> QED
        BY <3>3, <3>4 DEF Listed, Witnessed, Serving
    <2> QED
      BY <2>2, <2>3
  <1>3. CASE DisconnectEval(k)
    <2>1. /\ UNCHANGED <<home, stalePc>> /\ pc[k] = "leaving" /\ DisconnectScript(home[k])
          /\ Goto(k, IF Present(lease') = {} THEN "offline" ELSE "closed")
      BY <1>3 DEF DisconnectEval
    <2>2. CASE Present(lease') = {}
      BY <1>0, <2>1, <2>2, EndpointMoves DEF Witnessed
    <2>3. CASE Present(lease') # {}
      BY <1>0, <2>1, <2>3, DisconnectScriptCovers DEF Witnessed
    <2> QED
      BY <2>2, <2>3
  <1>4. ~MarkOffline(k)
    BY DEF MarkOffline
  <1>5. ~StaleEval(k)
    BY <1>0 DEF StaleEval, Unstaled, TypeOK
  <1> QED
    BY <1>1, <1>2, <1>3, <1>4, <1>5 DEF EndpointStep

\* A sweep takes the entry and gives it back, finds another lease, or publishes.
LEMMA SweepWitness ==
  ASSUME WitnessInv, IInv', NEW i \in Instances, MaintainStep(i), ~HeartbeatEval(i),
         Witnessed, view' = "online", lost' = {}
  PROVE  Witnessed'
  <1>0. TypeOK /\ TypeOK' /\ SweepersUp' /\ UNCHANGED <<up, socketVars>>
    BY DEF WitnessInv, IInv, MaintainStep, HeartbeatBegin, HeartbeatEval, SweepSearch, SweepClaim,
       SweepPurge, SweepRead, SweepRestore, SweepDelete, SweepRecheck, SweepNotify
  <1>1. Serving => Serving'
    BY <1>0 DEF Serving
  <1>2. ASSUME mpc'[i] \in {"claimed", "purged", "restore", "delete", "recheck", "notify"}
        PROVE  Witnessed'
    BY <1>0, <1>2 DEF SweepersUp, Witnessed, Sweeping
  <1>3. ASSUME mpc[i] \in {"idle", "beat", "claim"}, \E l \in {"idle", "beat", "claim"} : mpc' = [mpc EXCEPT ![i] = l],
               index' = index \/ index' # Absent
        PROVE  Witnessed'
    <2>1. Sweeping => Sweeping'
      BY <1>0, <1>3 DEF Sweeping, TypeOK
    <2> QED
      BY <1>1, <1>3, <2>1 DEF Witnessed
  <1>4. CASE HeartbeatBegin(i) \/ SweepSearch(i)
    BY <1>3, <1>4 DEF HeartbeatBegin, SweepSearch, MGoto
  <1>6. CASE SweepClaim(i)
    <2>1. CASE MGoto(i, "claimed")
      BY <1>0, <1>2, <2>1 DEF MGoto, TypeOK
    <2>2. CASE index = Absent /\ GiveUp(i)
      BY <1>3, <1>6, <2>2 DEF SweepClaim, GiveUp
    <2> QED
      BY <1>6, <2>1, <2>2 DEF SweepClaim
  <1>7. CASE SweepPurge(i) \/ SweepRead(i) \/ SweepDelete(i)
    BY <1>0, <1>2, <1>7 DEF SweepPurge, SweepRead, SweepDelete, MGoto, TypeOK
  <1>8. CASE SweepRestore(i)
    BY <1>8 DEF SweepRestore, WitnessInv, IInv, RestoresLease, Witnessed
  <1>9. CASE SweepRecheck(i)
    <2>1. CASE Fresh(lease) = {}
      BY <1>0, <1>2, <1>9, <2>1 DEF SweepRecheck, MGoto, TypeOK
    <2>2. CASE Fresh(lease) # {}
      <3>1. PICK j \in Instances : lease[j] > 0
        BY <2>2 DEF Fresh
      <3>2. lease'[j] = lease[j] /\ lease[j] # Absent
        BY <1>0, <1>9, <3>1 DEF SweepRecheck, Purged, TypeOK
      <3>3. Present(lease') # {}
        BY <3>2 DEF Present
      <3> QED
        BY <3>3 DEF IInv, IndexCoversLeases, Witnessed, Sweeping
    <2> QED
      BY <2>1, <2>2
  <1>10. ~SweepNotify(i)
    BY DEF SweepNotify
  <1> QED
    BY <1>4, <1>6, <1>7, <1>8, <1>9, <1>10 DEF MaintainStep

\* What a crash takes with it has left a lease, and so an entry, or is recorded
\* as lost.
LEMMA CrashWitness ==
  ASSUME WitnessInv, IInv', NEW i \in Instances, MaintainFails(i) \/ Crash(i),
         Witnessed, Unstaled, lost' = {}
  PROVE  Witnessed'
  <1>0. TypeOK /\ SweepLoses(i) = {} /\ (Crash(i) => CrashLoses(i) = {})
    BY DEF WitnessInv, IInv, MaintainFails, Crash, CrashLoses
  <1>1. /\ mpc' = [mpc EXCEPT ![i] = "idle"] /\ (up' = up \/ up' = up \ {i})
        /\ UNCHANGED <<lease, index>>
    BY DEF MaintainFails, Crash, GiveUp
  <1>2. CASE index # Absent
    BY <1>1, <1>2 DEF Witnessed
  <1>3. CASE Sweeping
    <2>1. PICK j \in up : mpc[j] \in {"claimed", "purged", "restore", "delete", "recheck", "notify"}
      BY <1>3 DEF Sweeping
    <2>2. j # i /\ j \in Instances
      BY <1>0, <2>1 DEF SweepLoses, TypeOK
    <2>3. j \in up' /\ mpc'[j] = mpc[j]
      BY <1>0, <1>1, <2>1, <2>2 DEF TypeOK
    <2> QED
      BY <2>1, <2>3 DEF Witnessed, Sweeping
  <1>4. CASE Serving
    <2>1. PICK k \in Sockets : pc[k] \notin {"new", "closed"}
      BY <1>4 DEF Serving
    <2>2. CASE pc'[k] = pc[k]
      BY <2>1, <2>2 DEF Witnessed, Serving
    <2>3. CASE pc'[k] # pc[k]
      <3>1. home[k] = i /\ Crash(i)
        BY <2>3 DEF MaintainFails, Crash
      <3>2. lease[i] # Absent
        <4>1. CASE pc[k] \in {"connecting", "announce", "open", "closing"}
          <5>1. Listed(k, i)
            BY <3>1, <4>1 DEF Listed, Unstaled
          <5>2. conns[i] # {}
            BY <5>1 DEF WitnessInv, ConnsExact
          <5> QED
            BY <1>0, <3>1, <5>2 DEF CrashLoses
        <4>2. CASE pc[k] \in {"leaving", "offline"}
          BY <1>0, <3>1, <4>2 DEF CrashLoses
        <4> QED
          BY <1>0, <2>1, <4>1, <4>2 DEF TypeOK
      <3>3. Present(lease') # {}
        BY <1>1, <3>2 DEF Present
      <3> QED
        BY <3>3 DEF IInv, IndexCoversLeases, Witnessed, Sweeping
    <2> QED
      BY <2>2, <2>3
  <1> QED
    BY <1>2, <1>3, <1>4 DEF Witnessed

\* Every step leaves a witness for an online user, or records what was lost.
LEMMA WitnessStep == WitnessInv /\ [Next]_vars => WitnessInv'
  <1> SUFFICES ASSUME WitnessInv, [Next]_vars PROVE WitnessInv'
    OBVIOUS
  <1>1. IInv' /\ Endpoints' /\ ConnsExact' /\ TypeOK
    BY InvariantStep, EndpointsStep DEF WitnessInv, IInv
  <1>2. SUFFICES ASSUME view' = "online", Unstaled', lost' = {} PROVE Witnessed'
    BY <1>1 DEF WitnessInv, OnlineHasWitness, Unstaled, Witnessed, Serving, Sweeping
  <1>3. view = "online" /\ Unstaled /\ lost = {} => Witnessed
    BY DEF WitnessInv, OnlineHasWitness, Unstaled, Witnessed, Serving, Sweeping
  <1>4. ASSUME NEW k \in Sockets, NEW i \in Instances, Accept(k, i) PROVE Witnessed'
    BY <1>1, <1>4 DEF Accept, Goto, Witnessed, Serving, TypeOK
  <1>5. ASSUME NEW k \in Sockets, EndpointStep(k) \/ Close(k) \/ ConnectFails(k) \/ DisconnectFails(k)
        PROVE  Witnessed'
    BY <1>2, <1>5, EndpointWitness
  <1>6. ASSUME NEW k \in Sockets PROVE ~StaleRemove(k)
    <2>1. StaleRemove(k) => stalePc'[k] # "none"
      BY <1>1 DEF StaleRemove, TypeOK
    <2> QED
      BY <1>2, <2>1 DEF Unstaled
  <1>7. ASSUME NEW i \in Instances, MaintainStep(i) PROVE Witnessed'
    <2>1. CASE HeartbeatEval(i)
      BY <1>1, <2>1, ConnectScriptTyped DEF HeartbeatEval, Witnessed
    <2>2. CASE ~HeartbeatEval(i)
      <3>1. UNCHANGED <<socketVars, lost>> /\ (view' = view \/ view' = "offline")
        BY <1>7, <2>2 DEF MaintainStep, HeartbeatBegin, SweepSearch, SweepClaim,
           SweepPurge, SweepRead, SweepRestore, SweepDelete, SweepRecheck, SweepNotify
      <3> QED
        BY <1>1, <1>2, <1>3, <1>7, <2>2, <3>1, SweepWitness DEF Unstaled
    <2> QED
      BY <2>1, <2>2
  <1>8. ASSUME NEW i \in Instances, MaintainFails(i) \/ Crash(i) PROVE Witnessed'
    <2>1. /\ view' = view /\ lost \subseteq lost'
          /\ \A k \in Sockets : stalePc'[k] = "none" => stalePc[k] = "none"
      BY <1>8 DEF MaintainFails, Crash
    <2>2. Unstaled
      BY <1>2, <2>1 DEF Unstaled
    <2> QED
      BY <1>1, <1>2, <1>3, <1>8, <2>1, <2>2, CrashWitness
  <1>9. CASE Lookup \/ Tick \/ UNCHANGED vars
    <2>1. UNCHANGED <<up, socketVars, mpc, view, lost>> /\ (index' = Absent <=> index = Absent)
      BY <1>1, <1>9, DownKeeps DEF Lookup, Tick, vars, TypeOK
    <2> QED
      BY <1>2, <1>3, <2>1 DEF Unstaled, Witnessed, Serving, Sweeping
  <1> QED
    BY <1>4, <1>5, <1>6, <1>7, <1>8, <1>9 DEF Next

\* A user who is shown online is not forgotten: whatever errors, lookups, sweeps
\* and crashes interleave, an endpoint, the index or a sweep is left that will
\* publish offline when the last socket is gone (disconnect, _sweep_presence).
\* What can forget the user is named by the property: a fan-out that disconnects a
\* socket, and a crash or an error at one of the moments `lost` records, among them
\* the crash between the decision and its publication.
THEOREM OnlineAnsweredFor == Spec => []OnlineHasWitness
  <1>1. Init => WitnessInv
    <2> SUFFICES ASSUME Init PROVE WitnessInv
      OBVIOUS
    <2>1. IInv
      BY InvariantInit
    <2>2. Endpoints /\ OnlineHasWitness
      BY DEF Init, Endpoints, OnlineHasWitness
    <2>3. ConnsExact
      BY DEF Init, ConnsExact, Listed
    <2> QED
      BY <2>1, <2>2, <2>3 DEF WitnessInv
  <1>2. WitnessInv /\ [Next]_vars => WitnessInv'
    BY WitnessStep
  <1>3. WitnessInv => OnlineHasWitness
    BY DEF WitnessInv
  <1> QED
    BY <1>1, <1>2, <1>3, PTL DEF Spec
=============================================================================
