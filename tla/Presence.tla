------------------------------- MODULE Presence -------------------------------
(***************************************************************************)
(* Global presence of one user over several backend instances.             *)
(*                                                                         *)
(* ConnectionManager keeps each instance's sockets in memory; Redis keeps, *)
(* per user, a sorted set of leases (one member per instance serving the   *)
(* user, scored by expiry) and one entry of a shared sorted set, the       *)
(* index, which sweeps search for expired users.  Every Redis command or   *)
(* script is atomic; between two of them anything may happen, because the  *)
(* manager's lock covers only its own dictionary.                          *)
(*                                                                         *)
(* Users share no key but the index, where each has its own member, so one *)
(* user is modelled.  Scores are kept as the time left: a member with      *)
(* nothing left is expired (score =< now) but still there.  Clocks agree.  *)
(***************************************************************************)
EXTENDS Integers, FiniteSets

CONSTANTS
    Instances,      \* backend instances; an instance_id is never reused
    Sockets,        \* WebSocket connections of the user, each used once
    Routes,         \* pairs (socket, instance) the load balancer may choose
    TTL,            \* settings.presence_ttl_seconds, in ticks of the clock
    StaleSockets,   \* may a send find a socket already closed?
    Disruptive,     \* what may strike an instance at a moment when something
                    \* is lost with it (below): its "crash", an "error" of its
                    \* maintenance loop; at other moments both always may
    MaxFaults       \* bound: Redis calls that raise

ASSUME ConstantAssumption ==
    /\ Routes \subseteq Sockets \X Instances
    /\ TTL \in Nat \ {0} /\ MaxFaults \in Nat
    /\ StaleSockets \in BOOLEAN /\ Disruptive \subseteq {"crash", "error"}

VARIABLES
    up,         \* instances still running
    conns,      \* conns[i]: manager._connections[user] of instance i
    home,       \* home[k]: instance of socket k, or "none"
    pc,         \* pc[k]: where the endpoint of socket k is
    stalePc,    \* stalePc[k]: the disconnect that deliver_to_user_local runs
    lease,      \* Redis presence key: time left per instance, or Absent
    index,      \* Redis presence users key: time left, or Absent
    mpc,        \* mpc[i]: where _maintain of instance i is
    expired,    \* expired[i]: leases already expired at the `now` of i's sweep
    latest,     \* latest[i]: score read by i's sweep
    view,       \* the last presence event published to the peers
    faults,
    lost        \* history: what crashes and errors took with them that Redis did
                \* not hold, since a connect script last wrote it all again

Absent == -1
socketVars == <<conns, home, pc, stalePc>>
redisVars == <<lease, index>>
maintVars == <<mpc, expired, latest>>
vars == <<up, socketVars, redisVars, maintVars, view, faults, lost>>

Fresh(ls) == {i \in Instances : ls[i] > 0}
Present(ls) == {i \in Instances : ls[i] # Absent}

\* ZREMRANGEBYSCORE key -inf now
Purged(ls) == [i \in Instances |-> IF ls[i] = 0 THEN Absent ELSE ls[i]]

\* ZRANGE key -1 -1 WITHSCORES
IsLatest(ls, t) == \E i \in Present(ls) : ls[i] = t /\ \A j \in Instances : ls[j] =< t

Init ==
    /\ up = Instances
    /\ conns = [i \in Instances |-> {}]
    /\ home = [k \in Sockets |-> "none"]
    /\ pc = [k \in Sockets |-> "new"]
    /\ stalePc = [k \in Sockets |-> "none"]
    /\ lease = [i \in Instances |-> Absent]
    /\ index = Absent
    /\ mpc = [i \in Instances |-> "idle"]
    /\ expired = [i \in Instances |-> {}]
    /\ latest = [i \in Instances |-> Absent]
    /\ view = "offline"
    /\ faults = 0
    /\ lost = {}

Goto(k, next) == pc' = [pc EXCEPT ![k] = next]

-----------------------------------------------------------------------------
(* websocket_endpoint and ConnectionManager.connect / disconnect.          *)

\* connect, under the manager's lock.
Accept(k, i) ==
    /\ pc[k] = "new" /\ i \in up /\ <<k, i>> \in Routes
    /\ home' = [home EXCEPT ![k] = i]
    /\ conns' = [conns EXCEPT ![i] = @ \cup {k}]
    /\ Goto(k, IF conns[i] = {} THEN "connecting" ELSE "open")
    /\ UNCHANGED <<up, stalePc, redisVars, maintVars, view, faults, lost>>

\* Mutant: the index gets the expiry of the key, which is twice the TTL.
ConnectScriptKeyTTL(i) ==
    /\ lease' = [Purged(lease) EXCEPT ![i] = TTL]
    /\ index' = 2 * TTL
    /\ lost' = {}

\* PRESENCE_CONNECT_SCRIPT, run by connect and by the heartbeat.
ConnectScript(i) ==
    /\ lease' = [Purged(lease) EXCEPT ![i] = TTL]
    /\ index' = TTL
    /\ lost' = {}

\* connect, after the lock: the first lease makes the user come online.
ConnectEval(k) ==
    /\ pc[k] = "connecting"
    /\ ConnectScript(home[k])
    /\ Goto(k, IF Fresh(lease) = {} THEN "announce" ELSE "open")
    /\ UNCHANGED <<up, conns, home, stalePc, maintVars, view, faults>>

\* The script raises: the local answer (first socket here) is used.
ConnectFails(k) ==
    /\ faults < MaxFaults
    /\ pc[k] = "connecting"
    /\ Goto(k, "announce")
    /\ faults' = faults + 1
    /\ UNCHANGED <<up, conns, home, stalePc, redisVars, maintVars, view, lost>>

\* presence.online is published, unless an exception on the way (the client
\* left, the database failed) ends the endpoint first.
Announce(k) ==
    /\ pc[k] = "announce"
    /\ view' = "online"
    /\ Goto(k, "open")
    /\ UNCHANGED <<up, conns, home, stalePc, redisVars, maintVars, faults, lost>>

\* The receive loop, or what precedes it, ends.
Close(k) ==
    /\ pc[k] \in {"announce", "open"}
    /\ Goto(k, "closing")
    /\ UNCHANGED <<up, conns, home, stalePc, redisVars, maintVars, view, faults, lost>>

\* disconnect, under the manager's lock: TRUE when k was the last one here.
LastLocal(k, i) == conns[i] # {} /\ conns[i] \ {k} = {}

LocalRemove(k) ==
    /\ pc[k] = "closing"
    /\ conns' = [conns EXCEPT ![home[k]] = @ \ {k}]
    /\ Goto(k, IF LastLocal(k, home[k]) THEN "leaving" ELSE "closed")
    /\ UNCHANGED <<up, home, stalePc, redisVars, maintVars, view, faults, lost>>

\* Mutant: the script drops the index entry although other leases remain.
DisconnectScriptForgets(i) ==
    /\ lease' = [Purged(lease) EXCEPT ![i] = Absent]
    /\ index' = Absent

\* PRESENCE_DISCONNECT_SCRIPT
DisconnectScript(i) ==
    /\ lease' = [Purged(lease) EXCEPT ![i] = Absent]
    /\ \/ Present(lease') = {} /\ index' = Absent
       \/ IsLatest(lease', index')

DisconnectEval(k) ==
    /\ pc[k] = "leaving"
    /\ index' \in Absent .. TTL
    /\ DisconnectScript(home[k])
    /\ Goto(k, IF Present(lease') = {} THEN "offline" ELSE "closed")
    /\ UNCHANGED <<up, conns, home, stalePc, maintVars, view, faults, lost>>

DisconnectFails(k) ==
    /\ faults < MaxFaults
    /\ pc[k] = "leaving"
    /\ Goto(k, "offline")
    /\ faults' = faults + 1
    /\ UNCHANGED <<up, conns, home, stalePc, redisVars, maintVars, view, lost>>

\* mark_user_offline: last_seen is stored, then presence.offline published.
MarkOffline(k) ==
    /\ pc[k] = "offline"
    /\ view' = "offline"
    /\ Goto(k, "closed")
    /\ UNCHANGED <<up, conns, home, stalePc, redisVars, maintVars, faults, lost>>

\* deliver_to_user_local finds the socket closed and disconnects it, without
\* looking at the answer.  The endpoint itself still has to end: Hangup.
StaleRemove(k) ==
    /\ StaleSockets
    /\ stalePc[k] = "none"
    /\ pc[k] \in {"connecting", "announce", "open", "closing"}
    /\ k \in conns[home[k]]
    /\ conns' = [conns EXCEPT ![home[k]] = @ \ {k}]
    /\ stalePc' = [stalePc EXCEPT ![k] = IF LastLocal(k, home[k])
                                            THEN "leaving" ELSE "done"]
    /\ UNCHANGED <<up, home, pc, redisVars, maintVars, view, faults, lost>>

StaleEval(k) ==
    /\ stalePc[k] = "leaving"
    /\ index' \in Absent .. TTL
    /\ DisconnectScript(home[k])
    /\ stalePc' = [stalePc EXCEPT ![k] = "done"]
    /\ UNCHANGED <<up, conns, home, pc, maintVars, view, faults, lost>>

Hangup(k) == stalePc[k] # "none" /\ Close(k)

-----------------------------------------------------------------------------
(* RedisRealtimeBackend._maintain and _sweep_presence.                     *)

MGoto(i, next) == mpc' = [mpc EXCEPT ![i] = next]

\* The iteration ends here; its local variables are gone.
GiveUp(i) ==
    /\ mpc' = [mpc EXCEPT ![i] = "idle"]
    /\ expired' = [expired EXCEPT ![i] = {}]

\* A heartbeat is due and local_user_ids lists the user.
HeartbeatBegin(i) ==
    /\ mpc[i] = "idle" /\ i \in up
    /\ conns[i] # {}
    /\ MGoto(i, "beat")
    /\ UNCHANGED <<up, socketVars, redisVars, expired, latest, view, faults, lost>>

\* Mutant: the heartbeat refreshes the index entry only.
HeartbeatIndexOnly(i) ==
    /\ mpc[i] = "beat"
    /\ index' = TTL
    /\ MGoto(i, "idle")
    /\ UNCHANGED <<up, socketVars, lease, expired, latest, view, faults, lost>>

\* user_connected for a user who was local then; the answer is dropped.
HeartbeatEval(i) ==
    /\ mpc[i] = "beat"
    /\ ConnectScript(i)
    /\ MGoto(i, "idle")
    /\ UNCHANGED <<up, socketVars, expired, latest, view, faults>>

\* ZRANGEBYSCORE of the index finds the user expired; the same `now` serves the
\* whole sweep.
SweepSearch(i) ==
    /\ mpc[i] = "idle" /\ i \in up
    /\ index = 0
    /\ expired' = [expired EXCEPT ![i] = {j \in Instances : lease[j] = 0}]
    /\ MGoto(i, "claim")
    /\ UNCHANGED <<up, socketVars, redisVars, latest, view, faults, lost>>

\* ZREM of the index entry, whatever its score has become; one sweeper gets it.
SweepClaim(i) ==
    /\ mpc[i] = "claim"
    /\ \/ index # Absent /\ MGoto(i, "claimed") /\ UNCHANGED expired
       \/ index = Absent /\ GiveUp(i)
    /\ index' = Absent
    /\ UNCHANGED <<up, socketVars, lease, latest, view, faults, lost>>

\* ZREMRANGEBYSCORE of the leases, with the same `now`.
SweepPurge(i) ==
    /\ mpc[i] = "claimed"
    /\ lease' = [j \in Instances |-> IF j \in expired[i] /\ lease[j] = 0
                                       THEN Absent ELSE lease[j]]
    /\ expired' = [expired EXCEPT ![i] = {}]
    /\ MGoto(i, "purged")
    /\ UNCHANGED <<up, socketVars, index, latest, view, faults, lost>>

\* ZRANGE: is a lease left?
SweepRead(i) ==
    /\ mpc[i] = "purged"
    /\ \/ /\ Present(lease) = {}
          /\ MGoto(i, "delete") /\ UNCHANGED latest
       \/ \E t \in 0 .. TTL :
            /\ IsLatest(lease, t)
            /\ latest' = [latest EXCEPT ![i] = t]
            /\ MGoto(i, "restore")
    /\ UNCHANGED <<up, socketVars, redisVars, expired, view, faults, lost>>

\* Mutant: `continue` without the ZADD.
SweepRestoreSkipped(i) ==
    /\ mpc[i] = "restore"
    /\ latest' = [latest EXCEPT ![i] = Absent]
    /\ MGoto(i, "idle")
    /\ UNCHANGED <<up, socketVars, redisVars, expired, view, faults, lost>>

\* ZADD: the user goes back into the index.
SweepRestore(i) ==
    /\ mpc[i] = "restore"
    /\ index' = latest[i]
    /\ latest' = [latest EXCEPT ![i] = Absent]
    /\ MGoto(i, "idle")
    /\ UNCHANGED <<up, socketVars, lease, expired, view, faults, lost>>

\* DEL of the presence key.
SweepDelete(i) ==
    /\ mpc[i] = "delete"
    /\ lease' = [j \in Instances |-> Absent]
    /\ MGoto(i, "recheck")
    /\ UNCHANGED <<up, socketVars, index, expired, latest, view, faults, lost>>

\* online_user_ids once more, which also purges.
SweepRecheck(i) ==
    /\ mpc[i] = "recheck"
    /\ lease' = Purged(lease)
    /\ MGoto(i, IF Fresh(lease) = {} THEN "notify" ELSE "idle")
    /\ UNCHANGED <<up, socketVars, index, expired, latest, view, faults, lost>>

\* on_presence_expired is mark_user_offline.
SweepNotify(i) ==
    /\ mpc[i] = "notify"
    /\ view' = "offline"
    /\ MGoto(i, "idle")
    /\ UNCHANGED <<up, socketVars, redisVars, expired, latest, faults, lost>>

-----------------------------------------------------------------------------
(* The environment.                                                        *)

\* What is lost if the iteration of i ends here: the entry it has claimed, or the
\* notice that the user went offline.
SweepLoses(i) ==
    CASE mpc[i] \in {"claimed", "purged", "restore"} -> {"entry"}
      [] mpc[i] \in {"delete", "recheck", "notify"} -> {"notice"}
      [] OTHER -> {}

\* What is lost if i dies here: the same; the notice an endpoint has yet to
\* publish; and, if i serves or is disconnecting the user while its lease is
\* missing, the lease by which a sweep would find out.
CrashLoses(i) ==
    SweepLoses(i) \cup
    {l \in {"notice", "lease"} :
        \/ /\ l = "notice"
           /\ \E k \in Sockets : home[k] = i /\ pc[k] = "offline"
        \/ /\ l = "lease" /\ lease[i] = Absent
           /\ conns[i] # {} \/ \E k \in Sockets : home[k] = i /\ pc[k] = "leaving"}

\* A Redis call of the loop raises: the iteration is logged and given up.
MaintainFails(i) ==
    /\ faults < MaxFaults
    /\ i \in up /\ mpc[i] # "idle"
    /\ "error" \in Disruptive \/ SweepLoses(i) = {}
    /\ GiveUp(i)
    /\ latest' = [latest EXCEPT ![i] = Absent]
    /\ faults' = faults + 1
    /\ lost' = lost \cup SweepLoses(i)
    /\ UNCHANGED <<up, socketVars, redisVars, view>>

\* An instance dies with its sockets and its memory; its leases stay.  One
\* instance survives.
Crash(i) ==
    /\ i \in up /\ up # {i}
    /\ "crash" \in Disruptive \/ CrashLoses(i) = {}
    /\ up' = up \ {i}
    /\ conns' = [conns EXCEPT ![i] = {}]
    /\ pc' = [k \in Sockets |-> IF home[k] = i THEN "closed" ELSE pc[k]]
    /\ stalePc' = [k \in Sockets |-> IF home[k] = i /\ stalePc[k] # "none"
                                       THEN "done" ELSE stalePc[k]]
    /\ GiveUp(i)
    /\ latest' = [latest EXCEPT ![i] = Absent]
    /\ lost' = lost \cup CrashLoses(i)
    /\ UNCHANGED <<home, redisVars, view, faults>>

\* A peer's lookup (online_user_ids) purges expired leases.
Lookup ==
    /\ lease' = Purged(lease)
    /\ UNCHANGED <<up, socketVars, index, maintVars, view, faults, lost>>

\* Time passes for everyone; a slow instance may miss its heartbeat.
Down(t) == IF t > 0 THEN t - 1 ELSE t

Tick ==
    /\ lease' = [i \in Instances |-> Down(lease[i])]
    /\ index' = Down(index)
    /\ latest' = [i \in Instances |-> Down(latest[i])]
    /\ UNCHANGED <<up, socketVars, mpc, expired, view, faults, lost>>

-----------------------------------------------------------------------------
EndpointStep(k) ==
    \/ ConnectEval(k) \/ Announce(k)
    \/ LocalRemove(k) \/ DisconnectEval(k) \/ MarkOffline(k) \/ StaleEval(k)

MaintainStep(i) ==
    \/ HeartbeatBegin(i) \/ HeartbeatEval(i) \/ SweepSearch(i) \/ SweepClaim(i)
    \/ SweepPurge(i) \/ SweepRead(i) \/ SweepRestore(i) \/ SweepDelete(i)
    \/ SweepRecheck(i) \/ SweepNotify(i)

Next ==
    \/ \E k \in Sockets : \/ \E i \in Instances : Accept(k, i)
                          \/ EndpointStep(k) \/ Close(k) \/ StaleRemove(k)
                          \/ ConnectFails(k) \/ DisconnectFails(k)
    \/ \E i \in Instances : MaintainStep(i) \/ MaintainFails(i) \/ Crash(i)
    \/ Lookup
    \/ Tick

Spec == Init /\ [][Next]_vars

\* Endpoints and maintenance loops of running instances keep going and time
\* passes.  A loop that is idle again and again does not leave out its
\* heartbeat or its sweep for ever.  Clients may stay connected for ever, and
\* Redis errors are finite.
Fairness ==
    /\ \A k \in Sockets : WF_vars(EndpointStep(k)) /\ WF_vars(Hangup(k))
    /\ \A i \in Instances : /\ WF_vars(MaintainStep(i))
                             /\ SF_vars(HeartbeatBegin(i))
                             /\ SF_vars(SweepSearch(i))
    /\ WF_vars(Tick)

LiveSpec == Spec /\ Fairness

-----------------------------------------------------------------------------
(* Properties.                                                             *)

\* Type correctness of every variable.
TypeOK ==
    /\ up \subseteq Instances
    /\ conns \in [Instances -> SUBSET Sockets]
    /\ home \in [Sockets -> Instances \cup {"none"}]
    /\ pc \in [Sockets -> {"new", "connecting", "announce", "open", "closing",
                           "leaving", "offline", "closed"}]
    /\ stalePc \in [Sockets -> {"none", "leaving", "done"}]
    /\ lease \in [Instances -> Absent .. TTL]
    /\ index \in Absent .. TTL
    /\ mpc \in [Instances -> {"idle", "beat", "claim", "claimed", "purged", "restore",
                              "delete", "recheck", "notify"}]
    /\ expired \in [Instances -> SUBSET Instances]
    /\ latest \in [Instances -> Absent .. TTL]
    /\ view \in {"online", "offline"}
    /\ faults \in 0 .. MaxFaults
    /\ lost \subseteq {"entry", "notice", "lease"}

\* Sweeps find users through the index only: as long as Redis holds a lease of
\* the user, the index holds the user or a running sweep has claimed the entry
\* and will put it back.  Connects, disconnects, heartbeats and other sweeps
\* run between the claim and the restore.  The one exception: an instance died,
\* or its loop gave up, between its claim (ZREM) and its restore (ZADD), and
\* nobody has connected or sent a heartbeat since.
IndexCoversLeases ==
    Present(lease) # {} /\ "entry" \notin lost =>
        \/ index # Absent
        \/ \E i \in up : mpc[i] \in {"claimed", "purged", "restore"}

\* As long as the peers see the user online somebody will correct it when the
\* time comes: an endpoint that has yet to leave, the entry of the index, or a
\* sweep that has claimed it.  Crashes, failing scripts, lookups that purge and
\* sweeps of several instances come in between.  The exceptions: a fan-out that
\* disconnected a socket and dropped the answer; and, until the next connect or
\* heartbeat, a crash or an error that struck between the claim of the entry and
\* its restore, between the decision that the user is offline and its
\* publication, or while the instance's lease was missing.
OnlineHasWitness ==
    view = "online" /\ lost = {} /\ (\A k \in Sockets : stalePc[k] = "none") =>
        \/ \E k \in Sockets : pc[k] \notin {"new", "closed"}
        \/ index # Absent
        \/ \E i \in up : mpc[i] \in {"claimed", "purged", "restore", "delete",
                                     "recheck", "notify"}

\* Lookups heal: while some running instance has a socket of the user, a lookup
\* finds the user online again and again, whatever racing disconnect, sweep or
\* Redis error removed the lease meanwhile.
SnapshotHeals ==
    <>[](\E i \in up : conns[i] # {}) => []<>(Fresh(lease) # {})

\* "only the last global disconnection emits offline. A surviving instance
\* detects expired crash leases": once no running instance has a socket of the
\* user, the peers are in the end told so, nothing later contradicts it, and
\* lookups agree, although a heartbeat may have renewed a lease after the
\* disconnect.
OfflineDetected ==
    <>[](\A i \in up : conns[i] = {}) =>
        <>[](view = "offline" /\ Fresh(lease) = {})

\* "only the last global disconnection emits offline": the script answers that
\* the user went offline only if no other socket is open.
LastDisconnectOnly ==
    [][\A k \in Sockets : pc[k] = "leaving" /\ pc'[k] = "offline" =>
          \A j \in Sockets : pc[j] # "open"]_vars
=============================================================================
