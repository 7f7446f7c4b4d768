---------------------------- MODULE SessionsProofs ----------------------------
(***************************************************************************)
(* Proofs about Sessions, for any number of requests, names and tokens.    *)
(*                                                                         *)
(* What ties the properties together is what a request knows of its token: *)
(* the token is committed, it belongs to the name in whose favour the      *)
(* request acts, and a request that came in late holds a revoked one.      *)
(***************************************************************************)
EXTENDS Sessions, TLAPS

USE ConstantAssumption
USE DEF tokenVars, sessionVars

TypeInv == SessionsTypeOK /\ job \in [Request -> Job]

\* The requests that are about a token.
WithToken == {"refresh", "logout"}

\* What request r knows of its token and its name.
Knows(r) ==
    /\ job[r].op \in WithToken =>
          job[r].token \in tokens /\ job[r].name = owner[job[r].token]
    /\ job[r].op \notin WithToken => job[r].token = None
    /\ job[r].op \in {"register", "login"} => job[r].name \in Name
\* Where it is belongs to what it does.
InPlace(r) ==
    /\ job[r].pc = "revoke" => job[r].op \in WithToken
    /\ job[r].pc = "issue" => job[r].op \in {"register", "login", "refresh"}
    /\ job[r].pc = "commit" => job[r].op = "logout"
LateIsRevoked(r) == job[r].late => job[r].token \in revoked

Sound == \A r \in Request : Knows(r) /\ InPlace(r) /\ LateIsRevoked(r)

SessionsInv ==
    TypeInv /\ Sound /\ RotationAtomic /\ SuccessorsReplace /\ RevokedRefused

-----------------------------------------------------------------------------
(* Steps that touch no token: the database is as it was, and one request   *)
(* goes on, begins or ends.                                                *)

\* What request r, and no other, has become.
Becomes(r, j) == job' = [job EXCEPT ![r] = j]

\* The database may grow while a request keeps what it knows.
LEMMA SoundStays ==
  ASSUME SessionsInv, NEW s \in Request, job'[s] = job[s],
         tokens \subseteq tokens', revoked \subseteq revoked',
         \A t \in tokens : owner'[t] = owner[t]
  PROVE  Knows(s)' /\ InPlace(s)' /\ LateIsRevoked(s)'
  <1>1. Knows(s) /\ InPlace(s) /\ LateIsRevoked(s)
    BY DEF SessionsInv, Sound
  <1> QED
    BY <1>1 DEF Knows, InPlace, LateIsRevoked

\* A step of request r that leaves the database alone.
LEMMA QuietStep ==
  ASSUME SessionsInv, NEW r \in Request, NEW j \in Job, Becomes(r, j),
         UNCHANGED <<users, tokenVars>>, faults' \in 0 .. MaxFaults,
         j.op \in WithToken => j.token \in tokens /\ j.name = owner[j.token],
         j.op \notin WithToken => j.token = None,
         j.op \in {"register", "login"} => j.name \in Name,
         j.pc = "revoke" => j.op \in WithToken,
         j.pc = "issue" => j.op \in {"register", "login", "refresh"},
         j.pc = "commit" => j.op = "logout",
         j.late => j.token \in revoked,
         j.pc \in {"revoke", "issue", "commit"} => ~j.late
  PROVE  SessionsInv'
  <1>1. job' \in [Request -> Job] /\ job'[r] = j
    BY DEF SessionsInv, TypeInv, Becomes
  <1>2. \A s \in Request \ {r} : job'[s] = job[s]
    BY DEF SessionsInv, TypeInv, Becomes
  <1>3. TypeInv'
    BY <1>1 DEF SessionsInv, TypeInv, SessionsTypeOK
  <1>4. Sound'
    <2>1. Knows(r)' /\ InPlace(r)' /\ LateIsRevoked(r)'
      BY <1>1 DEF Knows, InPlace, LateIsRevoked
    <2>2. \A s \in Request \ {r} : Knows(s)' /\ InPlace(s)' /\ LateIsRevoked(s)'
      BY <1>2, SoundStays
    <2> QED
      BY <2>1, <2>2 DEF Sound
  <1>5. RotationAtomic' /\ SuccessorsReplace'
    BY DEF SessionsInv, RotationAtomic, SuccessorsReplace
  <1>6. RevokedRefused'
    BY <1>1, <1>2 DEF SessionsInv, RevokedRefused
  <1> QED
    BY <1>3, <1>4, <1>5, <1>6 DEF SessionsInv

\* The answer of request r, with the database as it was.
LEMMA AnswerKeeps ==
  ASSUME SessionsInv, NEW r \in Request, Answer(r),
         UNCHANGED <<users, tokenVars>>, faults' \in 0 .. MaxFaults
  PROVE  SessionsInv'
  <1>1. Idle \in Job /\ Idle.op = "none" /\ Idle.token = None /\ Idle.pc = "idle" /\ ~Idle.late
    BY DEF Idle, Job
  <1>2. Becomes(r, Idle)
    BY DEF Answer, Becomes
  <1> QED
    BY <1>1, <1>2, QuietStep DEF WithToken

\* Request r goes on from a statement, with the database as it was.
LEMMA GotoKeeps ==
  ASSUME SessionsInv, NEW r \in Request, NEW label, Goto(r, label),
         UNCHANGED <<users, tokenVars, faults>>,
         label \in {"insert", "issue", "revoke", "commit"},
         label = "revoke" => job[r].op \in WithToken,
         label = "issue" => job[r].op \in {"register", "login", "refresh"},
         label = "commit" => job[r].op = "logout",
         label \in {"revoke", "issue", "commit"} => ~job[r].late
  PROVE  SessionsInv'
  <1> DEFINE j == [job[r] EXCEPT !.pc = label]
  <1>1. job[r] \in Job /\ Knows(r) /\ InPlace(r) /\ LateIsRevoked(r)
    BY DEF SessionsInv, TypeInv, Sound
  <1>2. /\ j \in Job /\ j.pc = label
        /\ j.op = job[r].op /\ j.name = job[r].name
        /\ j.token = job[r].token /\ j.late = job[r].late
    BY <1>1 DEF Job
  <1>3. Becomes(r, j)
    BY <1>1 DEF Goto, Becomes
  <1>4. faults' \in 0 .. MaxFaults
    BY DEF SessionsInv, TypeInv, SessionsTypeOK
  <1> HIDE DEF j
  <1> QED
    BY <1>1, <1>2, <1>3, <1>4, QuietStep DEF Knows, LateIsRevoked

-----------------------------------------------------------------------------
(* The actions.                                                            *)

LEMMA BeginKeeps == \A r \in Request : SessionsInv /\ Begins(r) => SessionsInv'
  <1> SUFFICES ASSUME NEW r \in Request, SessionsInv, Begins(r) PROVE SessionsInv'
    OBVIOUS
  <1>0. faults \in 0 .. MaxFaults
    BY DEF SessionsInv, TypeInv, SessionsTypeOK
  <1>1. ASSUME NEW op \in {"register", "login"}, NEW n \in Name, BeginWithName(r, op, n)
        PROVE  SessionsInv'
    <2> DEFINE j == [Idle EXCEPT !.op = op, !.pc = "select", !.name = n]
    <2>1. /\ j \in Job /\ j.op = op /\ j.pc = "select"
          /\ j.name = n /\ j.token = None /\ ~j.late
      BY DEF Idle, Job
    <2>2. Becomes(r, j) /\ UNCHANGED <<users, tokenVars, faults>>
      BY <1>1 DEF BeginWithName, Becomes
    <2> HIDE DEF j
    <2> QED
      BY <1>0, <2>1, <2>2, QuietStep DEF WithToken
  <1>2. ASSUME NEW op \in {"refresh", "logout"}, NEW t \in Token, BeginWithToken(r, op, t)
        PROVE  SessionsInv'
    <2> DEFINE late == t \in revoked
    <2> DEFINE j == [op |-> op, pc |-> "select", name |-> owner[t],
                     token |-> t, late |-> late]
    <2>1. t \in tokens /\ owner[t] \in Name
      BY <1>2 DEF BeginWithToken, SessionsInv, TypeInv, SessionsTypeOK
    <2>2. /\ j \in Job /\ j.op = op /\ j.pc = "select"
          /\ j.name = owner[t] /\ j.token = t /\ (j.late => t \in revoked)
      <3>1. late \in BOOLEAN /\ (late => t \in revoked)
        OBVIOUS
      <3> HIDE DEF late
      <3>2. j \in Job
        BY <2>1, <3>1 DEF Job
      <3> QED
        BY <3>1, <3>2
    <2>3. Becomes(r, j) /\ UNCHANGED <<users, tokenVars, faults>>
      BY <1>2 DEF BeginWithToken, Becomes
    <2> HIDE DEF j
    <2> QED
      BY <1>0, <2>1, <2>2, <2>3, QuietStep DEF WithToken
  <1> QED
    BY <1>1, <1>2 DEF Begins

\* The statements that only read, or wait.
LEMMA SelectKeeps ==
  \A r \in Request :
    SessionsInv /\ (RegisterSelect(r) \/ RegisterInsert(r) \/ LoginSelect(r)) => SessionsInv'
  <1> SUFFICES ASSUME NEW r \in Request, SessionsInv,
                      RegisterSelect(r) \/ RegisterInsert(r) \/ LoginSelect(r)
               PROVE  SessionsInv'
    OBVIOUS
  <1>1. UNCHANGED <<users, tokenVars, faults>>
    BY DEF RegisterSelect, RegisterInsert, LoginSelect
  <1>2. faults \in 0 .. MaxFaults
    BY DEF SessionsInv, TypeInv, SessionsTypeOK
  <1>3. job[r].op \in {"register", "login"}
    BY DEF RegisterSelect, RegisterInsert, LoginSelect, At
  <1>4. ~job[r].late
    <2>1. Knows(r) /\ LateIsRevoked(r) /\ revoked \subseteq Token
      BY DEF SessionsInv, Sound, TypeInv, SessionsTypeOK
    <2> QED
      BY <1>3, <2>1 DEF Knows, LateIsRevoked, WithToken
  <1>5. Answer(r) \/ Goto(r, "insert") \/ Goto(r, "issue")
    BY DEF RegisterSelect, RegisterInsert, LoginSelect
  <1> QED
    BY <1>1, <1>2, <1>3, <1>4, <1>5, AnswerKeeps, GotoKeeps

\* get_active lets no request pass that came in late: revocations stay.
LEMMA TokenSelectKeeps == \A r \in Request : SessionsInv /\ TokenSelect(r) => SessionsInv'
  <1> SUFFICES ASSUME NEW r \in Request, SessionsInv, TokenSelect(r) PROVE SessionsInv'
    OBVIOUS
  <1>1. UNCHANGED <<users, tokenVars, faults>> /\ job[r].op \in WithToken
    BY DEF TokenSelect, WithToken
  <1>2. faults \in 0 .. MaxFaults
    BY DEF SessionsInv, TypeInv, SessionsTypeOK
  <1>3. CASE Active(job[r].token)
    <2>1. ~job[r].late
      BY <1>3 DEF Active, SessionsInv, Sound, LateIsRevoked
    <2>2. Goto(r, "revoke")
      BY <1>3 DEF TokenSelect
    <2> QED
      BY <1>1, <2>1, <2>2, GotoKeeps
  <1>4. CASE ~Active(job[r].token)
    BY <1>1, <1>2, <1>4, AnswerKeeps DEF TokenSelect
  <1> QED
    BY <1>3, <1>4

LEMMA TokenRevokeKeeps == \A r \in Request : SessionsInv /\ TokenRevoke(r) => SessionsInv'
  <1> SUFFICES ASSUME NEW r \in Request, SessionsInv, TokenRevoke(r) PROVE SessionsInv'
    OBVIOUS
  <1>1. UNCHANGED <<users, tokenVars, faults>> /\ job[r].op \in WithToken
    BY DEF TokenRevoke, WithToken
  <1>2. ~job[r].late
    BY DEF TokenRevoke, SessionsInv, RevokedRefused
  <1>3. \/ job[r].op = "refresh" /\ Goto(r, "issue")
        \/ job[r].op = "logout" /\ Goto(r, "commit")
    BY <1>1 DEF TokenRevoke, WithToken
  <1> QED
    BY <1>1, <1>2, <1>3, GotoKeeps

LEMMA AbortKeeps == \A r \in Request : SessionsInv /\ Abort(r) => SessionsInv'
  <1> SUFFICES ASSUME NEW r \in Request, SessionsInv, Abort(r) PROVE SessionsInv'
    OBVIOUS
  <1>1. faults' \in 0 .. MaxFaults
    BY DEF Abort, Fault, SessionsInv, TypeInv, SessionsTypeOK
  <1> QED
    BY <1>1, AnswerKeeps DEF Abort

LEMMA ExpireKeeps == \A t \in Token : SessionsInv /\ Expire(t) => SessionsInv'
  <1> SUFFICES ASSUME NEW t \in Token, SessionsInv, Expire(t) PROVE SessionsInv'
    OBVIOUS
  <1>1. UNCHANGED <<users, tokens, owner, revoked, parent, ended, job, faults>>
    BY DEF Expire
  <1>2. TypeInv'
    BY <1>1 DEF Expire, SessionsInv, TypeInv, SessionsTypeOK
  <1>3. Sound'
    BY <1>1 DEF SessionsInv, Sound, Knows, InPlace, LateIsRevoked
  <1> QED
    BY <1>1, <1>2, <1>3
    DEF SessionsInv, RotationAtomic, SuccessorsReplace, RevokedRefused

-----------------------------------------------------------------------------
(* The two commits.                                                        *)

\* The request that is answered is idle, and the others keep what they know.
LEMMA CommitSound ==
  ASSUME SessionsInv, NEW r \in Request, Answered(r),
         tokens \subseteq tokens', revoked \subseteq revoked',
         \A t \in tokens : owner'[t] = owner[t]
  PROVE  /\ job' \in [Request -> Job] /\ faults' \in 0 .. MaxFaults
         /\ Sound' /\ RevokedRefused'
  <1>1. job' = [job EXCEPT ![r] = Idle] /\ job \in [Request -> Job]
    BY DEF Answered, Answer, SessionsInv, TypeInv
  <1>2. Idle \in Job /\ Idle.op = "none" /\ Idle.token = None /\ Idle.pc = "idle" /\ ~Idle.late
    BY DEF Idle, Job
  <1>3. job' \in [Request -> Job] /\ job'[r] = Idle
    BY <1>1, <1>2
  <1>4. \A s \in Request \ {r} : job'[s] = job[s]
    BY <1>1
  <1>5. faults' \in 0 .. MaxFaults
    BY DEF Answered, Fault, SessionsInv, TypeInv, SessionsTypeOK
  <1>6. Knows(r)' /\ InPlace(r)' /\ LateIsRevoked(r)'
    BY <1>2, <1>3 DEF Knows, InPlace, LateIsRevoked, WithToken
  <1>7. \A s \in Request \ {r} : Knows(s)' /\ InPlace(s)' /\ LateIsRevoked(s)'
    BY <1>4, SoundStays
  <1>8. RevokedRefused'
    BY <1>2, <1>3, <1>4 DEF SessionsInv, RevokedRefused
  <1> QED
    BY <1>3, <1>5, <1>6, <1>7, <1>8 DEF Sound

\* The COMMIT of a registration, a login or a refresh: the new token has a
\* parent exactly when it comes from a refresh, and the parent is revoked with
\* it.
LEMMA IssueKeeps == \A r \in Request : SessionsInv /\ Issue(r) => SessionsInv'
  <1> SUFFICES ASSUME NEW r \in Request, SessionsInv, Issue(r) PROVE SessionsInv'
    OBVIOUS
  <1>1. PICK t \in Token \ tokens :
            /\ tokens' = tokens \cup {t}
            /\ owner' = [owner EXCEPT ![t] = job[r].name]
            /\ parent' = [parent EXCEPT ![t] = job[r].token]
    BY DEF Issue
  <1>2. /\ users' = users \cup {job[r].name}
        /\ revoked' = IF job[r].op = "refresh" THEN revoked \cup {job[r].token} ELSE revoked
        /\ Answered(r) /\ expired' = expired /\ ended' = ended
    BY DEF Issue
  <1>3. SessionsTypeOK
    BY DEF SessionsInv, TypeInv
  <1>4. /\ job[r].op \in {"register", "login", "refresh"}
        /\ job[r].op = "refresh" => job[r].token \in tokens /\ job[r].name = owner[job[r].token]
        /\ job[r].op # "refresh" => job[r].token = None
        /\ job[r].name \in Name
    <2>1. job[r].pc = "issue" /\ Knows(r) /\ InPlace(r)
      BY DEF Issue, SessionsInv, Sound
    <2>2. \A k \in tokens : owner[k] \in Name
      BY <1>3 DEF SessionsTypeOK
    <2> QED
      BY <2>1, <2>2 DEF Knows, InPlace, WithToken
  <1>5. \A k \in tokens : k # t /\ owner'[k] = owner[k] /\ parent'[k] = parent[k]
    BY <1>1, <1>3 DEF SessionsTypeOK
  <1>6. owner'[t] = job[r].name /\ parent'[t] = job[r].token
    BY <1>1, <1>3 DEF SessionsTypeOK
  <1>7. tokens \subseteq tokens' /\ revoked \subseteq revoked'
    BY <1>1, <1>2
  <1>8. job' \in [Request -> Job] /\ faults' \in 0 .. MaxFaults /\ Sound' /\ RevokedRefused'
    BY <1>2, <1>5, <1>7, CommitSound
  <1>9. SessionsTypeOK'
    <2>1. /\ users' \subseteq Name /\ tokens' \subseteq Token
          /\ revoked' \subseteq tokens' /\ expired' \subseteq tokens'
          /\ ended' \subseteq revoked'
      BY <1>1, <1>2, <1>3, <1>4 DEF SessionsTypeOK
    <2>2. owner' \in [Token -> users' \cup {None}]
      BY <1>1, <1>2, <1>3 DEF SessionsTypeOK
    <2>3. \A k \in tokens' : owner'[k] \in users'
      BY <1>1, <1>2, <1>3, <1>5, <1>6 DEF SessionsTypeOK
    <2>4. parent' \in [Token -> tokens' \cup {None}]
      BY <1>1, <1>3, <1>4 DEF SessionsTypeOK
    <2> QED
      BY <1>8, <2>1, <2>2, <2>3, <2>4 DEF SessionsTypeOK
  <1>10. RotationAtomic'
    <2> SUFFICES ASSUME NEW k \in revoked'
                 PROVE  k \in ended' \/ \E s \in tokens' : parent'[s] = k
      BY DEF RotationAtomic
    <2>1. CASE k \in revoked
      <3>1. k \in ended \/ \E s \in tokens : parent[s] = k
        BY <2>1 DEF SessionsInv, RotationAtomic
      <3> QED
        BY <1>2, <1>5, <1>7, <3>1
    <2>2. CASE k \notin revoked
      <3>1. k = job[r].token
        BY <1>2, <2>2
      <3> QED
        BY <1>1, <1>6, <3>1
    <2> QED
      BY <2>1, <2>2
  <1>11. SuccessorsReplace'
    <2> SUFFICES ASSUME NEW k \in tokens', parent'[k] # None PROVE parent'[k] \in revoked'
      BY DEF SuccessorsReplace
    <2>1. CASE k \in tokens
      BY <1>5, <1>7, <2>1 DEF SessionsInv, SuccessorsReplace
    <2>2. CASE k = t
      BY <1>2, <1>4, <1>6, <2>2
    <2> QED
      BY <1>1, <2>1, <2>2
  <1> QED
    BY <1>8, <1>9, <1>10, <1>11 DEF SessionsInv, TypeInv

LEMMA LogoutKeeps == \A r \in Request : SessionsInv /\ LogoutCommit(r) => SessionsInv'
  <1> SUFFICES ASSUME NEW r \in Request, SessionsInv, LogoutCommit(r) PROVE SessionsInv'
    OBVIOUS
  <1>1. /\ revoked' = revoked \cup {job[r].token} /\ ended' = ended \cup {job[r].token}
        /\ Answered(r) /\ UNCHANGED <<users, tokens, owner, expired, parent>>
    BY DEF LogoutCommit
  <1>2. job[r].token \in tokens
    BY DEF LogoutCommit, At, SessionsInv, Sound, Knows, WithToken
  <1>3. job' \in [Request -> Job] /\ faults' \in 0 .. MaxFaults /\ Sound' /\ RevokedRefused'
    BY <1>1, CommitSound
  <1>4. TypeInv'
    BY <1>1, <1>2, <1>3 DEF SessionsInv, TypeInv, SessionsTypeOK
  <1>5. RotationAtomic' /\ SuccessorsReplace'
    BY <1>1 DEF SessionsInv, RotationAtomic, SuccessorsReplace
  <1> QED
    BY <1>3, <1>4, <1>5 DEF SessionsInv

-----------------------------------------------------------------------------
(* The invariant.                                                          *)

LEMMA SessionsInvInit == SessionsInit => SessionsInv
  <1> SUFFICES ASSUME SessionsInit PROVE SessionsInv
    OBVIOUS
  <1>1. Idle \in Job /\ Idle.op = "none" /\ Idle.token = None /\ Idle.pc = "idle" /\ ~Idle.late
    BY DEF Idle, Job
  <1>2. job \in [Request -> Job] /\ \A r \in Request : job[r] = Idle
    BY <1>1 DEF SessionsInit
  <1>3. TypeInv
    BY <1>2 DEF SessionsInit, TypeInv, SessionsTypeOK
  <1>4. Sound
    BY <1>1, <1>2 DEF Sound, Knows, InPlace, LateIsRevoked, WithToken
  <1>5. RotationAtomic /\ SuccessorsReplace /\ RevokedRefused
    BY <1>1, <1>2 DEF SessionsInit, RotationAtomic, SuccessorsReplace, RevokedRefused
  <1> QED
    BY <1>3, <1>4, <1>5 DEF SessionsInv

\* Nothing but the count of faults has changed.
LEMMA FaultKeeps ==
  SessionsInv /\ UNCHANGED <<users, tokenVars, job>> /\ faults' \in 0 .. MaxFaults => SessionsInv'
  <1> SUFFICES ASSUME SessionsInv, UNCHANGED <<users, tokenVars, job>>,
                      faults' \in 0 .. MaxFaults
               PROVE  SessionsInv'
    OBVIOUS
  <1>1. TypeInv'
    BY DEF SessionsInv, TypeInv, SessionsTypeOK
  <1>2. Sound'
    BY DEF SessionsInv, Sound, Knows, InPlace, LateIsRevoked
  <1> QED
    BY <1>1, <1>2 DEF SessionsInv, RotationAtomic, SuccessorsReplace, RevokedRefused

LEMMA SessionsInvStep == SessionsInv /\ [SessionsNext]_sessionVars => SessionsInv'
  <1> SUFFICES ASSUME SessionsInv, [SessionsNext]_sessionVars PROVE SessionsInv'
    OBVIOUS
  <1>1. ASSUME NEW r \in Request, Begins(r) PROVE SessionsInv'
    BY <1>1, BeginKeeps
  <1>2. ASSUME NEW r \in Request, Serves(r) PROVE SessionsInv'
    BY <1>2, SelectKeeps, TokenSelectKeeps, TokenRevokeKeeps, IssueKeeps, LogoutKeeps
    DEF Serves
  <1>3. ASSUME NEW r \in Request, Abort(r) PROVE SessionsInv'
    BY <1>3, AbortKeeps
  <1>4. ASSUME NEW t \in Token, Expire(t) PROVE SessionsInv'
    BY <1>4, ExpireKeeps
  <1>5. CASE UNCHANGED sessionVars
    <2>1. faults' \in 0 .. MaxFaults
      BY <1>5 DEF SessionsInv, TypeInv, SessionsTypeOK
    <2> QED
      BY <1>5, <2>1, FaultKeeps
  <1> QED
    BY <1>1, <1>2, <1>3, <1>4, <1>5 DEF SessionsNext

\* The invariant that ties requests, tokens and users together is inductive.
THEOREM SessionsInvariance == Spec => []SessionsInv
  BY SessionsInvInit, SessionsInvStep, PTL DEF Spec
=============================================================================
