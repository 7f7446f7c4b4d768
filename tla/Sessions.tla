-------------------------------- MODULE Sessions --------------------------------
(***************************************************************************)
(* Registration, login, and the rotation of refresh tokens: every request  *)
(* runs in a transaction of its own, at READ COMMITTED, and its statements *)
(* interleave with those of the others.  An UPDATE takes the lock of its   *)
(* row, an INSERT of a key waits for another transaction that has inserted *)
(* the same key; both are held to the end of the transaction.              *)
(*                                                                         *)
(* A name stands for the e-mail address and the username of a user: each   *)
(* is unique, and either one decides.                                      *)
(***************************************************************************)
EXTENDS Integers, FiniteSets

CONSTANTS
    Request,   \* handlers; each serves one request after the other
    Name,
    Token,     \* refresh tokens, by jti
    None,      \* no token
    MaxFaults  \* bound: requests that fail half way, answers that are lost

ASSUME ConstantAssumption == None \notin Token /\ MaxFaults \in Nat

VARIABLES
    users,    \* committed users
    tokens,   \* committed refresh tokens: a set of Token
    owner,    \* owner[t]: user_id
    revoked,  \* committed tokens with revoked_at
    expired,  \* tokens whose expires_at has passed
    job,      \* job[r]: the request that r serves, and where it is
    parent,   \* history: parent[t], the token that t was issued for
    ended,    \* history: tokens that a logout has revoked
    faults

tokenVars == <<tokens, owner, revoked, expired, parent, ended>>
sessionVars == <<users, tokenVars, job, faults>>

-----------------------------------------------------------------------------
\* late: the token was revoked when the request came in.
Idle == [op |-> "none", pc |-> "idle", name |-> None, token |-> None, late |-> FALSE]

SessionsInit ==
    /\ users \in SUBSET Name
    /\ tokens = {} /\ revoked = {} /\ expired = {} /\ ended = {}
    /\ owner = [t \in Token |-> None]
    /\ parent = [t \in Token |-> None]
    /\ job = [r \in Request |-> Idle]
    /\ faults = 0

Fault == faults < MaxFaults /\ faults' = faults + 1
At(r, op, label) == job[r].op = op /\ job[r].pc = label
Goto(r, label) == job' = [job EXCEPT ![r].pc = label]
\* The answer ends the request and its transaction.
Answer(r) == job' = [job EXCEPT ![r] = Idle]

\* Statements that wait: another transaction holds the row, or the key.
RowLocked(r) ==
    \E s \in Request \ {r} :
        job[s].token = job[r].token /\ job[s].pc \in {"issue", "commit"}
NameLocked(r) ==
    \E s \in Request \ {r} : At(s, "register", "issue") /\ job[s].name = job[r].name

\* get_active sees committed rows.
Active(t) == t \in tokens \ (revoked \cup expired)

-----------------------------------------------------------------------------
\* A request for an account, or one with a refresh token that was once issued;
\* bound: there is a token left for every request that may issue one.
TokenLeft ==
    Cardinality({r \in Request : job[r].op \in {"register", "login", "refresh"}})
        < Cardinality(Token \ tokens)
BeginWithName(r, op, n) ==
    /\ job[r] = Idle
    /\ op \in {"register", "login"} /\ TokenLeft
    /\ job' = [job EXCEPT ![r] = [Idle EXCEPT !.op = op, !.pc = "select", !.name = n]]
    /\ UNCHANGED <<users, tokenVars, faults>>
BeginWithToken(r, op, t) ==
    /\ job[r] = Idle
    /\ op \in {"refresh", "logout"} /\ (op = "refresh" => TokenLeft)
    /\ t \in tokens
    /\ job' = [job EXCEPT ![r] = [op |-> op, pc |-> "select", name |-> owner[t],
                                  token |-> t, late |-> t \in revoked]]
    /\ UNCHANGED <<users, tokenVars, faults>>

\* register: email_or_username_exists.
RegisterSelect(r) ==
    /\ At(r, "register", "select")
    /\ IF job[r].name \in users THEN Answer(r) ELSE Goto(r, "insert")
    /\ UNCHANGED <<users, tokenVars, faults>>

\* register: the flush of the new user; IntegrityError answers 409.
RegisterInsert(r) ==
    /\ At(r, "register", "insert")
    /\ ~NameLocked(r)
    /\ IF job[r].name \in users THEN Answer(r) ELSE Goto(r, "issue")
    /\ UNCHANGED <<users, tokenVars, faults>>

\* login: the user, and the password.
LoginSelect(r) ==
    /\ At(r, "login", "select")
    /\ \/ Answer(r)
       \/ job[r].name \in users /\ Goto(r, "issue")
    /\ UNCHANGED <<users, tokenVars, faults>>

\* Mutant: revoked_at is not looked at.
TokenSelectAny(r) ==
    /\ job[r].op \in {"refresh", "logout"} /\ job[r].pc = "select"
    /\ IF job[r].token \in tokens \ expired THEN Goto(r, "revoke") ELSE Answer(r)
    /\ UNCHANGED <<users, tokenVars, faults>>
\* refresh and logout: get_active; refused, or nothing to do, without it.
TokenSelect(r) ==
    /\ job[r].op \in {"refresh", "logout"} /\ job[r].pc = "select"
    /\ IF Active(job[r].token) THEN Goto(r, "revoke") ELSE Answer(r)
    /\ UNCHANGED <<users, tokenVars, faults>>

\* Mutant: the revocation is committed by itself.
TokenRevokeCommits(r) ==
    /\ job[r].op \in {"refresh", "logout"} /\ job[r].pc = "revoke"
    /\ ~RowLocked(r)
    /\ revoked' = revoked \cup {job[r].token}
    /\ Goto(r, IF job[r].op = "refresh" THEN "issue" ELSE "commit")
    /\ UNCHANGED <<users, tokens, owner, expired, parent, ended, faults>>
\* TokenRepository.revoke: the UPDATE, which looks at the key of the row alone.
TokenRevoke(r) ==
    /\ job[r].op \in {"refresh", "logout"} /\ job[r].pc = "revoke"
    /\ ~RowLocked(r)
    /\ Goto(r, IF job[r].op = "refresh" THEN "issue" ELSE "commit")
    /\ UNCHANGED <<users, tokenVars, faults>>

\* The answer to a COMMIT reaches the client, or is lost on its way.
Answered(r) == Answer(r) /\ (UNCHANGED faults \/ Fault)

\* Mutant: the flush of the new user was not part of the transaction.
IssueForgetsUser(r) ==
    /\ job[r].pc = "issue"
    /\ \E t \in Token \ tokens :
        /\ tokens' = tokens \cup {t}
        /\ owner' = [owner EXCEPT ![t] = job[r].name]
        /\ parent' = [parent EXCEPT ![t] = job[r].token]
    /\ revoked' = IF job[r].op = "refresh" THEN revoked \cup {job[r].token} ELSE revoked
    /\ Answered(r)
    /\ UNCHANGED <<users, expired, ended>>
\* Mutant: the old row stays as it was.
IssueUnrevoked(r) ==
    /\ job[r].pc = "issue"
    /\ \E t \in Token \ tokens :
        /\ tokens' = tokens \cup {t}
        /\ owner' = [owner EXCEPT ![t] = job[r].name]
        /\ parent' = [parent EXCEPT ![t] = job[r].token]
    /\ users' = users \cup {job[r].name}
    /\ Answered(r)
    /\ UNCHANGED <<revoked, expired, ended>>
\* register, login and refresh: _issue_token_pair, and the COMMIT of it all.
Issue(r) ==
    /\ job[r].pc = "issue"
    /\ \E t \in Token \ tokens :
        /\ tokens' = tokens \cup {t}
        /\ owner' = [owner EXCEPT ![t] = job[r].name]
        /\ parent' = [parent EXCEPT ![t] = job[r].token]
    /\ users' = users \cup {job[r].name}
    /\ revoked' = IF job[r].op = "refresh" THEN revoked \cup {job[r].token} ELSE revoked
    /\ Answered(r)
    /\ UNCHANGED <<expired, ended>>

\* logout: the COMMIT.
LogoutCommit(r) ==
    /\ At(r, "logout", "commit")
    /\ revoked' = revoked \cup {job[r].token}
    /\ ended' = ended \cup {job[r].token}
    /\ Answered(r)
    /\ UNCHANGED <<users, tokens, owner, expired, parent>>

\* A request fails half way: its session is closed, its transaction rolled back.
Abort(r) ==
    /\ job[r] # Idle /\ Fault
    /\ Answer(r)
    /\ UNCHANGED <<users, tokenVars>>

\* expires_at passes.
Expire(t) ==
    /\ t \in tokens \ expired
    /\ expired' = expired \cup {t}
    /\ UNCHANGED <<users, tokens, owner, revoked, parent, ended, job, faults>>

-----------------------------------------------------------------------------
Begins(r) ==
    \/ \E op \in {"register", "login"}, n \in Name : BeginWithName(r, op, n)
    \/ \E op \in {"refresh", "logout"}, t \in Token : BeginWithToken(r, op, t)
Serves(r) ==
    \/ RegisterSelect(r) \/ RegisterInsert(r) \/ LoginSelect(r)
    \/ TokenSelect(r) \/ TokenRevoke(r) \/ Issue(r) \/ LogoutCommit(r)

SessionsNext ==
    \/ \E r \in Request : Begins(r) \/ Serves(r) \/ Abort(r)
    \/ \E t \in Token : Expire(t)

Spec == SessionsInit /\ [][SessionsNext]_sessionVars

-----------------------------------------------------------------------------
Job == [op : {"none", "register", "login", "refresh", "logout"},
        pc : {"idle", "select", "insert", "revoke", "issue", "commit"},
        name : Name \cup {None}, token : Token \cup {None}, late : BOOLEAN]

SessionsTypeOK ==
    /\ users \subseteq Name
    /\ tokens \subseteq Token /\ revoked \subseteq tokens /\ expired \subseteq tokens
    /\ owner \in [Token -> users \cup {None}]
    /\ \A t \in tokens : owner[t] \in users
    /\ parent \in [Token -> tokens \cup {None}]
    /\ ended \subseteq revoked
    /\ faults \in 0 .. MaxFaults

\* A token goes only when a logout has ended it or a committed successor has
\* taken its place: no failure half way through a refresh leaves a user without
\* a session (refresh revokes and issues in one transaction).
RotationAtomic ==
    \A t \in revoked : t \in ended \/ \E s \in tokens : parent[s] = t

\* A token that was issued for another one has replaced it: the two are never
\* both good.
SuccessorsReplace == \A t \in tokens : parent[t] # None => parent[t] \in revoked

\* A refresh that finds its token active did not begin after the token was
\* revoked: once a refresh or a logout has committed, the token is refused
\* (get_active).
RevokedRefused ==
    \A r \in Request : job[r].pc \in {"revoke", "issue", "commit"} => ~job[r].late

\* Refreshing prevents replay (README.md:255): a token is exchanged once.
SingleSuccessor ==
    \A s, t \in tokens : (s # t /\ parent[s] = parent[t]) => parent[s] = None
=============================================================================
