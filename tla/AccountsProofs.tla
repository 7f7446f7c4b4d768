---------------------------- MODULE AccountsProofs ----------------------------
(***************************************************************************)
(* Proofs about Accounts, for any number of requests, names, tokens and    *)
(* conversations: what Sessions' invariant says holds next to the requests *)
(* for conversations, and these implement DirectConversations.             *)
(*                                                                         *)
(* The refinement rests on the exclusion of INSERTs: at most one request   *)
(* is between the INSERT of a key and its end, and as long as one is there *)
(* is no row with this key.                                                *)
(***************************************************************************)
EXTENDS Accounts, SessionsProofs, FiniteSetTheorems

USE ConstantAssumption, NothingAssumption
USE DEF tokenVars, sessionVars, conversationVars

\* Ids and keys are unique.
KeysUnique ==
    \A c, d \in conversations : (c.id = d.id \/ c.pair = d.pair) => c = d

\* What request r stands before.
Asking(r) ==
    LET a == ask[r] IN
    /\ a.pc = "idle" => a.pair = None
    /\ a.pc # "idle" => a.pair \in Pair
    /\ a.pc \notin {"idle", "user"} => a.pair \subseteq users
    /\ a.pc = "commit" =>
          a.id \in Conversation /\ \A c \in conversations : c.id # a.id /\ c.pair # a.pair
    /\ a.pc = "created" => [id |-> a.id, pair |-> a.pair] \in conversations
    /\ a.pc = "again" => Existing(a.pair) # {}

\* Requests between INSERT and COMMIT differ in key and id.
Exclusive ==
    \A r, s \in Request :
        (r # s /\ ask[r].pc = "commit" /\ ask[s].pc = "commit") =>
            ask[r].pair # ask[s].pair /\ ask[r].id # ask[s].id

AskTyped ==
    /\ conversations \subseteq [id : Conversation, pair : Pair]
    /\ \A c \in conversations : c.pair \subseteq users
    /\ ask \in [Request -> Ask]
    /\ answer \in [Request -> Conversation \cup {None}]

AsksInv ==
    /\ AskTyped /\ KeysUnique /\ Exclusive
    /\ \A r \in Request : Asking(r)

IInv == SessionsInv /\ AsksInv

-----------------------------------------------------------------------------
(* Steps of one request.                                                   *)

\* Two names make a key.
LEMMA TwoMakeAPair ==
  ASSUME NEW u \in Name, NEW v \in Name \ {u}
  PROVE  {u, v} \in Pair
  <1>1. IsFiniteSet({u}) /\ Cardinality({u}) = 1
    BY FS_Singleton
  <1>2. Cardinality({u} \cup {v}) = 1 + 1
    BY <1>1, FS_AddElement
  <1>3. {u} \cup {v} = {u, v}
    OBVIOUS
  <1> QED
    BY <1>2, <1>3 DEF Pair

\* The users of a conversation stay.
LEMMA UsersStay == [SessionsNext]_sessionVars => users \subseteq users'
  <1> SUFFICES ASSUME [SessionsNext]_sessionVars PROVE users \subseteq users'
    OBVIOUS
  <1>1. ASSUME NEW r \in Request, Begins(r) PROVE users \subseteq users'
    BY <1>1 DEF Begins, BeginWithName, BeginWithToken
  <1>2. ASSUME NEW r \in Request, Serves(r) PROVE users \subseteq users'
    <2>1. CASE Issue(r)
      BY <2>1 DEF Issue
    <2>2. CASE ~Issue(r)
      BY <1>2, <2>2 DEF Serves, RegisterSelect, RegisterInsert, LoginSelect,
                        TokenSelect, TokenRevoke, LogoutCommit
    <2> QED
      BY <2>1, <2>2
  <1>3. ASSUME NEW r \in Request, Abort(r) PROVE users \subseteq users'
    BY <1>3 DEF Abort
  <1>4. ASSUME NEW t \in Token, Expire(t) PROVE users \subseteq users'
    BY <1>4 DEF Expire
  <1> QED
    BY <1>1, <1>2, <1>3, <1>4 DEF SessionsNext

\* Request r becomes a, which is not about to commit; no row is added.
LEMMA AskStep ==
  ASSUME AsksInv, users \subseteq users', conversations' = conversations,
         NEW r \in Request, NEW a \in Ask, ask' = [ask EXCEPT ![r] = a],
         answer' \in [Request -> Conversation \cup {None}],
         a.pc # "commit",
         a.pc = "idle" => a.pair = None,
         a.pc # "idle" => a.pair \in Pair,
         a.pc \notin {"idle", "user"} => a.pair \subseteq users,
         a.pc = "created" => [id |-> a.id, pair |-> a.pair] \in conversations,
         a.pc = "again" => Existing(a.pair) # {}
  PROVE  AsksInv'
  <1>1. ask' \in [Request -> Ask] /\ ask'[r] = a
    BY DEF AsksInv, AskTyped
  <1>2. \A s \in Request \ {r} : ask'[s] = ask[s]
    BY DEF AsksInv, AskTyped
  <1>3. AskTyped' /\ KeysUnique'
    BY <1>1 DEF AsksInv, AskTyped, KeysUnique
  <1>4. Exclusive'
    BY <1>1, <1>2 DEF AsksInv, Exclusive
  <1>5. \A p : Existing(p)' = Existing(p)
    BY DEF Existing
  <1>6. Asking(r)'
    BY <1>1, <1>5 DEF Asking
  <1>7. ASSUME NEW s \in Request \ {r} PROVE Asking(s)'
    BY <1>2, <1>5, <1>7 DEF AsksInv, Asking
  <1> QED
    BY <1>3, <1>4, <1>6, <1>7 DEF AsksInv

\* A request that ends, or moves on.
LEMMA EndsKeep ==
  ASSUME AsksInv, users \subseteq users', conversations' = conversations,
         NEW r \in Request, ask' = [ask EXCEPT ![r] = NoAsk],
         answer' \in [Request -> Conversation \cup {None}]
  PROVE  AsksInv'
  <1>1. NoAsk \in Ask /\ NoAsk.pc = "idle" /\ NoAsk.pair = None
    BY DEF NoAsk, Ask
  <1> QED
    BY <1>1, AskStep

LEMMA MoveKeeps ==
  ASSUME AsksInv, users' = users, conversations' = conversations,
         NEW r \in Request, NEW label \in {"find", "insert", "again"}, Move(r, label),
         ask[r].pc # "idle", ask[r].pair \subseteq users,
         label = "again" => Existing(ask[r].pair) # {}
  PROVE  AsksInv'
  <1> DEFINE a == [ask[r] EXCEPT !.pc = label]
  <1>1. ask[r] \in Ask /\ Asking(r)
    BY DEF AsksInv, AskTyped
  <1>2. a \in Ask /\ a.pc = label /\ a.pair = ask[r].pair
    BY <1>1 DEF Ask
  <1>3. ask' = [ask EXCEPT ![r] = a] /\ answer' = answer
    BY <1>1 DEF Move
  <1>4. answer \in [Request -> Conversation \cup {None}] /\ a.pair \in Pair
    BY <1>1, <1>2 DEF AsksInv, AskTyped, Asking
  <1> HIDE DEF a
  <1> QED
    BY <1>2, <1>3, <1>4, AskStep

-----------------------------------------------------------------------------
(* The actions.                                                            *)

LEMMA BeginCreateKeeps ==
  ASSUME IInv, NEW r \in Request, NEW u \in Name, NEW v \in Name, BeginCreate(r, u, v)
  PROVE  AsksInv'
  <1> DEFINE a == [NoAsk EXCEPT !.pc = "user", !.pair = {u, v}]
  <1>1. v \in Name \ {u} /\ UNCHANGED <<sessionVars, conversations>>
    BY DEF BeginCreate
  <1>2. {u, v} \in Pair
    BY <1>1, TwoMakeAPair
  <1>3. a \in Ask /\ a.pc = "user" /\ a.pair = {u, v}
    BY <1>2 DEF NoAsk, Ask
  <1>4. ask' = [ask EXCEPT ![r] = a] /\ answer' = [answer EXCEPT ![r] = None]
    BY DEF BeginCreate
  <1>5. answer' \in [Request -> Conversation \cup {None}]
    BY <1>4 DEF IInv, AsksInv, AskTyped
  <1> HIDE DEF a
  <1> QED
    BY <1>1, <1>2, <1>3, <1>4, <1>5, AskStep DEF IInv

\* A request that ends without a conversation.
LEMMA FailKeeps ==
  ASSUME AsksInv, NEW r \in Request, Fail(r), users' = users, conversations' = conversations
  PROVE  AsksInv'
  BY EndsKeep DEF Fail, AsksInv, AskTyped

\* A request that is answered with a row.
LEMMA ReplyKeeps ==
  ASSUME AsksInv, NEW r \in Request, NEW c \in conversations, Reply(r, c.id),
         users' = users, conversations' = conversations
  PROVE  AsksInv'
  <1>1. c.id \in Conversation
    BY DEF AsksInv, AskTyped
  <1>2. answer' \in [Request -> Conversation \cup {None}]
    BY <1>1 DEF Reply, AsksInv, AskTyped
  <1> QED
    BY <1>2, EndsKeep DEF Reply

LEMMA FindKeeps ==
  ASSUME IInv, NEW r \in Request,
         FindUser(r) \/ FindDirect(r) \/ FindCreated(r) \/ FindAgain(r)
  PROVE  AsksInv'
  <1>1. UNCHANGED <<users, conversations>>
    BY DEF FindUser, FindDirect, FindCreated, FindAgain
  <1>2. AsksInv /\ Asking(r)
    BY DEF IInv, AsksInv
  <1>3. CASE FindUser(r)
    <2>1. ask[r].pc = "user"
      BY <1>3 DEF FindUser
    <2>2. CASE ask[r].pair \subseteq users
      BY <1>1, <1>2, <1>3, <2>1, <2>2, MoveKeeps DEF FindUser
    <2>3. CASE ~(ask[r].pair \subseteq users)
      BY <1>1, <1>2, <1>3, <2>3, FailKeeps DEF FindUser
    <2> QED
      BY <2>2, <2>3
  <1>4. CASE FindDirect(r)
    <2>1. ask[r].pc = "find" /\ ask[r].pair \subseteq users
      BY <1>2, <1>4 DEF FindDirect, Asking
    <2>2. CASE Existing(ask[r].pair) = {}
      BY <1>1, <1>2, <1>4, <2>1, <2>2, MoveKeeps DEF FindDirect
    <2>3. CASE Existing(ask[r].pair) # {}
      <3>1. PICK c \in conversations : Reply(r, c.id)
        BY <1>4, <2>3 DEF FindDirect, Existing
      <3> QED
        BY <1>1, <1>2, <3>1, ReplyKeeps
    <2> QED
      BY <2>2, <2>3
  <1>5. CASE FindCreated(r) \/ FindAgain(r)
    <2>1. PICK c \in conversations : Reply(r, c.id)
      BY <1>5 DEF FindCreated, FindAgain, Existing
    <2> QED
      BY <1>1, <1>2, <2>1, ReplyKeeps
  <1> QED
    BY <1>3, <1>4, <1>5

\* The INSERT: no row has the key, and no other request is about to commit it.
LEMMA InsertKeeps ==
  ASSUME IInv, NEW r \in Request, Insert(r)
  PROVE  AsksInv'
  <1>1. /\ ask[r].pc = "insert" /\ ~KeyLocked(r)
        /\ UNCHANGED <<users, conversations>>
    BY DEF Insert
  <1>2. AsksInv /\ Asking(r) /\ ask[r] \in Ask
    BY DEF IInv, AsksInv, AskTyped
  <1>3. ask[r].pair \in Pair /\ ask[r].pair \subseteq users
    BY <1>1, <1>2 DEF Asking
  <1>4. CASE Existing(ask[r].pair) # {}
    BY <1>1, <1>2, <1>3, <1>4, MoveKeeps DEF Insert
  <1>5. CASE Existing(ask[r].pair) = {}
    <2>1. PICK id \in Conversation :
              /\ Unused(id)
              /\ ask' = [ask EXCEPT ![r].pc = "commit", ![r].id = id]
              /\ answer' = answer
      BY <1>5 DEF Insert
    <2>2. /\ ask'[r].pc = "commit" /\ ask'[r].id = id
          /\ ask'[r].pair = ask[r].pair /\ ask'[r] \in Ask
      BY <1>2, <2>1 DEF AsksInv, AskTyped, Ask
    <2>3. \A s \in Request \ {r} : ask'[s] = ask[s]
      BY <1>2, <2>1 DEF AsksInv, AskTyped
    <2>4. AskTyped' /\ KeysUnique'
      <3>1. ask' \in [Request -> Ask]
        <4>1. \A s \in Request : ask'[s] \in Ask
          BY <1>2, <2>2, <2>3 DEF AsksInv, AskTyped
        <4>2. ask' = [s \in Request |-> ask'[s]]
          BY <1>2, <2>1 DEF AsksInv, AskTyped
        <4> QED
          BY <4>1, <4>2
      <3> QED
        BY <1>1, <1>2, <2>1, <3>1 DEF AsksInv, AskTyped, KeysUnique
    <2>5. Exclusive'
      <3>1. \A s \in Request \ {r} :
                ask[s].pc = "commit" => ask[s].pair # ask[r].pair /\ ask[s].id # id
        BY <1>1, <2>1 DEF KeyLocked, Unused
      <3> QED
        BY <1>2, <2>2, <2>3, <3>1 DEF AsksInv, Exclusive
    <2>6. Asking(r)'
      <3>1. \A c \in conversations : c.id # id /\ c.pair # ask[r].pair
        BY <1>5, <2>1 DEF Existing, Unused
      <3> QED
        BY <1>1, <1>3, <2>2, <3>1 DEF Asking
    <2>7. ASSUME NEW s \in Request \ {r} PROVE Asking(s)'
      BY <1>1, <1>2, <2>3 DEF AsksInv, Asking, Existing
    <2> QED
      BY <2>4, <2>5, <2>6, <2>7 DEF AsksInv
  <1> QED
    BY <1>4, <1>5

\* The COMMIT adds the row; keys and ids of the others are different ones.
LEMMA CommitDirectKeeps ==
  ASSUME IInv, NEW r \in Request, CommitDirect(r)
  PROVE  AsksInv'
  <1> DEFINE row == [id |-> ask[r].id, pair |-> ask[r].pair]
  <1>1. /\ ask[r].pc = "commit" /\ conversations' = conversations \cup {row}
        /\ ask' = [ask EXCEPT ![r].pc = "created"] /\ UNCHANGED <<users, answer>>
    BY DEF CommitDirect, Move
  <1>2. AsksInv /\ Asking(r) /\ ask[r] \in Ask
    BY DEF IInv, AsksInv, AskTyped
  <1>3. /\ ask[r].id \in Conversation /\ ask[r].pair \in Pair /\ ask[r].pair \subseteq users
        /\ \A c \in conversations : c.id # ask[r].id /\ c.pair # ask[r].pair
    BY <1>1, <1>2 DEF Asking
  <1>4. /\ ask'[r].pc = "created" /\ ask'[r].id = ask[r].id
        /\ ask'[r].pair = ask[r].pair /\ ask'[r] \in Ask
    BY <1>1, <1>2 DEF AsksInv, AskTyped, Ask
  <1>5. \A s \in Request \ {r} : ask'[s] = ask[s]
    BY <1>1, <1>2 DEF AsksInv, AskTyped
  <1>6. AskTyped'
    <2>1. ask' \in [Request -> Ask]
      <3>1. \A s \in Request : ask'[s] \in Ask
        BY <1>2, <1>4, <1>5 DEF AsksInv, AskTyped
      <3>2. ask' = [s \in Request |-> ask'[s]]
        BY <1>1, <1>2 DEF AsksInv, AskTyped
      <3> QED
        BY <3>1, <3>2
    <2> QED
      BY <1>1, <1>2, <1>3, <2>1 DEF AsksInv, AskTyped
  <1>7. KeysUnique'
    BY <1>1, <1>2, <1>3 DEF AsksInv, KeysUnique
  <1>8. Exclusive'
    BY <1>2, <1>4, <1>5 DEF AsksInv, Exclusive
  <1>9. Asking(r)'
    BY <1>1, <1>3, <1>4 DEF Asking
  <1>10. ASSUME NEW s \in Request \ {r} PROVE Asking(s)'
    <2>1. ask[s].pc = "commit" => ask[s].id # ask[r].id /\ ask[s].pair # ask[r].pair
      BY <1>1, <1>2 DEF AsksInv, Exclusive
    <2>2. \A p : Existing(p) \subseteq Existing(p)'
      BY <1>1 DEF Existing
    <2>3. ask'[s] = ask[s] /\ Asking(s)
      BY <1>2, <1>5 DEF AsksInv
    <2> QED
      BY <1>1, <2>1, <2>2, <2>3 DEF Asking
  <1> QED
    BY <1>6, <1>7, <1>8, <1>9, <1>10 DEF AsksInv

-----------------------------------------------------------------------------
(* The invariant.                                                          *)

LEMMA InvariantInit == Init => IInv
  <1> SUFFICES ASSUME Init PROVE IInv
    OBVIOUS
  <1>1. SessionsInv
    BY SessionsInvInit DEF Init
  <1>2. NoAsk \in Ask /\ NoAsk.pc = "idle" /\ NoAsk.pair = None
    BY DEF NoAsk, Ask
  <1>3. ask \in [Request -> Ask] /\ \A r \in Request : ask[r] = NoAsk
    BY <1>2 DEF Init
  <1>4. AskTyped /\ KeysUnique /\ Exclusive
    BY <1>2, <1>3 DEF Init, AskTyped, KeysUnique, Exclusive
  <1>5. \A r \in Request : Asking(r)
    BY <1>2, <1>3 DEF Asking
  <1> QED
    BY <1>1, <1>4, <1>5 DEF IInv, AsksInv

\* Rows and requests for conversations as they were, with at least the users.
LEMMA NothingAsked ==
  ASSUME AsksInv, UNCHANGED conversationVars, users \subseteq users'
  PROVE  AsksInv'
  BY DEF AsksInv, AskTyped, KeysUnique, Exclusive, Asking, Existing

LEMMA CreateStepKeeps ==
  ASSUME IInv, NEW r \in Request, CreateStep(r)
  PROVE  IInv'
  <1>1. ASSUME NEW u \in Name, NEW v \in Name, BeginCreate(r, u, v) PROVE IInv'
    <2>1. UNCHANGED sessionVars
      BY <1>1 DEF BeginCreate
    <2> QED
      BY <1>1, <2>1, BeginCreateKeeps, SessionsInvStep DEF IInv
  <1>2. ASSUME Creates(r) PROVE IInv'
    <2>1. UNCHANGED sessionVars
      BY <1>2 DEF Creates, FindUser, FindDirect, Insert, CommitDirect, FindCreated, FindAgain
    <2>2. AsksInv'
      BY <1>2, FindKeeps, InsertKeeps, CommitDirectKeeps DEF Creates
    <2> QED
      BY <2>1, <2>2, SessionsInvStep DEF IInv
  <1>3. ASSUME AbortCreate(r) PROVE IInv'
    <2>1. faults' \in 0 .. MaxFaults
      BY <1>3 DEF AbortCreate, Fault, IInv, SessionsInv, TypeInv, SessionsTypeOK
    <2>2. UNCHANGED <<users, tokenVars, job>> /\ UNCHANGED conversations /\ Fail(r)
      BY <1>3 DEF AbortCreate
    <2> QED
      BY <2>1, <2>2, FaultKeeps, FailKeeps DEF IInv
  <1> QED
    BY <1>1, <1>2, <1>3 DEF CreateStep

LEMMA InvariantStep == IInv /\ [Next]_vars => IInv'
  <1> SUFFICES ASSUME IInv, [Next]_vars PROVE IInv'
    OBVIOUS
  <1>1. CASE \E r \in Request : CreateStep(r)
    BY <1>1, CreateStepKeeps
  <1>2. CASE [SessionsNext]_sessionVars /\ UNCHANGED conversationVars
    BY <1>2, UsersStay, NothingAsked, SessionsInvStep DEF IInv
  <1>3. \/ \E r \in Request : CreateStep(r)
        \/ [SessionsNext]_sessionVars /\ UNCHANGED conversationVars
    BY DEF Next, SessionStep, SessionsNext, vars
  <1> QED
    BY <1>1, <1>2, <1>3

\* Sessions, rows and requests fit together: the invariant is inductive.
THEOREM Invariance == AccountsSpec => []IInv
  BY InvariantInit, InvariantStep, PTL DEF AccountsSpec

-----------------------------------------------------------------------------
(* The properties.                                                         *)

\* Every variable keeps its type, and nobody has a conversation or a token who
\* has no account.
THEOREM TypeCorrect == AccountsSpec => []TypeOK
  <1>1. IInv => TypeOK
    BY DEF IInv, SessionsInv, TypeInv, AsksInv, AskTyped, TypeOK
  <1> QED
    BY <1>1, Invariance, PTL

\* A refresh revokes and issues in one transaction: no failure in between ends
\* a session.
THEOREM RotationIsAtomic == AccountsSpec => []RotationAtomic
  <1>1. IInv => RotationAtomic
    BY DEF IInv, SessionsInv
  <1> QED
    BY <1>1, Invariance, PTL

\* A token is not good any more when one that was issued for it is there.
THEOREM SuccessorReplaces == AccountsSpec => []SuccessorsReplace
  <1>1. IInv => SuccessorsReplace
    BY DEF IInv, SessionsInv
  <1> QED
    BY <1>1, Invariance, PTL

\* get_active refuses a token to every request that begins after its
\* revocation, although it takes no lock.
THEOREM RevokedStaysRefused == AccountsSpec => []RevokedRefused
  <1>1. IInv => RevokedRefused
    BY DEF IInv, SessionsInv
  <1> QED
    BY <1>1, Invariance, PTL

\* create_direct never reaches its raise: whoever loses the race for a key
\* finds the row of the winner.
THEOREM ConflictVisible == AccountsSpec => []ConflictIsVisible
  <1>1. IInv => ConflictIsVisible
    BY DEF IInv, AsksInv, Asking, ConflictIsVisible
  <1> QED
    BY <1>1, Invariance, PTL

-----------------------------------------------------------------------------
(* Accounts implements DirectConversations.                                *)

direct == [p \in Pair |-> DirectOf(p)]
asked == [r \in Request |-> ask[r].pair]

\* A row is the conversation of its pair.
LEMMA RowIsDirect ==
  ASSUME AsksInv, NEW c \in conversations
  PROVE  c.pair \in Pair /\ DirectOf(c.pair) = c.id /\ c.id # None
  <1>1. c \in Existing(c.pair)
    BY DEF Existing
  <1>2. \A d \in Existing(c.pair) : d = c
    BY DEF AsksInv, KeysUnique, Existing
  <1>3. (CHOOSE d \in Existing(c.pair) : TRUE) = c
    BY <1>1, <1>2
  <1>4. c.pair \in Pair /\ c.id \in Conversation
    BY DEF AsksInv, AskTyped
  <1> QED
    BY <1>1, <1>3, <1>4 DEF DirectOf

\* A request that ends without an answer.
LEMMA FailMaps ==
  ASSUME AsksInv, NEW r \in Request, Fail(r), conversations' = conversations
  PROVE  GetOrCreate!Next
  <1>1. direct' = direct
    BY DEF direct, DirectOf, Existing
  <1>2. asked' = [asked EXCEPT ![r] = None] /\ answer' = answer
    BY DEF Fail, NoAsk, AsksInv, AskTyped, asked
  <1>3. GetOrCreate!Fail(r)
    BY <1>1, <1>2 DEF GetOrCreate!Fail, direct, asked
  <1> QED
    BY <1>3 DEF GetOrCreate!Next

\* A request that is answered with the row of its pair.
LEMMA ReplyMaps ==
  ASSUME AsksInv, NEW r \in Request, NEW c \in conversations, c.pair = ask[r].pair,
         Reply(r, c.id), conversations' = conversations
  PROVE  GetOrCreate!Next
  <1>1. direct' = direct
    BY DEF direct, DirectOf, Existing
  <1>2. asked' = [asked EXCEPT ![r] = None] /\ answer' = [answer EXCEPT ![r] = c.id]
    BY DEF Reply, NoAsk, AsksInv, AskTyped, asked
  <1>3. asked[r] = c.pair /\ direct[c.pair] = c.id /\ c.id # None /\ asked[r] # None
    BY RowIsDirect DEF asked, direct
  <1>4. GetOrCreate!Reply(r)
    BY <1>1, <1>2, <1>3 DEF GetOrCreate!Reply, direct, asked
  <1> QED
    BY <1>4 DEF GetOrCreate!Next

\* A request that comes in.
LEMMA AskMaps ==
  ASSUME AsksInv, NEW r \in Request, NEW u \in Name, NEW v \in Name, BeginCreate(r, u, v)
  PROVE  GetOrCreate!Next
  <1>1. direct' = direct
    BY DEF BeginCreate, direct, DirectOf, Existing
  <1>2. {u, v} \in Pair
    BY TwoMakeAPair DEF BeginCreate
  <1>3. asked[r] = None
    BY DEF BeginCreate, NoAsk, asked
  <1>4. asked' = [asked EXCEPT ![r] = {u, v}] /\ answer' = [answer EXCEPT ![r] = None]
    BY DEF BeginCreate, NoAsk, AsksInv, AskTyped, asked
  <1>5. GetOrCreate!Ask(r)
    BY <1>1, <1>2, <1>3, <1>4 DEF GetOrCreate!Ask, direct, asked
  <1> QED
    BY <1>5 DEF GetOrCreate!Next

\* A row with a new id and a new key is the conversation of its pair, and no
\* other pair is touched.
LEMMA RowAppears ==
  ASSUME AsksInv, NEW id \in Conversation, NEW pair \in Pair,
         \A c \in conversations : c.id # id /\ c.pair # pair,
         conversations' = conversations \cup {[id |-> id, pair |-> pair]}
  PROVE  /\ direct' = [direct EXCEPT ![pair] = id]
         /\ direct[pair] = None
         /\ \A p \in Pair : direct[p] # id
  <1> DEFINE row == [id |-> id, pair |-> pair]
  <1>1. Existing(pair) = {} /\ Existing(pair)' = {row}
    BY DEF Existing
  <1>2. DirectOf(pair) = None /\ DirectOf(pair)' = id
    <2>1. (CHOOSE c \in {row} : TRUE) = row
      OBVIOUS
    <2> QED
      BY <1>1, <2>1 DEF DirectOf
  <1>3. ASSUME NEW p \in Pair, p # pair PROVE DirectOf(p)' = DirectOf(p)
    <2>1. Existing(p)' = Existing(p)
      BY <1>3 DEF Existing
    <2> QED
      BY <2>1 DEF DirectOf
  <1>4. ASSUME NEW p \in Pair PROVE DirectOf(p) # id
    <2>1. CASE Existing(p) = {}
      BY <2>1 DEF DirectOf
    <2>2. CASE Existing(p) # {}
      <3>1. PICK c \in conversations : c.pair = p
        BY <2>2 DEF Existing
      <3> QED
        BY <3>1, RowIsDirect
    <2> QED
      BY <2>1, <2>2
  <1>5. direct' = [direct EXCEPT ![pair] = id]
    <2>1. direct' = [p \in Pair |-> DirectOf(p)']
      BY DEF direct
    <2>2. \A p \in Pair : DirectOf(p)' = IF p = pair THEN id ELSE direct[p]
      BY <1>2, <1>3 DEF direct
    <2> QED
      BY <2>1, <2>2 DEF direct
  <1> QED
    BY <1>2, <1>4, <1>5 DEF direct

\* The COMMIT of a new row creates the conversation of its pair and no other.
LEMMA CommitMaps ==
  ASSUME AsksInv, NEW r \in Request, CommitDirect(r)
  PROVE  GetOrCreate!Next
  <1>1. /\ ask[r].id \in Conversation /\ ask[r].pair \in Pair
        /\ \A c \in conversations : c.id # ask[r].id /\ c.pair # ask[r].pair
    BY DEF CommitDirect, AsksInv, Asking
  <1>2. conversations' = conversations \cup {[id |-> ask[r].id, pair |-> ask[r].pair]}
    BY DEF CommitDirect
  <1>3. asked' = asked /\ answer' = answer
    BY DEF CommitDirect, Move, AsksInv, AskTyped, Ask, asked
  <1>4. asked[r] = ask[r].pair /\ asked[r] # None
    BY <1>1 DEF asked
  <1>5. /\ direct' = [direct EXCEPT ![asked[r]] = ask[r].id]
        /\ direct[asked[r]] = None
        /\ \A p \in Pair : direct[p] # ask[r].id
    BY <1>1, <1>2, <1>4, RowAppears
  <1>6. GetOrCreate!Create(r)
    BY <1>1, <1>3, <1>4, <1>5 DEF GetOrCreate!Create, direct, asked
  <1> QED
    BY <1>6 DEF GetOrCreate!Next

\* Every other step leaves what DirectConversations sees.
LEMMA QuietMaps ==
  ASSUME conversations' = conversations, asked' = asked, answer' = answer
  PROVE  UNCHANGED GetOrCreate!vars
  <1>1. direct' = direct
    BY DEF direct, DirectOf, Existing
  <1> QED
    BY <1>1 DEF GetOrCreate!vars, direct, asked

LEMMA MoveMaps ==
  ASSUME AsksInv, NEW r \in Request, NEW label, Move(r, label), conversations' = conversations
  PROVE  UNCHANGED GetOrCreate!vars
  <1>1. asked' = asked /\ answer' = answer
    BY DEF Move, AsksInv, AskTyped, Ask, asked
  <1> QED
    BY <1>1, QuietMaps

LEMMA CreateMaps ==
  ASSUME IInv, NEW r \in Request, CreateStep(r)
  PROVE  [GetOrCreate!Next]_GetOrCreate!vars
  <1>1. AsksInv /\ Asking(r)
    BY DEF IInv, AsksInv
  <1>2. ASSUME NEW u \in Name, NEW v \in Name, BeginCreate(r, u, v)
        PROVE  [GetOrCreate!Next]_GetOrCreate!vars
    BY <1>1, <1>2, AskMaps
  <1>3. CASE FindUser(r)
    BY <1>1, <1>3, FailMaps, MoveMaps DEF FindUser
  <1>4. CASE FindDirect(r)
    <2>1. CASE Existing(ask[r].pair) = {}
      BY <1>1, <1>4, <2>1, MoveMaps DEF FindDirect
    <2>2. CASE Existing(ask[r].pair) # {}
      <3>1. PICK c \in conversations : c.pair = ask[r].pair /\ Reply(r, c.id)
        BY <1>4, <2>2 DEF FindDirect, Existing
      <3> QED
        BY <1>1, <1>4, <3>1, ReplyMaps DEF FindDirect
    <2> QED
      BY <2>1, <2>2
  <1>5. CASE Insert(r)
    <2>1. CASE Existing(ask[r].pair) # {}
      BY <1>1, <1>5, <2>1, MoveMaps DEF Insert
    <2>2. CASE Existing(ask[r].pair) = {}
      <3>1. PICK id \in Conversation :
                ask' = [ask EXCEPT ![r].pc = "commit", ![r].id = id] /\ answer' = answer
        BY <1>5, <2>2 DEF Insert
      <3>2. asked' = asked
        BY <1>1, <3>1 DEF AsksInv, AskTyped, Ask, asked
      <3> QED
        BY <1>5, <3>1, <3>2, QuietMaps DEF Insert
    <2> QED
      BY <2>1, <2>2
  <1>6. CASE CommitDirect(r)
    BY <1>1, <1>6, CommitMaps
  <1>7. CASE FindCreated(r)
    <2>1. PICK c \in conversations : c.id = ask[r].id /\ Reply(r, c.id)
      BY <1>7 DEF FindCreated
    <2>2. [id |-> ask[r].id, pair |-> ask[r].pair] \in conversations
      BY <1>1, <1>7 DEF FindCreated, Asking
    <2>3. c.pair = ask[r].pair
      BY <1>1, <2>1, <2>2 DEF AsksInv, KeysUnique
    <2> QED
      BY <1>1, <1>7, <2>1, <2>3, ReplyMaps DEF FindCreated
  <1>8. CASE FindAgain(r)
    <2>1. PICK c \in conversations : c.pair = ask[r].pair /\ Reply(r, c.id)
      BY <1>8 DEF FindAgain, Existing
    <2> QED
      BY <1>1, <1>8, <2>1, ReplyMaps DEF FindAgain
  <1>9. CASE AbortCreate(r)
    BY <1>1, <1>9, FailMaps DEF AbortCreate
  <1> QED
    BY <1>2, <1>3, <1>4, <1>5, <1>6, <1>7, <1>8, <1>9 DEF CreateStep, Creates

LEMMA InitMaps == Init => GetOrCreate!Init
  <1> SUFFICES ASSUME Init PROVE GetOrCreate!Init
    OBVIOUS
  <1>1. direct = [p \in Pair |-> None]
    BY DEF Init, direct, DirectOf, Existing
  <1>2. asked = [r \in Request |-> None]
    BY DEF Init, NoAsk, asked
  <1> QED
    BY <1>1, <1>2 DEF Init, GetOrCreate!Init, direct, asked

LEMMA StepMaps == IInv /\ [Next]_vars => [GetOrCreate!Next]_GetOrCreate!vars
  <1> SUFFICES ASSUME IInv, [Next]_vars PROVE [GetOrCreate!Next]_GetOrCreate!vars
    OBVIOUS
  <1>1. CASE \E r \in Request : CreateStep(r)
    BY <1>1, CreateMaps
  <1>2. CASE UNCHANGED conversationVars
    <2>1. asked' = asked
      BY <1>2 DEF asked
    <2> QED
      BY <1>2, <2>1, QuietMaps
  <1>3. (\E r \in Request : CreateStep(r)) \/ UNCHANGED conversationVars
    BY DEF Next, SessionStep, vars
  <1> QED
    BY <1>1, <1>2, <1>3

\* However the statements of create_direct interleave, two users get one
\* conversation, and everybody who is answered gets this one.
THEOREM Implementation == AccountsSpec => OneConversation
  BY InitMaps, StepMaps, InvariantInit, InvariantStep, PTL
  DEF AccountsSpec, OneConversation, GetOrCreate!Spec
=============================================================================
