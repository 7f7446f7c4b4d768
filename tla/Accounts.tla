-------------------------------- MODULE Accounts --------------------------------
(***************************************************************************)
(* Accounts and the direct conversations between them.  The requests of    *)
(* module Sessions, and those that open a conversation: look for it, add   *)
(* it, and when another transaction was faster look for it again.          *)
(***************************************************************************)
EXTENDS Sessions

CONSTANT Conversation  \* conversations, by id

VARIABLES
    conversations,  \* committed rows
    ask,            \* ask[r]: the conversation that r is to open, and where it is
    answer          \* answer[r]: the id that r was last answered with

conversationVars == <<conversations, ask, answer>>
vars == <<sessionVars, conversationVars>>

\* direct_key: the two users, in either order.
Pair == {p \in SUBSET Name : Cardinality(p) = 2}

ASSUME NothingAssumption == (\A p \in Pair : p # None) /\ None \notin Conversation

NoAsk == [pc |-> "idle", pair |-> None, id |-> None]

Init ==
    /\ SessionsInit
    /\ conversations = {}
    /\ ask = [r \in Request |-> NoAsk]
    /\ answer = [r \in Request |-> None]

-----------------------------------------------------------------------------
\* get_direct_by_key sees committed rows.
Existing(p) == {c \in conversations : c.pair = p}
\* Another transaction has inserted the key, and not ended.
KeyLocked(r) ==
    \E s \in Request \ {r} : ask[s].pc = "commit" /\ ask[s].pair = ask[r].pair
Unused(id) ==
    /\ \A c \in conversations : c.id # id
    /\ \A s \in Request : ask[s].id # id

Move(r, label) == ask' = [ask EXCEPT ![r].pc = label] /\ UNCHANGED answer
\* The request ends without a conversation ...
Fail(r) == ask' = [ask EXCEPT ![r] = NoAsk] /\ UNCHANGED answer
\* ... or with one.
Reply(r, id) ==
    /\ ask' = [ask EXCEPT ![r] = NoAsk]
    /\ answer' = [answer EXCEPT ![r] = id]

\* A user asks for a conversation with another.
BeginCreate(r, u, v) ==
    /\ ask[r] = NoAsk /\ job[r] = Idle
    /\ u \in users /\ v \in Name \ {u}
    /\ ask' = [ask EXCEPT ![r] = [NoAsk EXCEPT !.pc = "user", !.pair = {u, v}]]
    /\ answer' = [answer EXCEPT ![r] = None]
    /\ UNCHANGED <<sessionVars, conversations>>

\* create_direct: get_by_id of the participant, or 404.
FindUser(r) ==
    /\ ask[r].pc = "user"
    /\ IF ask[r].pair \subseteq users THEN Move(r, "find") ELSE Fail(r)
    /\ UNCHANGED <<sessionVars, conversations>>

\* create_direct: get_direct_by_key.
FindDirect(r) ==
    /\ ask[r].pc = "find"
    /\ IF Existing(ask[r].pair) = {} THEN Move(r, "insert")
       ELSE \E c \in Existing(ask[r].pair) : Reply(r, c.id)
    /\ UNCHANGED <<sessionVars, conversations>>

\* Mutant: without the unique key.
InsertDuplicate(r) ==
    /\ ask[r].pc = "insert"
    /\ \E id \in Conversation :
        Unused(id) /\ ask' = [ask EXCEPT ![r].pc = "commit", ![r].id = id]
    /\ UNCHANGED <<sessionVars, conversations, answer>>
\* Mutant: a key that is inserted and not committed is a conflict as well.
InsertImpatient(r) ==
    /\ ask[r].pc = "insert"
    /\ IF Existing(ask[r].pair) # {} \/ KeyLocked(r) THEN Move(r, "again")
       ELSE \E id \in Conversation :
            /\ Unused(id)
            /\ ask' = [ask EXCEPT ![r].pc = "commit", ![r].id = id]
            /\ UNCHANGED answer
    /\ UNCHANGED <<sessionVars, conversations>>
\* commit: the INSERT, which waits for the end of another one with this key;
\* IntegrityError and rollback if that one was committed.
Insert(r) ==
    /\ ask[r].pc = "insert"
    /\ ~KeyLocked(r)
    /\ IF Existing(ask[r].pair) # {} THEN Move(r, "again")
       ELSE \E id \in Conversation :
            /\ Unused(id)
            /\ ask' = [ask EXCEPT ![r].pc = "commit", ![r].id = id]
            /\ UNCHANGED answer
    /\ UNCHANGED <<sessionVars, conversations>>

\* commit: the COMMIT.
CommitDirect(r) ==
    /\ ask[r].pc = "commit"
    /\ conversations' = conversations \cup {[id |-> ask[r].id, pair |-> ask[r].pair]}
    /\ Move(r, "created")
    /\ UNCHANGED sessionVars

\* create_direct: get_by_id of the new conversation.
FindCreated(r) ==
    /\ ask[r].pc = "created"
    /\ \E c \in conversations : c.id = ask[r].id /\ Reply(r, c.id)
    /\ UNCHANGED <<sessionVars, conversations>>

\* create_direct after IntegrityError: get_direct_by_key once more.
FindAgain(r) ==
    /\ ask[r].pc = "again"
    /\ \E c \in Existing(ask[r].pair) : Reply(r, c.id)
    /\ UNCHANGED <<sessionVars, conversations>>

\* The request fails; what it has not committed is rolled back.
AbortCreate(r) ==
    /\ ask[r] # NoAsk /\ Fault
    /\ Fail(r)
    /\ UNCHANGED <<users, tokenVars, job, conversations>>

-----------------------------------------------------------------------------
SessionStep(r) ==
    /\ \/ ask[r] = NoAsk /\ Begins(r)
       \/ Serves(r) \/ Abort(r)
    /\ UNCHANGED conversationVars
Creates(r) ==
    \/ FindUser(r) \/ FindDirect(r) \/ Insert(r) \/ CommitDirect(r)
    \/ FindCreated(r) \/ FindAgain(r)
CreateStep(r) ==
    \/ \E u, v \in Name : BeginCreate(r, u, v)
    \/ Creates(r) \/ AbortCreate(r)

Next ==
    \/ \E r \in Request : SessionStep(r) \/ CreateStep(r)
    \/ (\E t \in Token : Expire(t)) /\ UNCHANGED conversationVars

AccountsSpec == Init /\ [][Next]_vars

-----------------------------------------------------------------------------
Ask == [pc : {"idle", "user", "find", "insert", "commit", "created", "again"},
        pair : Pair \cup {None}, id : Conversation \cup {None}]

TypeOK ==
    /\ SessionsTypeOK /\ job \in [Request -> Job]
    /\ conversations \subseteq [id : Conversation, pair : Pair]
    /\ \A c \in conversations : c.pair \subseteq users
    /\ ask \in [Request -> Ask]
    /\ answer \in [Request -> Conversation \cup {None}]

\* When the INSERT finds the key taken, the conversation that took it is there
\* to be read: the second get_direct_by_key always finds it, and the raise
\* after it is never reached (create_direct).
ConflictIsVisible == \A r \in Request : ask[r].pc = "again" => Existing(ask[r].pair) # {}

\* Requests for one conversation, from both sides at once, create it once, and
\* all that are answered are answered with it.
DirectOf(p) == IF Existing(p) = {} THEN None ELSE (CHOOSE c \in Existing(p) : TRUE).id
GetOrCreate == INSTANCE DirectConversations WITH
    direct <- [p \in Pair |-> DirectOf(p)],
    asked <- [r \in Request |-> ask[r].pair]
OneConversation == GetOrCreate!Spec
=============================================================================
