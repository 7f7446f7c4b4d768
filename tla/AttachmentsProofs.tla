-------------------------- MODULE AttachmentsProofs --------------------------
(***************************************************************************)
(* Proofs about Attachments, for every number of attachments, requests and *)
(* cleanup workers, every batch limit and every bound.                     *)
(*                                                                         *)
(* None of the properties is inductive by itself: what keeps a sweep away  *)
(* from a message is that both hold the row lock, so the inductive         *)
(* invariant IInv ties each lock to the program counter of its holder and  *)
(* says what a holder may assume of its row.  The refinement of            *)
(* AttachmentLife comes last.                                              *)
(***************************************************************************)
EXTENDS Attachments, TLAPS

Working == {"stat", "scan", "copy", "commit"}

\* A row lock is held by whoever is in the middle of a transaction on the row.
LocksOwned ==
    /\ \A a \in Att : \A p \in Completions :
          lock[a] = p <=> compPc[p] \in Working /\ compAtt[p] = a
    /\ \A a \in Att : \A s \in Sends :
          lock[a] = s => /\ sendPc[s] = "locking" /\ a \in want[s]
                         /\ status[a] = "live"
    /\ \A a \in Att : \A c \in Cleaners : lock[a] = c <=> a \in batch[c]

\* The columns of a row agree, and only a finalised live row is bound.
RowsCoherent ==
    \A a \in Att :
        /\ uploaded_at[a] = "set" <=> storage_key[a] = "objects"
        /\ message_id[a] # Null =>
              status[a] = "live" /\ uploaded_at[a] = "set"
        /\ status[a] = "free" =>
              uploaded_at[a] = "null" /\ staging[a] = NoObject

\* What a completion knows while it holds the lock.
CompletionsCoherent ==
    \A p \in Completions :
        /\ compPc[p] \in Working =>
              /\ compAtt[p] \in Att
              /\ status[compAtt[p]] = "live"
              /\ uploaded_at[compAtt[p]] = "null"
        /\ compPc[p] = "unstage" => compAtt[p] \in Att
        /\ compPc[p] = "new" => compAtt[p] = Null
        /\ compPc[p] \in {"scan", "copy"} => etag[p] \in RightSize
        /\ compPc[p] = "commit" => objects[compAtt[p]].bytes \in RightSize

\* Only verified bytes are under objects/ for a finalised row, and they are
\* there at least until the row is old enough to be swept.
ContentKept ==
    \A a \in Att : uploaded_at[a] = "set" =>
        /\ objects[a] = NoObject \/ objects[a].bytes \in RightSize
        /\ message_id[a] = Null /\ now =< created_at[a] + PendingTTL =>
              objects[a].bytes \in RightSize

\* What a sweep knows of the rows it holds.
SweepsCoherent ==
    \A c \in Cleaners :
        /\ cleanPc[c] \in {"select", "remove"} =>
              cutoff[c] + PendingTTL =< now
        /\ cleanPc[c] # "remove" =>
              batch[c] = {} /\ todo[c] = {} /\ deleted[c] = {}
        /\ todo[c] \subseteq batch[c]
        /\ deleted[c] \subseteq batch[c]
        /\ \A a \in batch[c] :
              /\ status[a] = "live" /\ message_id[a] = Null
              /\ created_at[a] + PendingTTL < now
        /\ \A a \in deleted[c] : Stored(a) = NoObject

\* A deleted row was unbound and past its TTL, hence past its upload URL.
GoneRows ==
    \A a \in Att : status[a] = "gone" =>
        /\ message_id[a] = Null
        /\ created_at[a] + PendingTTL < now
        /\ Stored(a) = NoObject

\* A send has committed nothing before it is done.
SendsCoherent ==
    \A s \in Sends : sendPc[s] # "done" => messages[s] = {}

IInv ==
    /\ TypeOK
    /\ LocksOwned
    /\ RowsCoherent
    /\ CompletionsCoherent
    /\ ContentKept
    /\ SweepsCoherent
    /\ GoneRows
    /\ SendsCoherent
    /\ BindingConsistent
    /\ PromptBindingServed

-----------------------------------------------------------------------------
(* Type correctness.                                                       *)

USE ClockAssumption, SetAssumption
USE DEF Workers, rowVars, messageVars, storeVars, compVars, sendVars, cleanVars

\* The initial state is well typed.
LEMMA TypeInit == Init => TypeOK
  BY DEF Init, TypeOK, NoObject, Objects, Workers

\* A completion that gives up keeps every variable in its type.
LEMMA CompleteEndsTyped ==
  ASSUME TypeOK, NEW p \in Completions, CompleteEnds(p),
         UNCHANGED <<rowVars, messageVars, storeVars, sendVars, cleanVars,
                     redisLock, now, faults>>
  PROVE  TypeOK'
  BY DEF TypeOK, CompleteEnds, Unlocked

\* Every action keeps every variable in its type.
LEMMA TypeStep == TypeOK /\ [Next]_vars => TypeOK'
  <1> SUFFICES ASSUME TypeOK, [Next]_vars PROVE TypeOK'
    OBVIOUS
  <1> USE DEF TypeOK
  <1>1. ASSUME NEW a \in Att, NEW sc \in Scopes, Reserve(a, sc) PROVE TypeOK'
    BY <1>1 DEF Reserve
  <1>2. ASSUME NEW a \in Att, NEW o \in Objects, Put(a, o) PROVE TypeOK'
    BY <1>2 DEF Put
  <1>3. ASSUME NEW p \in Completions, NEW a \in Att,
               CompleteBegin(p, a) \/ CompleteRepeats(p, a)
        PROVE TypeOK'
    <2>1. CASE CompleteBegin(p, a)
      BY <2>1 DEF CompleteBegin
    <2>2. CASE CompleteRepeats(p, a)
      BY <2>2 DEF CompleteRepeats
    <2> QED
      BY <1>3, <2>1, <2>2
  <1>4. ASSUME NEW p \in Completions, CompleteStat(p) PROVE TypeOK'
    <2>1. CASE MetadataMatches(compAtt[p])
      BY <1>4, <2>1 DEF CompleteStat, MetadataMatches
    <2>2. CASE ~MetadataMatches(compAtt[p])
      <3>1. /\ CompleteEnds(p)
            /\ UNCHANGED <<rowVars, messageVars, storeVars, sendVars, cleanVars,
                           redisLock, now, faults>>
        BY <1>4, <2>2 DEF CompleteStat
      <3> QED
        BY <3>1, CompleteEndsTyped
    <2> QED
      BY <2>1, <2>2
  <1>5. ASSUME NEW p \in Completions, CompleteScan(p) PROVE TypeOK'
    <2>1. CASE ScanPasses(compAtt[p])
      BY <1>5, <2>1 DEF CompleteScan, ScanPasses, ScannedContent
    <2>2. CASE ~ScanPasses(compAtt[p])
      <3>1. /\ CompleteEnds(p)
            /\ UNCHANGED <<rowVars, messageVars, storeVars, sendVars, cleanVars,
                           redisLock, now, faults>>
        BY <1>5, <2>2 DEF CompleteScan
      <3> QED
        BY <3>1, CompleteEndsTyped
    <2> QED
      BY <2>1, <2>2
  <1>6. ASSUME NEW p \in Completions, CompleteCopy(p) PROVE TypeOK'
    <2>1. CASE StillStaged(p)
      <3>1. objects' = [objects EXCEPT ![compAtt[p]] = staging[compAtt[p]]]
        BY <1>6, <2>1 DEF CompleteCopy
      <3>2. objects' \in [Att -> Objects \cup {NoObject}]
        BY <3>1
      <3> QED
        BY <1>6, <2>1, <3>2 DEF CompleteCopy
    <2>2. CASE ~StillStaged(p)
      <3>1. /\ CompleteEnds(p)
            /\ UNCHANGED <<rowVars, messageVars, storeVars, sendVars, cleanVars,
                           redisLock, now, faults>>
        BY <1>6, <2>2 DEF CompleteCopy
      <3> QED
        BY <3>1, CompleteEndsTyped
    <2> QED
      BY <2>1, <2>2
  <1>7. ASSUME NEW p \in Completions, CompleteCommit(p) PROVE TypeOK'
    BY <1>7 DEF CompleteCommit, Unlocked
  <1>8. ASSUME NEW p \in Completions, CompleteUnstage(p) PROVE TypeOK'
    BY <1>8 DEF CompleteUnstage
  <1>9. ASSUME NEW p \in Completions, CompleteAbort(p) PROVE TypeOK'
    <2>1. /\ CompleteEnds(p)
          /\ UNCHANGED <<rowVars, messageVars, storeVars, sendVars, cleanVars,
                         redisLock, now, faults>>
      BY <1>9 DEF CompleteAbort
    <2> QED
      BY <2>1, CompleteEndsTyped
  <1>10. ASSUME NEW s \in Sends, SendStarts(s) PROVE TypeOK'
    BY <1>10 DEF SendStarts, SendBegin
  <1>11. ASSUME NEW s \in Sends, NEW a \in Att, SendLock(s, a) PROVE TypeOK'
    BY <1>11 DEF SendLock
  <1>12. ASSUME NEW s \in Sends, SendCommit(s) PROVE TypeOK'
    BY <1>12 DEF SendCommit, SendEnds, Unlocked
  <1>13. ASSUME NEW s \in Sends, SendReject(s) \/ SendAbort(s) PROVE TypeOK'
    <2>1. CASE SendReject(s)
      BY <2>1 DEF SendReject, SendEnds, Unlocked
    <2>2. CASE SendAbort(s)
      BY <2>2 DEF SendAbort, SendEnds, Unlocked
    <2> QED
      BY <1>13, <2>1, <2>2
  <1>14. ASSUME NEW c \in Cleaners, CleanerAcquire(c) PROVE TypeOK'
    BY <1>14 DEF CleanerAcquire
  <1>15. ASSUME NEW c \in Cleaners, NEW chosen \in SUBSET Att, CleanerSelect(c, chosen)
         PROVE TypeOK'
    <2>1. lock' \in [Att -> Workers \cup {Null}]
      BY <1>15 DEF CleanerSelect
    <2> QED
      BY <1>15, <2>1 DEF CleanerSelect
  <1>16. ASSUME NEW c \in Cleaners, NEW a \in Att, CleanerRemove(c, a) PROVE TypeOK'
    <2>1. todo' \in [Cleaners -> SUBSET Att] /\ deleted' \in [Cleaners -> SUBSET Att]
      BY <1>16 DEF CleanerRemove, NextInBatch
    <2> QED
      BY <1>16, <2>1 DEF CleanerRemove, RemoveStored
  <1>17. ASSUME NEW c \in Cleaners, CleanerCommit(c) PROVE TypeOK'
    BY <1>17 DEF CleanerCommit, BatchEnds, Unlocked
  <1>18. ASSUME NEW c \in Cleaners, CleanerRelease(c) PROVE TypeOK'
    BY <1>18 DEF CleanerRelease
  <1>19. ASSUME NEW c \in Cleaners, NEW a \in Att, CleanerRemoveFails(c, a) PROVE TypeOK'
    <2>1. todo' \in [Cleaners -> SUBSET Att] /\ faults' \in 0 .. MaxFaults
      BY <1>19 DEF CleanerRemoveFails, NextInBatch
    <2>2. /\ staging' \in [Att -> Objects \cup {NoObject}]
          /\ objects' \in [Att -> Objects \cup {NoObject}]
      BY <1>19 DEF CleanerRemoveFails, RemoveStored
    <2> QED
      BY <1>19, <2>1, <2>2 DEF CleanerRemoveFails
  <1>20. ASSUME NEW c \in Cleaners, NEW pc \in {"idle", "release"},
                CleanerFails(c, pc)
         PROVE TypeOK'
    BY <1>20 DEF CleanerFails, BatchEnds, Unlocked
  <1>21. CASE RedisLockExpires
    BY <1>21 DEF RedisLockExpires
  <1>22. CASE Tick
    BY <1>22 DEF Tick
  <1>23. CASE UNCHANGED vars
    BY <1>23 DEF vars
  <1> HIDE DEF TypeOK
  <1> QED
    BY <1>1, <1>2, <1>3, <1>4, <1>5, <1>6, <1>7, <1>8, <1>9, <1>10, <1>11,
       <1>12, <1>13, <1>14, <1>15, <1>16, <1>17, <1>18, <1>19, <1>20, <1>21,
       <1>22, <1>23
    DEF Next, Client, CompleteStarts, CompleteStep, SendStep, CleanerStep,
        CleanerFault

-----------------------------------------------------------------------------
(* The inductive step, one lemma per action.                               *)

USE DEF IInv, TypeOK, Working

\* A new reservation has a fresh id that no worker holds.
LEMMA ReserveKeeps ==
  ASSUME IInv, TypeOK', NEW a \in Att,
         NEW sc \in Scopes, Reserve(a, sc)
  PROVE  IInv'
  <1> USE DEF Reserve
  <1>1. ContentKept'
    BY DEF ContentKept, RowsCoherent
  <1>2. PromptBindingServed'
    BY DEF PromptBindingServed, BindingConsistent
  <1>3. LocksOwned' /\ RowsCoherent' /\ CompletionsCoherent' /\ SweepsCoherent' /\
       GoneRows' /\ SendsCoherent' /\ BindingConsistent'
    BY DEF LocksOwned, RowsCoherent, CompletionsCoherent, SweepsCoherent,
       GoneRows, SendsCoherent, BindingConsistent, Stored
  <1> QED
    BY <1>1, <1>2, <1>3 DEF IInv

\* A PUT lands only while the URL lives, so never under a swept key.
LEMMA PutKeeps ==
  ASSUME IInv, TypeOK', NEW a \in Att, NEW o \in Objects, Put(a, o)
  PROVE  IInv'
  <1> USE DEF Put, UrlLive
  <1>1. LocksOwned' /\ RowsCoherent' /\ CompletionsCoherent' /\ ContentKept' /\
       SweepsCoherent' /\ GoneRows' /\ SendsCoherent' /\ BindingConsistent' /\
       PromptBindingServed'
    BY DEF LocksOwned, RowsCoherent, CompletionsCoherent, ContentKept,
       SweepsCoherent, GoneRows, SendsCoherent, BindingConsistent,
       PromptBindingServed, Stored
  <1> QED
    BY <1>1 DEF IInv

\* A completion takes the row lock.
LEMMA CompleteBeginKeeps ==
  ASSUME IInv, TypeOK', NEW p \in Completions,
         NEW a \in Att, CompleteBegin(p, a)
  PROVE  IInv'
  <1> USE DEF CompleteBegin
  <1>1. LocksOwned' /\ RowsCoherent' /\ CompletionsCoherent' /\ ContentKept' /\
       SweepsCoherent' /\ GoneRows' /\ SendsCoherent' /\ BindingConsistent' /\
       PromptBindingServed'
    BY DEF LocksOwned, RowsCoherent, CompletionsCoherent, ContentKept,
       SweepsCoherent, GoneRows, SendsCoherent, BindingConsistent,
       PromptBindingServed, Stored
  <1> QED
    BY <1>1 DEF IInv

\* A repeated completion changes nothing but its own state.
LEMMA CompleteRepeatsKeeps ==
  ASSUME IInv, TypeOK', NEW p \in Completions,
         NEW a \in Att, CompleteRepeats(p, a)
  PROVE  IInv'
  <1> USE DEF CompleteRepeats
  <1>1. LocksOwned' /\ RowsCoherent' /\ CompletionsCoherent' /\ ContentKept' /\
       SweepsCoherent' /\ GoneRows' /\ SendsCoherent' /\ BindingConsistent' /\
       PromptBindingServed'
    BY DEF LocksOwned, RowsCoherent, CompletionsCoherent, ContentKept,
       SweepsCoherent, GoneRows, SendsCoherent, BindingConsistent,
       PromptBindingServed, Stored
  <1> QED
    BY <1>1 DEF IInv

\* A completion that gives up frees its row, which it has not touched.
LEMMA CompleteEndsKeeps ==
  ASSUME IInv, TypeOK', NEW p \in Completions, compPc[p] \in Working,
         CompleteEnds(p),
         UNCHANGED <<rowVars, messageVars, storeVars, sendVars, cleanVars,
                     redisLock, now, faults>>
  PROVE  IInv'
  <1> USE DEF CompleteEnds, Unlocked
  <1>1. LocksOwned'
    BY DEF LocksOwned
  <1>2. CompletionsCoherent'
    BY DEF CompletionsCoherent
  <1>3. RowsCoherent' /\ ContentKept' /\ GoneRows' /\ SendsCoherent' /\
       BindingConsistent' /\ PromptBindingServed'
    BY DEF RowsCoherent, ContentKept, GoneRows, SendsCoherent,
       BindingConsistent, PromptBindingServed, Stored
  <1>4. SweepsCoherent'
    BY DEF SweepsCoherent, Stored
  <1> QED
    BY <1>1, <1>2, <1>3, <1>4 DEF IInv

\* stat records the ETag of bytes of the reserved size.
LEMMA CompleteStatKeeps ==
  ASSUME IInv, TypeOK', NEW p \in Completions, CompleteStat(p)
  PROVE  IInv'
  <1>1. CASE MetadataMatches(compAtt[p])
    <2> USE <1>1 DEF CompleteStat, MetadataMatches
    <2>1. LocksOwned'
      BY DEF LocksOwned
    <2>2. CompletionsCoherent'
      BY DEF CompletionsCoherent
    <2>3. RowsCoherent' /\ ContentKept' /\ GoneRows' /\ SendsCoherent' /\
         BindingConsistent' /\ PromptBindingServed'
      BY DEF RowsCoherent, ContentKept, GoneRows, SendsCoherent,
         BindingConsistent, PromptBindingServed, Stored
    <2>4. SweepsCoherent'
      BY DEF SweepsCoherent, Stored
    <2> QED
      BY <2>1, <2>2, <2>3, <2>4 DEF IInv
  <1>2. CASE ~MetadataMatches(compAtt[p])
    <2>1. /\ CompleteEnds(p)
          /\ compPc[p] \in Working
          /\ UNCHANGED <<rowVars, messageVars, storeVars, sendVars, cleanVars,
                         redisLock, now, faults>>
      BY <1>2 DEF CompleteStat
    <2> QED
      BY <2>1, CompleteEndsKeeps
  <1> QED
    BY <1>1, <1>2

\* The scan decides whether to go on.
LEMMA CompleteScanKeeps ==
  ASSUME IInv, TypeOK', NEW p \in Completions, CompleteScan(p)
  PROVE  IInv'
  <1>1. CASE ScanPasses(compAtt[p])
    <2> USE <1>1 DEF CompleteScan
    <2>1. LocksOwned'
      BY DEF LocksOwned
    <2>2. CompletionsCoherent'
      BY DEF CompletionsCoherent
    <2>3. RowsCoherent' /\ ContentKept' /\ GoneRows' /\ SendsCoherent' /\
         BindingConsistent' /\ PromptBindingServed'
      BY DEF RowsCoherent, ContentKept, GoneRows, SendsCoherent,
         BindingConsistent, PromptBindingServed, Stored
    <2>4. SweepsCoherent'
      BY DEF SweepsCoherent, Stored
    <2> QED
      BY <2>1, <2>2, <2>3, <2>4 DEF IInv
  <1>2. CASE ~ScanPasses(compAtt[p])
    <2>1. /\ CompleteEnds(p)
          /\ compPc[p] \in Working
          /\ UNCHANGED <<rowVars, messageVars, storeVars, sendVars, cleanVars,
                         redisLock, now, faults>>
      BY <1>2 DEF CompleteScan
    <2> QED
      BY <2>1, CompleteEndsKeeps
  <1> QED
    BY <1>1, <1>2

\* The conditional copy writes a delivery key nobody can read yet.
LEMMA CompleteCopyKeeps ==
  ASSUME IInv, TypeOK', NEW p \in Completions, CompleteCopy(p)
  PROVE  IInv'
  <1>1. compAtt[p] \in Att /\ uploaded_at[compAtt[p]] # "set"
    BY DEF CompleteCopy, CompletionsCoherent
  <1>2. CASE StillStaged(p)
    <2> USE <1>2 DEF CompleteCopy, StillStaged
    <2>1. \A a \in Att : a # compAtt[p] => objects'[a] = objects[a]
      BY <1>1
    <2>2. LocksOwned'
      BY DEF LocksOwned
    <2>3. CompletionsCoherent'
      <3>1. objects'[compAtt[p]].bytes \in RightSize
        BY <1>1 DEF CompletionsCoherent
      <3>2. \A q \in Completions : compPc'[q] = "commit" =>
              objects'[compAtt[q]].bytes \in RightSize
        BY <1>1, <2>1, <3>1 DEF CompletionsCoherent
      <3>3. UNCHANGED <<compAtt, etag, status, uploaded_at>>
        BY DEF CompleteCopy
      <3>4. compPc' = [compPc EXCEPT ![p] = "commit"] /\ compPc[p] = "copy"
        BY DEF CompleteCopy
      <3> HIDE DEF CompleteCopy
      <3> QED
        BY <3>2, <3>3, <3>4 DEF CompletionsCoherent
    <2>4. ContentKept'
      BY <1>1, <2>1 DEF ContentKept
    <2>5. SweepsCoherent'
      BY DEF SweepsCoherent, LocksOwned, Stored
    <2>6. GoneRows'
      BY <1>1 DEF GoneRows, CompletionsCoherent, Stored
    <2>7. PromptBindingServed'
      <3>1. \A q \in Sends : compAtt[p] \notin messages[q]
        BY <1>1 DEF BindingConsistent
      <3>2. \A q \in Sends : \A a \in messages[q] : objects'[a] = objects[a]
        BY <2>1, <3>1
      <3>3. UNCHANGED <<messages, sent_at, created_at>>
        OBVIOUS
      <3> HIDE DEF CompleteCopy, TypeOK
      <3> QED
        BY <3>2, <3>3 DEF PromptBindingServed
    <2>8. RowsCoherent' /\ SendsCoherent' /\ BindingConsistent'
      BY DEF RowsCoherent, SendsCoherent, BindingConsistent
    <2> QED
      BY <2>2, <2>3, <2>4, <2>5, <2>6, <2>7, <2>8 DEF IInv
  <1>3. CASE ~StillStaged(p)
    <2>1. /\ CompleteEnds(p)
          /\ compPc[p] \in Working
          /\ UNCHANGED <<rowVars, messageVars, storeVars, sendVars, cleanVars,
                         redisLock, now, faults>>
      BY <1>3 DEF CompleteCopy
    <2> QED
      BY <2>1, CompleteEndsKeeps
  <1> QED
    BY <1>2, <1>3

\* Finalisation: the row now names the verified copy.
LEMMA CompleteCommitKeeps ==
  ASSUME IInv, TypeOK', NEW p \in Completions, CompleteCommit(p)
  PROVE  IInv'
  <1> USE DEF CompleteCommit, Unlocked
  <1>1. RowsCoherent'
    BY DEF RowsCoherent, CompletionsCoherent
  <1>2. CompletionsCoherent'
    BY DEF CompletionsCoherent, LocksOwned
  <1>3. ContentKept'
    BY DEF ContentKept, CompletionsCoherent
  <1>4. SweepsCoherent'
    BY DEF SweepsCoherent, LocksOwned, Stored
  <1>5. GoneRows'
    BY DEF GoneRows, CompletionsCoherent, Stored
  <1>6. LocksOwned' /\ SendsCoherent' /\ BindingConsistent' /\
       PromptBindingServed'
    BY DEF LocksOwned, SendsCoherent, BindingConsistent, PromptBindingServed
  <1> QED
    BY <1>1, <1>2, <1>3, <1>4, <1>5, <1>6 DEF IInv

\* The staged object of a finalised row is of no interest to anyone.
LEMMA CompleteUnstageKeeps ==
  ASSUME IInv, TypeOK', NEW p \in Completions, CompleteUnstage(p)
  PROVE  IInv'
  <1> USE DEF CompleteUnstage
  <1>1. LocksOwned' /\ RowsCoherent' /\ CompletionsCoherent' /\ ContentKept' /\
       SweepsCoherent' /\ GoneRows' /\ SendsCoherent' /\ BindingConsistent' /\
       PromptBindingServed'
    BY DEF LocksOwned, RowsCoherent, CompletionsCoherent, ContentKept,
       SweepsCoherent, GoneRows, SendsCoherent, BindingConsistent,
       PromptBindingServed, Stored
  <1> QED
    BY <1>1 DEF IInv

\* A rollback only releases the lock.
LEMMA CompleteAbortKeeps ==
  ASSUME IInv, TypeOK', NEW p \in Completions, CompleteAbort(p)
  PROVE  IInv'
  <1>1. /\ CompleteEnds(p)
        /\ compPc[p] \in Working
        /\ UNCHANGED <<rowVars, messageVars, storeVars, sendVars, cleanVars,
                       redisLock, now, faults>>
    BY DEF CompleteAbort
  <1> QED
    BY <1>1, CompleteEndsKeeps

\* A send starts with no message of its own.
LEMMA SendBeginKeeps ==
  ASSUME IInv, TypeOK', NEW s \in Sends,
         NEW sc \in Scopes, NEW ids \in SUBSET Att,
         SendBegin(s, sc, ids)
  PROVE  IInv'
  <1> USE DEF SendBegin
  <1>1. BindingConsistent'
    <2>1. messages[s] = {}
      BY DEF SendsCoherent
    <2> QED
      BY <2>1 DEF BindingConsistent
  <1>2. LocksOwned' /\ RowsCoherent' /\ CompletionsCoherent' /\ ContentKept' /\
       SweepsCoherent' /\ GoneRows' /\ SendsCoherent' /\ PromptBindingServed'
    BY DEF LocksOwned, RowsCoherent, CompletionsCoherent, ContentKept,
       SweepsCoherent, GoneRows, SendsCoherent, PromptBindingServed, Stored
  <1> QED
    BY <1>1, <1>2 DEF IInv

\* A send takes the lock of one row.
LEMMA SendLockKeeps ==
  ASSUME IInv, TypeOK', NEW s \in Sends,
         NEW a \in Att, SendLock(s, a)
  PROVE  IInv'
  <1> USE DEF SendLock
  <1>1. LocksOwned' /\ RowsCoherent' /\ CompletionsCoherent' /\ ContentKept' /\
       SweepsCoherent' /\ GoneRows' /\ SendsCoherent' /\ BindingConsistent' /\
       PromptBindingServed'
    BY DEF LocksOwned, RowsCoherent, CompletionsCoherent, ContentKept,
       SweepsCoherent, GoneRows, SendsCoherent, BindingConsistent,
       PromptBindingServed, Stored
  <1> QED
    BY <1>1 DEF IInv

\* The message and its bindings appear together, on rows the send has locked.
LEMMA SendCommitKeeps ==
  ASSUME IInv, TypeOK', NEW s \in Sends, SendCommit(s)
  PROVE  IInv'
  <1> USE DEF SendCommit, SendEnds, Unlocked, SelectReturned, Bindable
  <1>1. SweepsCoherent'
    <2>1. \A c \in Cleaners : \A a \in batch[c] : a \in Att /\ a \notin want[s]
      <3>1. \A c \in Cleaners : \A a \in batch[c] :
               a \in Att /\ lock[a] = c /\ status[a] = "live"
        BY DEF SweepsCoherent, LocksOwned
      <3> QED
        BY <3>1
    <2>2. \A c \in Cleaners : \A a \in batch[c] : message_id'[a] = message_id[a]
      BY <2>1
    <2>3. UNCHANGED <<cleanVars, status, created_at, storage_key, storeVars, now>>
      OBVIOUS
    <2> HIDE DEF SendCommit, TypeOK
    <2> QED
      BY <2>2, <2>3 DEF SweepsCoherent, Stored
  <1>2. BindingConsistent'
    BY DEF BindingConsistent, SendsCoherent
  <1>3. PromptBindingServed'
    BY DEF PromptBindingServed, ContentKept
  <1>4. LocksOwned' /\ RowsCoherent' /\ CompletionsCoherent' /\ ContentKept' /\
       GoneRows' /\ SendsCoherent'
    BY DEF LocksOwned, RowsCoherent, CompletionsCoherent, ContentKept,
       GoneRows, SendsCoherent, Stored
  <1> QED
    BY <1>1, <1>2, <1>3, <1>4 DEF IInv

\* A rejected or aborted send only releases its locks.
LEMMA SendRejectKeeps ==
  ASSUME IInv, TypeOK', NEW s \in Sends,
         SendReject(s) \/ SendAbort(s)
  PROVE  IInv'
  <1>1. SendEnds(s) /\ UNCHANGED <<rowVars, messageVars, storeVars, compVars,
                                  cleanVars, redisLock, now, faults>>
    BY DEF SendReject, SendAbort
  <1> USE <1>1 DEF SendEnds, Unlocked
  <1>2. LocksOwned'
    BY DEF LocksOwned, CompletionsCoherent
  <1>3. SendsCoherent'
    BY DEF SendsCoherent
  <1>4. RowsCoherent' /\ CompletionsCoherent' /\ ContentKept' /\ SweepsCoherent'
    BY DEF RowsCoherent, CompletionsCoherent, ContentKept, SweepsCoherent, Stored
  <1>5. GoneRows' /\ BindingConsistent' /\ PromptBindingServed'
    BY DEF GoneRows, BindingConsistent, PromptBindingServed, Stored
  <1> QED
    BY <1>2, <1>3, <1>4, <1>5 DEF IInv

\* The cutoff lies the pending TTL before the clock.
LEMMA CleanerAcquireKeeps ==
  ASSUME IInv, TypeOK', NEW c \in Cleaners, CleanerAcquire(c)
  PROVE  IInv'
  <1> USE DEF CleanerAcquire
  <1>1. LocksOwned' /\ RowsCoherent' /\ CompletionsCoherent' /\ ContentKept' /\
       SweepsCoherent' /\ GoneRows' /\ SendsCoherent' /\ BindingConsistent' /\
       PromptBindingServed'
    BY DEF LocksOwned, RowsCoherent, CompletionsCoherent, ContentKept,
       SweepsCoherent, GoneRows, SendsCoherent, BindingConsistent,
       PromptBindingServed, Stored
  <1> QED
    BY <1>1 DEF IInv

\* A sweep takes rows that are unlocked, unbound and past the cutoff.
LEMMA CleanerSelectKeeps ==
  ASSUME IInv, TypeOK', NEW c \in Cleaners,
         NEW chosen \in SUBSET Att,
         CleanerSelect(c, chosen)
  PROVE  IInv'
  <1> USE DEF CleanerSelect, OldestOf, Eligible, Abandoned
  <1>1. LocksOwned'
    <2>1. batch[c] = {} /\ \A a \in chosen : lock[a] = Null
      BY DEF SweepsCoherent
    <2>2. \A a \in Att : lock'[a] = IF a \in chosen THEN c ELSE lock[a]
      OBVIOUS
    <2>3. \A d \in Cleaners : batch'[d] = IF d = c THEN chosen ELSE batch[d]
      OBVIOUS
    <2>4. \A a \in Att : \A d \in Cleaners : lock'[a] = d <=> a \in batch'[d]
      BY <2>1, <2>2, <2>3 DEF LocksOwned
    <2> QED
      BY <2>1, <2>2, <2>4 DEF LocksOwned
  <1>2. RowsCoherent' /\ CompletionsCoherent' /\ ContentKept' /\ SweepsCoherent' /\
       GoneRows' /\ SendsCoherent' /\ BindingConsistent' /\ PromptBindingServed'
    BY DEF RowsCoherent, CompletionsCoherent, ContentKept, SweepsCoherent,
       GoneRows, SendsCoherent, BindingConsistent, PromptBindingServed, Stored
  <1> QED
    BY <1>1, <1>2 DEF IInv

\* A sweep removes the object of a row it has locked.
LEMMA CleanerRemoveKeeps ==
  ASSUME IInv, TypeOK', NEW c \in Cleaners,
         NEW a \in Att, CleanerRemove(c, a)
  PROVE  IInv'
  <1> USE DEF CleanerRemove, NextInBatch, RemoveStored
  <1>1. CompletionsCoherent'
    BY DEF CompletionsCoherent, LocksOwned, SweepsCoherent
  <1>2. ContentKept'
    <2>1. created_at[a] + PendingTTL < now
      BY DEF SweepsCoherent
    <2>2. objects'[a] \in {objects[a], NoObject}
      OBVIOUS
    <2>3. \A b \in Att : b # a => objects'[b] = objects[b]
      OBVIOUS
    <2> QED
      BY <2>1, <2>2, <2>3 DEF ContentKept
  <1>3. PromptBindingServed'
    <2>1. \A q \in Sends : a \notin messages[q]
      BY DEF SweepsCoherent, BindingConsistent
    <2>2. \A b \in Att : b # a => objects'[b] = objects[b]
      OBVIOUS
    <2> QED
      BY <2>1, <2>2 DEF PromptBindingServed
  <1>4. LocksOwned' /\ RowsCoherent' /\ SweepsCoherent' /\ GoneRows' /\
       SendsCoherent' /\ BindingConsistent'
    BY DEF LocksOwned, RowsCoherent, SweepsCoherent, GoneRows, SendsCoherent,
       BindingConsistent, Stored
  <1> QED
    BY <1>1, <1>2, <1>3, <1>4 DEF IInv

\* A failed removal may still have removed the object.
LEMMA CleanerRemoveFailsKeeps ==
  ASSUME IInv, TypeOK', NEW c \in Cleaners,
         NEW a \in Att, CleanerRemoveFails(c, a)
  PROVE  IInv'
  <1> USE DEF CleanerRemoveFails, NextInBatch, RemoveStored
  <1>1. CompletionsCoherent'
    BY DEF CompletionsCoherent, LocksOwned, SweepsCoherent
  <1>2. ContentKept'
    <2>1. created_at[a] + PendingTTL < now
      BY DEF SweepsCoherent
    <2>2. objects'[a] \in {objects[a], NoObject}
      OBVIOUS
    <2>3. \A b \in Att : b # a => objects'[b] = objects[b]
      OBVIOUS
    <2> QED
      BY <2>1, <2>2, <2>3 DEF ContentKept
  <1>3. PromptBindingServed'
    <2>1. \A q \in Sends : a \notin messages[q]
      BY DEF SweepsCoherent, BindingConsistent
    <2>2. \A b \in Att : b # a => objects'[b] = objects[b]
      OBVIOUS
    <2> QED
      BY <2>1, <2>2 DEF PromptBindingServed
  <1>4. LocksOwned' /\ RowsCoherent' /\ SweepsCoherent' /\ GoneRows' /\
       SendsCoherent' /\ BindingConsistent'
    BY DEF LocksOwned, RowsCoherent, SweepsCoherent, GoneRows, SendsCoherent,
       BindingConsistent, Stored
  <1> QED
    BY <1>1, <1>2, <1>3, <1>4 DEF IInv

\* Deleted rows were unbound, old, and had lost their object.
LEMMA CleanerCommitKeeps ==
  ASSUME IInv, TypeOK', NEW c \in Cleaners, CleanerCommit(c)
  PROVE  IInv'
  <1> USE DEF CleanerCommit, BatchEnds, Unlocked
  <1>1. LocksOwned'
    BY DEF LocksOwned, SweepsCoherent
  <1>2. RowsCoherent'
    BY DEF RowsCoherent, SweepsCoherent
  <1>3. CompletionsCoherent'
    BY DEF CompletionsCoherent, LocksOwned, SweepsCoherent
  <1>4. SweepsCoherent'
    BY DEF SweepsCoherent, LocksOwned, Stored
  <1>5. GoneRows'
    BY DEF GoneRows, SweepsCoherent, Stored
  <1>6. BindingConsistent'
    BY DEF BindingConsistent, SweepsCoherent
  <1>7. ContentKept' /\ SendsCoherent' /\ PromptBindingServed'
    BY DEF ContentKept, SendsCoherent, PromptBindingServed
  <1> QED
    BY <1>1, <1>2, <1>3, <1>4, <1>5, <1>6, <1>7 DEF IInv

\* The Redis key protects nothing the invariant needs.
LEMMA CleanerReleaseKeeps ==
  ASSUME IInv, TypeOK', NEW c \in Cleaners, CleanerRelease(c)
  PROVE  IInv'
  <1> USE DEF CleanerRelease
  <1>1. LocksOwned' /\ RowsCoherent' /\ CompletionsCoherent' /\ ContentKept' /\
       SweepsCoherent' /\ GoneRows' /\ SendsCoherent' /\ BindingConsistent' /\
       PromptBindingServed'
    BY DEF LocksOwned, RowsCoherent, CompletionsCoherent, ContentKept,
       SweepsCoherent, GoneRows, SendsCoherent, BindingConsistent,
       PromptBindingServed, Stored
  <1> QED
    BY <1>1 DEF IInv

\* A failed sweep is rolled back.
LEMMA CleanerFailsKeeps ==
  ASSUME IInv, TypeOK', NEW c \in Cleaners,
         NEW pc \in {"idle",
         "release"},
         CleanerFails(c, pc)
  PROVE  IInv'
  <1> USE DEF CleanerFails, BatchEnds, Unlocked
  <1>1. LocksOwned' /\ RowsCoherent' /\ CompletionsCoherent' /\ ContentKept' /\
       SweepsCoherent' /\ GoneRows' /\ SendsCoherent' /\ BindingConsistent' /\
       PromptBindingServed'
    BY DEF LocksOwned, RowsCoherent, CompletionsCoherent, ContentKept,
       SweepsCoherent, GoneRows, SendsCoherent, BindingConsistent,
       PromptBindingServed, Stored
  <1> QED
    BY <1>1 DEF IInv

\* The Redis key may expire under a busy worker.
LEMMA RedisLockExpiresKeeps ==
  ASSUME IInv, TypeOK', RedisLockExpires
  PROVE  IInv'
  <1> USE DEF RedisLockExpires
  <1>1. LocksOwned' /\ RowsCoherent' /\ CompletionsCoherent' /\ ContentKept' /\
       SweepsCoherent' /\ GoneRows' /\ SendsCoherent' /\ BindingConsistent' /\
       PromptBindingServed'
    BY DEF LocksOwned, RowsCoherent, CompletionsCoherent, ContentKept,
       SweepsCoherent, GoneRows, SendsCoherent, BindingConsistent,
       PromptBindingServed, Stored
  <1> QED
    BY <1>1 DEF IInv

\* Rows only get older.
LEMMA TickKeeps ==
  ASSUME IInv, TypeOK', Tick
  PROVE  IInv'
  <1> USE DEF Tick
  <1>1. LocksOwned' /\ RowsCoherent' /\ CompletionsCoherent' /\ ContentKept' /\
       SweepsCoherent' /\ GoneRows' /\ SendsCoherent' /\ BindingConsistent' /\
       PromptBindingServed'
    BY DEF LocksOwned, RowsCoherent, CompletionsCoherent, ContentKept,
       SweepsCoherent, GoneRows, SendsCoherent, BindingConsistent,
       PromptBindingServed, Stored
  <1> QED
    BY <1>1 DEF IInv

\* Stuttering.
LEMMA StutterKeeps ==
  ASSUME IInv, TypeOK', UNCHANGED vars
  PROVE  IInv'
  <1> USE DEF vars
  <1>1. LocksOwned' /\ RowsCoherent' /\ CompletionsCoherent' /\ ContentKept' /\
       SweepsCoherent' /\ GoneRows' /\ SendsCoherent' /\ BindingConsistent' /\
       PromptBindingServed'
    BY DEF LocksOwned, RowsCoherent, CompletionsCoherent, ContentKept,
       SweepsCoherent, GoneRows, SendsCoherent, BindingConsistent,
       PromptBindingServed, Stored
  <1> QED
    BY <1>1 DEF IInv

-----------------------------------------------------------------------------
(* The theorems.                                                           *)

HIDE DEF IInv, TypeOK, Working

\* Type correctness: every variable of Attachments keeps its type.
THEOREM TypeCorrect == Spec => []TypeOK
  BY TypeInit, TypeStep, PTL DEF Spec

\* The initial state satisfies the inductive invariant.
LEMMA InvariantInit == Init => IInv
  <1> SUFFICES ASSUME Init PROVE IInv
    OBVIOUS
  <1>1. TypeOK
    BY TypeInit
  <1>2. LocksOwned
    BY DEF Init, LocksOwned, Working
  <1>3. RowsCoherent /\ ContentKept /\ GoneRows
    BY DEF Init, RowsCoherent, ContentKept, GoneRows
  <1>4. CompletionsCoherent
    BY DEF Init, CompletionsCoherent, Working
  <1>5. SweepsCoherent
    BY DEF Init, SweepsCoherent
  <1>6. SendsCoherent /\ BindingConsistent /\ PromptBindingServed
    BY DEF Init, SendsCoherent, BindingConsistent, PromptBindingServed
  <1> QED
    BY <1>1, <1>2, <1>3, <1>4, <1>5, <1>6 DEF IInv

\* Every step of every actor preserves the inductive invariant.
LEMMA InvariantStep == IInv /\ [Next]_vars => IInv'
  <1> SUFFICES ASSUME IInv, [Next]_vars PROVE IInv'
    OBVIOUS
  <1>1. TypeOK'
    BY TypeStep DEF IInv
  <1>2. CASE Client
    BY <1>1, <1>2, ReserveKeeps, PutKeeps DEF Client
  <1>3. ASSUME NEW p \in Completions,
               CompleteStarts(p) \/ CompleteStep(p) \/ CompleteAbort(p)
        PROVE IInv'
    BY <1>1, <1>3, CompleteBeginKeeps, CompleteRepeatsKeeps, CompleteStatKeeps,
       CompleteScanKeeps, CompleteCopyKeeps, CompleteCommitKeeps,
       CompleteUnstageKeeps, CompleteAbortKeeps
    DEF CompleteStarts, CompleteStep
  <1>4. ASSUME NEW s \in Sends, SendStarts(s) \/ SendStep(s) \/ SendAbort(s)
        PROVE IInv'
    BY <1>1, <1>4, SendBeginKeeps, SendLockKeeps, SendCommitKeeps, SendRejectKeeps
    DEF SendStarts, SendStep
  <1>5. ASSUME NEW c \in Cleaners, CleanerStep(c) \/ CleanerFault(c)
        PROVE IInv'
    BY <1>1, <1>5, CleanerAcquireKeeps, CleanerSelectKeeps, CleanerRemoveKeeps,
       CleanerCommitKeeps, CleanerReleaseKeeps, CleanerRemoveFailsKeeps,
       CleanerFailsKeeps
    DEF CleanerStep, CleanerFault
  <1> QED
    BY <1>1, <1>2, <1>3, <1>4, <1>5, RedisLockExpiresKeeps, TickKeeps, StutterKeeps
    DEF Next

\* The inductive invariant holds throughout.
THEOREM Invariance == Spec => []IInv
  BY InvariantInit, InvariantStep, PTL DEF Spec

\* Single-use binding (MessageService.create against itself, complete and
\* cleanup_abandoned): message and attachment rows agree for ever.
THEOREM SingleUseBinding == Spec => []BindingConsistent
  <1>1. IInv => BindingConsistent
    BY DEF IInv
  <1> QED
    BY <1>1, Invariance, PTL

\* What a completion has verified when it is about to copy, and after the copy.
Verifying ==
    \A p \in Completions :
        /\ compPc[p] \in {"copy", "commit"} /\ ScanMode = "clamav" =>
              scanned[p] \in Contents \ Infected
        /\ compPc[p] = "commit" => objects[compAtt[p]].bytes = etag[p]

\* Who verified the delivery object of a finalised row.
Vouched ==
    \A a \in Att : uploaded_at[a] = "set" /\ objects[a] # NoObject =>
        \E p \in Completions :
            compPc[p] \in {"unstage", "done"} /\ VerifiedBy(p, a, objects[a].bytes)

\* Nobody but the completion itself touches the delivery object of the row it has
\* locked, and what a completion verified is not forgotten once it committed.
LEMMA VerifyingStep ==
  ASSUME IInv, IInv', Verifying, Vouched, [Next]_vars
  PROVE  Verifying' /\ Vouched'
  <1>0. /\ TypeOK /\ TypeOK' /\ CompletionsCoherent /\ CompletionsCoherent'
        /\ LocksOwned
    BY DEF IInv
  <1> HIDE DEF IInv
  <1>1. ASSUME UNCHANGED <<uploaded_at, compVars>>,
               \A a \in Att : objects'[a] \in {objects[a], NoObject},
               \A a \in Att : \A p \in Completions :
                  lock[a] = p => objects'[a] = objects[a]
        PROVE  Verifying' /\ Vouched'
    <2>1. Verifying'
      <3> SUFFICES ASSUME NEW p \in Completions, compPc[p] = "commit"
                   PROVE  objects'[compAtt[p]] = objects[compAtt[p]]
        BY <1>1 DEF Verifying
      <3>1. compAtt[p] \in Att /\ lock[compAtt[p]] = p
        BY <1>0 DEF CompletionsCoherent, LocksOwned, Working
      <3> QED
        BY <1>1, <3>1
    <2>2. Vouched'
      BY <1>1 DEF Vouched, VerifiedBy
    <2> QED
      BY <2>1, <2>2
  <1>2. ASSUME NEW p \in Completions, CompleteCopy(p), StillStaged(p)
        PROVE  Verifying' /\ Vouched'
    <2>1. /\ compPc[p] = "copy" /\ compPc' = [compPc EXCEPT ![p] = "commit"]
          /\ objects' = [objects EXCEPT ![compAtt[p]] = staging[compAtt[p]]]
          /\ staging[compAtt[p]].bytes = etag[p]
          /\ UNCHANGED <<uploaded_at, compAtt, etag, scanned>>
      BY <1>2 DEF CompleteCopy, StillStaged
    <2>2. compAtt[p] \in Att /\ uploaded_at[compAtt[p]] = "null"
      BY <1>0, <2>1 DEF CompletionsCoherent, Working
    <2>3. /\ compPc'[p] = "commit" /\ \A q \in Completions : q # p => compPc'[q] = compPc[q]
          /\ objects'[compAtt[p]] = staging[compAtt[p]]
          /\ \A a \in Att : a # compAtt[p] => objects'[a] = objects[a]
      BY <1>0, <2>1, <2>2 DEF TypeOK
    <2>4. \A q \in Completions : q # p /\ compPc[q] = "commit" =>
             compAtt[q] \in Att /\ compAtt[q] # compAtt[p]
      <3>1. lock[compAtt[p]] = p
        BY <1>0, <2>1, <2>2 DEF LocksOwned, Working
      <3>2. \A q \in Completions : compPc[q] = "commit" =>
               compAtt[q] \in Att /\ lock[compAtt[q]] = q
        BY <1>0 DEF CompletionsCoherent, LocksOwned, Working
      <3> QED
        BY <3>1, <3>2
    <2>5. Verifying'
      BY <2>1, <2>3, <2>4 DEF Verifying
    <2>6. Vouched'
      <3> SUFFICES ASSUME NEW a \in Att, uploaded_at'[a] = "set", objects'[a] # NoObject
                   PROVE  \E q \in Completions :
                             /\ compPc'[q] \in {"unstage", "done"}
                             /\ VerifiedBy(q, a, objects[a].bytes)' 
        BY <2>1, <2>2, <2>3 DEF Vouched, VerifiedBy
      <3>1. a # compAtt[p] /\ objects'[a] = objects[a]
        BY <2>1, <2>2, <2>3
      <3>2. PICK q \in Completions :
               compPc[q] \in {"unstage", "done"} /\ VerifiedBy(q, a, objects[a].bytes)
        BY <2>1, <3>1 DEF Vouched
      <3>3. q # p
        BY <2>1, <3>2
      <3> QED
        BY <2>1, <2>3, <3>1, <3>2, <3>3 DEF VerifiedBy
    <2> QED
      BY <2>5, <2>6
  <1>3. ASSUME NEW p \in Completions, CompleteCommit(p)
        PROVE  Verifying' /\ Vouched'
    <2>1. /\ compPc[p] = "commit" /\ compPc' = [compPc EXCEPT ![p] = "unstage"]
          /\ uploaded_at' = [uploaded_at EXCEPT ![compAtt[p]] = "set"]
          /\ UNCHANGED <<objects, compAtt, etag, scanned>>
      BY <1>3 DEF CompleteCommit
    <2>2. compAtt[p] \in Att /\ objects[compAtt[p]].bytes \in RightSize
      BY <1>0, <2>1 DEF CompletionsCoherent, Working
    <2>3. VerifiedBy(p, compAtt[p], objects[compAtt[p]].bytes)
      BY <2>1, <2>2 DEF Verifying, VerifiedBy
    <2>4. compPc'[p] = "unstage" /\ \A q \in Completions : q # p => compPc'[q] = compPc[q]
      BY <1>0, <2>1 DEF TypeOK
    <2>5. \A a \in Att : a # compAtt[p] => uploaded_at'[a] = uploaded_at[a]
      BY <1>0, <2>1 DEF TypeOK
    <2>6. Verifying'
      BY <2>1, <2>4 DEF Verifying
    <2>7. Vouched'
      BY <2>1, <2>3, <2>4, <2>5 DEF Vouched, VerifiedBy
    <2> QED
      BY <2>6, <2>7
  <1>4. ASSUME NEW p \in Completions, CompleteScan(p), ScanPasses(compAtt[p])
        PROVE  Verifying' /\ Vouched'
    <2>1. /\ compPc[p] = "scan" /\ compPc' = [compPc EXCEPT ![p] = "copy"]
          /\ scanned' = [scanned EXCEPT ![p] = ScannedContent(compAtt[p])]
          /\ UNCHANGED <<uploaded_at, objects, compAtt, etag>>
      BY <1>4 DEF CompleteScan
    <2>2. ScanMode = "clamav" => ScannedContent(compAtt[p]) \in Contents \ Infected
      BY <1>4 DEF ScanPasses, ScannedContent
    <2>3. /\ compPc'[p] = "copy" /\ scanned'[p] = ScannedContent(compAtt[p])
          /\ \A q \in Completions : q # p =>
                compPc'[q] = compPc[q] /\ scanned'[q] = scanned[q]
      BY <1>0, <2>1 DEF TypeOK
    <2>4. Verifying'
      BY <2>1, <2>2, <2>3 DEF Verifying
    <2>5. Vouched'
      <3>1. \A q \in Completions : compPc[q] \in {"unstage", "done"} =>
               compPc'[q] = compPc[q] /\ scanned'[q] = scanned[q]
        BY <2>1, <2>3
      <3> QED
        BY <2>1, <3>1 DEF Vouched, VerifiedBy
    <2> QED
      BY <2>4, <2>5
  <1>5. ASSUME NEW p \in Completions,
               CompleteStarts(p) \/ CompleteStep(p) \/ CompleteAbort(p)
        PROVE  Verifying' /\ Vouched'
    <2>1. CASE /\ ~(CompleteCopy(p) /\ StillStaged(p)) /\ ~CompleteCommit(p)
               /\ ~(CompleteScan(p) /\ ScanPasses(compAtt[p]))
      <3>1. UNCHANGED <<uploaded_at, objects>>
        BY <1>5, <2>1 DEF CompleteStarts, CompleteBegin, CompleteRepeats, CompleteStep, CompleteStat,
           CompleteScan, CompleteCopy, CompleteUnstage, CompleteAbort
      <3>2. /\ compPc'[p] \notin {"copy", "commit"}
            /\ compPc[p] \notin {"unstage", "done"} \/ compPc[p] = "unstage"
            /\ compPc[p] = "unstage" =>
                  /\ compPc'[p] = "done" /\ UNCHANGED <<compAtt, etag, scanned>>
            /\ \A q \in Completions : q # p =>
                  /\ compPc'[q] = compPc[q] /\ compAtt'[q] = compAtt[q]
                  /\ etag'[q] = etag[q] /\ scanned'[q] = scanned[q]
        BY <1>0, <1>5, <2>1 DEF TypeOK, CompleteStarts, CompleteBegin, CompleteRepeats, CompleteStep,
           CompleteStat, CompleteScan, CompleteCopy, CompleteUnstage, CompleteAbort, CompleteEnds
      <3>3. Verifying'
        BY <3>1, <3>2 DEF Verifying
      <3>4. Vouched'
        BY <3>1, <3>2 DEF Vouched, VerifiedBy
      <3> QED
        BY <3>3, <3>4
    <2> QED
      BY <1>2, <1>3, <1>4, <1>5, <2>1
  <1>6. ASSUME NEW s \in Sends, SendStarts(s) \/ SendStep(s) \/ SendAbort(s)
        PROVE  Verifying' /\ Vouched'
    BY <1>1, <1>6 DEF SendStarts, SendBegin, SendStep, SendLock, SendCommit, SendReject, SendAbort
  <1>7. ASSUME NEW c \in Cleaners, CleanerStep(c) \/ CleanerFault(c)
        PROVE  Verifying' /\ Vouched'
    <2>1. UNCHANGED <<uploaded_at, compVars>>
      BY <1>7 DEF CleanerStep, CleanerAcquire, CleanerSelect, CleanerRemove, CleanerCommit,
         CleanerRelease, CleanerFault, CleanerRemoveFails, CleanerFails
    <2>2. ASSUME NEW a \in Att, objects'[a] # objects[a]
          PROVE  a \in batch[c] /\ objects'[a] = NoObject
      <3>1. SweepsCoherent
        BY DEF IInv
      <3> QED
        BY <1>0, <1>7, <2>2, <3>1 DEF TypeOK, CleanerStep, CleanerAcquire, CleanerSelect, CleanerRemove,
           CleanerCommit, CleanerRelease, CleanerFault, CleanerRemoveFails, CleanerFails, RemoveStored,
           NextInBatch, SweepsCoherent
    <2>3. \A a \in batch[c] : a \in Att => lock[a] = c
      BY <1>0 DEF LocksOwned
    <2> QED
      BY <1>1, <2>1, <2>2, <2>3
  <1>8. CASE Client \/ RedisLockExpires \/ Tick \/ UNCHANGED vars
    BY <1>1, <1>8 DEF Client, Reserve, Put, RedisLockExpires, Tick, vars
  <1> QED
    BY <1>5, <1>6, <1>7, <1>8 DEF Next

\* complete serves, from the delivery key, only content whose size its stat
\* verified, promoted by a completion whose scan passed.
THEOREM VerifiedContent == Spec => []ServedContentVerified
  <1>1. Init => Verifying /\ Vouched
    BY DEF Init, Verifying, Vouched
  <1>2. IInv /\ Vouched => ServedContentVerified
    BY DEF IInv, Vouched, ServedContentVerified, Downloadable, RowsCoherent
  <1>3. IInv /\ IInv' /\ Verifying /\ Vouched /\ [Next]_vars => Verifying' /\ Vouched'
    BY VerifyingStep
  <1> QED
    BY <1>1, <1>2, <1>3, Invariance, PTL DEF Spec

\* A message sent before its attachment could be swept is served for ever.
THEOREM PromptMessagesServed == Spec => []PromptBindingServed
  <1>1. IInv => PromptBindingServed
    BY DEF IInv
  <1> QED
    BY <1>1, Invariance, PTL

\* A swept key stays empty; rests on UploadExpire =< PendingTTL.
THEOREM SweptKeysStayEmpty == Spec => []CleanedStaysClean
  <1>1. IInv => CleanedStaysClean
    BY DEF IInv, CleanedStaysClean, GoneRows
  <1> QED
    BY <1>1, Invariance, PTL

\* Sweeps exclude each other and every other use of a row by row locks alone:
\* the Redis key does not occur in the invariant.
THEOREM ExclusiveSweeps == Spec => []SweepsDisjoint
  <1>1. ASSUME IInv, NEW c \in Cleaners, NEW a \in batch[c]
        PROVE  /\ a \in Att /\ lock[a] = c
               /\ status[a] = "live" /\ message_id[a] = Null
    BY <1>1 DEF IInv, TypeOK, LocksOwned, SweepsCoherent
  <1>2. ASSUME IInv, NEW c \in Cleaners, NEW a \in batch[c],
               NEW d \in Cleaners \ {c}
        PROVE  a \notin batch[d]
    BY <1>1, <1>2
  <1>3. ASSUME IInv, NEW c \in Cleaners, NEW a \in batch[c],
               NEW p \in Completions, compAtt[p] = a
        PROVE  compPc[p] \in {"unstage", "done"}
    <2>1. a \in Att /\ lock[a] # p
      BY <1>1, <1>3
    <2> QED
      BY <1>3, <2>1 DEF IInv, TypeOK, LocksOwned, CompletionsCoherent, Working
  <1>4. IInv => SweepsDisjoint
    BY <1>1, <1>2, <1>3 DEF SweepsDisjoint
  <1> QED
    BY <1>4, Invariance, PTL

\* Once an attachment can be downloaded, no step of any actor changes what is
\* downloaded: no late PUT, repeated completion, other message or sweep.
THEOREM ImmutableDelivery == Spec => DeliveryImmutable
  <1>1. ASSUME IInv, [Next]_vars, NEW a \in Att, Downloadable(a)
        PROVE  UNCHANGED <<status[a], storage_key[a], message_id[a], scope[a],
                           objects[a]>>
    <2> USE DEF TypeOK, Downloadable
    <2>1. TypeOK /\ LocksOwned /\ CompletionsCoherent /\ SweepsCoherent
      BY <1>1 DEF IInv
    <2>2. ASSUME NEW c \in Cleaners PROVE a \notin batch[c]
      BY <1>1, <2>1 DEF SweepsCoherent
    <2>3. CASE Client
      BY <1>1, <2>1, <2>3 DEF Client, Reserve, Put
    <2>4. ASSUME NEW p \in Completions,
                 CompleteStarts(p) \/ CompleteStep(p) \/ CompleteAbort(p)
          PROVE  UNCHANGED <<status[a], storage_key[a], message_id[a], scope[a],
                             objects[a]>>
      <3>1. compPc[p] \in Working => compAtt[p] # a
        BY <1>1, <2>1 DEF CompletionsCoherent
      <3> QED
        BY <1>1, <2>1, <2>4, <3>1
        DEF CompleteStarts, CompleteBegin, CompleteRepeats, CompleteStep, CompleteStat,
            CompleteScan, CompleteCopy, CompleteCommit, CompleteUnstage, CompleteAbort,
            CompleteEnds, Working
    <2>5. ASSUME NEW s \in Sends, SendStarts(s) \/ SendStep(s) \/ SendAbort(s)
          PROVE  UNCHANGED <<status[a], storage_key[a], message_id[a], scope[a],
                             objects[a]>>
      BY <1>1, <2>1, <2>5
      DEF SendStarts, SendBegin, SendStep, SendLock, SendCommit, SendReject,
          SendAbort, Bindable
    <2>6. ASSUME NEW c \in Cleaners, CleanerStep(c) \/ CleanerFault(c)
          PROVE  UNCHANGED <<status[a], storage_key[a], message_id[a], scope[a],
                             objects[a]>>
      <3>1. a \notin todo[c] /\ a \notin deleted[c]
        BY <2>1, <2>2 DEF SweepsCoherent
      <3> QED
        BY <1>1, <2>1, <2>6, <3>1
        DEF CleanerStep, CleanerAcquire, CleanerSelect, CleanerRemove, CleanerCommit,
            CleanerRelease, CleanerFault, CleanerRemoveFails, CleanerFails,
            NextInBatch, RemoveStored, BatchEnds
    <2>7. CASE RedisLockExpires \/ Tick \/ UNCHANGED vars
      BY <2>7 DEF RedisLockExpires, Tick, vars
    <2> HIDE DEF TypeOK, Downloadable
    <2> QED
      BY <1>1, <2>3, <2>4, <2>5, <2>6, <2>7 DEF Next
  <1>2. IInv /\ [Next]_vars =>
          [\A a \in Att : Downloadable(a) =>
              /\ UNCHANGED <<status[a], storage_key[a], message_id[a], scope[a]>>
              /\ UNCHANGED objects[a]]_vars
    BY <1>1
  <1> QED
    BY <1>2, Invariance, PTL DEF Spec, DeliveryImmutable
-----------------------------------------------------------------------------
(* What is lost, and to whom.                                              *)

\* While no sweep has failed, the object of a finalised row is there, or the
\* transaction that removed it is about to delete the row.
Intact ==
    faults = 0 => \A a \in Att :
        status[a] = "live" /\ uploaded_at[a] = "set" =>
            \/ objects[a].bytes \in RightSize
            \/ \E c \in Cleaners : a \in deleted[c]

\* No step but a failing sweep separates the removal of an object from the
\* deletion of its row.
LEMMA IntactStep == IInv /\ Intact /\ [Next]_vars => Intact'
  <1> SUFFICES ASSUME IInv, Intact, [Next]_vars, faults' = 0 PROVE Intact'
    BY DEF Intact
  <1>0. TypeOK /\ LocksOwned /\ RowsCoherent /\ CompletionsCoherent /\ SweepsCoherent
    BY DEF IInv
  <1> USE <1>0 DEF TypeOK
  <1>1. CASE Client
    BY <1>1 DEF Client, Reserve, Put, RowsCoherent, Intact
  <1>2. ASSUME NEW p \in Completions, CompleteStarts(p) \/ CompleteStep(p) \/ CompleteAbort(p)
        PROVE  Intact'
    <2>1. CASE CompleteCopy(p)
      <3>1. \A a \in Att : uploaded_at[a] = "set" => objects'[a] = objects[a]
        BY <2>1 DEF CompleteCopy, CompletionsCoherent, Working
      <3> QED
        BY <2>1, <3>1 DEF CompleteCopy, Intact
    <2>2. CASE CompleteCommit(p)
      <3>1. objects[compAtt[p]].bytes \in RightSize
        BY <2>2 DEF CompleteCommit, CompletionsCoherent
      <3> QED
        BY <2>2, <3>1 DEF CompleteCommit, Intact
    <2>3. CASE ~CompleteCopy(p) /\ ~CompleteCommit(p)
      <3>1. UNCHANGED <<rowVars, objects, deleted, faults>>
        BY <1>2, <2>3 DEF CompleteStarts, CompleteBegin, CompleteRepeats, CompleteStep,
           CompleteStat, CompleteScan, CompleteUnstage, CompleteAbort
      <3> QED
        BY <3>1 DEF Intact
    <2> QED
      BY <2>1, <2>2, <2>3
  <1>3. ASSUME NEW s \in Sends, SendStarts(s) \/ SendStep(s) \/ SendAbort(s)
        PROVE  Intact'
    <2>1. UNCHANGED <<status, uploaded_at, objects, deleted, faults>>
      BY <1>3 DEF SendStarts, SendBegin, SendStep, SendLock, SendCommit, SendReject, SendAbort
    <2> QED
      BY <2>1 DEF Intact
  <1>4. ASSUME NEW c \in Cleaners, CleanerStep(c)
        PROVE  Intact'
    <2>1. CASE CleanerAcquire(c) \/ CleanerRelease(c) \/ \E chosen \in SUBSET Att : CleanerSelect(c, chosen)
      <3>1. UNCHANGED <<status, uploaded_at, objects, deleted, faults>>
        BY <2>1 DEF CleanerAcquire, CleanerRelease, CleanerSelect
      <3> QED
        BY <3>1 DEF Intact
    <2>2. ASSUME NEW a \in Att, CleanerRemove(c, a) PROVE Intact'
      <3>1. /\ \A b \in Att : b # a => objects'[b] = objects[b]
            /\ deleted' = [deleted EXCEPT ![c] = @ \cup {a}]
            /\ UNCHANGED <<rowVars, faults>>
        BY <2>2 DEF CleanerRemove, RemoveStored
      <3>2. a \in deleted'[c] /\ \A d \in Cleaners : deleted[d] \subseteq deleted'[d]
        BY <3>1
      <3> QED
        BY <3>1, <3>2 DEF Intact
    <2>3. CASE CleanerCommit(c)
      <3>1. /\ \A a \in Att : status'[a] = IF a \in deleted[c] THEN "gone" ELSE status[a]
            /\ \A d \in Cleaners : d # c => deleted'[d] = deleted[d]
            /\ UNCHANGED <<uploaded_at, objects, faults>>
        BY <2>3 DEF CleanerCommit, BatchEnds
      <3> QED
        BY <3>1 DEF Intact
    <2> QED
      BY <1>4, <2>1, <2>2, <2>3 DEF CleanerStep
  <1>5. ASSUME NEW c \in Cleaners PROVE ~CleanerFault(c)
    BY DEF CleanerFault, CleanerRemoveFails, CleanerFails
  <1>6. CASE RedisLockExpires \/ Tick \/ UNCHANGED vars
    BY <1>6 DEF RedisLockExpires, Tick, vars, Intact
  <1> QED
    BY <1>1, <1>2, <1>3, <1>4, <1>5, <1>6 DEF Next

\* An attachment that a message shows and nobody can download was lost to a
\* sweep that failed half way (cleanup_abandoned); no race alone does it.
THEOREM NoLossWithoutFault == Spec => []LossNeedsFault
  <1>1. Init => Intact
    BY DEF Init, Intact
  <1>2. IInv /\ Intact => LossNeedsFault
    BY DEF IInv, TypeOK, SweepsCoherent, Intact, LossNeedsFault, BoundDownloadable, Downloadable
  <1> QED
    BY <1>1, <1>2, IntactStep, Invariance, PTL DEF Spec

\* Who wrote a delivery object: the completion that finalised the row, one that
\* is about to, or one that ended before it could.
Copied ==
    \A a \in Att : objects[a] # NoObject =>
        \/ uploaded_at[a] = "set"
        \/ \E p \in Completions : compAtt[p] = a /\ compPc[p] \in {"commit", "done"}

\* Completions come to an end, and only one that copies adds an object.
LEMMA CopiedStep == IInv /\ Copied /\ [Next]_vars => Copied'
  <1> SUFFICES ASSUME IInv, Copied, [Next]_vars PROVE Copied'
    OBVIOUS
  <1>0. TypeOK /\ CompletionsCoherent
    BY DEF IInv
  <1> USE <1>0 DEF TypeOK
  <1>1. ASSUME UNCHANGED <<uploaded_at, compVars>>,
               \A a \in Att : objects'[a] \in {objects[a], NoObject}
        PROVE  Copied'
    BY <1>1 DEF Copied
  <1>2. ASSUME NEW p \in Completions, CompleteStarts(p) \/ CompleteStep(p) \/ CompleteAbort(p)
        PROVE  Copied'
    <2>1. CASE CompleteCopy(p) /\ StillStaged(p)
      <3>1. /\ compPc[p] = "copy" /\ compPc' = [compPc EXCEPT ![p] = "commit"]
            /\ objects' = [objects EXCEPT ![compAtt[p]] = staging[compAtt[p]]]
            /\ UNCHANGED <<uploaded_at, compAtt>>
        BY <2>1 DEF CompleteCopy
      <3>2. compPc'[p] = "commit" /\ \A q \in Completions : q # p => compPc'[q] = compPc[q]
        BY <3>1
      <3>3. \A a \in Att : a # compAtt[p] => objects'[a] = objects[a]
        BY <3>1
      <3> QED
        BY <3>1, <3>2, <3>3 DEF Copied
    <2>2. CASE CompleteCommit(p)
      <3>1. /\ compPc[p] = "commit" /\ compPc' = [compPc EXCEPT ![p] = "unstage"]
            /\ uploaded_at' = [uploaded_at EXCEPT ![compAtt[p]] = "set"]
            /\ UNCHANGED <<objects, compAtt>>
        BY <2>2 DEF CompleteCommit
      <3>2. compAtt[p] \in Att
        BY <3>1 DEF CompletionsCoherent, Working
      <3>3. /\ \A q \in Completions : q # p => compPc'[q] = compPc[q]
            /\ \A a \in Att : uploaded_at[a] = "set" \/ a = compAtt[p] => uploaded_at'[a] = "set"
        BY <3>1, <3>2
      <3> QED
        BY <3>1, <3>2, <3>3 DEF Copied
    <2>3. CASE ~(CompleteCopy(p) /\ StillStaged(p)) /\ ~CompleteCommit(p)
      <3>1. UNCHANGED <<uploaded_at, objects>>
        BY <1>2, <2>3 DEF CompleteStarts, CompleteBegin, CompleteRepeats, CompleteStep, CompleteStat,
           CompleteScan, CompleteCopy, CompleteUnstage, CompleteAbort
      <3>2. ASSUME NEW q \in Completions, compPc[q] \in {"commit", "done"}
            PROVE  compAtt'[q] = compAtt[q] /\ compPc'[q] \in {"commit", "done"}
        BY <1>2, <2>3, <3>2 DEF CompleteStarts, CompleteBegin, CompleteRepeats, CompleteStep,
           CompleteStat, CompleteScan, CompleteCopy, CompleteUnstage, CompleteAbort, CompleteEnds
      <3> QED
        BY <3>1, <3>2 DEF Copied
    <2> QED
      BY <2>1, <2>2, <2>3
  <1>3. ASSUME NEW s \in Sends, SendStarts(s) \/ SendStep(s) \/ SendAbort(s) PROVE Copied'
    BY <1>1, <1>3 DEF SendStarts, SendBegin, SendStep, SendLock, SendCommit, SendReject, SendAbort
  <1>4. ASSUME NEW c \in Cleaners, CleanerStep(c) \/ CleanerFault(c) PROVE Copied'
    <2>1. UNCHANGED <<uploaded_at, compVars>> /\ \A a \in Att : objects'[a] \in {objects[a], NoObject}
      BY <1>4 DEF CleanerStep, CleanerAcquire, CleanerSelect, CleanerRemove, CleanerCommit,
         CleanerRelease, CleanerFault, CleanerRemoveFails, CleanerFails, RemoveStored
    <2> QED
      BY <1>1, <2>1
  <1>5. CASE Client \/ RedisLockExpires \/ Tick \/ UNCHANGED vars
    BY <1>1, <1>5 DEF Client, Reserve, Put, RedisLockExpires, Tick, vars
  <1> QED
    BY <1>2, <1>3, <1>4, <1>5 DEF Next

\* What a deleted row leaves in MinIO is a staged object of a finalised row or
\* the copy of a completion that never committed (complete, cleanup_abandoned);
\* nothing else is ever left behind.
THEOREM OnlyKnownLeftovers == Spec => []LeftoversExplained
  <1>1. Init => Copied
    BY DEF Init, Copied
  <1>2. IInv /\ Copied => LeftoversExplained
    <2> SUFFICES ASSUME IInv, Copied, NEW a \in Att, status[a] = "gone"
                 PROVE  /\ staging[a] # NoObject => uploaded_at[a] = "set"
                        /\ objects[a] # NoObject =>
                              /\ uploaded_at[a] = "null"
                              /\ \E p \in Completions : compAtt[p] = a /\ compPc[p] = "done"
      BY DEF LeftoversExplained
    <2>1. TypeOK /\ GoneRows /\ RowsCoherent /\ CompletionsCoherent
      BY DEF IInv
    <2>2. Stored(a) = NoObject /\ (uploaded_at[a] = "set" <=> storage_key[a] = "objects")
      BY <2>1 DEF GoneRows, RowsCoherent
    <2>3. storage_key[a] \in {"pending", "objects"} /\ uploaded_at[a] \in {"null", "set"}
      BY <2>1 DEF TypeOK
    <2>4. \A p \in Completions : compAtt[p] = a => compPc[p] # "commit"
      BY <2>1 DEF CompletionsCoherent, Working
    <2> QED
      BY <2>2, <2>3, <2>4 DEF Stored, Copied
  <1> QED
    BY <1>1, <1>2, CopiedStep, Invariance, PTL DEF Spec

-----------------------------------------------------------------------------
(* The life of an attachment.                                              *)

Good == {o \in Objects : o.bytes \in RightSize}

\* A step that leaves rows, objects and messages alone is none of AttachmentLife.
LEMMA LifeStutters ==
  ASSUME UNCHANGED <<status, message_id, uploaded_at, objects, messages>>
  PROVE  UNCHANGED Life!vars
  BY DEF Life!vars, phases, Phase

\* The phases of all attachments, when those in S change theirs.
LEMMA PhasesMove ==
  ASSUME NEW S \in SUBSET Att, NEW to,
         \A a \in Att : Phase(a)' = IF a \in S THEN to ELSE Phase(a)
  PROVE  Life!Moves(S, to)
  BY DEF Life!Moves, phases

\* The client reserves; its PUT reaches the staging key only.
LEMMA ClientLives ==
  ASSUME IInv, Client
  PROVE  [Life!Next]_(Life!vars)
  <1>0. TypeOK /\ RowsCoherent
    BY DEF IInv
  <1>1. ASSUME NEW a \in Att, NEW sc \in Scopes, Reserve(a, sc) PROVE Life!Reserve(a)
    <2>1. /\ status[a] = "free" /\ status' = [status EXCEPT ![a] = "live"]
          /\ UNCHANGED <<uploaded_at, message_id, objects, messages>>
      BY <1>1 DEF Reserve
    <2>2. phases[a] = "none"
      BY <2>1 DEF phases, Phase
    <2>3. message_id[a] = Null /\ uploaded_at[a] = "null"
      BY <1>0, <2>1 DEF RowsCoherent
    <2>4. \A b \in Att : Phase(b)' = IF b \in {a} THEN "reserved" ELSE Phase(b)
      BY <1>0, <2>1, <2>3 DEF Phase, TypeOK
    <2>5. Life!Moves({a}, "reserved")
      BY <2>4, PhasesMove
    <2> QED
      BY <2>1, <2>2, <2>5 DEF Life!Reserve
  <1>2. ASSUME NEW a \in Att, NEW o \in Objects, Put(a, o) PROVE UNCHANGED Life!vars
    BY <1>2, LifeStutters DEF Put
  <1> QED
    BY <1>1, <1>2 DEF Client, Life!Next

\* A completion writes the delivery object and then finalises the row.
LEMMA CompletionLives ==
  ASSUME IInv, NEW p \in Completions, CompleteStarts(p) \/ CompleteStep(p) \/ CompleteAbort(p)
  PROVE  [Life!Next]_(Life!vars)
  <1>0. TypeOK /\ RowsCoherent /\ CompletionsCoherent
    BY DEF IInv
  <1> DEFINE a == compAtt[p]
  <1>1. compPc[p] \in Working => a \in Att /\ phases[a] = "reserved"
    BY <1>0 DEF CompletionsCoherent, RowsCoherent, phases, Phase
  <1>2. CASE CompleteCopy(p) /\ StillStaged(p)
    <2>1. /\ compPc[p] = "copy" /\ staging[a].bytes = etag[p]
          /\ objects' = [objects EXCEPT ![a] = staging[a]]
          /\ UNCHANGED <<status, message_id, uploaded_at, messages>>
      BY <1>2 DEF CompleteCopy, StillStaged
    <2>2. a \in Att /\ phases[a] = "reserved" /\ etag[p] \in RightSize
      BY <1>0, <1>1, <2>1 DEF CompletionsCoherent, Working
    <2>3. staging[a] \in Good
      <3>1. staging[a] \in Objects \cup {NoObject}
        BY <1>0, <2>2 DEF TypeOK
      <3>2. staging[a] # NoObject
        BY <2>1, <2>2 DEF NoObject
      <3> QED
        BY <2>1, <2>2, <3>1, <3>2 DEF Good
    <2>4. UNCHANGED phases
      BY <2>1 DEF phases, Phase
    <2>5. Life!Write(a)
      BY <2>1, <2>2, <2>3, <2>4 DEF Life!Write, Good
    <2> QED
      BY <2>2, <2>5 DEF Life!Next
  <1>3. CASE CompleteCommit(p)
    <2>1. /\ compPc[p] = "commit" /\ uploaded_at' = [uploaded_at EXCEPT ![a] = "set"]
          /\ UNCHANGED <<status, message_id, objects, messages>>
      BY <1>3 DEF CompleteCommit
    <2>2. /\ a \in Att /\ phases[a] = "reserved" /\ objects[a].bytes \in RightSize
          /\ status[a] = "live" /\ message_id[a] = Null
      BY <1>0, <1>1, <2>1 DEF CompletionsCoherent, RowsCoherent, Working
    <2>3. objects[a] \in Good
      <3>1. objects[a] \in Objects \cup {NoObject}
        BY <1>0, <2>2 DEF TypeOK
      <3>2. objects[a] # NoObject
        BY <2>2 DEF NoObject
      <3> QED
        BY <2>2, <3>1, <3>2 DEF Good
    <2>4. \A b \in Att : Phase(b)' = IF b \in {a} THEN "final" ELSE Phase(b)
      BY <1>0, <2>1, <2>2 DEF Phase, TypeOK
    <2>5. Life!Moves({a}, "final")
      BY <2>2, <2>4, PhasesMove
    <2>6. Life!Finalise(a)
      BY <2>1, <2>2, <2>3, <2>5 DEF Life!Finalise, Good
    <2> QED
      BY <2>2, <2>6 DEF Life!Next
  <1>4. CASE ~(CompleteCopy(p) /\ StillStaged(p)) /\ ~CompleteCommit(p)
    <2>1. UNCHANGED <<status, message_id, uploaded_at, objects, messages>>
      BY <1>4 DEF CompleteStarts, CompleteBegin, CompleteRepeats, CompleteStep, CompleteStat,
         CompleteScan, CompleteCopy, CompleteUnstage, CompleteAbort
    <2> QED
      BY <2>1, LifeStutters
  <1> QED
    BY <1>2, <1>3, <1>4

\* A send binds everything its message names, in its COMMIT.
LEMMA SendLives ==
  ASSUME IInv, NEW s \in Sends, SendStarts(s) \/ SendStep(s) \/ SendAbort(s)
  PROVE  [Life!Next]_(Life!vars)
  <1>0. TypeOK /\ SendsCoherent
    BY DEF IInv
  <1>1. CASE SendCommit(s)
    <2>1. /\ sendPc[s] = "locking" /\ \A a \in want[s] : Bindable(a, sender[s])
          /\ messages' = [messages EXCEPT ![s] = want[s]]
          /\ message_id' = [a \in Att |-> IF a \in want[s] THEN s ELSE message_id[a]]
          /\ UNCHANGED <<status, uploaded_at, objects>>
      BY <1>1 DEF SendCommit
    <2>2. want[s] \in SUBSET Att /\ messages[s] = {} /\ s # Null
      BY <1>0, <2>1 DEF TypeOK, SendsCoherent
    <2>3. \A a \in want[s] : phases[a] = "final"
      BY <2>1, <2>2 DEF Bindable, phases, Phase
    <2>4. \A a \in Att : Phase(a)' = IF a \in want[s] THEN "bound" ELSE Phase(a)
      BY <2>1, <2>2 DEF Bindable, Phase
    <2>5. Life!Moves(want[s], "bound")
      BY <2>2, <2>4, PhasesMove
    <2>6. Life!Bind(s, want[s])
      BY <2>1, <2>2, <2>3, <2>5 DEF Life!Bind
    <2> QED
      BY <2>2, <2>6 DEF Life!Next
  <1>2. CASE ~SendCommit(s)
    <2>1. UNCHANGED <<status, message_id, uploaded_at, objects, messages>>
      BY <1>2 DEF SendStarts, SendBegin, SendStep, SendLock, SendReject, SendAbort
    <2> QED
      BY <2>1, LifeStutters
  <1> QED
    BY <1>1, <1>2

\* A sweep removes the objects of the rows it holds, whether the call is seen to
\* succeed or not, and deletes only what it has removed.
LEMMA SweepLives ==
  ASSUME IInv, NEW c \in Cleaners, CleanerStep(c) \/ CleanerFault(c)
  PROVE  [Life!Next]_(Life!vars)
  <1>0. TypeOK /\ SweepsCoherent /\ RowsCoherent
    BY DEF IInv
  <1>1. ASSUME NEW a \in Att, NextInBatch(c, a), RemoveStored(a) \/ UNCHANGED storeVars,
               UNCHANGED <<rowVars, messages>>
        PROVE  [Life!Next]_(Life!vars)
    <2>1. status[a] = "live" /\ message_id[a] = Null
      BY <1>0, <1>1 DEF NextInBatch, SweepsCoherent
    <2>2. CASE storage_key[a] = "objects" /\ RemoveStored(a)
      <3>1. objects' = [objects EXCEPT ![a] = NoObject]
        BY <2>2 DEF RemoveStored
      <3>2. phases[a] = "final" /\ UNCHANGED phases
        BY <1>0, <1>1, <2>1, <2>2 DEF phases, Phase, RowsCoherent
      <3>3. Life!Remove(a)
        BY <1>1, <3>1, <3>2 DEF Life!Remove
      <3> QED
        BY <3>3 DEF Life!Next
    <2>3. CASE ~(storage_key[a] = "objects" /\ RemoveStored(a))
      <3>1. UNCHANGED objects
        BY <1>1, <2>3 DEF RemoveStored
      <3> QED
        BY <1>1, <3>1, LifeStutters
    <2> QED
      BY <2>2, <2>3
  <1>2. ASSUME NEW a \in Att, CleanerRemove(c, a) \/ CleanerRemoveFails(c, a)
        PROVE  [Life!Next]_(Life!vars)
    <2>1. /\ NextInBatch(c, a) /\ (RemoveStored(a) \/ UNCHANGED storeVars)
          /\ UNCHANGED <<rowVars, messages>>
      BY <1>2 DEF CleanerRemove, CleanerRemoveFails
    <2> QED
      BY <1>1, <2>1
  <1>3. CASE CleanerCommit(c)
    <2>1. /\ status' = [a \in Att |-> IF a \in deleted[c] THEN "gone" ELSE status[a]]
          /\ UNCHANGED <<uploaded_at, message_id, objects, messages>>
      BY <1>3 DEF CleanerCommit
    <2>2. deleted[c] \in SUBSET Att
      BY <1>0 DEF TypeOK
    <2>3. \A a \in deleted[c] : status[a] = "live" /\ message_id[a] = Null /\ Stored(a) = NoObject
      BY <1>0 DEF SweepsCoherent
    <2>4. ASSUME NEW a \in deleted[c]
          PROVE  phases[a] = "reserved" \/ (phases[a] = "final" /\ objects[a] = NoObject)
      <3>1. a \in Att /\ phases[a] = IF uploaded_at[a] = "set" THEN "final" ELSE "reserved"
        BY <2>2, <2>3 DEF phases, Phase
      <3>2. uploaded_at[a] = "set" => objects[a] = NoObject
        BY <1>0, <2>3, <3>1 DEF Stored, RowsCoherent
      <3> QED
        BY <3>1, <3>2
    <2>5. \A a \in Att : Phase(a)' = IF a \in deleted[c] THEN "deleted" ELSE Phase(a)
      BY <2>1 DEF Phase
    <2>6. Life!Moves(deleted[c], "deleted")
      BY <2>2, <2>5, PhasesMove
    <2>7. Life!Delete(deleted[c])
      BY <2>1, <2>4, <2>6 DEF Life!Delete
    <2> QED
      BY <2>2, <2>7 DEF Life!Next
  <1>4. ASSUME CleanerAcquire(c) \/ CleanerRelease(c) \/ (\E chosen \in SUBSET Att : CleanerSelect(c, chosen))
               \/ (\E pc \in {"idle", "release"} : CleanerFails(c, pc))
        PROVE  [Life!Next]_(Life!vars)
    <2>1. UNCHANGED <<status, message_id, uploaded_at, objects, messages>>
      BY <1>4 DEF CleanerAcquire, CleanerRelease, CleanerSelect, CleanerFails
    <2> QED
      BY <2>1, LifeStutters
  <1> QED
    BY <1>2, <1>3, <1>4 DEF CleanerStep, CleanerFault

\* Requests, sweeps, faults and clocks implement AttachmentLife: reserve,
\* complete, create and cleanup_abandoned, step by step and in every
\* interleaving, are the steps of one life or change nothing in it.
THEOREM Implementation == Spec => OneLife
  <1>1. Init => Life!Init
    BY DEF Init, Life!Init, phases, Phase
  <1>2. IInv /\ [Next]_vars => [Life!Next]_(Life!vars)
    <2> SUFFICES ASSUME IInv, [Next]_vars PROVE [Life!Next]_(Life!vars)
      OBVIOUS
    <2>1. CASE RedisLockExpires \/ Tick \/ UNCHANGED vars
      <3>1. UNCHANGED <<status, message_id, uploaded_at, objects, messages>>
        BY <2>1 DEF RedisLockExpires, Tick, vars
      <3> QED
        BY <3>1, LifeStutters
    <2> QED
      BY <2>1, ClientLives, CompletionLives, SendLives, SweepLives DEF Next
  <1> QED
    BY <1>1, <1>2, Invariance, PTL DEF Spec, OneLife, Life!Spec
=============================================================================
