---------------------------- MODULE RecoveryProofs ----------------------------
(***************************************************************************)
(* Proofs about Recovery, for any number of messages and of recoveries at  *)
(* once and any sizes of pages.                                            *)
(*                                                                         *)
(* Everything rests on what a page is: the rows up to its last one, with   *)
(* none left out, as many as the limit allows.                             *)
(***************************************************************************)
EXTENDS Recovery, TLAPS, FiniteSetTheorems, WellFoundedInduction

USE ConstantAssumption
USE DEF socketVars, historyVars, None

-----------------------------------------------------------------------------
(* Pages.                                                                  *)

LEMMA LeastNumber ==
  ASSUME NEW T \in SUBSET Nat, T # {}
  PROVE  \E x \in T : \A y \in T : x <= y
  <1> DEFINE Less == OpToRel(<, Nat)
  <1>1. IsWellFoundedOn(Less, Nat)
    BY NatLessThanWellFounded
  <1>2. PICK x \in T : \A y \in T : ~(<<y, x>> \in Less)
    <2> HIDE DEF Less
    <2> QED
      BY <1>1, WFMin
  <1>3. \A y \in T : ~(y < x)
    BY <1>2 DEF OpToRel
  <1> QED
    BY <1>3

\* A set of rows is finite, and so are its parts.
LEMMA RowsFinite ==
  ASSUME NEW S \in SUBSET Message, NEW T \in SUBSET S
  PROVE  /\ IsFiniteSet(T) /\ Cardinality(T) \in Nat
         /\ Cardinality(T) <= Cardinality(S)
         /\ Cardinality(S) = Cardinality(T) => S = T
         /\ S \subseteq Nat
  <1>1. IsFiniteSet(S)
    BY FS_Subset
  <1> QED
    BY <1>1, FS_Subset, FS_CardinalityType

LEMMA HasOldest ==
  ASSUME NEW S \in SUBSET Message, S # {}
  PROVE  Oldest(S) \in S /\ \A k \in S : Oldest(S) <= k
  <1>1. \E m \in S : \A k \in S : m <= k
    BY LeastNumber
  <1> QED
    BY <1>1 DEF Oldest

\* The row with the fewest rows after it has none.
LEMMA HasNewest ==
  ASSUME NEW S \in SUBSET Message, S # {}
  PROVE  Newest(S) \in S /\ \A k \in S : k <= Newest(S)
  <1>0. S \subseteq Nat
    OBVIOUS
  <1> DEFINE After(m) == {k \in S : k > m}
  <1> DEFINE sizes == {Cardinality(After(m)) : m \in S}
  <1>1. \A m \in S : Cardinality(After(m)) \in Nat
    BY RowsFinite
  <1>2. PICK m \in S : \A k \in S : Cardinality(After(m)) <= Cardinality(After(k))
    <2>1. sizes \in SUBSET Nat /\ sizes # {}
      BY <1>1
    <2>2. PICK x \in sizes : \A y \in sizes : x <= y
      <3> HIDE DEF sizes
      <3> QED
        BY <2>1, LeastNumber
    <2> QED
      BY <2>2
  <1>3. \A k \in S : k <= m
    <2> SUFFICES ASSUME NEW k \in S, k > m PROVE FALSE
      BY <1>0
    <2>0. k \in Nat /\ m \in Nat
      BY <1>0
    <2>1. After(k) \subseteq After(m) /\ k \in After(m) /\ k \notin After(k)
      <3>1. \A j \in S : j > k => j > m
        BY <1>0, <2>0
      <3>2. ~(k > k)
        BY <2>0
      <3> QED
        BY <3>1, <3>2, Zenon
    <2>2. Cardinality(After(k)) <= Cardinality(After(m)) /\ Cardinality(After(k)) # Cardinality(After(m))
      <3>1. After(m) \in SUBSET Message /\ After(k) \in SUBSET After(m)
        BY <2>1
      <3> HIDE DEF After
      <3> QED
        BY <2>1, <3>1, RowsFinite
    <2> QED
      BY <1>1, <1>2, <2>2
  <1> QED
    BY <1>3 DEF Newest

\* The first rows leave none out before the last of them.
LEMMA FirstRowsClosed ==
  ASSUME NEW S \in SUBSET Message, NEW n \in Nat,
         NEW m \in FirstRows(S, n), NEW k \in S, k < m
  PROVE  k \in FirstRows(S, n)
  <1> DEFINE Before(j) == {i \in S : i < j}
  <1>1. m \in S /\ Cardinality(Before(m)) < n
    BY DEF FirstRows
  <1>2. S \subseteq Nat /\ m \in Nat /\ k \in Nat
    BY <1>1, RowsFinite
  <1>3. Before(k) \in SUBSET Before(m) /\ Before(m) \in SUBSET Message
    <2>1. \A i \in S : i < k => i < m
      BY <1>2
    <2> QED
      BY <2>1, Zenon
  <1>4. Cardinality(Before(k)) <= Cardinality(Before(m))
    <2> HIDE DEF Before
    <2> QED
      BY <1>3, RowsFinite
  <1>5. Cardinality(Before(k)) \in Nat /\ Cardinality(Before(m)) \in Nat
    <2>1. Before(k) \in SUBSET S /\ Before(m) \in SUBSET S
      OBVIOUS
    <2> HIDE DEF Before
    <2> QED
      BY <2>1, RowsFinite
  <1>6. Cardinality(Before(k)) < n
    BY <1>1, <1>4, <1>5
  <1> QED
    BY <1>6 DEF FirstRows

\* They are all rows if the limit allows as many.
LEMMA FirstRowsAll ==
  ASSUME NEW S \in SUBSET Message, NEW n \in Nat, Cardinality(S) <= n
  PROVE  FirstRows(S, n) = S
  <1> SUFFICES ASSUME NEW m \in S PROVE Cardinality({i \in S : i < m}) < n
    BY DEF FirstRows
  <1> DEFINE before == {i \in S : i < m}
  <1>1. m \in Nat
    BY RowsFinite
  <1>2. before \in SUBSET S /\ m \notin before
    BY <1>1
  <1> HIDE DEF before
  <1>3. /\ Cardinality(before) <= Cardinality(S) /\ Cardinality(before) # Cardinality(S)
        /\ Cardinality(before) \in Nat /\ Cardinality(S) \in Nat
    BY <1>2, RowsFinite
  <1>4. Cardinality(before) < n
    BY <1>3
  <1> QED
    BY <1>4 DEF before

\* If there are more, they are as many as the limit allows: what lies before
\* the oldest row left out.
LEMMA FirstRowsFull ==
  ASSUME NEW S \in SUBSET Message, NEW n \in Nat \ {0}, Cardinality(S) > n
  PROVE  FirstRows(S, n) # {} /\ Cardinality(FirstRows(S, n)) >= n
  <1> DEFINE first == FirstRows(S, n)
  <1>0. first \in SUBSET S /\ S \subseteq Nat
    BY RowsFinite DEF FirstRows
  <1>1. Cardinality(first) \in Nat /\ Cardinality(S) \in Nat
    <2> HIDE DEF first
    <2> QED
      BY <1>0, RowsFinite
  <1>2. CASE S \ first = {}
    <2>1. first = S
      BY <1>0, <1>2
    <2> QED
      BY <1>1, <2>1, FS_EmptySet
  <1>3. CASE S \ first # {}
    <2> DEFINE rest == S \ first
    <2> DEFINE x == Oldest(rest)
    <2> DEFINE before == {i \in S : i < x}
    <2>1. x \in rest /\ \A k \in rest : x <= k
      <3>1. rest \in SUBSET Message
        OBVIOUS
      <3> HIDE DEF rest
      <3> QED
        BY <1>3, <3>1, HasOldest DEF rest
    <2> HIDE DEF x
    <2>2. x \in S /\ x \in Nat
      BY <1>0, <2>1
    <2>3. before \in SUBSET first
      <3> SUFFICES ASSUME NEW i \in S, i < x, i \in rest PROVE FALSE
        OBVIOUS
      <3> QED
        BY <1>0, <2>1, <2>2
    <2>4. ~(Cardinality(before) < n)
      BY <2>1, <2>2 DEF FirstRows
    <2>5. first \in SUBSET Message
      BY <1>0
    <2> HIDE DEF before, first, rest
    <2>6. Cardinality(before) <= Cardinality(first) /\ Cardinality(before) \in Nat
      BY <2>3, <2>5, RowsFinite
    <2>7. Cardinality(first) >= n
      BY <1>1, <2>4, <2>6
    <2>8. first # {}
      BY <2>7, FS_EmptySet
    <2> QED
      BY <2>7, <2>8 DEF first
  <1> QED
    BY <1>2, <1>3

\* The same of the last rows, from the other end.
LEMMA LastRowsClosed ==
  ASSUME NEW S \in SUBSET Message, NEW n \in Nat,
         NEW m \in LastRows(S, n), NEW k \in S, k > m
  PROVE  k \in LastRows(S, n)
  <1> DEFINE After(j) == {i \in S : i > j}
  <1>1. m \in S /\ Cardinality(After(m)) < n
    BY DEF LastRows
  <1>2. S \subseteq Nat /\ m \in Nat /\ k \in Nat
    BY <1>1, RowsFinite
  <1>3. After(k) \in SUBSET After(m) /\ After(m) \in SUBSET Message
    <2>1. \A i \in S : i > k => i > m
      BY <1>2
    <2> QED
      BY <2>1, Zenon
  <1>4. Cardinality(After(k)) <= Cardinality(After(m))
    <2> HIDE DEF After
    <2> QED
      BY <1>3, RowsFinite
  <1>5. Cardinality(After(k)) \in Nat /\ Cardinality(After(m)) \in Nat
    <2>1. After(k) \in SUBSET S /\ After(m) \in SUBSET S
      OBVIOUS
    <2> HIDE DEF After
    <2> QED
      BY <2>1, RowsFinite
  <1>6. Cardinality(After(k)) < n
    BY <1>1, <1>4, <1>5
  <1> QED
    BY <1>6 DEF LastRows

LEMMA LastRowsAll ==
  ASSUME NEW S \in SUBSET Message, NEW n \in Nat, Cardinality(S) <= n
  PROVE  LastRows(S, n) = S
  <1> SUFFICES ASSUME NEW m \in S PROVE Cardinality({i \in S : i > m}) < n
    BY DEF LastRows
  <1> DEFINE after == {i \in S : i > m}
  <1>1. m \in Nat
    BY RowsFinite
  <1>2. after \in SUBSET S /\ m \notin after
    BY <1>1
  <1> HIDE DEF after
  <1>3. /\ Cardinality(after) <= Cardinality(S) /\ Cardinality(after) # Cardinality(S)
        /\ Cardinality(after) \in Nat /\ Cardinality(S) \in Nat
    BY <1>2, RowsFinite
  <1>4. Cardinality(after) < n
    BY <1>3
  <1> QED
    BY <1>4 DEF after

\* The newest row is among them.
LEMMA LastRowsSome ==
  ASSUME NEW S \in SUBSET Message, NEW n \in Nat \ {0}, S # {}
  PROVE  LastRows(S, n) # {}
  <1>1. PICK x \in S : \A k \in S : k <= x
    BY HasNewest
  <1>2. {i \in S : i > x} = {}
    <2>1. S \subseteq Nat
      BY RowsFinite
    <2>2. \A i \in S : ~(i > x)
      BY <1>1, <2>1
    <2> QED
      BY <2>2, Zenon
  <1>3. Cardinality({i \in S : i > x}) < n
    BY <1>2, FS_EmptySet
  <1> QED
    BY <1>3 DEF LastRows

-----------------------------------------------------------------------------
(* The pages of the two queries.                                           *)

\* A page of recovery: complete up to its next cursor, full if there is one,
\* and without one the last.
LEMMA PageAfterIs ==
  ASSUME rows \in SUBSET Message, NEW c \in Nat
  PROVE  /\ PageAfter(c) \in SUBSET RowsAfter(c)
         /\ NextAfter(c) \in PageAfter(c) \cup {None}
         /\ NextAfter(c) = None => PageAfter(c) = RowsAfter(c)
         /\ NextAfter(c) # None =>
               /\ NextAfter(c) \in RowsAfter(c)
               /\ \A m \in RowsAfter(c) : m <= NextAfter(c) <=> m \in PageAfter(c)
               /\ Cardinality(PageAfter(c)) >= RecoverLimit
               /\ Cardinality(RowsAfter(c)) > RecoverLimit
  <1> DEFINE S == RowsAfter(c)
  <1> DEFINE P == PageAfter(c)
  <1>0. S \in SUBSET Message /\ S \subseteq Nat /\ P \in SUBSET S
    BY DEF RowsAfter, PageAfter, FirstRows
  <1>1. Cardinality(S) \in Nat
    <2> HIDE DEF S
    <2> QED
      BY <1>0, RowsFinite
  <1>2. CASE Cardinality(S) > RecoverLimit
    <2>1. P # {} /\ Cardinality(P) >= RecoverLimit
      <3> HIDE DEF S
      <3> QED
        BY <1>0, <1>2, FirstRowsFull DEF PageAfter, S
    <2> DEFINE x == Newest(P)
    <2>2. x \in P /\ \A k \in P : k <= x
      <3>1. P \in SUBSET Message
        BY <1>0
      <3> HIDE DEF P
      <3> QED
        BY <2>1, <3>1, HasNewest
    <2>3. NextAfter(c) = x
      BY <1>2 DEF NextAfter
    <2> HIDE DEF x
    <2>4. \A m \in S : m <= x => m \in P
      <3> SUFFICES ASSUME NEW m \in S, m <= x, m # x PROVE m \in P
        BY <2>2
      <3>1. m < x
        BY <1>0, <2>2
      <3>2. x \in FirstRows(S, RecoverLimit)
        BY <2>2 DEF PageAfter
      <3> HIDE DEF S
      <3>3. m \in FirstRows(S, RecoverLimit)
        BY <1>0, <3>1, <3>2, FirstRowsClosed
      <3> QED
        BY <3>3 DEF PageAfter, S
    <2>5. x # 0
      BY <1>0, <2>2
    <2> HIDE DEF S, P
    <2>6. x \in S
      BY <1>0, <2>2
    <2> QED
      BY <1>0, <1>2, <2>1, <2>2, <2>3, <2>4, <2>5, <2>6 DEF S, P
  <1>3. CASE Cardinality(S) <= RecoverLimit
    <2>1. NextAfter(c) = None
      BY <1>1, <1>3 DEF NextAfter
    <2>2. P = S
      <3> HIDE DEF S
      <3> QED
        BY <1>0, <1>3, FirstRowsAll DEF PageAfter, S
    <2> QED
      BY <1>0, <2>1, <2>2
  <1> QED
    BY <1>1, <1>2, <1>3

\* A page of history: complete down to its next cursor, and without one down
\* to the beginning.
LEMMA PageBeforeIs ==
  ASSUME rows \in SUBSET Message, NEW c \in Nat
  PROVE  /\ PageBefore(c) \in SUBSET RowsBefore(c)
         /\ RowsBefore(c) \in SUBSET rows
         /\ NextBefore(c) \in PageBefore(c) \cup {None}
         /\ NextBefore(c) = None => PageBefore(c) = RowsBefore(c)
         /\ NextBefore(c) # None =>
               \A m \in RowsBefore(c) : m >= NextBefore(c) => m \in PageBefore(c)
  <1> DEFINE S == RowsBefore(c)
  <1> DEFINE P == PageBefore(c)
  <1>0. S \in SUBSET Message /\ S \in SUBSET rows /\ S \subseteq Nat /\ P \in SUBSET S
    BY DEF RowsBefore, PageBefore, LastRows
  <1>1. Cardinality(S) \in Nat
    <2> HIDE DEF S
    <2> QED
      BY <1>0, RowsFinite
  <1>2. CASE Cardinality(S) > HistoryLimit
    <2>1. P # {}
      <3>1. S # {}
        BY <1>2, FS_EmptySet
      <3> HIDE DEF S
      <3> QED
        BY <1>0, <3>1, LastRowsSome DEF PageBefore, S
    <2> DEFINE x == Oldest(P)
    <2>2. x \in P /\ \A k \in P : x <= k
      <3>1. P \in SUBSET Message
        BY <1>0
      <3> HIDE DEF P
      <3> QED
        BY <2>1, <3>1, HasOldest
    <2>3. NextBefore(c) = x
      BY <1>2 DEF NextBefore
    <2> HIDE DEF x
    <2>4. \A m \in S : m >= x => m \in P
      <3> SUFFICES ASSUME NEW m \in S, m >= x, m # x PROVE m \in P
        BY <2>2
      <3>1. m > x
        BY <1>0, <2>2
      <3>2. x \in LastRows(S, HistoryLimit)
        BY <2>2 DEF PageBefore
      <3> HIDE DEF S
      <3>3. m \in LastRows(S, HistoryLimit)
        BY <1>0, <3>1, <3>2, LastRowsClosed
      <3> QED
        BY <3>3 DEF PageBefore, S
    <2>5. x # 0
      BY <1>0, <2>2
    <2> HIDE DEF S, P
    <2> QED
      BY <1>0, <2>2, <2>3, <2>4, <2>5 DEF S, P
  <1>3. CASE Cardinality(S) <= HistoryLimit
    <2>1. NextBefore(c) = None
      BY <1>1, <1>3 DEF NextBefore
    <2>2. P = S
      <3> HIDE DEF S
      <3> QED
        BY <1>0, <1>3, LastRowsAll DEF PageBefore, S
    <2> QED
      BY <1>0, <2>1, <2>2
  <1> QED
    BY <1>1, <1>2, <1>3

-----------------------------------------------------------------------------
(* The invariant.                                                          *)

\* A running recovery has every message between its start and its cursor; one
\* that is done has them all.
Covers(a) ==
    a.state \in {"run", "done"} =>
        \A m \in a.base : m > a.start => m \in store \/ (a.state = "run" /\ m > a.cursor)
Between(c, d) == {m \in rows : m > c /\ m <= d}
\* Its pages so far were full.
FullPages(a) ==
    /\ a.state = "run" =>
          /\ a.page < MaxPages /\ a.start <= a.cursor
          /\ Cardinality(Between(a.start, a.cursor)) >= a.page * RecoverLimit
    /\ a.state = "capped" => Cardinality(RowsAfter(a.start)) > MaxPages * RecoverLimit
Recoveries ==
    [state : {"none", "run", "done", "capped", "failed"},
     start : rows \cup {None}, base : SUBSET rows,
     cursor : rows \cup {None}, page : 0 .. MaxPages]
RecoverySound(s) == rec[s] \in Recoveries /\ Covers(rec[s]) /\ FullPages(rec[s])
RecoveriesInv == rec \in [Slot -> Recoveries] /\ \A s \in Slot : RecoverySound(s)

\* No hole between pages.
Contiguous(b, o, c) == \A m \in b : (o = None \/ m >= o) => m \in c
HistoryInv ==
    /\ cache \subseteq rows /\ base \subseteq rows /\ pages \in Nat /\ loaded \in BOOLEAN
    /\ older \in cache \cup {None}
    /\ loaded => Contiguous(base, older, cache)
    /\ draft \in [active : BOOLEAN, cache : SUBSET rows, pages : Nat,
                  older : rows \cup {None}, base : SUBSET rows]
    /\ draft.older \in draft.cache \cup {None}
    /\ draft.active => Contiguous(draft.base, draft.older, draft.cache)

TabInv ==
    /\ rows \subseteq Message /\ store \subseteq rows
    /\ link \in {"closed", "opening", "open", "stopped"}
    /\ token \in {"good", "expired"}
    /\ retry \in BOOLEAN /\ connected \in BOOLEAN
    /\ faults \in 0 .. MaxFaults

IInv == TabInv /\ HistoryInv /\ RecoveriesInv

-----------------------------------------------------------------------------
(* What a step leaves alone.                                               *)

\* A recovery that goes no step stays sound.
LEMMA RecoveryStays ==
  ASSUME IInv, rows' \in SUBSET Message, rows \subseteq rows', store \subseteq store',
         NEW s \in Slot, rec'[s] = rec[s]
  PROVE  RecoverySound(s)'
  <1> DEFINE a == rec[s]
  <1>1. a \in Recoveries /\ Covers(a) /\ FullPages(a)
    BY DEF IInv, RecoveriesInv, RecoverySound
  <1>2. rec'[s] \in Recoveries'
    BY <1>1 DEF Recoveries
  <1>3. Covers(rec[s])'
    BY <1>1 DEF Covers
  <1>4. /\ RecoverLimit \in Nat /\ a.page \in Nat
        /\ a.page * RecoverLimit \in Nat /\ MaxPages * RecoverLimit \in Nat
    BY <1>1 DEF Recoveries
  <1>5. /\ Cardinality(Between(rec[s].start, rec[s].cursor)) <= Cardinality(Between(rec[s].start, rec[s].cursor)')
        /\ Cardinality(RowsAfter(rec[s].start)) <= Cardinality(RowsAfter(rec[s].start)')
        /\ Cardinality(Between(rec[s].start, rec[s].cursor)) \in Nat
        /\ Cardinality(Between(rec[s].start, rec[s].cursor)') \in Nat
        /\ Cardinality(RowsAfter(rec[s].start)) \in Nat
        /\ Cardinality(RowsAfter(rec[s].start)') \in Nat
    <2>1. /\ Between(rec[s].start, rec[s].cursor) \in SUBSET Between(rec[s].start, rec[s].cursor)'
          /\ Between(rec[s].start, rec[s].cursor)' \in SUBSET Message
          /\ RowsAfter(rec[s].start) \in SUBSET RowsAfter(rec[s].start)'
          /\ RowsAfter(rec[s].start)' \in SUBSET Message
      BY DEF Between, RowsAfter
    <2> QED
      BY <2>1, RowsFinite
  <1>6. FullPages(rec[s])'
    BY <1>1, <1>4, <1>5 DEF FullPages
  <1> QED
    BY <1>2, <1>3, <1>6 DEF RecoverySound

\* No recovery goes a step.
LEMMA RecoveriesStay ==
  ASSUME IInv, rows' \in SUBSET Message, rows \subseteq rows', store \subseteq store', rec' = rec
  PROVE  RecoveriesInv'
  <1>1. \A s \in Slot : RecoverySound(s)'
    BY RecoveryStays
  <1>2. rec' \in [Slot -> Recoveries']
    BY <1>1 DEF IInv, RecoveriesInv, RecoverySound
  <1> QED
    BY <1>1, <1>2 DEF RecoveriesInv

\* The history is as it was.
LEMMA HistoryStays ==
  ASSUME IInv, rows \subseteq rows', UNCHANGED historyVars
  PROVE  HistoryInv'
  <1>1. draft \in [active : BOOLEAN, cache : SUBSET rows', pages : Nat,
                   older : rows' \cup {None}, base : SUBSET rows']
    BY DEF IInv, HistoryInv
  <1> QED
    BY <1>1 DEF IInv, HistoryInv, Contiguous

-----------------------------------------------------------------------------
(* The actions.                                                            *)

LEMMA CommitKeeps ==
  ASSUME IInv, NEW m \in Message, Commit(m)
  PROVE  IInv'
  <1>1. /\ rows' \in SUBSET Message /\ rows \subseteq rows' /\ UNCHANGED historyVars
        /\ UNCHANGED <<store, rec, socketVars, faults>>
    BY DEF Commit, IInv, TabInv
  <1>2. TabInv'
    BY <1>1 DEF IInv, TabInv
  <1> QED
    BY <1>1, <1>2, RecoveriesStay, HistoryStays DEF IInv

\* Steps of the socket that recover nothing.
LEMMA SocketKeeps ==
  ASSUME IInv,
         TokenExpires \/ OpenSocket \/ OnClose \/ Disconnect \/ \E m \in Message : Receive(m)
  PROVE  IInv'
  <1>1. /\ rows' = rows /\ rec' = rec /\ UNCHANGED historyVars /\ faults' = faults
        /\ store \subseteq store' /\ store' \subseteq rows'
    BY DEF TokenExpires, OpenSocket, OnClose, Disconnect, Receive, IInv, TabInv
  <1>2. TabInv'
    <2>1. CASE OpenSocket
      BY <1>1, <2>1 DEF OpenSocket, IInv, TabInv
    <2>2. CASE OnClose
      BY <1>1, <2>2 DEF OnClose, IInv, TabInv
    <2>3. CASE \E m \in Message : Receive(m)
      BY <1>1, <2>3 DEF Receive, IInv, TabInv
    <2>4. CASE TokenExpires \/ Disconnect
      BY <1>1, <2>4 DEF TokenExpires, Disconnect, IInv, TabInv
    <2> QED
      BY <2>1, <2>2, <2>3, <2>4
  <1>3. rows' \in SUBSET Message
    BY <1>2 DEF TabInv
  <1> QED
    BY <1>1, <1>2, <1>3, RecoveriesStay, HistoryStays DEF IInv

\* A recovery begins with nothing between its start and its cursor.
LEMMA OnOpenKeeps == IInv /\ OnOpen => IInv'
  <1> SUFFICES ASSUME IInv, OnOpen PROVE IInv'
    OBVIOUS
  <1>1. /\ rows' = rows /\ store' = store /\ UNCHANGED historyVars
        /\ link' = "open" /\ connected' = TRUE
        /\ UNCHANGED <<retry, token, faults>>
    BY DEF OnOpen
  <1>2. TabInv'
    BY <1>1 DEF IInv, TabInv
  <1>3. rows' \in SUBSET Message
    BY <1>2 DEF TabInv
  <1>4. CASE rec' = rec
    BY <1>1, <1>2, <1>3, <1>4, RecoveriesStay, HistoryStays DEF IInv
  <1>5. ASSUME NEW r \in Slot, StartRecovery(r) PROVE IInv'
    <2> DEFINE x == Newest(Shown)
    <2> DEFINE b == [state |-> "run", start |-> x, base |-> rows, cursor |-> x, page |-> 0]
    <2>1. rec' = [rec EXCEPT ![r] = b] /\ Shown # {}
      BY <1>5 DEF StartRecovery
    <2>2. rec \in [Slot -> Recoveries] /\ 0 \in 0 .. MaxPages /\ 0 < MaxPages
      BY DEF IInv, RecoveriesInv
    <2>3. b \in Recoveries /\ Covers(b) /\ FullPages(b)
      <3>1. Shown \in SUBSET Message /\ Shown \subseteq rows
        BY DEF Shown, IInv, TabInv, HistoryInv
      <3>2. x \in Shown
        BY <2>1, <3>1, HasNewest
      <3> HIDE DEF x
      <3>3. x \in rows /\ x \in Nat /\ rows \subseteq Nat
        BY <3>1, <3>2 DEF IInv, TabInv
      <3>4. b \in Recoveries
        BY <2>2, <3>3 DEF Recoveries
      <3>5. Covers(b)
        BY DEF Covers
      <3>6. Cardinality(Between(x, x)) >= 0 * RecoverLimit
        <4>1. Between(x, x) \in SUBSET Message
          BY <3>1 DEF Between, IInv, TabInv
        <4> QED
          BY <4>1, RowsFinite
      <3>7. FullPages(b)
        BY <2>2, <3>3, <3>6 DEF FullPages
      <3> QED
        BY <3>4, <3>5, <3>7
    <2> HIDE DEF b
    <2>4. rec'[r] = b /\ \A s \in Slot \ {r} : rec'[s] = rec[s]
      BY <2>1, <2>2
    <2>5. Recoveries' = Recoveries
      BY <1>1 DEF Recoveries
    <2>6. rec' \in [Slot -> Recoveries']
      BY <2>1, <2>2, <2>3, <2>5
    <2>7. RecoverySound(r)'
      BY <1>1, <2>3, <2>4, <2>5 DEF RecoverySound, Covers, FullPages, Between, RowsAfter
    <2>8. ASSUME NEW s \in Slot, s # r PROVE RecoverySound(s)'
      BY <1>1, <1>3, <2>4, <2>8, RecoveryStays
    <2>9. RecoveriesInv'
      BY <2>6, <2>7, <2>8 DEF RecoveriesInv
    <2> QED
      BY <1>1, <1>2, <2>9, HistoryStays DEF IInv
  <1> QED
    BY <1>4, <1>5 DEF OnOpen

\* A page of recovery.
LEMMA RecoverPageKeeps ==
  ASSUME IInv, NEW s \in Slot, RecoverPage(s)
  PROVE  IInv'
  <1> DEFINE a == rec[s]
  <1> DEFINE c == a.cursor
  <1> DEFINE n == a.page + 1
  <1> DEFINE P == PageAfter(c)
  <1> DEFINE N == NextAfter(c)
  <1> DEFINE b == [state |-> IF N = None THEN "done"
                             ELSE IF n = MaxPages THEN "capped" ELSE "run",
                   start |-> a.start, base |-> a.base,
                   cursor |-> IF N = None THEN c ELSE N, page |-> n]
  <1>1. /\ a.state = "run" /\ rows' = rows /\ UNCHANGED historyVars
        /\ UNCHANGED <<socketVars, faults>>
        /\ store' = store \cup P
    BY DEF RecoverPage
  <1>2. a \in Recoveries /\ Covers(a) /\ FullPages(a) /\ rec \in [Slot -> Recoveries]
    BY DEF IInv, RecoveriesInv, RecoverySound
  <1>3. /\ rows \in SUBSET Message /\ rows \subseteq Nat /\ store \subseteq rows
        /\ c \in Nat /\ a.start \in Nat /\ a.page \in Nat /\ a.base \subseteq rows
    <2>1. rows \in SUBSET Message /\ rows \subseteq Nat /\ store \subseteq rows
      BY DEF IInv, TabInv
    <2>2. /\ a.cursor \in rows \cup {None} /\ a.start \in rows \cup {None}
          /\ a.page \in 0 .. MaxPages /\ a.base \in SUBSET rows
      BY <1>2 DEF Recoveries
    <2>3. \A x \in rows \cup {None} : x \in Nat
      BY <2>1
    <2>4. \A p \in 0 .. MaxPages : p \in Nat
      OBVIOUS
    <2> HIDE DEF a, n, P, N, b
    <2> QED
      BY <2>1, <2>2, <2>3, <2>4, Zenon
  <1>4. /\ P \in SUBSET RowsAfter(c)
        /\ N \in P \cup {None}
        /\ N = None => P = RowsAfter(c)
        /\ N # None =>
              /\ N \in RowsAfter(c)
              /\ \A m \in RowsAfter(c) : m <= N <=> m \in P
              /\ Cardinality(P) >= RecoverLimit
              /\ Cardinality(RowsAfter(c)) > RecoverLimit
    <2> HIDE DEF c
    <2> QED
      BY <1>3, PageAfterIs
  <1>5. RowsAfter(c) \subseteq rows /\ \A m \in rows : m \in RowsAfter(c) <=> m > c
    BY DEF RowsAfter
  <1>6. rec' = [rec EXCEPT ![s] = b]
    BY <1>2 DEF RecoverPage, Recoveries
  <1> HIDE DEF P, N
  <1>7. a.page < MaxPages /\ a.start <= c /\ Cardinality(Between(a.start, c)) >= a.page * RecoverLimit
    BY <1>1, <1>2 DEF FullPages
  <1>8. n \in 0 .. MaxPages /\ n \in Nat /\ n * RecoverLimit = a.page * RecoverLimit + RecoverLimit
    BY <1>3, <1>7
  <1>9. b \in Recoveries
    <2>1. (IF N = None THEN c ELSE N) \in rows \cup {None}
      BY <1>2, <1>4, <1>5 DEF Recoveries
    <2>2. a.start \in rows \cup {None} /\ a.base \in SUBSET rows
      BY <1>2 DEF Recoveries
    <2> HIDE DEF a, c, n
    <2> QED
      BY <1>8, <2>1, <2>2 DEF Recoveries
  <1>10. \A m \in b.base : m > b.start =>
            m \in store \cup P \/ (b.state = "run" /\ m > b.cursor) \/ b.state = "capped"
    <2> SUFFICES ASSUME NEW m \in a.base, m > a.start, m \notin store
                 PROVE  m \in P \/ (b.state = "run" /\ m > b.cursor) \/ b.state = "capped"
      OBVIOUS
    <2>1. m > c /\ m \in rows /\ m \in RowsAfter(c)
      BY <1>1, <1>2, <1>3, <1>5 DEF Covers
    <2>2. CASE N = None
      BY <1>4, <2>1, <2>2
    <2>3. CASE N # None
      <3>1. m \in P \/ m > N
        <4>1. N \in Nat /\ m \in Nat
          BY <1>3, <1>4, <1>5, <2>1, <2>3
        <4>2. m <= N <=> m \in P
          BY <1>4, <2>1, <2>3
        <4> QED
          BY <4>1, <4>2
      <3> QED
        BY <2>3, <3>1
    <2> QED
      BY <2>2, <2>3
  <1>11. \* where both sets lie, and what they add up to
         /\ Between(a.start, c) \in SUBSET Message /\ P \in SUBSET Message
         /\ RowsAfter(c) \in SUBSET Message
         /\ Between(a.start, c) \cap RowsAfter(c) = {} /\ Between(a.start, c) \cap P = {}
    <2>1. \A m \in rows : ~(m <= c /\ m > c)
      BY <1>3
    <2>2. Between(a.start, c) \subseteq rows /\ \A m \in Between(a.start, c) : m <= c
      BY DEF Between
    <2> HIDE DEF a, c
    <2> QED
      BY <1>3, <1>4, <1>5, <2>1, <2>2
  <1>12. ASSUME N # None
         PROVE  /\ Cardinality(Between(a.start, c) \cup P) >= n * RecoverLimit
                /\ Cardinality(Between(a.start, c) \cup RowsAfter(c)) > n * RecoverLimit
    <2> DEFINE B == Between(a.start, c)
    <2> DEFINE R == RowsAfter(c)
    <2>1. B \in SUBSET Message /\ P \in SUBSET Message /\ R \in SUBSET Message
          /\ B \cap R = {} /\ B \cap P = {}
      BY <1>11
    <2>2. /\ Cardinality(B) >= a.page * RecoverLimit
          /\ Cardinality(P) >= RecoverLimit /\ Cardinality(R) > RecoverLimit
      BY <1>4, <1>7, <1>12
    <2> HIDE DEF B, R
    <2>3. /\ Cardinality(B \cup P) = Cardinality(B) + Cardinality(P) - Cardinality({})
          /\ Cardinality(B \cup R) = Cardinality(B) + Cardinality(R) - Cardinality({})
          /\ Cardinality({}) = 0
      <3>1. IsFiniteSet(B) /\ IsFiniteSet(P) /\ IsFiniteSet(R)
        BY <2>1, RowsFinite
      <3>2. /\ Cardinality(B \cup P) = Cardinality(B) + Cardinality(P) - Cardinality(B \cap P)
            /\ Cardinality(B \cup R) = Cardinality(B) + Cardinality(R) - Cardinality(B \cap R)
        BY <3>1, FS_Union
      <3> QED
        BY <2>1, <3>2, FS_EmptySet
    <2>4. Cardinality(B) \in Nat /\ Cardinality(P) \in Nat /\ Cardinality(R) \in Nat
      BY <2>1, RowsFinite
    <2> DEFINE before == a.page * RecoverLimit
    <2>5. before \in Nat /\ RecoverLimit \in Nat
      BY <1>3
    <2>6. n * RecoverLimit = before + RecoverLimit
      BY <1>8
    <2> HIDE DEF before, n
    <2>7. Cardinality(B) >= before
      BY <2>2 DEF before
    <2> QED
      BY <2>2, <2>3, <2>4, <2>5, <2>6, <2>7 DEF B, R
  <1>13. FullPages(b)
    <2>1. CASE N = None
      BY <2>1 DEF FullPages
    <2>2. CASE N # None
      <3>1. N \in rows /\ N \in Nat /\ N > c
        BY <1>3, <1>4, <1>5, <2>2
      <3>2. Between(a.start, N) = Between(a.start, c) \cup P
        <4>1. \A m \in rows : (m > a.start /\ m <= N) <=> ((m > a.start /\ m <= c) \/ m \in P)
          <5> SUFFICES ASSUME NEW m \in rows
                       PROVE  (m > a.start /\ m <= N) <=> ((m > a.start /\ m <= c) \/ m \in P)
            OBVIOUS
          <5>1. m \in Nat /\ (m \in P => m > c)
            BY <1>3, <1>4, <1>5
          <5>2. m > c => (m <= N <=> m \in P)
            BY <1>4, <1>5, <2>2
          <5> HIDE DEF a, c
          <5> QED
            BY <1>3, <1>7, <3>1, <5>1, <5>2
        <4>2. P \subseteq rows
          BY <1>4, <1>5
        <4> HIDE DEF a, c
        <4> QED
          BY <4>1, <4>2 DEF Between
      <3>3. RowsAfter(a.start) = Between(a.start, c) \cup RowsAfter(c)
        <4>1. \A m \in rows : m > a.start <=> ((m > a.start /\ m <= c) \/ m > c)
          BY <1>3, <1>7
        <4> HIDE DEF a, c
        <4> QED
          BY <4>1 DEF Between, RowsAfter
      <3>4. a.start <= N
        BY <1>3, <1>7, <3>1
      <3>5. CASE n = MaxPages
        <4>1. b.state = "capped" /\ b.start = a.start
          BY <2>2, <3>5
        <4>2. Cardinality(RowsAfter(a.start)) > MaxPages * RecoverLimit
          BY <1>12, <2>2, <3>3, <3>5
        <4> HIDE DEF a, b
        <4> QED
          BY <4>1, <4>2 DEF FullPages
      <3>6. CASE n # MaxPages
        <4>1. b.state = "run" /\ b.start = a.start /\ b.cursor = N /\ b.page = n
          BY <2>2, <3>6
        <4>2. Cardinality(Between(a.start, N)) >= n * RecoverLimit
          BY <1>12, <2>2, <3>2
        <4>3. n < MaxPages
          BY <1>8, <3>6
        <4> HIDE DEF a, b, n
        <4> QED
          BY <3>4, <4>1, <4>2, <4>3 DEF FullPages
      <3> QED
        BY <3>5, <3>6
    <2> QED
      BY <2>1, <2>2
  <1>14. rec'[s] = b /\ \A t \in Slot \ {s} : rec'[t] = rec[t]
    <2> HIDE DEF b
    <2> QED
      BY <1>2, <1>6
  <1>15. store \subseteq store' /\ store' \subseteq rows'
    BY <1>1, <1>3, <1>4, <1>5
  <1>16. RecoverySound(s)'
    <2>1. rec'[s] \in Recoveries'
      BY <1>1, <1>9, <1>14 DEF Recoveries
    <2>2. Covers(rec[s])'
      <3>1. \A m \in b.base : m > b.start =>
                m \in store' \/ (b.state = "run" /\ m > b.cursor) \/ b.state = "capped"
        BY <1>1, <1>10
      <3> HIDE DEF b
      <3> QED
        BY <1>14, <3>1 DEF Covers
    <2>3. FullPages(rec[s])'
      <3> HIDE DEF b
      <3> QED
        BY <1>1, <1>13, <1>14 DEF FullPages, Between, RowsAfter
    <2> QED
      BY <2>1, <2>2, <2>3 DEF RecoverySound
  <1>17. RecoveriesInv'
    <2>1. \A t \in Slot : RecoverySound(t)'
      BY <1>1, <1>3, <1>14, <1>15, <1>16, RecoveryStays
    <2>2. rec' \in [Slot -> Recoveries']
      <3> HIDE DEF b
      <3>1. Recoveries' = Recoveries
        BY <1>1 DEF Recoveries
      <3> QED
        BY <1>2, <1>6, <1>9, <3>1
    <2> QED
      BY <2>1, <2>2 DEF RecoveriesInv
  <1>18. TabInv'
    BY <1>1, <1>15 DEF IInv, TabInv
  <1> QED
    BY <1>1, <1>17, <1>18, HistoryStays DEF IInv

LEMMA RecoverFailsKeeps ==
  ASSUME IInv, NEW s \in Slot, RecoverFails(s)
  PROVE  IInv'
  <1> DEFINE b == [rec[s] EXCEPT !.state = "failed"]
  <1>1. /\ rec' = [rec EXCEPT ![s].state = "failed"] /\ rows' = rows /\ store' = store
        /\ UNCHANGED socketVars /\ UNCHANGED historyVars
        /\ faults' \in 0 .. MaxFaults
    BY DEF RecoverFails, RequestFails, IInv, TabInv
  <1>2. rec \in [Slot -> Recoveries] /\ rec[s] \in Recoveries
    BY DEF IInv, RecoveriesInv
  <1>3. b \in Recoveries /\ b.state = "failed"
    BY <1>2 DEF Recoveries
  <1>4. rec' = [rec EXCEPT ![s] = b]
    BY <1>1, <1>2
  <1> HIDE DEF b
  <1>5. rec'[s] = b /\ \A t \in Slot \ {s} : rec'[t] = rec[t]
    BY <1>2, <1>4
  <1>6. Recoveries' = Recoveries
    BY <1>1 DEF Recoveries
  <1>7. RecoverySound(s)'
    BY <1>3, <1>5, <1>6 DEF RecoverySound, Covers, FullPages
  <1>8. TabInv'
    BY <1>1 DEF IInv, TabInv
  <1>9. rows' \in SUBSET Message /\ rows \subseteq rows' /\ store \subseteq store'
    BY <1>1, <1>8 DEF TabInv
  <1>10. \A t \in Slot : RecoverySound(t)'
    BY <1>5, <1>7, <1>9, RecoveryStays
  <1>11. rec' \in [Slot -> Recoveries']
    BY <1>2, <1>3, <1>4, <1>6
  <1> QED
    BY <1>1, <1>8, <1>10, <1>11, HistoryStays DEF IInv, RecoveriesInv

-----------------------------------------------------------------------------
(* The history.                                                            *)

\* A step that reads history leaves everything else.
LEMMA HistoryOnly ==
  ASSUME IInv, rows' = rows, store' = store, rec' = rec, faults' \in 0 .. MaxFaults,
         UNCHANGED socketVars, HistoryInv'
  PROVE  IInv'
  <1>1. TabInv'
    BY DEF IInv, TabInv
  <1>2. rows' \in SUBSET Message /\ rows \subseteq rows' /\ store \subseteq store'
    BY <1>1 DEF TabInv
  <1> QED
    BY <1>1, <1>2, RecoveriesStay DEF IInv

\* The first page, and the next page after what has no hole.
LEMMA FirstPage ==
  ASSUME rows \in SUBSET Message
  PROVE  /\ PageBefore(None) \in SUBSET rows
         /\ NextBefore(None) \in PageBefore(None) \cup {None}
         /\ Contiguous(rows, NextBefore(None), PageBefore(None))
  <1>1. RowsBefore(None) = rows
    BY DEF RowsBefore
  <1> QED
    BY <1>1, PageBeforeIs DEF Contiguous

LEMMA NextPage ==
  ASSUME rows \in SUBSET Message, NEW b \in SUBSET rows, NEW c \in SUBSET rows,
         NEW o \in Nat \ {0}, Contiguous(b, o, c)
  PROVE  /\ PageBefore(o) \in SUBSET rows
         /\ NextBefore(o) \in (c \cup PageBefore(o)) \cup {None}
         /\ Contiguous(b, NextBefore(o), c \cup PageBefore(o))
  <1> DEFINE P == PageBefore(o)
  <1> DEFINE N == NextBefore(o)
  <1>1. /\ P \in SUBSET RowsBefore(o) /\ RowsBefore(o) \in SUBSET rows
        /\ N \in P \cup {None}
        /\ N = None => P = RowsBefore(o)
        /\ N # None => \A m \in RowsBefore(o) : m >= N => m \in P
    BY PageBeforeIs
  <1>2. \A m \in rows : m < o => m \in RowsBefore(o)
    BY DEF RowsBefore
  <1> HIDE DEF P, N
  <1>3. ASSUME NEW m \in b, N = None \/ m >= N
        PROVE  m \in c \cup P
    <2>1. m \in rows /\ m \in Nat
      OBVIOUS
    <2>2. CASE m >= o
      BY <2>2 DEF Contiguous
    <2>3. CASE m < o
      BY <1>1, <1>2, <1>3, <2>1, <2>3
    <2> QED
      BY <2>1, <2>2, <2>3
  <1>4. Contiguous(b, N, c \cup P)
    BY <1>3 DEF Contiguous
  <1> QED
    BY <1>1, <1>4 DEF P, N

LEMMA LoadHistoryKeeps == IInv /\ LoadHistory => IInv'
  <1> SUFFICES ASSUME IInv, LoadHistory PROVE IInv'
    OBVIOUS
  <1>1. /\ loaded' = TRUE /\ pages' = 1 /\ cache' = PageBefore(None)
        /\ older' = NextBefore(None) /\ base' = rows
        /\ UNCHANGED <<rows, socketVars, draft, store, rec, faults>>
    BY DEF LoadHistory
  <1>2. rows \in SUBSET Message /\ faults \in 0 .. MaxFaults /\ HistoryInv
    BY DEF IInv, TabInv
  <1>3. /\ PageBefore(None) \in SUBSET rows
        /\ NextBefore(None) \in PageBefore(None) \cup {None}
        /\ Contiguous(rows, NextBefore(None), PageBefore(None))
    BY <1>2, FirstPage
  <1>4. HistoryInv'
    <2>1. cache' \subseteq rows' /\ base' \subseteq rows' /\ pages' \in Nat /\ loaded' \in BOOLEAN
      BY <1>1, <1>3
    <2>2. older' \in cache' \cup {None} /\ Contiguous(base', older', cache')
      BY <1>1, <1>3
    <2>3. draft' = draft /\ rows' = rows
      BY <1>1
    <2> QED
      BY <1>2, <2>1, <2>2, <2>3 DEF HistoryInv, Contiguous
  <1> QED
    BY <1>1, <1>2, <1>4, HistoryOnly

LEMMA LoadOlderKeeps == IInv /\ LoadOlder => IInv'
  <1> SUFFICES ASSUME IInv, LoadOlder PROVE IInv'
    OBVIOUS
  <1>1. /\ loaded /\ older # None /\ cache' = cache \cup PageBefore(older)
        /\ older' = NextBefore(older) /\ pages' = pages + 1
        /\ UNCHANGED <<rows, socketVars, loaded, base, draft, store, rec, faults>>
    BY DEF LoadOlder
  <1>2. rows \in SUBSET Message /\ faults \in 0 .. MaxFaults /\ HistoryInv
    BY DEF IInv, TabInv
  <1>3. /\ base \in SUBSET rows /\ cache \in SUBSET rows /\ older \in Nat \ {0}
        /\ Contiguous(base, older, cache)
    BY <1>1, <1>2 DEF HistoryInv
  <1>4. /\ PageBefore(older) \in SUBSET rows
        /\ NextBefore(older) \in (cache \cup PageBefore(older)) \cup {None}
        /\ Contiguous(base, NextBefore(older), cache \cup PageBefore(older))
    BY <1>2, <1>3, NextPage
  <1>5. HistoryInv'
    <2>1. /\ cache' \subseteq rows' /\ base' \subseteq rows' /\ pages' \in Nat
          /\ loaded' \in BOOLEAN
      <3>1. cache' \subseteq rows' /\ base' \subseteq rows'
        BY <1>1, <1>3, <1>4
      <3>2. pages' \in Nat
        BY <1>1, <1>2 DEF HistoryInv
      <3>3. loaded' \in BOOLEAN
        BY <1>1
      <3> QED
        BY <3>1, <3>2, <3>3
    <2>2. older' \in cache' \cup {None} /\ Contiguous(base', older', cache')
      BY <1>1, <1>4
    <2>3. draft' = draft /\ rows' = rows
      BY <1>1
    <2> QED
      BY <1>2, <2>1, <2>2, <2>3 DEF HistoryInv, Contiguous
  <1> QED
    BY <1>1, <1>2, <1>5, HistoryOnly

\* What is shown is as it was, and what is being read has no hole either.
LEMMA DraftKeeps ==
  ASSUME IInv, NEW d,
         d \in [active : BOOLEAN, cache : SUBSET rows, pages : Nat,
                older : rows \cup {None}, base : SUBSET rows],
         d.older \in d.cache \cup {None},
         d.active => Contiguous(d.base, d.older, d.cache),
         draft' = d, faults' \in 0 .. MaxFaults,
         UNCHANGED <<rows, socketVars, loaded, cache, pages, older, base, store, rec>>
  PROVE  IInv'
  <1>1. HistoryInv'
    BY DEF IInv, HistoryInv, Contiguous
  <1> QED
    BY <1>1, HistoryOnly

LEMMA NoDraftSound ==
  /\ NoDraft \in [active : BOOLEAN, cache : SUBSET rows, pages : Nat,
                  older : rows \cup {None}, base : SUBSET rows]
  /\ NoDraft.older = None /\ ~NoDraft.active
  BY DEF NoDraft

LEMMA InvalidateKeeps == IInv /\ Invalidate => IInv'
  <1> SUFFICES ASSUME IInv, Invalidate PROVE IInv'
    OBVIOUS
  <1> DEFINE d == [active |-> TRUE, cache |-> PageBefore(None), pages |-> 1,
                   older |-> NextBefore(None), base |-> rows]
  <1>1. /\ draft' = d /\ faults' = faults
        /\ UNCHANGED <<rows, socketVars, loaded, cache, pages, older, base, store, rec>>
    BY DEF Invalidate
  <1>2. rows \in SUBSET Message /\ faults \in 0 .. MaxFaults
    BY DEF IInv, TabInv
  <1>3. /\ PageBefore(None) \in SUBSET rows
        /\ NextBefore(None) \in PageBefore(None) \cup {None}
        /\ Contiguous(rows, NextBefore(None), PageBefore(None))
    BY <1>2, FirstPage
  <1>4. /\ d \in [active : BOOLEAN, cache : SUBSET rows, pages : Nat,
                  older : rows \cup {None}, base : SUBSET rows]
        /\ d.older \in d.cache \cup {None} /\ Contiguous(d.base, d.older, d.cache)
    BY <1>3
  <1> HIDE DEF d
  <1> QED
    BY <1>1, <1>2, <1>4, DraftKeeps

LEMMA RefetchPageKeeps == IInv /\ RefetchPage => IInv'
  <1> SUFFICES ASSUME IInv, RefetchPage PROVE IInv'
    OBVIOUS
  <1> DEFINE o == draft.older
  <1> DEFINE d == [draft EXCEPT !.cache = @ \cup PageBefore(o), !.older = NextBefore(o),
                                !.pages = @ + 1]
  <1>1. /\ draft.active /\ o # None /\ draft' = d /\ faults' = faults
        /\ UNCHANGED <<rows, socketVars, loaded, cache, pages, older, base, store, rec>>
    BY DEF RefetchPage
  <1>2. rows \in SUBSET Message /\ faults \in 0 .. MaxFaults /\ HistoryInv
    BY DEF IInv, TabInv
  <1>3. /\ draft.base \in SUBSET rows /\ draft.cache \in SUBSET rows /\ o \in Nat \ {0}
        /\ Contiguous(draft.base, o, draft.cache)
    BY <1>1, <1>2 DEF HistoryInv
  <1> HIDE DEF o
  <1>4. /\ PageBefore(o) \in SUBSET rows
        /\ NextBefore(o) \in (draft.cache \cup PageBefore(o)) \cup {None}
        /\ Contiguous(draft.base, NextBefore(o), draft.cache \cup PageBefore(o))
    BY <1>2, <1>3, NextPage
  <1>5. /\ d \in [active : BOOLEAN, cache : SUBSET rows, pages : Nat,
                  older : rows \cup {None}, base : SUBSET rows]
        /\ d.older \in d.cache \cup {None}
        /\ d.base = draft.base /\ d.older = NextBefore(o)
        /\ d.cache = draft.cache \cup PageBefore(o)
    <2>1. draft \in [active : BOOLEAN, cache : SUBSET rows, pages : Nat,
                    older : rows \cup {None}, base : SUBSET rows]
      BY <1>2 DEF HistoryInv
    <2>2. draft.cache \cup PageBefore(o) \in SUBSET rows
      BY <1>3, <1>4
    <2>3. /\ NextBefore(o) \in rows \cup {None}
          /\ NextBefore(o) \in (draft.cache \cup PageBefore(o)) \cup {None}
      BY <1>4, <2>2
    <2>4. draft.pages + 1 \in Nat
      BY <2>1
    <2>5. /\ d.cache = draft.cache \cup PageBefore(o) /\ d.older = NextBefore(o)
          /\ d.pages = draft.pages + 1 /\ d.base = draft.base
      BY <2>1
    <2>6. d \in [active : BOOLEAN, cache : SUBSET rows, pages : Nat,
                 older : rows \cup {None}, base : SUBSET rows]
      BY <2>1, <2>2, <2>3, <2>4
    <2> HIDE DEF d
    <2> QED
      BY <2>3, <2>5, <2>6
  <1> HIDE DEF d
  <1> QED
    BY <1>1, <1>2, <1>4, <1>5, DraftKeeps

LEMMA RefetchFailsKeeps == IInv /\ RefetchFails => IInv'
  <1> SUFFICES ASSUME IInv, RefetchFails PROVE IInv'
    OBVIOUS
  <1>1. faults' \in 0 .. MaxFaults
    BY DEF RefetchFails, RequestFails, IInv, TabInv
  <1> QED
    BY <1>1, NoDraftSound, DraftKeeps DEF RefetchFails

\* The pages that were read take the place of the old ones.
LEMMA RefetchEndsKeeps == IInv /\ RefetchEnds => IInv'
  <1> SUFFICES ASSUME IInv, RefetchEnds PROVE IInv'
    OBVIOUS
  <1>1. /\ draft.active /\ cache' = draft.cache /\ pages' = draft.pages
        /\ older' = draft.older /\ base' = draft.base /\ draft' = NoDraft
        /\ UNCHANGED <<rows, socketVars, loaded, store, rec, faults>>
    BY DEF RefetchEnds
  <1>2. HistoryInv /\ faults \in 0 .. MaxFaults
    BY DEF IInv, TabInv
  <1>3. /\ draft.cache \subseteq rows /\ draft.base \subseteq rows /\ draft.pages \in Nat
        /\ draft.older \in draft.cache \cup {None}
        /\ Contiguous(draft.base, draft.older, draft.cache)
    BY <1>1, <1>2 DEF HistoryInv
  <1>4. HistoryInv'
    <2>1. /\ cache' \subseteq rows' /\ base' \subseteq rows' /\ pages' \in Nat
          /\ loaded' \in BOOLEAN /\ older' \in cache' \cup {None}
          /\ Contiguous(base', older', cache')
      BY <1>1, <1>2, <1>3 DEF HistoryInv
    <2>2. /\ draft' \in [active : BOOLEAN, cache : SUBSET rows', pages : Nat,
                         older : rows' \cup {None}, base : SUBSET rows']
          /\ draft'.older = None /\ ~draft'.active
      BY <1>1, NoDraftSound
    <2> QED
      BY <2>1, <2>2 DEF HistoryInv, Contiguous
  <1> QED
    BY <1>1, <1>2, <1>4, HistoryOnly

-----------------------------------------------------------------------------
(* The theorems.                                                           *)

LEMMA InvariantInit == Init => IInv
  <1> SUFFICES ASSUME Init PROVE IInv
    OBVIOUS
  <1>1. TabInv
    <2>1. rows \subseteq Message /\ store = {} /\ link = "closed" /\ token = "good"
      BY DEF Init
    <2>2. retry \in BOOLEAN /\ connected \in BOOLEAN
      BY Zenon DEF Init
    <2>3. faults \in 0 .. MaxFaults
      BY DEF Init
    <2> QED
      BY <2>1, <2>2, <2>3 DEF TabInv
  <1>2. HistoryInv
    <2>1. /\ cache = {} /\ base = {} /\ pages = 0 /\ loaded = FALSE /\ older = None
          /\ draft = NoDraft
      BY DEF Init
    <2> QED
      BY <2>1, NoDraftSound DEF HistoryInv
  <1>3. RecoveriesInv
    <2>1. rec = [s \in Slot |-> NoRecovery]
      BY DEF Init
    <2>2. /\ NoRecovery \in Recoveries
          /\ NoRecovery.state = "none"
      <3>1. 0 \in 0 .. MaxPages
        OBVIOUS
      <3> QED
        BY <3>1 DEF NoRecovery, Recoveries
    <2> HIDE DEF NoRecovery
    <2>3. Covers(NoRecovery) /\ FullPages(NoRecovery)
      BY <2>2 DEF Covers, FullPages
    <2> QED
      BY <2>1, <2>2, <2>3 DEF RecoveriesInv, RecoverySound
  <1> QED
    BY <1>1, <1>2, <1>3 DEF IInv

LEMMA StutterKeeps == IInv /\ UNCHANGED vars => IInv'
  <1> SUFFICES ASSUME IInv, UNCHANGED vars PROVE IInv'
    OBVIOUS
  <1>1. /\ rows' = rows /\ store' = store /\ rec' = rec /\ faults' = faults
        /\ UNCHANGED socketVars /\ UNCHANGED historyVars
    BY DEF vars
  <1>2. faults' \in 0 .. MaxFaults
    BY <1>1 DEF IInv, TabInv
  <1>3. HistoryInv'
    BY <1>1, HistoryStays
  <1> QED
    BY <1>1, <1>2, <1>3, HistoryOnly

LEMMA InvariantStep == IInv /\ [Next]_vars => IInv'
  <1> SUFFICES ASSUME IInv, [Next]_vars PROVE IInv'
    OBVIOUS
  <1>1. CASE \E m \in Message : Commit(m)
    BY <1>1, CommitKeeps
  <1>2. CASE SocketStep
    BY <1>2, SocketKeeps, OnOpenKeeps DEF SocketStep
  <1>3. CASE RecoveryStep
    BY <1>3, RecoverPageKeeps, RecoverFailsKeeps DEF RecoveryStep
  <1>4. CASE HistoryStep
    BY <1>4, LoadHistoryKeeps, LoadOlderKeeps, InvalidateKeeps, RefetchPageKeeps,
       RefetchFailsKeeps, RefetchEndsKeeps DEF HistoryStep
  <1>5. CASE UNCHANGED vars
    BY <1>5, StutterKeeps
  <1> QED
    BY <1>1, <1>2, <1>3, <1>4, <1>5 DEF Next

\* Every state of the tab satisfies the invariant: running recoveries have no
\* hole behind their cursor, the pages of history (and of the refetch that will
\* replace them) none between them.
THEOREM Invariance == Spec => []IInv
  <1> QED
    BY InvariantInit, InvariantStep, PTL DEF Spec

\* Types, among them that the tab never shows a message that is not committed
\* (addRealtimeMessage, the pages of page_before and page_after).
THEOREM TypeCorrect == Spec => []TypeOK
  <1>1. IInv => TypeOK
    BY DEF IInv, TabInv, HistoryInv, RecoveriesInv, Recoveries, TypeOK
  <1> QED
    BY <1>1, Invariance, PTL

\* A recovery that ends shows all that was committed after its cursor when it
\* began (recoverLoadedConversations over page_after).
THEOREM RecoveryIsComplete == Spec => []RecoveryCovers
  <1>1. IInv => RecoveryCovers
    <2> SUFFICES ASSUME IInv, NEW s \in Slot, rec[s].state = "done",
                        NEW m \in rec[s].base, m > rec[s].start
                 PROVE  m \in Shown
      BY DEF RecoveryCovers
    <2>1. Covers(rec[s])
      BY DEF IInv, RecoveriesInv, RecoverySound
    <2> QED
      BY <2>1 DEF Covers, Shown
  <1> QED
    BY <1>1, Invariance, PTL

\* A recovery is cut off only by a backlog of more than MaxPages full pages
\* (has_more from the row beyond the limit).
THEOREM CapNeedsBacklog == Spec => []CapMeansBacklog
  <1>1. IInv => CapMeansBacklog
    <2> SUFFICES ASSUME IInv, NEW s \in Slot, rec[s].state = "capped"
                 PROVE  Cardinality({m \in rows : m > rec[s].start}) > MaxPages * RecoverLimit
      BY DEF CapMeansBacklog
    <2>1. FullPages(rec[s])
      BY DEF IInv, RecoveriesInv, RecoverySound
    <2> QED
      BY <2>1 DEF FullPages, RowsAfter
  <1> QED
    BY <1>1, Invariance, PTL

\* The pages of history show all that was committed when the first of them was
\* read, down to the oldest one shown (page_before, fetchNextPage, the refetch).
THEOREM HistoryHasNoHole == Spec => []HistoryContiguous
  <1>1. IInv => HistoryContiguous
    BY DEF IInv, HistoryInv, Contiguous, HistoryContiguous
  <1> QED
    BY <1>1, Invariance, PTL
-----------------------------------------------------------------------------
(* What the tab stops showing.                                             *)

\* While pages are read again, the ones that are shown were committed when the
\* first of the new ones was read.
DraftBased ==
    /\ ~loaded => cache = {} /\ ~draft.active
    /\ draft.active => cache \subseteq draft.base

LEMMA DraftBasedStep == IInv /\ DraftBased /\ [Next]_vars => DraftBased'
  <1> SUFFICES ASSUME IInv, DraftBased, [Next]_vars PROVE DraftBased'
    OBVIOUS
  <1>0. cache \subseteq rows /\ loaded \in BOOLEAN
    BY DEF IInv, HistoryInv
  <1>1. CASE UNCHANGED historyVars
    BY <1>1 DEF DraftBased
  <1>2. CASE LoadHistory
    BY <1>2 DEF LoadHistory, DraftBased
  <1>3. CASE LoadOlder
    BY <1>3 DEF LoadOlder, DraftBased
  <1>4. CASE Invalidate
    <2>1. draft'.base = rows /\ UNCHANGED <<loaded, cache>> /\ loaded
      BY <1>4 DEF Invalidate
    <2> QED
      BY <1>0, <2>1 DEF DraftBased
  <1>5. CASE RefetchPage
    <2>1. draft \in [active : BOOLEAN, cache : SUBSET rows, pages : Nat,
                     older : rows \cup {None}, base : SUBSET rows]
      BY DEF IInv, HistoryInv
    <2>2. draft'.base = draft.base /\ draft.active /\ UNCHANGED <<loaded, cache>>
      BY <1>5, <2>1 DEF RefetchPage
    <2> QED
      BY <1>0, <2>2 DEF DraftBased
  <1>6. CASE RefetchEnds \/ RefetchFails
    <2>1. draft.active /\ draft' = NoDraft /\ loaded' = loaded
      BY <1>6 DEF RefetchEnds, RefetchFails
    <2>2. ~draft'.active
      BY <2>1, NoDraftSound
    <2> QED
      BY <1>0, <2>1, <2>2 DEF DraftBased
  <1>7. HistoryStep \/ UNCHANGED historyVars
    BY DEF Next, Commit, SocketStep, TokenExpires, OpenSocket, OnOpen, OnClose,
       Disconnect, Receive, RecoveryStep,
       RecoverPage, RecoverFails, vars
  <1> QED
    BY <1>1, <1>2, <1>3, <1>4, <1>5, <1>6, <1>7 DEF HistoryStep

\* A message the tab has shown is dropped only by a refetch, and only to lie
\* before the cursor of the next older page: "Load older" brings it back.
THEOREM DroppedCanBeLoaded == Spec => OnlyOlderFolded
  <1>1. Init => DraftBased
    BY NoDraftSound DEF Init, DraftBased
  <1>2. IInv /\ DraftBased /\ [Next]_vars =>
          [\A m \in Shown \ Shown' : older' # None /\ m < older']_vars
    <2> SUFFICES ASSUME IInv, DraftBased, [Next]_vars, NEW m \in Shown \ Shown'
                 PROVE  older' # None /\ m < older'
      OBVIOUS
    <2>1. store \subseteq store' /\ (RefetchEnds \/ cache \subseteq cache')
      BY DEF Next, Commit, SocketStep, TokenExpires, OpenSocket, OnOpen, OnClose,
       Disconnect, Receive, RecoveryStep,
         RecoverPage, RecoverFails, HistoryStep, LoadHistory, LoadOlder, Invalidate,
         RefetchPage, RefetchEnds, RefetchFails, DraftBased, vars
    <2>2. m \in cache /\ m \notin cache' /\ RefetchEnds
      BY <2>1 DEF Shown
    <2>3. m \in draft.base /\ m \notin draft.cache /\ older' = draft.older
      BY <2>2 DEF RefetchEnds, DraftBased
    <2>4. Contiguous(draft.base, draft.older, draft.cache)
      BY <2>2 DEF RefetchEnds, IInv, HistoryInv
    <2>5. draft.older # None /\ ~(m >= draft.older)
      BY <2>3, <2>4 DEF Contiguous
    <2>6. m \in Nat /\ draft.older \in Nat
      <3>1. m \in rows /\ draft.older \in rows \cup {None} /\ rows \subseteq Message
        BY <2>2 DEF IInv, TabInv, HistoryInv
      <3>2. rows \subseteq Nat /\ None \in Nat
        BY <3>1
      <3> QED
        BY <3>1, <3>2, Zenon
    <2> QED
      BY <2>3, <2>5, <2>6
  <1> QED
    BY <1>1, <1>2, DraftBasedStep, Invariance, PTL DEF Spec, OnlyOlderFolded
=============================================================================
