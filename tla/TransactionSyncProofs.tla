------------------------ MODULE TransactionSyncProofs ------------------------
(***************************************************************************)
(* Theorems of TransactionSync, for any addresses, transactions, filters   *)
(* and page sizes: a force refresh replaces the history of its address by  *)
(* all of it or not at all, a normal sync that says it is complete is, and *)
(* the canonical rows are those that are referred to.  The last section    *)
(* says which ends of a sync leave a hole, and that no other event does.   *)
(***************************************************************************)
EXTENDS TransactionSync, NaturalOrder, FiniteSetTheorems

Paging == sync.pc \in {"fetch", "store", "turn"}
HasPage == sync.pc \in {"store", "turn"}

\* The cursor has not come to x yet.
Below(x) == sync.before = 0 \/ x < sync.before

\* What the chain had of the address when the sync began.
Begun == History(sync.addr, sync.since)

\* Only what is on the chain is stored.
RowsInv == \A a \in Addrs : local[a] \subseteq History(a, top)

RunInv ==
  sync.pc # "idle" =>
    /\ sync.since <= top
    /\ sync.force => sync.range = NoFilter
    /\ sync.pc = "fetch" => sync.pages < MaxPages
    /\ sync.pc = "finish" => sync.force /\ sync.stop \in Completions \union {"max_pages"}

StageInv == staged # {} => sync.pc # "idle" /\ staged \subseteq History(sync.addr, top)

\* Known rows stay known while a force refresh collects its own.
LoadedInv ==
  sync.force /\ (Paging \/ sync.pc = "finish") /\ local[sync.addr] # {} => sync.loaded

PageInv ==
  HasPage => sync.page # {} /\ \A x \in sync.page : x \in History(sync.addr, top) /\ Below(x)

\* A page is stored before the loop turns.
StoredInv ==
  sync.pc = "turn" =>
    \A x \in sync.page :
      IF sync.force THEN x \in staged
      ELSE x <= sync.range.to => x \in local[sync.addr]

\* A page has no hole, and the last one has all that is left.
CoverInv ==
  HasPage /\ ~sync.misled =>
    \A x \in Begun :
      Below(x) /\ (sync.next = "none" \/ \E y \in sync.page : y <= x) => x \in sync.page

\* Down to the cursor everything has been taken.
TakenInv ==
  Paging /\ ~sync.misled =>
    \A x \in Begun :
      ~Below(x) => IF sync.force THEN x \in staged
                   ELSE x \in InRange(sync.range) => x \in local[sync.addr]

\* Below the pages of this sync the history still has no hole.
SolidInv ==
  Paging /\ ~sync.force /\ sync.solid =>
    \A x \in local[sync.addr], y \in Begun :
      /\ Below(x) /\ sync.range.from <= y /\ y <= x
      /\ sync.pc = "turn" /\ sync.fresh # {} => \A p \in sync.page : x < p
      => y \in local[sync.addr]

\* A force refresh that may be promoted has staged everything.
CompleteInv ==
  sync.pc = "finish" /\ sync.stop \in Completions /\ ~sync.misled => Begun \subseteq staged

IInv ==
  /\ TypeOK /\ RowsInv /\ CanonicalRowsAreReferenced
  /\ RunInv /\ StageInv /\ LoadedInv
  /\ PageInv /\ StoredInv /\ CoverInv /\ TakenInv /\ SolidInv
  /\ CompleteInv /\ RangeSyncCompletes

-----------------------------------------------------------------------------
(* Arithmetic of finite sets of transactions.                              *)

\* The oldest row of a page, where the cursor goes.
LEMMA OldestRow ==
  ASSUME NEW S \in SUBSET Txs, S # {}
  PROVE  Min(S) \in S /\ \A y \in S : Min(S) <= y
<1>1. S \in SUBSET Nat
  BY ParameterAssumption DEF Txs
<1>2. \E x \in S : \A y \in S : x <= y
  BY <1>1, LeastNatural
<1> QED BY <1>2, Zenon DEF Min

\* The newest of some transactions.
LEMMA NewestTx ==
  ASSUME NEW S \in SUBSET Txs, S # {}
  PROVE  \E x \in S : \A y \in S : y <= x
<1>1. MaxTx \in Nat /\ S \in SUBSET (0..MaxTx)
  BY ParameterAssumption DEF Txs
<1> QED BY <1>1, GreatestNatural

\* Transactions are ranks from 1.
LEMMA Transactions == Txs \subseteq Nat /\ \A x \in Txs : 1 <= x /\ x <= MaxTx
BY ParameterAssumption DEF Txs

\* A page is the newest part of what is below the cursor, and something if there
\* is something.
LEMMA PageFacts ==
  ASSUME TypeOK
  PROVE  /\ NextPage \subseteq Older
         /\ Older \subseteq History(sync.addr, top)
         /\ \A x \in Older, y \in NextPage : y <= x => x \in NextPage
         /\ Older # {} => NextPage # {}
<1>1. NextPage \subseteq Older /\ Older \subseteq History(sync.addr, top)
  BY DEF NextPage, Older
<1>2. Older \subseteq Txs /\ top \in Nat /\ PageLimit \in Nat \ {0}
  BY ParameterAssumption DEF Older, History, TypeOK, SyncType, Txs
<1>3. IsFiniteSet(Older)
  <2>1. IsFiniteSet(Txs)
    BY FS_Interval, ParameterAssumption DEF Txs
  <2> QED BY <1>2, <2>1, FS_Subset
<1> DEFINE Newer(x) == {y \in Older : y > x}
<1>4. \A x \in Txs : IsFiniteSet(Newer(x)) /\ Cardinality(Newer(x)) \in Nat
  BY <1>3, FS_Subset, FS_CardinalityType
<1>5. ASSUME NEW x \in Older, NEW y \in NextPage, y <= x
      PROVE  x \in NextPage
  <2>1. y \in Older /\ Cardinality(Newer(y)) < PageLimit
    BY DEF NextPage
  <2>2. ASSUME NEW z \in Newer(x) PROVE z \in Newer(y)
    <3>1. x \in Nat /\ y \in Nat /\ z \in Nat /\ z \in Older /\ z > x
      BY <1>2, <2>1, Transactions
    <3> QED BY <1>5, <3>1
  <2>3. Cardinality(Newer(x)) <= Cardinality(Newer(y))
    BY <1>2, <1>4, <2>1, <2>2, FS_Subset
  <2>4. Cardinality(Newer(x)) < PageLimit
    BY <1>2, <1>4, <2>1, <2>3
  <2> QED BY <2>4 DEF NextPage
<1>6. ASSUME Older # {} PROVE NextPage # {}
  <2>1. PICK x \in Older : \A y \in Older : y <= x
    BY <1>2, <1>6, NewestTx
  <2>2. ASSUME NEW y \in Newer(x) PROVE FALSE
    <3>1. x \in Nat /\ y \in Nat /\ y <= x /\ y > x
      BY <1>2, <2>1, Transactions
    <3> QED BY <3>1
  <2>3. Cardinality(Newer(x)) = 0
    BY <2>2, FS_EmptySet
  <2> QED BY <1>2, <2>3 DEF NextPage
<1> QED BY <1>1, <1>5, <1>6

-----------------------------------------------------------------------------
(* One lemma per action.                                                   *)

\* What the explorer has of an address only grows.
LEMMA HistoryGrows ==
  ASSUME NEW a, NEW t \in Nat, NEW u \in Nat, t <= u
  PROVE  History(a, t) \subseteq History(a, u)
BY DEF History

\* A database without rows and no sync under way.
LEMMA InitEstablishes == Init => IInv
<1> SUFFICES ASSUME Init PROVE IInv
  OBVIOUS
<1> USE ParameterAssumption DEF Init
<1>1. TypeOK
  <2>1. sync.pc = "idle"
    BY DEF Idle
  <2>2. NoFilter \in [from : Txs, to : Txs]
    BY DEF NoFilter, Txs
  <2> QED BY <2>1, <2>2 DEF TypeOK, SyncType, Idle, Stops, Completions, Txs
<1>2. RowsInv /\ CanonicalRowsAreReferenced
  BY DEF RowsInv, CanonicalRowsAreReferenced, Referenced
<1>3. ~Paging /\ ~HasPage /\ sync.pc = "idle"
  BY DEF Idle, Paging, HasPage
<1> QED
  BY <1>1, <1>2, <1>3 DEF IInv, RunInv, StageInv, LoadedInv, PageInv, StoredInv,
     CoverInv, TakenInv, SolidInv, CompleteInv, RangeSyncCompletes

\* A transaction that arrives during a sync is newer than all it has to fetch.
LEMMA NewTransactionPreserves ==
  ASSUME IInv, NewTransaction
  PROVE  IInv'
<1> USE ParameterAssumption DEF IInv, NewTransaction
<1>1. top \in Nat /\ top' = top + 1 /\ top' \in 0..MaxTx
  BY DEF TypeOK, SyncType
<1>2. \A a : History(a, top) \subseteq History(a, top')
  BY <1>1, HistoryGrows
<1>3. TypeOK'
  BY <1>1 DEF TypeOK, SyncType
<1>4. RowsInv' /\ StageInv' /\ PageInv'
  BY <1>2 DEF RowsInv, StageInv, PageInv, Below, HasPage
<1>5. RunInv'
  BY <1>1 DEF RunInv, TypeOK, SyncType
<1>6. (CanonicalRowsAreReferenced /\ LoadedInv /\ StoredInv /\ CoverInv /\ TakenInv)'
  BY DEF CanonicalRowsAreReferenced, Referenced, LoadedInv, StoredInv, CoverInv, TakenInv,
         Paging, HasPage, Below, Begun
<1>7. (SolidInv /\ CompleteInv /\ RangeSyncCompletes)'
  BY DEF SolidInv, CompleteInv, RangeSyncCompletes, Wanted, Paging, Below, Begun
<1> QED BY <1>3, <1>4, <1>5, <1>6, <1>7

\* Nothing is under way afterwards.
LEMMA IdlePreserves ==
  ASSUME IInv, Crash \/ Return
  PROVE  IInv'
<1> USE ParameterAssumption DEF IInv, Crash, Return
<1>1. sync' = Idle /\ staged' = {} /\ UNCHANGED <<top, local, canonical>>
  OBVIOUS
<1>2. sync'.pc = "idle" /\ ~Paging' /\ ~HasPage'
  BY <1>1 DEF Idle, Paging, HasPage
<1>3. TypeOK'
  <2>1. NoFilter \in [from : Txs, to : Txs]
    BY DEF NoFilter, Txs
  <2> QED BY <1>1, <1>2, <2>1 DEF TypeOK, SyncType, Idle, Stops, Completions, Txs
<1>4. RowsInv' /\ CanonicalRowsAreReferenced'
  BY <1>1 DEF RowsInv, CanonicalRowsAreReferenced, Referenced
<1> QED
  BY <1>1, <1>2, <1>3, <1>4 DEF RunInv, StageInv, LoadedInv, PageInv, StoredInv,
     CoverInv, TakenInv, SolidInv, CompleteInv, RangeSyncCompletes

\* The cancellation token is read by no part of the invariant.
LEMMA CancelPreserves ==
  ASSUME IInv, Cancel
  PROVE  IInv'
<1> USE DEF IInv, Cancel
<1>1. sync' = [sync EXCEPT !.cancelled = TRUE] /\ UNCHANGED <<top, local, canonical, staged>>
  OBVIOUS
<1>2. TypeOK'
  BY <1>1 DEF TypeOK, SyncType
<1>3. /\ sync'.pc = sync.pc /\ sync'.addr = sync.addr /\ sync'.force = sync.force
      /\ sync'.range = sync.range /\ sync'.before = sync.before
      /\ sync'.pages = sync.pages /\ sync'.page = sync.page /\ sync'.next = sync.next
      /\ sync'.fresh = sync.fresh /\ sync'.loaded = sync.loaded
      /\ sync'.stop = sync.stop /\ sync'.since = sync.since
      /\ sync'.solid = sync.solid /\ sync'.misled = sync.misled
  BY <1>1 DEF TypeOK, SyncType
<1>4. (RowsInv /\ CanonicalRowsAreReferenced /\ RunInv /\ StageInv /\ LoadedInv)'
  BY <1>1, <1>3 DEF RowsInv, CanonicalRowsAreReferenced, Referenced, RunInv, StageInv,
     LoadedInv, Paging
<1>5. (PageInv /\ StoredInv /\ CoverInv /\ TakenInv)'
  BY <1>1, <1>3 DEF PageInv, StoredInv, CoverInv, TakenInv, Paging, HasPage, Below, Begun
<1>6. (SolidInv /\ CompleteInv /\ RangeSyncCompletes)'
  BY <1>1, <1>3 DEF SolidInv, CompleteInv, RangeSyncCompletes, Wanted, Paging, Below, Begun
<1> QED BY <1>2, <1>4, <1>5, <1>6

\* A sync that ends without a promise keeps what it has stored.
LEMMA EndsPreserves ==
  ASSUME IInv, StopCancelled \/ Fails
  PROVE  IInv'
<1> USE DEF IInv, StopCancelled, Fails, Ends
<1>1. PICK s \in {"cancelled", "error"} :
        /\ sync' = [sync EXCEPT !.pc = "done", !.stop = s]
        /\ UNCHANGED <<top, local, canonical, staged>> /\ sync.pc # "idle"
  OBVIOUS
<1>2. TypeOK'
  BY <1>1 DEF TypeOK, SyncType, Stops
<1>3. /\ sync'.pc = "done" /\ sync'.stop = s /\ sync'.addr = sync.addr
      /\ sync'.force = sync.force /\ sync'.range = sync.range /\ sync'.since = sync.since
  BY <1>1 DEF TypeOK, SyncType
<1>4. ~Paging' /\ ~HasPage' /\ s \notin Completions
  BY <1>3 DEF Paging, HasPage, Completions
<1>5. (RowsInv /\ CanonicalRowsAreReferenced /\ RunInv /\ StageInv)'
  BY <1>1, <1>3 DEF RowsInv, CanonicalRowsAreReferenced, Referenced, RunInv, StageInv
<1> QED
  BY <1>1, <1>2, <1>3, <1>4, <1>5 DEF LoadedInv, PageInv, StoredInv,
     CoverInv, TakenInv, SolidInv, CompleteInv, RangeSyncCompletes

\* A deletion for an address keeps the canonical rows others refer to.
LEMMA DeleteForAddressPreserves ==
  ASSUME IInv, NEW a \in Addrs, DeleteForAddress(a)
  PROVE  IInv'
<1> USE DEF IInv, DeleteForAddress, ReplaceRows
<1>1. /\ local' = [local EXCEPT ![a] = {}] /\ sync.pc = "idle"
      /\ UNCHANGED <<top, staged, sync>>
      /\ canonical' = {x \in canonical : x \in Referenced(local')}
  OBVIOUS
<1>2. TypeOK'
  BY <1>1 DEF TypeOK, SyncType
<1>3. RowsInv'
  BY <1>1 DEF RowsInv, TypeOK, SyncType
<1>4. CanonicalRowsAreReferenced'
  <2>1. Referenced(local') \subseteq Referenced(local)
    BY <1>1 DEF Referenced, TypeOK, SyncType
  <2> QED BY <1>1, <2>1 DEF CanonicalRowsAreReferenced
<1>5. ~Paging' /\ ~HasPage' /\ sync'.pc = "idle"
  BY <1>1 DEF Paging, HasPage
<1> QED
  BY <1>1, <1>2, <1>3, <1>4, <1>5 DEF RunInv, StageInv, LoadedInv, PageInv, StoredInv,
     CoverInv, TakenInv, SolidInv, CompleteInv, RangeSyncCompletes

\* A sync begins with everything below its cursor, and has taken nothing.
LEMMA BeginPreserves ==
  ASSUME IInv, NEW a \in Addrs, NEW f \in BOOLEAN, NEW r \in Ranges \union {NoFilter},
         Begin(a, f, r)
  PROVE  IInv'
<1> USE ParameterAssumption DEF IInv
<1> DEFINE range == IF f THEN NoFilter ELSE r
           new == [Idle EXCEPT !.pc = "fetch", !.addr = a, !.force = f, !.range = range,
                               !.loaded = local[a] # {}, !.since = top,
                               !.solid = NoHole(a, range)]
<1>1. sync' = new /\ staged' = {} /\ UNCHANGED <<top, local, canonical>>
  BY DEF Begin
<1>2. /\ sync'.pc = "fetch" /\ sync'.addr = a /\ sync'.force = f /\ sync'.range = range
      /\ sync'.loaded = (local[a] # {}) /\ sync'.since = top /\ sync'.pages = 0
      /\ sync'.solid = NoHole(a, range) /\ sync'.before = 0
  <2> HIDE DEF range
  <2> QED BY <1>1 DEF Idle
<1>3. TypeOK'
  <2>1. range \in Ranges \union {NoFilter}
    OBVIOUS
  <2>2. NoHole(a, range) \in BOOLEAN /\ (local[a] # {}) \in BOOLEAN
    BY Zenon DEF NoHole
  <2> DEFINE loaded == local[a] # {}
             solid == NoHole(a, range)
  <2>3. sync' = [pc |-> "fetch", addr |-> a, force |-> f, range |-> range,
                 before |-> 0, pages |-> 0, page |-> {}, next |-> "none", fresh |-> {},
                 loaded |-> loaded, cancelled |-> FALSE, stop |-> "none",
                 since |-> top, solid |-> solid, misled |-> FALSE]
    <3> HIDE DEF range, loaded, solid
    <3> QED BY <1>1 DEF Idle, loaded, solid
  <2> HIDE DEF range, loaded, solid
  <2>4. loaded \in BOOLEAN /\ solid \in BOOLEAN
    BY <2>2, Zenon DEF loaded, solid
  <2>5. /\ a \in Addrs /\ f \in BOOLEAN /\ top \in 0..MaxTx /\ "none" \in Stops
        /\ 0 \in 0..MaxTx /\ 0 \in 0..MaxPages
    BY DEF TypeOK, Stops
  <2>6. sync' \in SyncType
    BY <2>1, <2>3, <2>4, <2>5 DEF SyncType
  <2> QED BY <1>1, <1>2, <2>6 DEF TypeOK
<1>4. Paging' /\ ~HasPage'
  BY <1>2 DEF Paging, HasPage
<1>5. top \in Nat /\ MaxPages \in Nat \ {0}
  BY DEF TypeOK, SyncType
<1>6. (RowsInv /\ CanonicalRowsAreReferenced /\ RunInv /\ StageInv)'
  BY <1>1, <1>2, <1>5 DEF RowsInv, CanonicalRowsAreReferenced, Referenced, RunInv, StageInv
<1>7. (LoadedInv /\ PageInv /\ StoredInv /\ CoverInv)'
  BY <1>1, <1>2, <1>4 DEF LoadedInv, PageInv, StoredInv, CoverInv
<1>8. (TakenInv /\ CompleteInv /\ RangeSyncCompletes)'
  BY <1>2 DEF TakenInv, CompleteInv, RangeSyncCompletes, Below
<1>9. SolidInv'
  <2>1. SUFFICES ASSUME NoHole(a, range), ~f,
                        NEW x \in local[a], NEW y \in History(a, top),
                        range.from <= y, y <= x
                 PROVE  y \in local[a]
    <3> HIDE DEF range
    <3> QED BY <1>1, <1>2 DEF SolidInv, Begun
  <2> QED BY <2>1 DEF NoHole
<1> QED BY <1>3, <1>6, <1>7, <1>8, <1>9

\* A page that was answered in full has no hole; an empty one ends the history.
LEMMA FetchPagePreserves ==
  ASSUME IInv, FetchPage
  PROVE  IInv'
<1> USE ParameterAssumption DEF IInv
<1>1. PICK page \in {NextPage, {}}, next \in {"none", "older"} :
        /\ page # {} /\ page # Older => next = "older"
        /\ sync' = [sync EXCEPT
             !.pages = @ + 1, !.page = page, !.next = next,
             !.misled = @ \/ page # NextPage,
             !.pc = IF page # {} THEN "store" ELSE IF sync.force THEN "finish" ELSE "done",
             !.stop = IF page = {} THEN "empty_page" ELSE @]
  BY Zenon DEF FetchPage
<1>2. sync.pc = "fetch" /\ UNCHANGED <<top, local, canonical, staged>>
  BY DEF FetchPage
<1>3. /\ sync'.pc = (IF page # {} THEN "store" ELSE IF sync.force THEN "finish" ELSE "done")
      /\ sync'.stop = (IF page = {} THEN "empty_page" ELSE sync.stop)
      /\ sync'.page = page /\ sync'.next = next /\ sync'.pages = sync.pages + 1
      /\ sync'.misled = (sync.misled \/ page # NextPage)
      /\ sync'.addr = sync.addr /\ sync'.force = sync.force /\ sync'.range = sync.range
      /\ sync'.before = sync.before /\ sync'.loaded = sync.loaded
      /\ sync'.since = sync.since /\ sync'.solid = sync.solid
  BY <1>1 DEF TypeOK, SyncType
<1>4. /\ page \subseteq Older /\ Older \subseteq History(sync.addr, top)
      /\ \A x \in Older, y \in NextPage : y <= x => x \in NextPage
      /\ Older # {} => NextPage # {}
  BY <1>1, PageFacts
<1>5. TypeOK'
  <2>1. sync.pages + 1 \in 0..MaxPages
    BY <1>2 DEF RunInv, TypeOK, SyncType
  <2>2. page \subseteq Txs
    BY <1>4 DEF History, Txs, TypeOK, SyncType
  <2>3. (sync.misled \/ page # NextPage) \in BOOLEAN
    BY Zenon
  <2> DEFINE misled == sync.misled \/ page # NextPage
             pc == IF page # {} THEN "store" ELSE IF sync.force THEN "finish" ELSE "done"
             stop == IF page = {} THEN "empty_page" ELSE sync.stop
  <2>4. sync' = [sync EXCEPT !.pages = sync.pages + 1, !.page = page, !.next = next,
                             !.misled = misled, !.pc = pc, !.stop = stop]
    BY <1>1
  <2>5. pc \in {"store", "finish", "done"} /\ stop \in Stops
    BY DEF TypeOK, SyncType, Stops, Completions
  <2>6. misled \in BOOLEAN
    BY <2>3
  <2> HIDE DEF misled, pc, stop
  <2>7. next \in {"none", "older"}
    BY <1>1
  <2>8. sync \in SyncType /\ page \in SUBSET Txs
    BY <2>2 DEF TypeOK
  <2>9. ASSUME NEW n \in 0..MaxPages, NEW b \in BOOLEAN, NEW p \in {"store", "finish", "done"},
               NEW e \in Stops,
               sync' = [sync EXCEPT !.pages = n, !.page = page, !.next = next,
                                    !.misled = b, !.pc = p, !.stop = e]
        PROVE  sync' \in SyncType
    BY <2>7, <2>8, <2>9 DEF SyncType
  <2>10. sync' \in SyncType
    BY <2>1, <2>4, <2>5, <2>6, <2>9
  <2> QED BY <1>2, <1>3, <2>10 DEF TypeOK
<1>6. (RowsInv /\ CanonicalRowsAreReferenced)'
  BY <1>2 DEF RowsInv, CanonicalRowsAreReferenced, Referenced
<1>7. (RunInv /\ StageInv)'
  BY <1>2, <1>3 DEF RunInv, StageInv, Completions
<1>8. (LoadedInv /\ StoredInv)'
  BY <1>2, <1>3 DEF LoadedInv, StoredInv, Paging
<1>9. PageInv'
  BY <1>2, <1>3, <1>4 DEF PageInv, HasPage, Below, Older
<1>10. \A x \in Begun : Below(x) => x \in Older
  <2>1. sync.since \in Nat /\ top \in Nat /\ sync.since <= top
    BY <1>2 DEF TypeOK, SyncType, RunInv
  <2>2. Begun \subseteq History(sync.addr, top)
    BY <2>1, HistoryGrows DEF Begun
  <2> QED BY <2>2 DEF Below, Older
<1>11. CoverInv'
  <2>1. SUFFICES ASSUME page # {}, page = NextPage, NEW x \in Begun, Below(x),
                        next = "none" \/ \E y \in page : y <= x
                 PROVE  x \in page
    BY <1>2, <1>3 DEF CoverInv, HasPage, Begun, Below
  <2>2. x \in Older
    BY <1>10, <2>1
  <2> QED BY <1>1, <1>4, <2>1, <2>2
<1>12. TakenInv' /\ SolidInv'
  BY <1>2, <1>3 DEF TakenInv, SolidInv, Paging, Begun, Below
<1>13. ASSUME page = {}, page = NextPage, ~sync.misled PROVE \A x \in Begun : ~Below(x)
  BY <1>4, <1>10, <1>13
<1>14. CompleteInv'
  <2>1. SUFFICES ASSUME page = {}, page = NextPage, ~sync.misled, sync.force,
                        NEW x \in Begun
                 PROVE  x \in staged
    BY <1>2, <1>3 DEF CompleteInv, Begun
  <2> QED BY <1>2, <1>13, <2>1 DEF TakenInv, Paging
<1>15. RangeSyncCompletes'
  <2>1. SUFFICES ASSUME page = {}, page = NextPage, ~sync.misled, ~sync.force,
                        NEW x \in Begun, x \in InRange(sync.range)
                 PROVE  x \in local[sync.addr]
    BY <1>2, <1>3 DEF RangeSyncCompletes, Begun, Wanted
  <2> QED BY <1>2, <1>13, <2>1 DEF TakenInv, Paging
<1> QED
  BY <1>5, <1>6, <1>7, <1>8, <1>9, <1>11, <1>12, <1>14, <1>15

\* The rows of a page go to the table, or to the stage of a force refresh.
LEMMA StorePagePreserves ==
  ASSUME IInv, StorePage
  PROVE  IInv'
<1> USE ParameterAssumption DEF IInv
<1> DEFINE a == sync.addr
           known == IF sync.force THEN {} ELSE local[a]
           fresh == {x \in sync.page : x <= sync.range.to} \ known
<1>1. /\ sync.pc = "store"
      /\ sync' = [sync EXCEPT !.pc = "turn", !.fresh = fresh]
      /\ top' = top
      /\ sync.force => staged' = staged \union fresh /\ UNCHANGED <<local, canonical>>
      /\ ~sync.force => /\ local' = [local EXCEPT ![a] = @ \union fresh]
                        /\ canonical' = canonical \union fresh
                        /\ staged' = staged
  BY DEF StorePage, Upsert
<1>2. /\ sync'.pc = "turn" /\ sync'.fresh = fresh /\ sync'.page = sync.page
      /\ sync'.next = sync.next /\ sync'.pages = sync.pages
      /\ sync'.misled = sync.misled /\ sync'.stop = sync.stop
      /\ sync'.addr = sync.addr /\ sync'.force = sync.force /\ sync'.range = sync.range
      /\ sync'.before = sync.before /\ sync'.loaded = sync.loaded
      /\ sync'.since = sync.since /\ sync'.solid = sync.solid
  <2> HIDE DEF fresh
  <2> QED BY <1>1 DEF TypeOK, SyncType
<1>3. a \in Addrs /\ sync.page \subseteq Txs /\ fresh \subseteq sync.page
  BY <1>1 DEF TypeOK, SyncType
<1>4. fresh \subseteq History(a, top)
  BY <1>1, <1>3 DEF PageInv, HasPage
<1>5. /\ \A x \in local[a] : x \in local'[a]
      /\ ~sync.force => local'[a] = local[a] \union fresh
      /\ \A b \in Addrs : b # a => local'[b] = local[b]
  <2> HIDE DEF fresh
  <2> QED BY <1>1, <1>3 DEF TypeOK, SyncType
<1> HIDE DEF fresh
<1>6. TypeOK'
  <2>1. sync' \in SyncType
    BY <1>1, <1>3 DEF TypeOK, SyncType
  <2>2. (staged \subseteq Txs /\ canonical \subseteq Txs /\ local \in [Addrs -> SUBSET Txs])'
    BY <1>1, <1>3 DEF TypeOK
  <2> QED BY <1>1, <1>2, <1>3, <2>1, <2>2 DEF TypeOK
<1>7. RowsInv'
  BY <1>1, <1>4, <1>5 DEF RowsInv
<1>8. CanonicalRowsAreReferenced'
  <2>1. CASE sync.force
    BY <1>1, <2>1 DEF CanonicalRowsAreReferenced, Referenced
  <2>2. CASE ~sync.force
    <3>1. Referenced(local') = Referenced(local) \union fresh
      BY <1>3, <1>5, <2>2 DEF Referenced
    <3> QED BY <1>1, <2>2, <3>1 DEF CanonicalRowsAreReferenced
  <2> QED BY <2>1, <2>2
<1>9. RunInv'
  BY <1>1, <1>2 DEF RunInv
<1>10. StageInv'
  BY <1>1, <1>2, <1>4 DEF StageInv
<1>11. LoadedInv' /\ PageInv'
  BY <1>1, <1>2 DEF LoadedInv, PageInv, Paging, HasPage, Below
<1>12. StoredInv'
  <2>1. SUFFICES ASSUME NEW x \in sync.page
                 PROVE  IF sync.force THEN x \in staged'
                        ELSE x <= sync.range.to => x \in local'[a]
    BY <1>2 DEF StoredInv
  <2>2. CASE sync.force
    <3>1. sync.range.to = MaxTx /\ x <= MaxTx
      BY <1>1, <1>3, <2>2, Transactions DEF RunInv, NoFilter
    <3> QED BY <1>1, <2>2, <3>1 DEF fresh
  <2>3. CASE ~sync.force
    BY <1>5, <2>3 DEF fresh
  <2> QED BY <2>2, <2>3
<1>13. CoverInv'
  BY <1>1, <1>2 DEF CoverInv, HasPage, Begun, Below
<1>14. TakenInv'
  BY <1>1, <1>2, <1>5 DEF TakenInv, Paging, Begun, Below
<1>15. SolidInv'
  <2>1. SUFFICES ASSUME ~sync.force, sync.solid, NEW x \in local'[a], NEW y \in Begun,
                        Below(x), sync.range.from <= y, y <= x,
                        fresh # {} => \A p \in sync.page : x < p
                 PROVE  y \in local'[a]
    BY <1>2 DEF SolidInv, Begun, Below
  <2>2. x \in local[a]
    <3>1. x \in Txs
      BY <1>3, <1>6 DEF TypeOK, SyncType
    <3>2. x \notin fresh
      BY <1>3, <2>1, <3>1, Transactions
    <3> QED BY <1>5, <2>1, <3>2
  <2>3. y \in local[a]
    BY <1>1, <2>1, <2>2 DEF SolidInv, Paging
  <2> QED BY <1>5, <2>3
<1>16. CompleteInv' /\ RangeSyncCompletes'
  BY <1>2 DEF CompleteInv, RangeSyncCompletes
<1> QED
  BY <1>6, <1>7, <1>8, <1>9, <1>10, <1>11, <1>12, <1>13, <1>14, <1>15, <1>16

\* The cursor goes to the oldest row of the page, or the sync ends with a reason
\* that proves it complete, or with the page limit.
LEMMA TurnPreserves ==
  ASSUME IInv, Turn
  PROVE  IInv'
<1> USE ParameterAssumption DEF IInv
<1> DEFINE m == Min(sync.page)
           before == IF StopAt = "none" THEN m ELSE sync.before
           pc == IF StopAt = "none" THEN "fetch" ELSE IF sync.force THEN "finish" ELSE "done"
<1>1. /\ sync.pc = "turn" /\ UNCHANGED <<top, local, canonical, staged>>
      /\ sync' = [sync EXCEPT !.stop = StopAt, !.page = {}, !.fresh = {}, !.next = "none",
                              !.before = before, !.pc = pc]
  BY DEF Turn
<1>2. /\ m \in sync.page /\ m \in Nat /\ 1 <= m /\ m <= MaxTx
      /\ \A x \in sync.page : m <= x
  BY <1>1, OldestRow, Transactions DEF PageInv, HasPage, TypeOK, SyncType
<1>3. StopAt \in Completions \union {"none", "max_pages"}
  BY DEF StopAt, Completions
<1> HIDE DEF m
<1>4. /\ sync'.pc = pc /\ sync'.stop = StopAt /\ sync'.before = before
      /\ sync'.page = {} /\ sync'.fresh = {} /\ sync'.next = "none"
      /\ sync'.pages = sync.pages /\ sync'.misled = sync.misled
      /\ sync'.addr = sync.addr /\ sync'.force = sync.force /\ sync'.range = sync.range
      /\ sync'.loaded = sync.loaded /\ sync'.since = sync.since /\ sync'.solid = sync.solid
  <2> HIDE DEF before, pc
  <2> QED BY <1>1 DEF TypeOK, SyncType
<1>5. pc \in {"fetch", "finish", "done"} /\ before \in 0..MaxTx /\ StopAt \in Stops
  BY <1>2, <1>3 DEF TypeOK, SyncType, Stops
<1>6. TypeOK'
  <2> HIDE DEF before, pc
  <2>1. sync' \in SyncType
    BY <1>1, <1>5 DEF TypeOK, SyncType
  <2> QED BY <1>1, <1>4, <2>1 DEF TypeOK
<1>7. (RowsInv /\ CanonicalRowsAreReferenced /\ StageInv)'
  BY <1>1, <1>4 DEF RowsInv, CanonicalRowsAreReferenced, Referenced, StageInv
<1>8. StopAt = "none" => sync.pages # MaxPages
  BY DEF StopAt
<1>9. RunInv'
  BY <1>1, <1>3, <1>4, <1>8 DEF RunInv, TypeOK, SyncType
<1>10. (LoadedInv /\ PageInv /\ StoredInv /\ CoverInv)'
  BY <1>1, <1>4 DEF LoadedInv, PageInv, StoredInv, CoverInv, Paging, HasPage
\* The order of the rows of the page, of the chain and of the range.
<1>11. /\ sync.before \in Nat /\ sync.range.from \in Nat /\ sync.range.to \in Nat
       /\ Begun \subseteq Nat /\ sync.page \subseteq Nat
       /\ local[sync.addr] \subseteq Nat
  <2>1. sync.range \in [from : Txs, to : Txs]
    BY DEF TypeOK, SyncType, NoFilter, Txs
  <2>2. local[sync.addr] \subseteq Txs /\ sync.page \subseteq Txs
    BY <1>1 DEF TypeOK, SyncType
  <2>3. Begun \subseteq Nat
    BY DEF Begun, History, TypeOK, SyncType
  <2>4. sync.range.from \in Txs /\ sync.range.to \in Txs
    BY <2>1
  <2>5. sync.before \in Nat
    BY DEF TypeOK, SyncType
  <2> QED BY <2>2, <2>3, <2>4, <2>5, Transactions
<1>12. ASSUME NEW x \in sync.page PROVE Below(x)
  BY <1>1 DEF PageInv, HasPage
\* What is not below the oldest row of the page has been taken.
<1>13. ASSUME ~sync.misled, NEW x \in Begun, m <= x \/ sync.next = "none"
       PROVE  IF sync.force THEN x \in staged
              ELSE x \in InRange(sync.range) => x \in local[sync.addr]
  <2>1. CASE ~Below(x)
    BY <1>1, <1>13, <2>1 DEF TakenInv, Paging
  <2>2. CASE Below(x)
    <3>1. x \in sync.page
      BY <1>1, <1>2, <1>13, <2>2 DEF CoverInv, HasPage
    <3>2. x \in InRange(sync.range) => x <= sync.range.to
      BY <1>11 DEF InRange
    <3> QED BY <1>1, <3>1, <3>2 DEF StoredInv
  <2> QED BY <2>1, <2>2
<1>14. TakenInv'
  <2>1. SUFFICES ASSUME StopAt = "none", ~sync.misled, NEW x \in Begun, ~(x < m)
                 PROVE  IF sync.force THEN x \in staged
                        ELSE x \in InRange(sync.range) => x \in local[sync.addr]
    BY <1>1, <1>2, <1>4 DEF TakenInv, Paging, Begun, Below
  <2> QED BY <1>2, <1>11, <1>13, <2>1
<1>15. SolidInv'
  <2>1. SUFFICES ASSUME StopAt = "none", ~sync.force, sync.solid,
                        NEW x \in local[sync.addr], NEW y \in Begun,
                        x < m, sync.range.from <= y, y <= x
                 PROVE  y \in local[sync.addr]
    BY <1>1, <1>2, <1>4 DEF SolidInv, Paging, Begun, Below
  <2>2. Below(x)
    BY <1>2, <1>11, <1>12, <2>1 DEF Below
  <2>3. \A p \in sync.page : x < p
    BY <1>2, <1>11, <2>1
  <2> QED BY <1>1, <2>1, <2>2, <2>3 DEF SolidInv, Paging
\* A page below the start of the range, and the last page.
<1>16. ASSUME ~sync.misled, StopAt \in {"before_start_date", "no_next_page"},
              NEW x \in Begun, x \in InRange(sync.range)
       PROVE  IF sync.force THEN x \in staged ELSE x \in local[sync.addr]
  <2>1. m < sync.range.from \/ sync.next = "none"
    BY <1>16 DEF StopAt, BeforeStart, m
  <2>2. m <= x \/ sync.next = "none"
    BY <1>2, <1>11, <1>16, <2>1 DEF InRange
  <2> QED BY <1>13, <1>16, <2>2
\* A page that was known.
<1>17. ASSUME ~sync.misled, sync.solid, StopAt = "all_existing",
              NEW x \in Begun, x \in InRange(sync.range)
       PROVE  ~sync.force /\ x \in local[sync.addr]
  <2>1. ~sync.force /\ sync.fresh = {} /\ \A p \in sync.page : p <= sync.range.to
    BY <1>17 DEF StopAt, KnowsPage
  <2>2. m \in local[sync.addr]
    BY <1>1, <1>2, <2>1 DEF StoredInv
  <2>3. CASE m <= x
    BY <1>13, <1>17, <2>1, <2>3
  <2>4. CASE x < m
    <3>1. Below(m) /\ sync.range.from <= x /\ x <= m
      BY <1>2, <1>11, <1>12, <1>17, <2>4 DEF InRange
    <3> QED BY <1>1, <1>17, <2>1, <2>2, <3>1 DEF SolidInv, Paging
  <2> QED BY <1>2, <1>11, <2>1, <2>3, <2>4
<1>18. CompleteInv'
  <2>1. SUFFICES ASSUME sync.force, StopAt \in Completions, ~sync.misled, NEW x \in Begun
                 PROVE  x \in staged
    BY <1>1, <1>4 DEF CompleteInv, Begun
  <2>2. StopAt \in {"before_start_date", "no_next_page"}
    BY <2>1 DEF StopAt, Completions, KnowsPage
  <2>3. x \in InRange(sync.range)
    <3>1. sync.range = NoFilter
      BY <1>1, <2>1 DEF RunInv
    <3> QED BY <3>1 DEF NoFilter, InRange, Begun, History, TypeOK, SyncType
  <2> QED BY <1>16, <2>1, <2>2, <2>3
<1>19. RangeSyncCompletes'
  <2>1. SUFFICES ASSUME ~sync.force, StopAt \in Completions, sync.solid, ~sync.misled,
                        NEW x \in Begun, x \in InRange(sync.range)
                 PROVE  x \in local[sync.addr]
    BY <1>1, <1>4 DEF RangeSyncCompletes, Wanted, Begun
  <2>2. StopAt \in {"before_start_date", "no_next_page", "all_existing"}
    BY <2>1 DEF StopAt, Completions
  <2> QED BY <1>16, <1>17, <2>1, <2>2
<1> QED BY <1>6, <1>7, <1>9, <1>10, <1>14, <1>15, <1>18, <1>19

\* A promotion replaces the rows of the address by the stage, all or nothing.
LEMMA FinishForceFacts ==
  ASSUME IInv, FinishForce
  PROVE  /\ sync.pc = "finish" /\ sync.force /\ top' = top
         /\ \/ local' = local /\ canonical' = canonical /\ staged' = staged
               /\ sync' = [sync EXCEPT !.pc = "done", !.stop = "error"]
            \/ /\ sync.stop \in Completions
               /\ sync.loaded => staged # {}
               /\ local' = [local EXCEPT ![sync.addr] = staged]
               /\ canonical' = {x \in canonical \union staged : x \in Referenced(local')}
               /\ staged' = {}
               /\ sync' = [sync EXCEPT !.pc = "done"]
<1> USE DEF IInv
<1>1. sync.pc = "finish" /\ top' = top
  BY DEF FinishForce
<1>2. sync.force /\ sync.stop \in Completions \union {"max_pages"}
  BY <1>1 DEF RunInv
<1>3. [sync EXCEPT !.pc = "done", !.stop = sync.stop] = [sync EXCEPT !.pc = "done"]
  BY DEF TypeOK, SyncType
<1> QED BY <1>1, <1>2, <1>3 DEF FinishForce, Ends, ReplaceRows

\* A force refresh is promoted only if its stage is complete.
LEMMA FinishForcePreserves ==
  ASSUME IInv, FinishForce
  PROVE  IInv'
<1> USE DEF IInv
<1>1. sync.pc = "finish" /\ sync.force /\ top' = top
  BY FinishForceFacts
<1>2. CASE /\ local' = local /\ canonical' = canonical /\ staged' = staged
           /\ sync' = [sync EXCEPT !.pc = "done", !.stop = "error"]
  <2>1. TypeOK'
    BY <1>1, <1>2 DEF TypeOK, SyncType, Stops
  <2>2. /\ sync'.pc = "done" /\ sync'.stop = "error" /\ sync'.addr = sync.addr
        /\ sync'.force = sync.force /\ sync'.range = sync.range /\ sync'.since = sync.since
    BY <1>2 DEF TypeOK, SyncType
  <2>3. ~Paging' /\ ~HasPage' /\ "error" \notin Completions
    BY <2>2 DEF Paging, HasPage, Completions
  <2>4. (RowsInv /\ CanonicalRowsAreReferenced /\ RunInv /\ StageInv)'
    BY <1>1, <1>2, <2>2 DEF RowsInv, CanonicalRowsAreReferenced, Referenced, RunInv, StageInv
  <2> QED
    BY <1>2, <2>1, <2>2, <2>3, <2>4 DEF LoadedInv, PageInv, StoredInv,
       CoverInv, TakenInv, SolidInv, CompleteInv, RangeSyncCompletes
<1>3. CASE /\ sync.stop \in Completions
           /\ local' = [local EXCEPT ![sync.addr] = staged]
           /\ canonical' = {x \in canonical \union staged : x \in Referenced(local')}
           /\ staged' = {}
           /\ sync' = [sync EXCEPT !.pc = "done"]
  <2>1. sync.addr \in Addrs /\ staged \subseteq Txs
    BY <1>1 DEF TypeOK
  <2>2. TypeOK'
    BY <1>1, <1>3, <2>1 DEF TypeOK, SyncType
  <2>3. /\ sync'.pc = "done" /\ sync'.stop = sync.stop /\ sync'.addr = sync.addr
        /\ sync'.force = sync.force /\ sync'.range = sync.range /\ sync'.since = sync.since
        /\ sync'.solid = sync.solid /\ sync'.misled = sync.misled
    BY <1>3 DEF TypeOK, SyncType
  <2>4. ~Paging' /\ ~HasPage'
    BY <2>3 DEF Paging, HasPage
  <2>5. local'[sync.addr] = staged /\ \A b \in Addrs : b # sync.addr => local'[b] = local[b]
    BY <1>3, <2>1 DEF TypeOK
  <2>6. RowsInv'
    BY <1>1, <2>5 DEF RowsInv, StageInv
  <2>7. CanonicalRowsAreReferenced'
    <3>1. Referenced(local') \subseteq Referenced(local) \union staged
      BY <2>5 DEF Referenced
    <3> QED BY <1>3, <3>1 DEF CanonicalRowsAreReferenced
  <2>8. RunInv' /\ StageInv'
    BY <1>1, <1>3, <2>3 DEF RunInv, StageInv
  <2>9. RangeSyncCompletes'
    BY <1>1, <1>3, <2>3, <2>5 DEF RangeSyncCompletes, CompleteInv, Wanted, Begun
  <2> QED
    BY <2>2, <2>3, <2>4, <2>6, <2>7, <2>8, <2>9 DEF LoadedInv, PageInv, StoredInv,
       CoverInv, TakenInv, SolidInv, CompleteInv
<1> QED BY <1>2, <1>3, FinishForceFacts

-----------------------------------------------------------------------------
\* Every step keeps the invariant.
LEMMA NextPreserves == IInv /\ [Next]_vars => IInv'
<1> SUFFICES ASSUME IInv, [Next]_vars PROVE IInv'
  OBVIOUS
<1>1. CASE NewTransaction
  BY <1>1, NewTransactionPreserves
<1>2. CASE Cancel
  BY <1>2, CancelPreserves
<1>3. CASE Crash \/ Return
  BY <1>3, IdlePreserves
<1>4. CASE Fails \/ StopCancelled
  BY <1>4, EndsPreserves
<1>5. CASE FetchPage
  BY <1>5, FetchPagePreserves
<1>6. CASE StorePage
  BY <1>6, StorePagePreserves
<1>7. CASE Turn
  BY <1>7, TurnPreserves
<1>8. CASE FinishForce
  BY <1>8, FinishForcePreserves
<1>9. ASSUME NEW a \in Addrs, DeleteForAddress(a) PROVE IInv'
  BY <1>9, DeleteForAddressPreserves
<1>10. ASSUME NEW a \in Addrs, NEW r \in Ranges, Begin(a, FALSE, r) PROVE IInv'
  BY <1>10, BeginPreserves
<1>11. ASSUME NEW a \in Addrs, Begin(a, TRUE, NoFilter) PROVE IInv'
  BY <1>11, BeginPreserves
<1>12. CASE UNCHANGED vars
  BY <1>12 DEF vars, IInv, TypeOK, RowsInv, CanonicalRowsAreReferenced, Referenced,
     RunInv, StageInv, LoadedInv, PageInv, StoredInv, CoverInv, TakenInv, SolidInv,
     CompleteInv, RangeSyncCompletes, Wanted, Paging, HasPage, Below, Begun
<1> QED
  BY <1>1, <1>2, <1>3, <1>4, <1>5, <1>6, <1>7, <1>8, <1>9, <1>10, <1>11, <1>12
     DEF Next, SyncStep

\* The invariant holds of every behaviour.
LEMMA Inductive == Spec => []IInv
BY InitEstablishes, NextPreserves, PTL DEF Spec

-----------------------------------------------------------------------------
\* Every variable keeps its type.
THEOREM TypeCorrect == Spec => []TypeOK
<1>1. IInv => TypeOK
  BY DEF IInv
<1> QED BY <1>1, Inductive, PTL

\* The canonical rows are those that some address refers to
\* (promote_force_refresh, delete_for_address, upsert_many).
THEOREM CanonicalRowsReferenced == Spec => []CanonicalRowsAreReferenced
<1>1. IInv => CanonicalRowsAreReferenced
  BY DEF IInv
<1> QED BY <1>1, Inductive, PTL

\* A normal sync that ends with a reason other than the page limit has the whole
\* range, if the range had no hole when it began (sync_transactions_with_config).
THEOREM RangeSyncCompletesHolds == Spec => []RangeSyncCompletes
<1>1. IInv => RangeSyncCompletes
  BY DEF IInv
<1> QED BY <1>1, Inductive, PTL

\* While a sync runs, only its own steps change rows, and of a force refresh only
\* the promotion.
LEMMA ForceChanges ==
  ASSUME IInv, [Next]_vars, sync.pc # "idle", sync.force, local' # local
  PROVE  FinishForce
<1>1. UNCHANGED vars => local' = local
  BY DEF vars
<1>2. NewTransaction \/ Cancel \/ Crash \/ Fails \/ StopCancelled \/ FetchPage \/ Turn \/ Return
        => local' = local
  BY DEF NewTransaction, Cancel, Crash, Fails, StopCancelled, FetchPage, Turn, Return
<1>3. StorePage => local' = local
  BY DEF StorePage
<1>4. \A a \in Addrs : ~DeleteForAddress(a)
  BY DEF DeleteForAddress
<1>5. \A a \in Addrs, f \in BOOLEAN, r \in Ranges \union {NoFilter} : ~Begin(a, f, r)
  BY DEF Begin
<1> QED BY <1>1, <1>2, <1>3, <1>4, <1>5 DEF Next, SyncStep

\* A force refresh replaces the history of its address by everything the chain
\* had when it began, or leaves it alone (promote_force_refresh).
THEOREM ForceReplacesWholeHolds == Spec => ForceReplacesWhole
<1> DEFINE Whole == sync.pc # "idle" /\ sync.force /\ ~sync.misled /\ local' # local =>
                      /\ Wanted \subseteq local'[sync.addr]
                      /\ local'[sync.addr] \subseteq History(sync.addr, top)
<1>1. IInv /\ [Next]_vars => [Whole]_vars
  <2> SUFFICES ASSUME IInv, [Next]_vars, sync.pc # "idle", sync.force, ~sync.misled,
                      local' # local
               PROVE  /\ Wanted \subseteq local'[sync.addr]
                      /\ local'[sync.addr] \subseteq History(sync.addr, top)
    OBVIOUS
  <2>1. FinishForce
    BY ForceChanges
  <2>2. /\ sync.pc = "finish" /\ sync.stop \in Completions
        /\ local' = [local EXCEPT ![sync.addr] = staged]
    BY <2>1, FinishForceFacts
  <2>3. local'[sync.addr] = staged
    BY <2>2 DEF IInv, TypeOK
  <2>4. Begun \subseteq staged
    BY <2>2 DEF IInv, CompleteInv
  <2>5. staged \subseteq History(sync.addr, top)
    BY DEF IInv, StageInv
  <2> QED BY <2>3, <2>4, <2>5 DEF Wanted, Begun
<1> QED BY <1>1, Inductive, PTL DEF Spec, ForceReplacesWhole

\* No sync replaces known rows by nothing (the guards before
\* promote_force_refresh).
THEOREM ForceKeepsSomethingHolds == Spec => ForceKeepsSomething
<1> DEFINE Keeps == \A a \in Addrs : sync.pc # "idle" /\ local[a] # {} => local'[a] # {}
<1>1. IInv /\ [Next]_vars => [Keeps]_vars
  <2> SUFFICES ASSUME IInv, [Next]_vars, sync.pc # "idle", NEW a \in Addrs, local[a] # {}
               PROVE  local'[a] # {}
    OBVIOUS
  <2>1. CASE local' = local
    BY <2>1
  <2>2. CASE sync.force /\ local' # local
    <3>1. FinishForce
      BY <2>2, ForceChanges
    <3>2. /\ sync.pc = "finish" /\ sync.force /\ sync.loaded => staged # {}
          /\ local' = [local EXCEPT ![sync.addr] = staged]
      BY <2>2, <3>1, FinishForceFacts
    <3>3. local[sync.addr] # {} => sync.loaded
      BY <2>2, <3>1 DEF IInv, LoadedInv, FinishForce
    <3> QED BY <2>2, <3>1, <3>2, <3>3, FinishForceFacts DEF IInv, TypeOK
  <2>3. CASE ~sync.force /\ local' # local
    <3>1. StorePage
      <4>1. UNCHANGED vars \/ NewTransaction \/ Cancel \/ Crash \/ Fails \/ StopCancelled
              \/ FetchPage \/ Turn \/ Return => local' = local
        BY DEF vars, NewTransaction, Cancel, Crash, Fails, StopCancelled, FetchPage, Turn, Return
      <4>2. ~FinishForce
        BY <2>3, FinishForceFacts
      <4>3. \A b \in Addrs : ~DeleteForAddress(b)
        BY DEF DeleteForAddress
      <4>4. \A b \in Addrs, f \in BOOLEAN, r \in Ranges \union {NoFilter} : ~Begin(b, f, r)
        BY DEF Begin
      <4> QED BY <2>3, <4>1, <4>2, <4>3, <4>4 DEF Next, SyncStep
    <3>2. PICK rows : local' = [local EXCEPT ![sync.addr] = @ \union rows]
      BY <2>3, <3>1 DEF StorePage, Upsert
    <3> QED BY <3>2 DEF IInv, TypeOK
  <2> QED BY <2>1, <2>2, <2>3
<1> QED BY <1>1, Inductive, PTL DEF Spec, ForceKeepsSomething

-----------------------------------------------------------------------------
(* What the fast stop relies on: AllExistingMeansComplete, which does not  *)
(* hold of every behaviour, holds when no sync ends in a way that leaves a *)
(* hole.  These are all such ways.                                         *)

\* Reasons to stop after which the history has no hole below what was stored.
Lasting == Completions \ {"before_start_date"}

\* If the sync ended now it would leave no hole: a force refresh that was not
\* promoted, or was not misled; a normal sync that has not had a page, or has
\* come to the end of the history or to what was known, and was not misled.
HarmlessEnd ==
  IF sync.force THEN sync.pc = "done" /\ sync.stop \in Completions => ~sync.misled
  ELSE \/ sync.pages = 0
       \/ sync.pc = "done" /\ sync.stop \in Lasting /\ ~sync.misled

\* Every sync that ends, or dies with its process, does so harmlessly.
HarmlessEnds == [][sync.pc # "idle" /\ sync'.pc = "idle" => HarmlessEnd]_vars

\* The rows the sync collects, and what there is to collect by now.
Held == IF sync.force THEN staged ELSE local[sync.addr]
Reached == History(sync.addr, top)

\* No history has a hole, except that of an address whose sync is on its way.
QuietInv ==
  \A a \in Addrs :
    sync.pc = "idle" \/ a # sync.addr \/ HarmlessEnd => NoHole(a, NoFilter)

\* A page has been counted, nothing has misled a sync that goes on, and every sync
\* began with a whole history.
HonestInv ==
  /\ HasPage => sync.pages > 0
  /\ Paging \/ sync.stop = "all_existing" => ~sync.misled
  /\ sync.pc # "idle" => sync.solid

\* SolidInv for whatever has come to the chain since, filtered or not.
BelowInv ==
  Paging /\ ~sync.force =>
    \A x \in local[sync.addr], y \in Reached :
      /\ Below(x) /\ y <= x
      /\ sync.pc = "turn" /\ sync.fresh # {} => \A p \in sync.page : x < p
      => y \in local[sync.addr]

\* No hole from the cursor up, nor above the range, where nothing is stored.
AboveInv ==
  Paging =>
    \A x \in Held, y \in Reached :
      (~Below(y) \/ sync.range.to < y) /\ y <= x => y \in Held

\* A page leaves nothing out that is older than some row at hand.
PageWholeInv ==
  HasPage =>
    \A x \in Held \union sync.page, y \in Reached :
      Below(y) /\ y <= x /\ (sync.next = "none" \/ \E p \in sync.page : p <= y)
        => y \in sync.page

\* A stage that may be promoted has no hole.
StageWholeInv ==
  sync.pc = "finish" /\ sync.stop \in Completions /\ ~sync.misled =>
    \A x \in staged, y \in Reached : y <= x => y \in staged

WholeInv ==
  QuietInv /\ HonestInv /\ BelowInv /\ AboveInv /\ PageWholeInv /\ StageWholeInv

\* The order of everything there is: rows, pages, stage, cursor and range.
LEMMA RowsAreNumbers ==
  ASSUME IInv
  PROVE  /\ top \in Nat /\ sync.before \in Nat /\ sync.pages \in Nat
         /\ \A a \in Addrs : local[a] \subseteq Txs
         /\ staged \subseteq Txs /\ sync.page \subseteq Txs
         /\ sync.range.from \in Txs /\ sync.range.to \in Txs
         /\ Txs \subseteq Nat
         /\ \A a : History(a, top) \subseteq Txs
<1> USE ParameterAssumption DEF IInv
<1>1. sync.range \in [from : Txs, to : Txs]
  BY DEF TypeOK, SyncType, NoFilter, Txs
<1>2. \A a : History(a, top) \subseteq Txs
  BY DEF History, TypeOK, Txs
<1>3. /\ top \in Nat /\ sync.before \in Nat /\ sync.pages \in Nat
      /\ \A a \in Addrs : local[a] \subseteq Txs
      /\ staged \subseteq Txs /\ sync.page \subseteq Txs
  BY DEF TypeOK, SyncType
<1> QED BY <1>1, <1>2, <1>3, Transactions

\* A history without a hole, without the filter.
LEMMA NoHoleMeans ==
  ASSUME IInv, NEW a \in Addrs
  PROVE  NoHole(a, NoFilter) <=>
           \A x \in local[a], y \in History(a, top) : y <= x => y \in local[a]
<1>1. NoFilter.from = 1 /\ \A y \in History(a, top) : 1 <= y
  BY DEF NoFilter, History
<1> QED BY <1>1, Zenon DEF NoHole

\* Nothing that is stored is as new as what comes to the chain next.
LEMMA NoHoleStays ==
  ASSUME IInv, IInv', NEW a \in Addrs, NoHole(a, NoFilter), local'[a] = local[a],
         top' = top \/ top' = top + 1
  PROVE  NoHole(a, NoFilter)'
<1>1. /\ top \in Nat /\ local[a] \subseteq History(a, top)
      /\ \A x \in local[a], y \in History(a, top) : y <= x => y \in local[a]
  BY NoHoleMeans, RowsAreNumbers DEF IInv, RowsInv
<1>2. SUFFICES ASSUME NEW x \in local[a], NEW y \in History(a, top'), y <= x
               PROVE  y \in local[a]
  BY DEF NoHole
<1>3. x <= top /\ y \in History(a, top)
  BY <1>1, <1>2 DEF History
<1> QED BY <1>1, <1>2, <1>3

LEMMA InitIsWhole == Init => WholeInv
<1> SUFFICES ASSUME Init PROVE WholeInv
  OBVIOUS
<1> USE DEF Init
<1>1. sync.pc = "idle" /\ ~Paging /\ ~HasPage /\ sync.stop = "none"
  BY DEF Idle, Paging, HasPage
<1>2. QuietInv
  BY DEF QuietInv, NoHole
<1> QED BY <1>1, <1>2 DEF WholeInv, HonestInv, BelowInv, AboveInv, PageWholeInv, StageWholeInv

\* A transaction that comes during a sync is newer than every row.
LEMMA NewTransactionKeepsWhole ==
  ASSUME IInv, IInv', WholeInv, NewTransaction
  PROVE  WholeInv'
<1> USE DEF WholeInv, NewTransaction
<1>1. top' = top + 1 /\ UNCHANGED <<local, canonical, staged, sync>>
  OBVIOUS
<1>2. QuietInv'
  BY <1>1, NoHoleStays DEF QuietInv, HarmlessEnd
<1>3. HonestInv'
  BY <1>1 DEF HonestInv, HasPage, Paging
\* A transaction as old as some row was on the chain before.
<1>4. ASSUME sync.pc # "idle", NEW x \in Held \union sync.page, HasPage \/ x \in Held,
             NEW y \in Reached', y <= x
      PROVE  y \in Reached
  <2>1. x \in Reached
    BY <1>4 DEF Held, Reached, IInv, StageInv, RowsInv, TypeOK, PageInv
  <2>2. x <= top
    BY <2>1 DEF Reached, History
  <2>3. x \in Nat /\ top \in Nat
    BY <2>1, RowsAreNumbers DEF Reached
  <2> QED BY <1>1, <1>4, <2>2, <2>3 DEF Reached, History
<1>5. Held' = Held
  BY <1>1 DEF Held
<1>6. BelowInv'
  <2>1. SUFFICES ASSUME Paging, ~sync.force, NEW x \in local[sync.addr], NEW y \in Reached',
                        Below(x) /\ y <= x,
                        sync.pc = "turn" /\ sync.fresh # {} => \A p \in sync.page : x < p
                 PROVE  y \in local[sync.addr]
    BY <1>1 DEF BelowInv, Paging, Below
  <2>2. y \in Reached
    BY <1>4, <2>1 DEF Held, Paging
  <2> QED BY <2>1, <2>2 DEF BelowInv
<1>7. AboveInv'
  <2>1. SUFFICES ASSUME Paging, NEW x \in Held, NEW y \in Reached',
                        ~Below(y) \/ sync.range.to < y, y <= x
                 PROVE  y \in Held
    BY <1>1, <1>5 DEF AboveInv, Paging, Below
  <2>2. y \in Reached
    BY <1>4, <2>1 DEF Paging
  <2> QED BY <2>1, <2>2 DEF AboveInv
<1>8. PageWholeInv'
  <2>1. SUFFICES ASSUME HasPage, NEW x \in Held \union sync.page, NEW y \in Reached',
                        Below(y), y <= x, sync.next = "none" \/ \E p \in sync.page : p <= y
                 PROVE  y \in sync.page
    BY <1>1, <1>5 DEF PageWholeInv, HasPage, Below
  <2>2. y \in Reached
    BY <1>4, <2>1 DEF HasPage
  <2> QED BY <2>1, <2>2 DEF PageWholeInv
<1>9. StageWholeInv'
  <2>1. SUFFICES ASSUME sync.pc = "finish", sync.stop \in Completions, ~sync.misled,
                        NEW x \in staged, NEW y \in Reached', y <= x
                 PROVE  y \in staged
    BY <1>1 DEF StageWholeInv
  <2>2. sync.force
    BY <2>1 DEF IInv, RunInv
  <2>3. y \in Reached
    BY <1>4, <2>1, <2>2 DEF Held
  <2> QED BY <2>1, <2>3 DEF StageWholeInv
<1> QED BY <1>2, <1>3, <1>6, <1>7, <1>8, <1>9

\* No sync is under way afterwards; the one that ended was harmless.
LEMMA IdleKeepsWhole ==
  ASSUME IInv, IInv', WholeInv, Crash \/ Return, HarmlessEnd
  PROVE  WholeInv'
<1> USE DEF WholeInv
<1>1. sync' = Idle /\ staged' = {} /\ UNCHANGED <<top, local, canonical>>
  BY DEF Crash, Return
<1>2. sync'.pc = "idle" /\ ~Paging' /\ ~HasPage' /\ sync'.stop = "none"
  BY <1>1 DEF Idle, Paging, HasPage
<1>3. QuietInv'
  BY <1>1, NoHoleStays DEF QuietInv
<1> QED
  BY <1>2, <1>3 DEF HonestInv, BelowInv, AboveInv, PageWholeInv, StageWholeInv

LEMMA CancelKeepsWhole ==
  ASSUME IInv, IInv', WholeInv, Cancel
  PROVE  WholeInv'
<1> USE DEF WholeInv
<1>1. sync' = [sync EXCEPT !.cancelled = TRUE] /\ UNCHANGED <<top, local, canonical, staged>>
  BY DEF Cancel
<1>2. /\ sync'.pc = sync.pc /\ sync'.addr = sync.addr /\ sync'.force = sync.force
      /\ sync'.range = sync.range /\ sync'.before = sync.before
      /\ sync'.pages = sync.pages /\ sync'.page = sync.page /\ sync'.next = sync.next
      /\ sync'.fresh = sync.fresh /\ sync'.stop = sync.stop
      /\ sync'.solid = sync.solid /\ sync'.misled = sync.misled
  BY <1>1 DEF IInv, TypeOK, SyncType
<1>3. (HarmlessEnd <=> HarmlessEnd') /\ Held' = Held /\ Reached' = Reached
  BY <1>1, <1>2 DEF HarmlessEnd, Held, Reached
<1>4. QuietInv'
  BY <1>1, <1>2, <1>3, NoHoleStays DEF QuietInv
<1>5. HonestInv' /\ BelowInv' /\ AboveInv' /\ PageWholeInv' /\ StageWholeInv'
  BY <1>1, <1>2, <1>3 DEF HonestInv, BelowInv, AboveInv, PageWholeInv, StageWholeInv,
     HasPage, Paging, Below
<1> QED BY <1>4, <1>5

\* A sync that is cut short before its first page changes nothing, and neither
\* does a force refresh.
LEMMA EndsKeepWhole ==
  ASSUME IInv, IInv', WholeInv, StopCancelled \/ Fails
  PROVE  WholeInv'
<1> USE DEF WholeInv
<1>1. PICK s \in {"cancelled", "error"} :
        /\ sync' = [sync EXCEPT !.pc = "done", !.stop = s]
        /\ UNCHANGED <<top, local, canonical, staged>>
        /\ sync.pc \in {"fetch", "store", "turn", "finish"}
  BY DEF StopCancelled, Fails, Ends
<1>2. /\ sync'.pc = "done" /\ sync'.stop = s /\ sync'.addr = sync.addr
      /\ sync'.force = sync.force /\ sync'.pages = sync.pages /\ sync'.solid = sync.solid
  BY <1>1 DEF IInv, TypeOK, SyncType
<1>3. s \notin Completions /\ ~Paging' /\ ~HasPage'
  BY <1>2 DEF Completions, Paging, HasPage
<1>4. HarmlessEnd' => HarmlessEnd
  BY <1>1, <1>2, <1>3 DEF HarmlessEnd, Lasting
<1>5. QuietInv'
  BY <1>1, <1>2, <1>4, NoHoleStays DEF QuietInv
<1>6. HonestInv'
  BY <1>1, <1>2, <1>3 DEF HonestInv
<1> QED BY <1>2, <1>3, <1>5, <1>6 DEF BelowInv, AboveInv, PageWholeInv, StageWholeInv

LEMMA DeleteKeepsWhole ==
  ASSUME IInv, IInv', WholeInv, NEW a \in Addrs, DeleteForAddress(a)
  PROVE  WholeInv'
<1> USE DEF WholeInv
<1>1. /\ local' = [local EXCEPT ![a] = {}] /\ sync.pc = "idle"
      /\ UNCHANGED <<top, staged, sync>>
  BY DEF DeleteForAddress, ReplaceRows
<1>2. ~Paging' /\ ~HasPage' /\ sync'.pc = "idle" /\ HonestInv'
  BY <1>1 DEF Paging, HasPage, HonestInv
<1>3. QuietInv'
  <2>1. SUFFICES ASSUME NEW b \in Addrs PROVE NoHole(b, NoFilter)'
    BY DEF QuietInv
  <2>2. CASE b = a
    BY <1>1, <2>2 DEF NoHole, IInv, TypeOK
  <2>3. CASE b # a
    <3>1. local'[b] = local[b] /\ NoHole(b, NoFilter)
      BY <1>1, <2>3 DEF IInv, TypeOK, QuietInv
    <3> QED BY <1>1, <3>1, NoHoleStays
  <2> QED BY <2>2, <2>3
<1> QED BY <1>2, <1>3 DEF BelowInv, AboveInv, PageWholeInv, StageWholeInv

\* A sync begins on a whole history, with everything below its cursor.
LEMMA BeginKeepsWhole ==
  ASSUME IInv, IInv', WholeInv,
         NEW a \in Addrs, NEW f \in BOOLEAN, NEW r \in Ranges \union {NoFilter}, Begin(a, f, r)
  PROVE  WholeInv'
<1> USE DEF WholeInv
<1> DEFINE range == IF f THEN NoFilter ELSE r
<1>1. /\ sync' = [Idle EXCEPT !.pc = "fetch", !.addr = a, !.force = f, !.range = range,
                              !.loaded = local[a] # {}, !.since = top,
                              !.solid = NoHole(a, range)]
      /\ staged' = {} /\ UNCHANGED <<top, local, canonical>> /\ sync.pc = "idle"
  BY DEF Begin
<1> HIDE DEF range
<1>2. /\ sync'.pc = "fetch" /\ sync'.addr = a /\ sync'.force = f /\ sync'.before = 0
      /\ sync'.pages = 0 /\ sync'.solid = NoHole(a, range) /\ sync'.range = range
      /\ sync'.stop = "none" /\ sync'.misled = FALSE /\ ~HasPage'
  BY <1>1 DEF Idle, HasPage
<1>3. \A b \in Addrs : NoHole(b, NoFilter)
  BY <1>1 DEF QuietInv
<1>4. \A x \in local[a], y \in History(a, top) : y <= x => y \in local[a]
  BY <1>3, NoHoleMeans
<1>5. NoHole(a, range)
  BY <1>4, Zenon DEF NoHole
<1>6. QuietInv'
  BY <1>1, <1>3, NoHoleStays DEF QuietInv
<1>7. HonestInv'
  BY <1>2, <1>5 DEF HonestInv
<1>8. BelowInv'
  BY <1>1, <1>2, <1>4 DEF BelowInv, Reached
<1>9. AboveInv'
  <2>1. CASE f
    BY <1>1, <1>2, <2>1 DEF AboveInv, Held
  <2>2. CASE ~f
    BY <1>1, <1>2, <1>4, <2>2 DEF AboveInv, Held, Reached
  <2> QED BY <2>1, <2>2
<1> QED BY <1>2, <1>6, <1>7, <1>8, <1>9 DEF PageWholeInv, StageWholeInv

\* An honest page is the newest part of what is left; when it is empty nothing is.
LEMMA FetchPageKeepsWhole ==
  ASSUME IInv, IInv', WholeInv, FetchPage
  PROVE  WholeInv'
<1> USE DEF WholeInv
<1>1. PICK page \in {NextPage, {}}, next \in {"none", "older"} :
        /\ page # {} /\ page # Older => next = "older"
        /\ sync' = [sync EXCEPT
             !.pages = @ + 1, !.page = page, !.next = next,
             !.misled = @ \/ page # NextPage,
             !.pc = IF page # {} THEN "store" ELSE IF sync.force THEN "finish" ELSE "done",
             !.stop = IF page = {} THEN "empty_page" ELSE @]
  BY Zenon DEF FetchPage
<1>2. sync.pc = "fetch" /\ UNCHANGED <<top, local, canonical, staged>>
  BY DEF FetchPage
<1>3. /\ sync'.pc = (IF page # {} THEN "store" ELSE IF sync.force THEN "finish" ELSE "done")
      /\ sync'.stop = (IF page = {} THEN "empty_page" ELSE sync.stop)
      /\ sync'.page = page /\ sync'.next = next /\ sync'.pages = sync.pages + 1
      /\ sync'.misled = (sync.misled \/ page # NextPage)
      /\ sync'.addr = sync.addr /\ sync'.force = sync.force /\ sync'.range = sync.range
      /\ sync'.before = sync.before /\ sync'.fresh = sync.fresh /\ sync'.solid = sync.solid
  <2>1. sync \in SyncType
    BY DEF IInv, TypeOK
  <2> QED BY <1>1, <2>1 DEF SyncType
<1>4. /\ \A x \in Older, y \in NextPage : y <= x => x \in NextPage
      /\ Older # {} => NextPage # {}
  BY PageFacts DEF IInv
<1>5. \A y \in Reached : Below(y) => y \in Older
  BY DEF Reached, Below, Older
<1>6. Held' = Held /\ Reached' = Reached /\ Paging /\ ~sync.misled /\ sync.pages \in Nat
  BY <1>2, <1>3, RowsAreNumbers DEF Held, Reached, Paging, HonestInv
<1>7. \A y : Below(y)' <=> Below(y)
  BY <1>3 DEF Below
\* The end of the history: nothing is left below the cursor.
<1>8. ASSUME page = {}, page = NextPage
      PROVE  \A x \in Held, y \in Reached : y <= x => y \in Held
  <2>1. Older = {}
    BY <1>4, <1>8
  <2>2. \A y \in Reached : ~Below(y)
    BY <1>5, <2>1
  <2> QED BY <1>6, <2>2 DEF AboveInv
<1>9. QuietInv'
  <2>1. SUFFICES ASSUME NEW a \in Addrs, a # sync.addr \/ HarmlessEnd'
                 PROVE  NoHole(a, NoFilter)'
    BY <1>3 DEF QuietInv
  <2>2. NoHole(a, NoFilter)
    <3>1. CASE a # sync.addr
      BY <3>1 DEF QuietInv
    <3>2. CASE a = sync.addr /\ sync.force
      <4>1. HarmlessEnd
        BY <1>2, <3>2 DEF HarmlessEnd
      <4> QED BY <4>1 DEF QuietInv
    <3>3. CASE a = sync.addr /\ ~sync.force
      <4>1. HarmlessEnd'
        BY <2>1, <3>3
      <4>2. sync'.pages # 0
        BY <1>3, <1>6
      <4>3. sync'.pc = "done" /\ ~sync'.misled
        BY <1>3, <3>3, <4>1, <4>2 DEF HarmlessEnd
      <4>4. page = {} /\ page = NextPage
        BY <1>3, <3>3, <4>3
      <4>5. \A x \in local[a], y \in History(a, top) : y <= x => y \in local[a]
        BY <1>8, <3>3, <4>4 DEF Held, Reached
      <4> QED BY <4>5, NoHoleMeans
    <3> QED BY <3>1, <3>2, <3>3
  <2> QED BY <1>2, <2>2, NoHoleStays
<1>10. HonestInv'
  <2>1. page # {} => page = NextPage
    BY <1>1
  <2>2. page # {} => ~sync'.misled
    BY <1>3, <1>6, <2>1, Zenon
  <2>3. Paging' \/ HasPage' \/ sync'.stop = "all_existing" => page # {}
    BY <1>3 DEF Paging, HasPage
  <2>4. sync.solid /\ sync'.pages > 0
    BY <1>2, <1>3, <1>6 DEF HonestInv
  <2> QED BY <1>3, <2>2, <2>3, <2>4 DEF HonestInv
<1>11. BelowInv' /\ AboveInv'
  BY <1>2, <1>3, <1>6, <1>7 DEF BelowInv, AboveInv, Paging
<1>12. PageWholeInv'
  <2>1. SUFFICES ASSUME page # {}, NEW y \in Reached, Below(y),
                        next = "none" \/ \E p \in page : p <= y
                 PROVE  y \in page
    BY <1>3, <1>6, <1>7 DEF PageWholeInv, HasPage
  <2>2. y \in Older
    BY <1>5, <2>1
  <2> QED BY <1>1, <1>4, <2>1, <2>2
<1>13. StageWholeInv'
  <2>1. SUFFICES ASSUME sync.force, page = {}, page = NextPage,
                        NEW x \in staged, NEW y \in Reached, y <= x
                 PROVE  y \in staged
    BY <1>2, <1>3, <1>6 DEF StageWholeInv
  <2> QED BY <1>8, <2>1 DEF Held
<1> QED BY <1>9, <1>10, <1>11, <1>12, <1>13

\* The rows of a page go below the cursor and not above the range.
LEMMA StorePageKeepsWhole ==
  ASSUME IInv, IInv', WholeInv, StorePage
  PROVE  WholeInv'
<1> USE DEF WholeInv
<1> DEFINE a == sync.addr
           known == IF sync.force THEN {} ELSE local[a]
           fresh == {x \in sync.page : x <= sync.range.to} \ known
<1>1. /\ sync.pc = "store" /\ top' = top
      /\ sync' = [sync EXCEPT !.pc = "turn", !.fresh = fresh]
      /\ sync.force => staged' = staged \union fresh /\ local' = local
      /\ ~sync.force => local' = [local EXCEPT ![a] = @ \union fresh] /\ staged' = staged
  BY DEF StorePage, Upsert
<1>2. /\ fresh \subseteq sync.page /\ \A x \in fresh : x <= sync.range.to
      /\ a \in Addrs
  BY <1>1 DEF IInv, TypeOK
<1> HIDE DEF fresh
<1>3. /\ sync'.pc = "turn" /\ sync'.fresh = fresh /\ sync'.page = sync.page
      /\ sync'.next = sync.next /\ sync'.pages = sync.pages
      /\ sync'.misled = sync.misled /\ sync'.stop = sync.stop
      /\ sync'.addr = sync.addr /\ sync'.force = sync.force /\ sync'.range = sync.range
      /\ sync'.before = sync.before /\ sync'.solid = sync.solid
  BY <1>1 DEF IInv, TypeOK, SyncType
<1>4. Held' = Held \union fresh /\ Reached' = Reached /\ \A y : Below(y)' <=> Below(y)
  BY <1>1, <1>2, <1>3 DEF Held, Reached, Below, IInv, TypeOK
<1>5. HonestInv'
  BY <1>1, <1>3 DEF HonestInv, HasPage, Paging
<1>6. QuietInv'
  <2>1. SUFFICES ASSUME NEW b \in Addrs, b # a \/ HarmlessEnd'
                 PROVE  NoHole(b, NoFilter)'
    BY <1>3 DEF QuietInv
  <2>2. NoHole(b, NoFilter) /\ local'[b] = local[b]
    <3>1. CASE b # a
      BY <1>1, <3>1 DEF QuietInv, IInv, TypeOK
    <3>2. CASE b = a
      <4>1. sync.force
        BY <1>1, <1>3, <2>1, <3>2 DEF HarmlessEnd, HonestInv, HasPage
      <4>2. HarmlessEnd
        BY <1>1, <4>1 DEF HarmlessEnd
      <4> QED BY <1>1, <4>1, <4>2 DEF QuietInv
    <3> QED BY <3>1, <3>2
  <2> QED BY <1>1, <2>2, NoHoleStays
\* Rows of the page are newer than what is below it, and older than the cursor.
<1>7. /\ \A x \in sync.page : Below(x)
      /\ sync.before \in Nat /\ Reached \subseteq Nat /\ sync.page \subseteq Nat
      /\ sync.range.to \in Nat /\ Held \subseteq Nat
  <2>1. Reached \subseteq Txs /\ Held \subseteq Txs /\ sync.page \subseteq Txs
    BY <1>2, RowsAreNumbers DEF Reached, Held
  <2> QED BY <1>1, <2>1, RowsAreNumbers DEF IInv, PageInv, HasPage
<1>8. BelowInv'
  <2>1. SUFFICES ASSUME ~sync.force, NEW x \in local'[a], NEW y \in Reached,
                        Below(x), y <= x, fresh # {} => \A p \in sync.page : x < p
                 PROVE  y \in local'[a]
    BY <1>3, <1>4 DEF BelowInv
  <2>2. local'[a] = Held \union fresh /\ local[a] = Held
    BY <1>3, <1>4, <2>1 DEF Held
  <2>3. x \in Held
    BY <1>2, <1>7, <2>1, <2>2
  <2>4. y \in local[a]
    BY <1>1, <2>1, <2>2, <2>3 DEF BelowInv, Paging
  <2> QED BY <2>2, <2>4
<1>9. AboveInv'
  <2>1. SUFFICES ASSUME NEW x \in Held \union fresh, NEW y \in Reached,
                        ~Below(y) \/ sync.range.to < y, y <= x
                 PROVE  y \in Held
    BY <1>3, <1>4 DEF AboveInv
  <2>2. x \in Held
    BY <1>2, <1>7, <2>1 DEF Below
  <2> QED BY <1>1, <2>1, <2>2 DEF AboveInv, Paging
<1>10. PageWholeInv'
  <2>1. Held' \union sync'.page = Held \union sync.page
    BY <1>2, <1>3, <1>4
  <2> QED BY <1>1, <1>3, <1>4, <2>1 DEF PageWholeInv, HasPage
<1>11. StageWholeInv'
  BY <1>3 DEF StageWholeInv
<1> QED BY <1>5, <1>6, <1>8, <1>9, <1>10, <1>11

\* The cursor goes to the oldest row of the page, above which there is no hole now;
\* or the page was the last, or known, and there is none at all.
LEMMA TurnKeepsWhole ==
  ASSUME IInv, IInv', WholeInv, Turn
  PROVE  WholeInv'
<1> USE DEF WholeInv
<1> DEFINE m == Min(sync.page)
           before == IF StopAt = "none" THEN m ELSE sync.before
           pc == IF StopAt = "none" THEN "fetch" ELSE IF sync.force THEN "finish" ELSE "done"
<1>1. /\ sync.pc = "turn" /\ UNCHANGED <<top, local, canonical, staged>>
      /\ sync' = [sync EXCEPT !.stop = StopAt, !.page = {}, !.fresh = {}, !.next = "none",
                              !.before = before, !.pc = pc]
  BY DEF Turn
<1>2. m \in sync.page /\ \A x \in sync.page : m <= x
  BY <1>1, OldestRow DEF IInv, PageInv, HasPage, TypeOK, SyncType
<1>3. /\ \A x \in sync.page : Below(x)
      /\ sync.before \in Nat /\ Reached \subseteq Nat /\ sync.page \subseteq Nat
      /\ sync.range.to \in Nat /\ sync.range.from \in Nat /\ Held \subseteq Nat
      /\ Held \subseteq Txs /\ sync.pages \in Nat /\ sync.page \subseteq Txs
  <2>1. Reached \subseteq Txs /\ Held \subseteq Txs /\ sync.page \subseteq Txs
    BY <1>1, RowsAreNumbers DEF Reached, Held, IInv, TypeOK
  <2> QED BY <1>1, <2>1, RowsAreNumbers DEF IInv, PageInv, HasPage
<1>4. m \in Nat /\ 1 <= m
  BY <1>2, <1>3, Transactions
<1> HIDE DEF m
<1>5. /\ sync'.pc = pc /\ sync'.stop = StopAt /\ sync'.before = before
      /\ sync'.pages = sync.pages /\ sync'.misled = sync.misled
      /\ sync'.addr = sync.addr /\ sync'.force = sync.force /\ sync'.range = sync.range
      /\ sync'.fresh = {} /\ sync'.solid = sync.solid
  <2> HIDE DEF before, pc
  <2> QED BY <1>1 DEF IInv, TypeOK, SyncType
<1>6. Held' = Held /\ Reached' = Reached /\ ~sync.misled /\ sync.pages # 0 /\ ~HasPage'
  BY <1>1, <1>3, <1>5 DEF Held, Reached, HonestInv, HasPage, Paging
<1>7. HonestInv'
  BY <1>1, <1>5, <1>6 DEF HonestInv
\* What the page has is held, unless it is newer than the range.
<1>8. ASSUME NEW x \in Held, NEW y \in sync.page, y \in Reached, y <= x
      PROVE  y \in Held
  <2>1. CASE sync.range.to < y
    BY <1>1, <1>8, <2>1 DEF AboveInv, Paging
  <2>2. CASE y <= sync.range.to
    BY <1>1, <2>2 DEF IInv, StoredInv, Held
  <2> QED BY <1>3, <2>1, <2>2
\* Nothing is missing from the oldest row of the page up.
<1>9. ASSUME NEW x \in Held, NEW y \in Reached, y <= x, m <= y \/ sync.next = "none"
      PROVE  y \in Held
  <2>1. CASE ~Below(y)
    BY <1>1, <1>9, <2>1 DEF AboveInv, Paging
  <2>2. CASE Below(y)
    <3>1. y \in sync.page
      BY <1>1, <1>2, <1>9, <2>2 DEF PageWholeInv, HasPage
    <3> QED BY <1>8, <1>9, <3>1
  <2> QED BY <2>1, <2>2
\* A stop that lasts.
<1>10. ASSUME StopAt \in Lasting, NEW x \in Held, NEW y \in Reached, y <= x
       PROVE  y \in Held
  <2>1. CASE m <= y \/ sync.next = "none"
    BY <1>9, <1>10, <2>1
  <2>2. CASE ~(m <= y) /\ sync.next # "none"
    <3>1. ~sync.force /\ sync.fresh = {} /\ \A p \in sync.page : p <= sync.range.to
      BY <1>10, <2>2 DEF StopAt, Lasting, Completions, KnowsPage
    <3>2. m \in local[sync.addr]
      BY <1>1, <1>2, <3>1 DEF IInv, StoredInv
    <3>3. Below(m) /\ y <= m
      BY <1>2, <1>3, <1>4, <2>2
    <3>4. y \in local[sync.addr]
      BY <1>1, <1>10, <3>1, <3>2, <3>3 DEF BelowInv, Paging
    <3> QED BY <3>1, <3>4 DEF Held
  <2> QED BY <2>1, <2>2
<1>11. QuietInv'
  <2>1. SUFFICES ASSUME NEW a \in Addrs, a # sync.addr \/ HarmlessEnd'
                 PROVE  NoHole(a, NoFilter)
    BY <1>1, <1>5, NoHoleStays DEF QuietInv
  <2>2. CASE a # sync.addr
    BY <2>2 DEF QuietInv
  <2>3. CASE a = sync.addr /\ sync.force
    <3>1. HarmlessEnd
      BY <1>1, <2>3 DEF HarmlessEnd
    <3> QED BY <3>1 DEF QuietInv
  <2>4. CASE a = sync.addr /\ ~sync.force
    <3>1. StopAt \in Lasting
      BY <1>5, <1>6, <2>1, <2>4 DEF HarmlessEnd
    <3>2. \A x \in local[a], y \in History(a, top) : y <= x => y \in local[a]
      BY <1>10, <2>4, <3>1 DEF Held, Reached
    <3> QED BY <3>2, NoHoleMeans
  <2> QED BY <2>2, <2>3, <2>4
<1>12. BelowInv'
  <2>1. SUFFICES ASSUME StopAt = "none", ~sync.force, NEW x \in local[sync.addr],
                        NEW y \in Reached, x < m, y <= x
                 PROVE  y \in local[sync.addr]
    BY <1>1, <1>4, <1>5, <1>6 DEF BelowInv, Paging, Below
  <2>2. x \in Nat
    BY <1>3, <2>1 DEF Held
  <2>3. Below(x) /\ \A p \in sync.page : x < p
    BY <1>2, <1>3, <1>4, <2>1, <2>2 DEF Below
  <2> QED BY <1>1, <2>1, <2>3 DEF BelowInv, Paging
<1>13. AboveInv'
  <2>1. SUFFICES ASSUME StopAt = "none", NEW x \in Held, NEW y \in Reached,
                        ~(y < m) \/ sync.range.to < y, y <= x
                 PROVE  y \in Held
    BY <1>1, <1>4, <1>5, <1>6 DEF AboveInv, Paging, Below
  <2>2. CASE sync.range.to < y
    BY <1>1, <2>1, <2>2 DEF AboveInv, Paging
  <2>3. CASE ~(y < m)
    BY <1>3, <1>4, <1>9, <2>1, <2>3
  <2> QED BY <2>1, <2>2, <2>3
<1>14. PageWholeInv'
  BY <1>6 DEF PageWholeInv
<1>15. StageWholeInv'
  <2>1. SUFFICES ASSUME sync.force, StopAt \in Completions
                 PROVE  \A x \in staged, y \in Reached : y <= x => y \in staged
    BY <1>1, <1>5, <1>6 DEF StageWholeInv
  <2>2. sync.range.from = 1
    BY <1>1, <2>1 DEF IInv, RunInv, NoFilter
  <2>3. ~BeforeStart
    BY <1>4, <2>2 DEF BeforeStart, m
  <2>4. StopAt # "before_start_date"
    BY <2>3 DEF StopAt
  <2> QED BY <1>10, <2>1, <2>4 DEF Lasting, Held
<1> QED BY <1>7, <1>11, <1>12, <1>13, <1>14, <1>15

\* A stage is promoted whole.
LEMMA FinishForceKeepsWhole ==
  ASSUME IInv, IInv', WholeInv, FinishForce
  PROVE  WholeInv'
<1> USE DEF WholeInv
<1>1. sync.pc = "finish" /\ sync.force /\ top' = top /\ sync.addr \in Addrs
  BY FinishForceFacts DEF IInv, TypeOK
<1>2. /\ sync'.pc = "done" /\ sync'.addr = sync.addr /\ sync'.force = sync.force
      /\ sync'.solid = sync.solid /\ sync'.misled = sync.misled
      /\ \/ local' = local /\ sync'.stop = "error"
         \/ /\ sync.stop \in Completions /\ sync'.stop = sync.stop
            /\ local' = [local EXCEPT ![sync.addr] = staged]
  BY FinishForceFacts DEF IInv, TypeOK, SyncType
<1>3. ~Paging' /\ ~HasPage' /\ sync'.pc # "idle" /\ sync'.pc # "finish" /\ "error" # "all_existing"
  BY <1>2 DEF Paging, HasPage
<1>4. HonestInv'
  BY <1>1, <1>2, <1>3 DEF HonestInv
<1>5. HarmlessEnd
  BY <1>1 DEF HarmlessEnd
<1>6. \A a \in Addrs : NoHole(a, NoFilter)
  BY <1>5 DEF QuietInv
<1>7. QuietInv'
  <2>1. SUFFICES ASSUME NEW a \in Addrs, a # sync.addr \/ HarmlessEnd'
                 PROVE  NoHole(a, NoFilter)'
    BY <1>2 DEF QuietInv
  <2>2. CASE local'[a] = local[a]
    BY <1>1, <1>6, <2>2, NoHoleStays
  <2>3. CASE local'[a] # local[a]
    <3>1. a = sync.addr /\ local'[a] = staged /\ sync.stop \in Completions
          /\ sync'.stop = sync.stop
      BY <1>1, <1>2, <2>3 DEF IInv, TypeOK
    <3>2. ~sync.misled
      BY <1>1, <1>2, <2>1, <3>1 DEF HarmlessEnd
    <3>3. \A x \in staged, y \in Reached : y <= x => y \in staged
      BY <1>1, <3>1, <3>2 DEF StageWholeInv
    <3>4. \A x \in local'[a], y \in History(a, top') : y <= x => y \in local'[a]
      BY <1>1, <3>1, <3>3 DEF Reached
    <3> QED BY <3>4, Zenon DEF NoHole
  <2> QED BY <2>2, <2>3
<1> QED BY <1>3, <1>4, <1>7 DEF BelowInv, AboveInv, PageWholeInv, StageWholeInv

\* Every step keeps every history whole, if no sync ends in a harmful way.
LEMMA NextKeepsWhole ==
  ASSUME IInv, IInv', WholeInv, [Next]_vars,
         sync.pc # "idle" /\ sync'.pc = "idle" => HarmlessEnd
  PROVE  WholeInv'
<1>1. CASE NewTransaction
  BY <1>1, NewTransactionKeepsWhole
<1>2. CASE Cancel
  BY <1>2, CancelKeepsWhole
<1>3. CASE Crash \/ Return
  <2>1. sync.pc # "idle" /\ sync'.pc = "idle"
    BY <1>3 DEF Crash, Return, Idle
  <2> QED BY <1>3, <2>1, IdleKeepsWhole
<1>4. CASE Fails \/ StopCancelled
  BY <1>4, EndsKeepWhole
<1>5. CASE FetchPage
  BY <1>5, FetchPageKeepsWhole
<1>6. CASE StorePage
  BY <1>6, StorePageKeepsWhole
<1>7. CASE Turn
  BY <1>7, TurnKeepsWhole
<1>8. CASE FinishForce
  BY <1>8, FinishForceKeepsWhole
<1>9. ASSUME NEW a \in Addrs, DeleteForAddress(a) PROVE WholeInv'
  BY <1>9, DeleteKeepsWhole
<1>10. ASSUME NEW a \in Addrs, NEW r \in Ranges, Begin(a, FALSE, r) PROVE WholeInv'
  BY <1>10, BeginKeepsWhole
<1>11. ASSUME NEW a \in Addrs, Begin(a, TRUE, NoFilter) PROVE WholeInv'
  BY <1>11, BeginKeepsWhole
<1>12. CASE UNCHANGED vars
  BY <1>12 DEF vars, WholeInv, QuietInv, HarmlessEnd, NoHole, HonestInv, BelowInv, AboveInv,
     PageWholeInv, StageWholeInv, Held, Reached, Paging, HasPage, Below
<1> QED
  BY <1>1, <1>2, <1>3, <1>4, <1>5, <1>6, <1>7, <1>8, <1>9, <1>10, <1>11, <1>12
     DEF Next, SyncStep

LEMMA WholeInductive == Spec /\ HarmlessEnds => []WholeInv
<1> DEFINE Harmless == sync.pc # "idle" /\ sync'.pc = "idle" => HarmlessEnd
<1>1. IInv /\ IInv' /\ WholeInv /\ [Next]_vars /\ [Harmless]_vars => WholeInv'
  <2> SUFFICES ASSUME IInv, IInv', WholeInv, [Next]_vars, [Harmless]_vars PROVE WholeInv'
    OBVIOUS
  <2>1. Harmless
    <3>1. CASE UNCHANGED vars
      BY <3>1 DEF vars
    <3> QED BY <3>1
  <2> QED BY <2>1, NextKeepsWhole
<1> QED BY <1>1, InitIsWhole, Inductive, PTL DEF Spec, HarmlessEnds

\* No other event makes a hole: new transactions, force refreshes that are cut
\* short at any point, deletions and filters on the newest rows leave every history
\* whole (upsert_many, promote_force_refresh).
THEOREM HarmlessEndsLeaveNoHole ==
  Spec /\ HarmlessEnds => [](sync.pc = "idle" => \A a \in Addrs : NoHole(a, NoFilter))
<1>1. WholeInv => (sync.pc = "idle" => \A a \in Addrs : NoHole(a, NoFilter))
  BY DEF WholeInv, QuietInv
<1> QED BY <1>1, WholeInductive, PTL

\* Then a page of known rows does mean that SQLite has the data (the fast stop of
\* sync_transactions_with_config).
THEOREM AllExistingMeansCompleteHolds == Spec /\ HarmlessEnds => []AllExistingMeansComplete
<1>1. IInv /\ WholeInv => AllExistingMeansComplete
  BY DEF IInv, WholeInv, HonestInv, RangeSyncCompletes, AllExistingMeansComplete, Completions
<1> QED BY <1>1, Inductive, WholeInductive, PTL
=============================================================================
