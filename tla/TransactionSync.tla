--------------------------- MODULE TransactionSync ---------------------------
(***************************************************************************)
(* The synchronisation of the local transaction history of an address with *)
(* an explorer that serves it newest first, page by page                   *)
(* (sync_transactions_with_config), and what it leaves in the database:    *)
(* a page of a normal sync is stored at once, a force refresh is staged    *)
(* and replaces the history only when it is complete.                      *)
(*                                                                         *)
(* One sync runs at a time: the desktop calls it, and the deletion of an   *)
(* address, under DB_OPERATION_LOCK.  A cancellation, new transactions on  *)
(* the chain and the end of the process come at any time.  Transactions    *)
(* are numbered by block time.                                             *)
(***************************************************************************)
EXTENDS Integers, FiniteSets, FiniteSetsExt

CONSTANTS
  Addrs,      \* addresses
  NoAddr,     \* no address
  MaxTx,      \* bound: transactions 1 .. MaxTx
  Touches,    \* Touches[t]: the addresses transaction t is about
  Ranges,     \* the [from, to] ranges of normal syncs; [1, MaxTx] is "no filter"
  PageLimit,  \* transactions per page
  MaxPages    \* pages per sync

Txs == 1..MaxTx

ASSUME ParameterAssumption ==
  /\ NoAddr \notin Addrs
  /\ MaxTx \in Nat \ {0} /\ PageLimit \in Nat \ {0} /\ MaxPages \in Nat \ {0}
  /\ Touches \in [Txs -> SUBSET Addrs]
  /\ Ranges \subseteq {r \in [from : Txs, to : Txs] : r.from <= r.to}

VARIABLES
  top,        \* the transactions 1 .. top are accepted on the chain
  local,      \* local[a]: rows of address_transactions of a
  canonical,  \* rows of transactions
  staged,     \* rows of kgw_force_refresh_stage
  sync        \* the sync under way

vars == <<top, local, canonical, staged, sync>>

-----------------------------------------------------------------------------
NoFilter == [from |-> 1, to |-> MaxTx]

Idle == [pc |-> "idle", addr |-> NoAddr, force |-> FALSE, range |-> NoFilter,
         before |-> 0, pages |-> 0, page |-> {}, next |-> "none", fresh |-> {},
         loaded |-> FALSE, cancelled |-> FALSE, stop |-> "none",
         since |-> 0, solid |-> FALSE, misled |-> FALSE]

Completions == {"empty_page", "before_start_date", "all_existing", "no_next_page"}
Stops == Completions \union {"none", "max_pages", "cancelled", "error"}

SyncType ==
  [pc : {"idle", "fetch", "store", "turn", "finish", "done"},
   addr : Addrs \union {NoAddr}, force : BOOLEAN,
   range : Ranges \union {NoFilter},
   before : 0..MaxTx, pages : 0..MaxPages, page : SUBSET Txs,
   next : {"none", "older"}, fresh : SUBSET Txs, loaded : BOOLEAN,
   cancelled : BOOLEAN, stop : Stops,
   since : 0..MaxTx, solid : BOOLEAN, misled : BOOLEAN]

TypeOK ==
  /\ top \in 0..MaxTx
  /\ local \in [Addrs -> SUBSET Txs]
  /\ canonical \subseteq Txs /\ staged \subseteq Txs
  /\ sync \in SyncType
  /\ sync.pc # "idle" => sync.addr \in Addrs

Init ==
  /\ top = 0
  /\ local = [a \in Addrs |-> {}] /\ canonical = {} /\ staged = {}
  /\ sync = Idle

\* What the explorer has of a, up to transaction t.
History(a, t) == {x \in 1..t : a \in Touches[x]}

InRange(r) == r.from .. r.to

\* What a sync of this range should leave in the database.
Wanted == History(sync.addr, sync.since) \intersect InRange(sync.range)

-----------------------------------------------------------------------------
(* The environment.                                                        *)

NewTransaction ==
  /\ top < MaxTx
  /\ top' = top + 1
  /\ UNCHANGED <<local, canonical, staged, sync>>

\* request_transaction_sync_cancel finds the registered sync.
Cancel ==
  /\ sync.pc # "idle" /\ ~sync.cancelled
  /\ sync' = [sync EXCEPT !.cancelled = TRUE]
  /\ UNCHANGED <<top, local, canonical, staged>>

\* The staging table is a temporary one of the connection.
Crash ==
  /\ sync.pc # "idle"
  /\ sync' = Idle /\ staged' = {}
  /\ UNCHANGED <<top, local, canonical>>

-----------------------------------------------------------------------------
(* The database.                                                           *)

Referenced(rows) == UNION {rows[a] : a \in Addrs}

\* upsert_many: one page, one transaction.
Upsert(a, rows) ==
  /\ local' = [local EXCEPT ![a] = @ \union rows]
  /\ canonical' = canonical \union rows

\* Variant: canonical rows of the address are dropped, shared or not.
ReplaceIgnoringOthers(a, rows) ==
  /\ local' = [local EXCEPT ![a] = rows]
  /\ canonical' = (canonical \ (local[a] \ rows)) \union rows

\* promote_force_refresh and delete_for_address: the relations of a are
\* replaced, canonical rows that nobody refers to any more are dropped.
ReplaceRows(a, rows) ==
  /\ local' = [local EXCEPT ![a] = rows]
  /\ canonical' = {x \in canonical \union rows : x \in Referenced(local')}

\* explorer_delete_transactions_for_address, under DB_OPERATION_LOCK.
DeleteForAddress(a) ==
  /\ sync.pc = "idle"
  /\ ReplaceRows(a, {})
  /\ UNCHANGED <<top, staged, sync>>

-----------------------------------------------------------------------------
(* The sync.                                                               *)

Ends(stop) == sync' = [sync EXCEPT !.pc = "done", !.stop = stop]

\* No hole of a below a local row of the range: what a sync that was neither cut
\* short nor filtered leaves, and what the fast stop relies on.
NoHole(a, r) ==
  \A x \in local[a], y \in History(a, top) : r.from <= y /\ y <= x => y \in local[a]

\* Enter the registry, count the local rows, open the stage.  A force refresh
\* drops its filters.
Begin(a, force, r) ==
  /\ sync.pc = "idle"
  /\ sync' = [Idle EXCEPT !.pc = "fetch", !.addr = a, !.force = force,
                          !.range = IF force THEN NoFilter ELSE r,
                          !.loaded = local[a] # {}, !.since = top,
                          !.solid = NoHole(a, IF force THEN NoFilter ELSE r)]
  /\ staged' = {}
  /\ UNCHANGED <<top, local, canonical>>

\* The token is looked at before, while and after a page is fetched, in the
\* transformation, and before and after the page is stored.
StopCancelled ==
  /\ sync.pc \in {"fetch", "store", "turn"} /\ sync.cancelled
  /\ Ends("cancelled")
  /\ UNCHANGED <<top, local, canonical, staged>>

\* An explorer error after its retries, an unusable cursor, a malformed row, a
\* database error: a page, or a promotion, is stored entirely or not at all.
Fails ==
  /\ sync.pc \in {"fetch", "store", "turn", "finish"}
  /\ Ends("error")
  /\ UNCHANGED <<top, local, canonical, staged>>

\* The newest PageLimit transactions that are older than the cursor.
Older == {x \in History(sync.addr, top) : sync.before = 0 \/ x < sync.before}
NextPage == {x \in Older : Cardinality({y \in Older : y > x}) < PageLimit}

\* The answer of the explorer.  There is a cursor when there is more, and there
\* may be one when there is not.  It may also find nothing although there is
\* something; misled records it.
FetchPage ==
  /\ sync.pc = "fetch" /\ ~sync.cancelled
  /\ \E page \in {NextPage, {}}, next \in {"none", "older"} :
       /\ page # {} /\ page # Older => next = "older"
       /\ sync' = [sync EXCEPT
            !.pages = @ + 1, !.page = page, !.next = next,
            !.misled = @ \/ page # NextPage,
            !.pc = IF page # {} THEN "store" ELSE IF sync.force THEN "finish" ELSE "done",
            !.stop = IF page = {} THEN "empty_page" ELSE @]
  /\ UNCHANGED <<top, local, canonical, staged>>

\* Rows newer than the range are left out, known ones are skipped in a normal
\* sync.
StorePage ==
  LET known == IF sync.force THEN {} ELSE local[sync.addr]
      fresh == {x \in sync.page : x <= sync.range.to} \ known
  IN
  /\ sync.pc = "store" /\ ~sync.cancelled
  /\ sync' = [sync EXCEPT !.pc = "turn", !.fresh = fresh]
  /\ IF sync.force
     THEN staged' = staged \union fresh /\ UNCHANGED <<local, canonical>>
     ELSE Upsert(sync.addr, fresh) /\ UNCHANGED staged
  /\ UNCHANGED top

BeforeStart == Min(sync.page) < sync.range.from

\* Variant: a page of which nothing is stored is taken for known.
StoresNothing == ~sync.force /\ sync.fresh = {}

\* Every row of the page was known, and none was newer than the range.
KnowsPage ==
  ~sync.force /\ sync.fresh = {} /\ \A x \in sync.page : x <= sync.range.to

\* Variant: the page limit is not looked at.
StopAtUnlimited ==
  IF BeforeStart THEN "before_start_date"
  ELSE IF KnowsPage THEN "all_existing"
  ELSE IF sync.next = "none" THEN "no_next_page"
  ELSE "none"

\* Where the loop stops, in the order of its tests.
StopAt ==
  IF BeforeStart THEN "before_start_date"
  ELSE IF KnowsPage THEN "all_existing"
  ELSE IF sync.next = "none" THEN "no_next_page"
  ELSE IF sync.pages = MaxPages THEN "max_pages"
  ELSE "none"

\* After the page: stop, or go on with the cursor.
Turn ==
  /\ sync.pc = "turn" /\ ~sync.cancelled
  /\ sync' = [sync EXCEPT
       !.stop = StopAt, !.page = {}, !.fresh = {}, !.next = "none",
       !.before = IF StopAt = "none" THEN Min(sync.page) ELSE @,
       !.pc = IF StopAt = "none" THEN "fetch" ELSE IF sync.force THEN "finish" ELSE "done"]
  /\ UNCHANGED <<top, local, canonical, staged>>

\* Variant: what has been staged is promoted whatever ended the loop.
PromoteUnproven ==
  /\ sync.pc = "finish"
  /\ IF sync.loaded /\ staged = {}
     THEN Ends("error") /\ UNCHANGED <<local, canonical, staged>>
     ELSE /\ ReplaceRows(sync.addr, staged)
          /\ staged' = {}
          /\ Ends(sync.stop)
  /\ UNCHANGED top

\* Variant: an empty stage is promoted over known rows.
PromoteEmpty ==
  /\ sync.pc = "finish"
  /\ IF sync.stop = "max_pages"
     THEN Ends("error") /\ UNCHANGED <<local, canonical, staged>>
     ELSE /\ ReplaceRows(sync.addr, staged)
          /\ staged' = {}
          /\ Ends(sync.stop)
  /\ UNCHANGED top

\* The end of a force refresh: refuse what is not proven complete, refuse to
\* replace known rows by nothing, otherwise replace the history at once.
FinishForce ==
  /\ sync.pc = "finish"
  /\ IF sync.stop = "max_pages" \/ (sync.loaded /\ staged = {})
     THEN Ends("error") /\ UNCHANGED <<local, canonical, staged>>
     ELSE /\ ReplaceRows(sync.addr, staged)
          /\ staged' = {}
          /\ Ends(sync.stop)
  /\ UNCHANGED top

\* The guards leave the registry and discard the stage.
Return ==
  /\ sync.pc = "done"
  /\ sync' = Idle /\ staged' = {}
  /\ UNCHANGED <<top, local, canonical>>

SyncStep ==
  \/ StopCancelled \/ FetchPage \/ StorePage \/ Turn \/ FinishForce \/ Return

-----------------------------------------------------------------------------
Next ==
  \/ NewTransaction \/ Cancel \/ Crash \/ Fails \/ SyncStep
  \/ \E a \in Addrs :
       \/ DeleteForAddress(a)
       \/ \E r \in Ranges : Begin(a, FALSE, r)
       \/ Begin(a, TRUE, NoFilter)

Spec == Init /\ [][Next]_vars

-----------------------------------------------------------------------------
(* Properties.                                                             *)

\* A force refresh changes the history of its address once, to one that holds
\* everything the chain had when it began and nothing the chain never had, as
\* long as the explorer did not hide a page; no cancellation, error, crash,
\* page limit or deletion gets between.
ForceReplacesWhole ==
  [][sync.pc # "idle" /\ sync.force /\ ~sync.misled /\ local' # local =>
       /\ Wanted \subseteq local'[sync.addr]
       /\ local'[sync.addr] \subseteq History(sync.addr, top)]_vars

\* Even then a force refresh never replaces known rows by nothing.
ForceKeepsSomething ==
  [][\A a \in Addrs : sync.pc # "idle" /\ local[a] # {} => local'[a] # {}]_vars

\* A normal sync that says it is complete is: with no hole in the range when it
\* began, everything the chain had then of the range is local when it ends.
RangeSyncCompletes ==
  sync.pc = "done" /\ sync.stop \in Completions /\ sync.solid /\ ~sync.misled
    => Wanted \subseteq local[sync.addr]

\* A page all of whose rows exist locally means that SQLite has the data.
AllExistingMeansComplete ==
  sync.pc = "done" /\ sync.stop = "all_existing" => Wanted \subseteq local[sync.addr]

\* The canonical rows are those some address refers to: a promotion or a deletion
\* for one address neither strands a shared transaction nor leaves one behind.
CanonicalRowsAreReferenced == canonical = Referenced(local)

=============================================================================
