------------------------------ MODULE Startup -------------------------------
(***************************************************************************)
(* From main to the running bot: the list of the reserves, the cache of    *)
(* the pools' fees (fee_cache.go), and the bootstrap of the store          *)
(* (bootstrapper.go) from batched reads of the chain (multicall.go) and    *)
(* from the borrowers The Graph knows, fetched page by page by one         *)
(* goroutine per range of addresses (graph_client.go).  Any call of a      *)
(* batch may revert by itself; a request that fails as a whole ends the    *)
(* program.                                                                *)
(***************************************************************************)
EXTENDS Integers, Sequences, FiniteSets

CONSTANTS
    Reserves,       \* the addresses of the pool's reserves as numbers, a sequence
    Fees,           \* standardFees, a sequence
    Balance,        \* Balance[<<t0, t1, fee>>], what the pool has of its token t0
    Borrowers,      \* users who borrow at the anchor block: addresses, as numbers
    CategoryOf,     \* their E-mode, 0 for none
    Bounds,         \* the bounds of the partitions, none of them a borrower's address
    limitPerPage,
    maxRetries,
    MaxReverts      \* bound of the calls of one batch that revert

Partitions == 1 .. Len(Bounds) - 1
Assets == {Reserves[i] : i \in 1 .. Len(Reserves)}

\* The key of two assets, whichever comes first.
Key(a, b) == IF a < b THEN <<a, b>> ELSE <<b, a>>

Pairs == {Key(a, b) : a, b \in Assets} \ {<<a, a>> : a \in Assets}

ASSUME StartupAssumption ==
    /\ Reserves \in Seq(Nat) /\ Fees \in Seq(Nat)
    /\ \A i, j \in 1 .. Len(Reserves) : Reserves[i] = Reserves[j] => i = j
    /\ \A i, j \in 1 .. Len(Fees) : Fees[i] = Fees[j] => i = j
    /\ Len(Bounds) \in Nat /\ \A i \in 1 .. Len(Bounds) : Bounds[i] \in Nat
    /\ Borrowers \subseteq Nat
    /\ \A u \in Borrowers : \E p \in Partitions : Bounds[p] < u /\ u < Bounds[p + 1]
    /\ CategoryOf \in [Borrowers -> Nat]
    /\ limitPerPage \in Nat \ {0} /\ maxRetries \in Nat \ {0} /\ MaxReverts \in Nat
    /\ \A x \in DOMAIN Balance : Balance[x] \in Nat

VARIABLES
    stage,      \* where main is
    pools,      \* validPoolMeta: the pools found, a sequence
    bestFees,   \* FeeCache.bestFees, 0 for a pair without
    configs,    \* the configurations and indices in the store: by asset, the asset whose
                \* data was stored under it
    fetchers,   \* the goroutines of GetAllUsersAtBlock
    cancelled,  \* fetchCtx
    received,   \* the partitions whose answer was received, with the users
    users,      \* the users in the store
    categories, \* the E-mode categories in the store
    bitmaps,    \* those of them with their collaterals
    reverted    \* history: the calls of the batches that reverted

fetching == <<fetchers, cancelled, received>>
stored == <<configs, users, categories, bitmaps>>
vars == <<stage, pools, bestFees, fetching, stored, reverted>>

\* Which calls of a batch of n fail.
Reverts(n) == {R \in SUBSET (1 .. n) : Cardinality(R) <= MaxReverts}

\* A request fails, or the answer to it cannot be decoded: log.Fatal.
Dies == stage' = "dead"

Quiet == UNCHANGED <<fetching, stored, reverted>>
-----------------------------------------------------------------------------
FetchReservesList ==
    /\ stage = "reserves"
    /\ stage' = "pools" \/ Dies
    /\ UNCHANGED <<pools, bestFees>> /\ Quiet

\* The pools asked for: i-th and j-th reserve, f-th fee, in the order of the questions.
Asked == {x \in (1 .. Len(Reserves)) \X (1 .. Len(Reserves)) \X (1 .. Len(Fees)) : x[1] < x[2]}

Before(x, y) ==
    \/ x[1] < y[1]
    \/ x[1] = y[1] /\ x[2] < y[2]
    \/ x[1] = y[1] /\ x[2] = y[2] /\ x[3] < y[3]

Pool(x) ==
    LET key == Key(Reserves[x[1]], Reserves[x[2]])
    IN  <<key[1], key[2], Fees[x[3]]>>

\* The pools of a set of questions, in that order.
PoolsOf(S) ==
    [k \in 1 .. Cardinality(S) |-> Pool(CHOOSE x \in S : Cardinality({y \in S : Before(y, x)}) = k - 1)]

MetaTracker == PoolsOf(Asked)

\* The first multicall: which of the pools exist.
BuildCachePools ==
    /\ stage = "pools"
    /\ \/ \E found \in SUBSET {x \in Asked : Pool(x) \in DOMAIN Balance} :
             /\ Cardinality(DOMAIN Balance) - Cardinality(found) <= MaxReverts
             /\ pools' = PoolsOf(found)
             /\ stage' = IF found = {} THEN "anchor" ELSE "balances"
       \/ Dies /\ UNCHANGED pools
    /\ UNCHANGED bestFees /\ Quiet

\* A slip: the answers are matched with all pools asked for, not with those found.
MutMetaOf(i) == MetaTracker[i]

\* The pool the i-th balance belongs to.
MetaOf(i) == pools[i]

Of(pool, pair) == <<pool[1], pool[2]>> = pair

\* The first of the largest balances answered for a pair.
IsBest(i, pair, answered) ==
    /\ i \in answered /\ Of(MetaOf(i), pair)
    /\ \A j \in answered : Of(MetaOf(j), pair) =>
          /\ Balance[pools[j]] <= Balance[pools[i]]
          /\ j < i => Balance[pools[j]] < Balance[pools[i]]

\* The second multicall: what the pools have of the pair's first token.
BuildCacheBalances ==
    /\ stage = "balances"
    /\ \/ /\ \E R \in Reverts(Len(pools)) :
                LET answered == (1 .. Len(pools)) \ R
                IN  /\ bestFees' = [pair \in Pairs |->
                           IF \E i \in answered : Of(MetaOf(i), pair)
                           THEN MetaOf(CHOOSE i \in answered : IsBest(i, pair, answered))[3]
                           ELSE 0]
                    /\ reverted' = [reverted EXCEPT !.balances = {pools[i] : i \in R}]
          /\ stage' = "anchor"
       \/ Dies /\ UNCHANGED <<bestFees, reverted>>
    /\ UNCHANGED <<pools, fetching, stored>>

\* 0 for an error.
GetOptimalFee(a, b) == bestFees[Key(a, b)]
-----------------------------------------------------------------------------
\* Bootstrapper.Run.

GetAnchorBlock ==
    /\ stage = "anchor"
    /\ stage' = "indices" \/ Dies
    /\ UNCHANGED <<pools, bestFees>> /\ Quiet

\* What Multicall3 answers: one result for each call, in the order of the calls.  A call
\* that reverts, or whose data cannot be decoded, has none; the others have the data of
\* the asset they asked for.
Answers(R) == [i \in 1 .. Len(Reserves) |->
                  IF i \in R THEN [Success |-> FALSE]
                  ELSE [Success |-> TRUE, ReturnData |-> Reserves[i]]]

\* A slip: the results that have data are collected first and then matched with the assets.
MutDecodeResults(results) ==
    LET Has(res) == res.Success
        kept == SelectSeq(results, Has)
    IN  [asset \in {Reserves[i] : i \in DOMAIN kept} |->
            kept[CHOOSE i \in DOMAIN kept : Reserves[i] = asset].ReturnData]

\* decodeMulticallResultsSafe: the i-th result is stored under the i-th asset, those
\* without data are skipped.
DecodeResults(results) ==
    [asset \in {Reserves[i] : i \in {j \in DOMAIN results : results[j].Success}} |->
        results[CHOOSE i \in DOMAIN results : Reserves[i] = asset].ReturnData]

BatchFetchReserveData ==
    /\ stage = "indices"
    /\ \/ /\ \E R \in Reverts(Len(Reserves)) :
                /\ configs' = DecodeResults(Answers(R))
                /\ reverted' = [reverted EXCEPT !.reserves = {Reserves[i] : i \in R}]
          /\ stage' = "users"
       \/ Dies /\ UNCHANGED <<configs, reverted>>
    /\ UNCHANGED <<pools, bestFees, fetching, users, categories, bitmaps>>

\* The borrowers of a partition beyond the last one seen.
Rest(p) == {u \in Borrowers : fetchers[p].lastID < u /\ u < Bounds[p + 1]}

\* The first limitPerPage of them in ascending order.
IsPage(S, rest) ==
    /\ S \subseteq rest
    /\ \A u \in S, v \in rest \ S : u < v
    /\ (Cardinality(S) = limitPerPage \/ (S = rest /\ Cardinality(S) < limitPerPage))

\* A slip: the next page starts where this one did.
MutCursor(p, last) == Bounds[p]

\* Where the page after the one that ends with user last starts.
Cursor(p, last) == last

WithPage(f, S, next) ==
    [lastID |-> next, attempt |-> 0, found |-> f.found \cup S, answer |-> f.answer]

\* fetchUserPartition: a page is added; an empty one ends the partition.
FetchPage(p) ==
    /\ stage = "users"
    /\ fetchers[p].answer = "none" /\ ~cancelled
    /\ \E S \in SUBSET Borrowers :
          /\ IsPage(S, Rest(p))
          /\ \/ /\ S = {}
                /\ fetchers' = [fetchers EXCEPT ![p].answer = "users"]
             \/ \E last \in S :
                   /\ \A u \in S : u <= last
                   /\ fetchers' = [fetchers EXCEPT ![p] = WithPage(@, S, Cursor(p, last))]
    /\ UNCHANGED <<stage, pools, bestFees, cancelled, received, stored, reverted>>

\* A slip: what was found so far is returned after the last retry.
MutAfterRetries(f) == [f EXCEPT !.answer = "users"]

\* The retries are used up.
AfterRetries(f) == [f EXCEPT !.answer = "error"]

\* A slip: one attempt more.
MutMayRetry(f) == f.attempt < maxRetries

MayRetry(f) == f.attempt + 1 < maxRetries

\* A query fails: it is repeated, or the partition fails and cancels the others.
QueryFails(p) ==
    /\ stage = "users"
    /\ fetchers[p].answer = "none"
    /\ IF MayRetry(fetchers[p])
       THEN /\ fetchers' = [fetchers EXCEPT ![p].attempt = @ + 1]
            /\ UNCHANGED cancelled
       ELSE /\ fetchers' = [fetchers EXCEPT ![p] = AfterRetries(@)]
            /\ cancelled' = (fetchers'[p].answer = "error" \/ cancelled)
    /\ UNCHANGED <<stage, pools, bestFees, received, stored, reverted>>

\* An answer that is no JSON, or names GraphQL errors, is not retried.
BadAnswer(p) ==
    /\ stage = "users"
    /\ fetchers[p].answer = "none" /\ ~cancelled
    /\ fetchers' = [fetchers EXCEPT ![p].answer = "error"]
    /\ cancelled' = TRUE
    /\ UNCHANGED <<stage, pools, bestFees, received, stored, reverted>>

\* GetAllUsersAtBlock waits for one answer of every partition.
Receive(p) ==
    /\ stage = "users"
    /\ p \notin received
    /\ fetchers[p].answer # "none"
    /\ received' = received \cup {p}
    /\ UNCHANGED <<stage, pools, bestFees, fetchers, cancelled, stored, reverted>>

\* The context of the bootstrap is over.
Timeout ==
    /\ stage = "users"
    /\ received # Partitions
    /\ Dies
    /\ UNCHANGED <<pools, bestFees>> /\ Quiet

\* All have answered.
ReceivedAll ==
    /\ stage = "users"
    /\ received = Partitions
    /\ IF \E p \in Partitions : fetchers[p].answer = "error"
       THEN Dies
       ELSE stage' = "emodes"
    /\ UNCHANGED <<pools, bestFees>> /\ Quiet

AllUsers == UNION {fetchers[p].found : p \in Partitions}

EModes == {CategoryOf[u] : u \in AllUsers} \ {0}

\* The orders in which the map of the categories may be walked.
Walks == {s \in [1 .. Cardinality(EModes) -> EModes] :
            /\ {s[i] : i \in DOMAIN s} = EModes
            /\ \A i, j \in DOMAIN s : s[i] = s[j] => i = j}

\* A slip: the answers are read as if there were one for each category.
MutConfigCall(i) == i

\* Two calls are made for each category.
ConfigCall(i) == 2 * i - 1
BitmapCall(i) == 2 * i

\* BatchFetchEModeCategories: a category is kept if its first call succeeds, whatever
\* the second does.  Then the users are stored.
BatchFetchEModeCategories ==
    /\ stage = "emodes"
    /\ \/ /\ \E ids \in Walks, R \in Reverts(2 * Cardinality(EModes)) :
                /\ categories' = {ids[i] : i \in {k \in DOMAIN ids : ConfigCall(k) \notin R}}
                /\ bitmaps' = {ids[i] : i \in {k \in DOMAIN ids : ConfigCall(k) \notin R
                                                                  /\ BitmapCall(k) \notin R}}
                /\ reverted' = [reverted EXCEPT
                       !.configs = {ids[i] : i \in {k \in DOMAIN ids : 2 * k - 1 \in R}},
                       !.bitmaps = {ids[i] : i \in {k \in DOMAIN ids : 2 * k \in R}}]
          /\ users' = AllUsers
          /\ stage' = "executor"
       \/ Dies /\ UNCHANGED <<users, categories, bitmaps, reverted>>
    /\ UNCHANGED <<pools, bestFees, fetching, configs>>

\* setupTxExecutor: the key or the contract's ABI may be unusable.  Then the engines start.
SetupTxExecutor ==
    /\ stage = "executor"
    /\ stage' = "running" \/ Dies
    /\ UNCHANGED <<pools, bestFees>> /\ Quiet

\* SIGTERM.
Shutdown ==
    /\ stage = "running"
    /\ stage' = "stopped"
    /\ UNCHANGED <<pools, bestFees>> /\ Quiet
-----------------------------------------------------------------------------
Init ==
    /\ stage = "reserves"
    /\ pools = <<>>
    /\ bestFees = [pair \in Pairs |-> 0]
    /\ fetchers = [p \in Partitions |-> [lastID |-> Bounds[p], attempt |-> 0, found |-> {}, answer |-> "none"]]
    /\ cancelled = FALSE
    /\ received = {}
    /\ configs = <<>> /\ users = {} /\ categories = {} /\ bitmaps = {}
    /\ reverted = [balances |-> {}, reserves |-> {}, configs |-> {}, bitmaps |-> {}]

Fetch(p) == FetchPage(p) \/ QueryFails(p) \/ BadAnswer(p) \/ Receive(p)

Main ==
    \/ FetchReservesList \/ BuildCachePools \/ BuildCacheBalances
    \/ GetAnchorBlock \/ BatchFetchReserveData \/ ReceivedAll \/ BatchFetchEModeCategories
    \/ SetupTxExecutor

Next == Main \/ (\E p \in Partitions : Fetch(p)) \/ Timeout \/ Shutdown

\* Every request is answered or fails, every goroutine runs; no timeout is needed.
Fairness == WF_vars(Main) /\ \A p \in Partitions : WF_vars(Fetch(p))

Spec == Init /\ [][Next]_vars
FairSpec == Spec /\ Fairness
-----------------------------------------------------------------------------
Stages == {"reserves", "pools", "balances", "anchor", "indices", "users", "emodes", "executor",
           "running", "stopped", "dead"}

TypeOK ==
    /\ stage \in Stages
    /\ pools \in Seq(DOMAIN Balance)
    /\ bestFees \in [Pairs -> {0} \cup {Fees[i] : i \in 1 .. Len(Fees)}]
    /\ fetchers \in [Partitions -> [lastID : Nat, attempt : 0 .. maxRetries - 1,
                                    found : SUBSET Borrowers, answer : {"none", "users", "error"}]]
    /\ cancelled \in BOOLEAN
    /\ received \subseteq Partitions
    /\ DOMAIN configs \subseteq Assets /\ \A a \in DOMAIN configs : configs[a] \in Assets
    /\ users \subseteq Borrowers
    /\ bitmaps \subseteq categories /\ categories \subseteq Nat \ {0}

Running == stage \in {"running", "stopped"}

\* The bot runs only with every borrower of the anchor block in the store: no range of
\* addresses, page or failed query is passed over.
AllBorrowersLoaded == Running => users = Borrowers

\* A user's category is missing only if its own call reverted, its collaterals only if
\* one of its own two did.
CategoriesLoaded ==
    Running =>
        LET used == {CategoryOf[u] : u \in users} \ {0}
        IN  /\ categories = used \ reverted.configs
            /\ bitmaps = categories \ reverted.bitmaps

\* The store has the data of every asset whose own call did not revert, under its own
\* address, and nothing under the others: a revert in the middle of the batch shifts no
\* answer to another asset.
ReservesLoaded ==
    Running => configs = [a \in Assets \ reverted.reserves |-> a]

\* The fee of a swap, asked for in either direction, is that of the pair's pool with most
\* of the pair's first token, among those that were found and answered.
BestPoolKept ==
    Running => \A a, b \in Assets : a # b =>
        LET known == {x \in {pools[i] : i \in 1 .. Len(pools)} \ reverted.balances :
                         {x[1], x[2]} = {a, b}}
        IN  IF known = {} THEN GetOptimalFee(a, b) = 0
            ELSE \E x \in known : /\ GetOptimalFee(a, b) = x[3]
                                  /\ \A y \in known : Balance[y] <= Balance[x]

\* The start comes to an end, without the help of its timeouts.
StartEnds == <>(stage \in {"running", "stopped", "dead"})
=============================================================================
