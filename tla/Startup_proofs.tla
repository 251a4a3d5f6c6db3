--------------------------- MODULE Startup_proofs ---------------------------
(***************************************************************************)
(* What the bot has in its store when it runs, and which fees, for every   *)
(* list of reserves and fees, set of borrowers, partition of their         *)
(* addresses, page size, number of retries and set of reverted calls.      *)
(***************************************************************************)
EXTENDS Startup, FiniteSetTheorems, TLAPS

Fetcher == [lastID : Nat, attempt : Int, found : SUBSET Borrowers,
            answer : {"none", "users", "error"}]

\* The borrowers of a partition.
Part(p) == {u \in Borrowers : Bounds[p] < u /\ u < Bounds[p + 1]}

\* A goroutine has the borrowers of its partition up to the last one seen, all of them
\* once it has answered with users.
FetcherInv(p) ==
    /\ Bounds[p] <= fetchers[p].lastID
    /\ fetchers[p].found = {u \in Part(p) : u <= fetchers[p].lastID}
    /\ fetchers[p].answer = "users" => fetchers[p].found = Part(p)

FetchInv ==
    /\ fetchers \in [Partitions -> Fetcher]
    /\ \A p \in Partitions : FetcherInv(p)
    /\ \A p \in received : fetchers[p].answer # "none"
    /\ stage = "emodes" => \A p \in Partitions : fetchers[p].answer = "users"

Loaded == stage \in {"executor", "running", "stopped"}

UsersInv == Loaded => users = Borrowers

ReservesInv ==
    stage \in {"users", "emodes"} \/ Loaded =>
        configs = [a \in Assets \ reverted.reserves |-> a]

CategoriesInv ==
    Loaded =>
        LET used == {CategoryOf[u] : u \in users} \ {0}
        IN  /\ categories = used \ reverted.configs
            /\ bitmaps = categories \ reverted.bitmaps

\* The fields of the history, which are not enumerated here.
RevertedInv == DOMAIN reverted = {"balances", "reserves", "configs", "bitmaps"}

IInv == FetchInv /\ UsersInv /\ ReservesInv /\ CategoriesInv /\ RevertedInv

\* Every answer that has data is stored under the asset it was asked for, whichever other
\* calls of the batch revert.
LEMMA ResultsDecoded ==
    ASSUME StartupAssumption, NEW R \in SUBSET (1 .. Len(Reserves))
    PROVE  DecodeResults(Answers(R)) = [a \in Assets \ {Reserves[i] : i \in R} |-> a]
  <1> DEFINE results == Answers(R)
  <1>1. \A i, j \in 1 .. Len(Reserves) : Reserves[i] = Reserves[j] => i = j
    BY DEF StartupAssumption
  <1>2. DOMAIN results = 1 .. Len(Reserves)
    BY DEF Answers
  <1>3. \A i \in 1 .. Len(Reserves) : results[i].Success <=> i \notin R
    BY DEF Answers
  <1>4. \A i \in (1 .. Len(Reserves)) \ R : results[i].ReturnData = Reserves[i]
    BY DEF Answers
  <1> HIDE DEF results
  <1>5. {j \in DOMAIN results : results[j].Success} = (1 .. Len(Reserves)) \ R
    BY <1>2, <1>3
  <1>6. {Reserves[i] : i \in {j \in DOMAIN results : results[j].Success}}
            = Assets \ {Reserves[i] : i \in R}
    <2>1. ASSUME NEW i \in (1 .. Len(Reserves)) \ R PROVE Reserves[i] \notin {Reserves[j] : j \in R}
      BY <1>1
    <2> DEFINE D == (1 .. Len(Reserves)) \ R
    <2>2. {Reserves[i] : i \in D} = Assets \ {Reserves[i] : i \in R}
      <3>1. ASSUME NEW a \in {Reserves[i] : i \in D} PROVE a \in Assets \ {Reserves[i] : i \in R}
        BY <2>1 DEF Assets
      <3>2. ASSUME NEW a \in Assets \ {Reserves[i] : i \in R} PROVE a \in {Reserves[i] : i \in D}
        BY DEF Assets
      <3> QED  BY <3>1, <3>2
    <2>3. {j \in DOMAIN results : results[j].Success} = D
      BY <1>5
    <2> HIDE DEF D
    <2> QED  BY <2>2, <2>3
  <1>7. ASSUME NEW a \in Assets \ {Reserves[i] : i \in R}
        PROVE  results[CHOOSE i \in DOMAIN results : Reserves[i] = a].ReturnData = a
    <2>1. PICK k \in DOMAIN results : Reserves[k] = a
      BY <1>2, <1>7 DEF Assets
    <2>2. LET c == CHOOSE i \in DOMAIN results : Reserves[i] = a
          IN  c \in DOMAIN results /\ Reserves[c] = a
      BY <2>1
    <2> QED  BY <1>2, <1>4, <1>7, <2>2
  <1>8. DecodeResults(results)
            = [a \in Assets \ {Reserves[i] : i \in R} |->
                  results[CHOOSE i \in DOMAIN results : Reserves[i] = a].ReturnData]
    BY <1>6 DEF DecodeResults
  <1>9. DecodeResults(results) = [a \in Assets \ {Reserves[i] : i \in R} |-> a]
    BY <1>7, <1>8
  <1> QED  BY <1>9 DEF results

LEMMA BoundsFact ==
    ASSUME StartupAssumption, NEW p \in Partitions
    PROVE  Bounds[p] \in Nat /\ Bounds[p + 1] \in Nat
  <1>1. p \in 1 .. Len(Bounds) /\ p + 1 \in 1 .. Len(Bounds)
    BY DEF StartupAssumption, Partitions
  <1> QED  BY <1>1 DEF StartupAssumption

LEMMA AllParts == UNION {Part(p) : p \in Partitions} = Borrowers
  <1>1. ASSUME NEW u \in Borrowers PROVE \E p \in Partitions : u \in Part(p)
    BY StartupAssumption DEF StartupAssumption, Part
  <1>2. ASSUME NEW p \in Partitions PROVE Part(p) \subseteq Borrowers
    BY DEF Part
  <1>3. ASSUME NEW u \in UNION {Part(p) : p \in Partitions} PROVE u \in Borrowers
    BY <1>2
  <1> QED  BY <1>1, <1>3

\* The fields of a goroutine after its answer or a failure.
LEMMA AnswerFields ==
    ASSUME NEW f \in Fetcher, NEW a \in {"none", "users", "error"}
    PROVE  LET g == [f EXCEPT !.answer = a]
           IN  /\ g \in Fetcher /\ g.answer = a /\ g.found = f.found /\ g.lastID = f.lastID
  <1>1. [f EXCEPT !.answer = a] =
           [lastID |-> f.lastID, attempt |-> f.attempt, found |-> f.found, answer |-> a]
    BY DEF Fetcher
  <1> QED  BY <1>1 DEF Fetcher

LEMMA AttemptFields ==
    ASSUME NEW f \in Fetcher
    PROVE  LET g == [f EXCEPT !.attempt = f.attempt + 1]
           IN  /\ g \in Fetcher /\ g.answer = f.answer
               /\ g.found = f.found /\ g.lastID = f.lastID
  <1>1. [f EXCEPT !.attempt = f.attempt + 1] =
           [lastID |-> f.lastID, attempt |-> f.attempt + 1, found |-> f.found, answer |-> f.answer]
    BY DEF Fetcher
  <1> QED  BY <1>1 DEF Fetcher

\* An empty page: nothing is left.
LEMMA EmptyPage ==
    ASSUME StartupAssumption, NEW rest, IsPage({}, rest) PROVE rest = {}
  <1>1. Cardinality({}) = 0
    BY FS_EmptySet
  <1>2. limitPerPage # 0
    BY DEF StartupAssumption
  <1> QED  BY <1>1, <1>2 DEF IsPage

LEMMA InitInv == ASSUME StartupAssumption, Init PROVE IInv
  <1>1. ASSUME NEW p \in Partitions PROVE fetchers[p] \in Fetcher /\ FetcherInv(p)
    <2>1. fetchers[p] = [lastID |-> Bounds[p], attempt |-> 0, found |-> {}, answer |-> "none"]
      BY DEF Init
    <2>2. Bounds[p] \in Nat
      BY BoundsFact
    <2>3. ASSUME NEW u \in Part(p) PROVE ~(u <= Bounds[p])
      <3>1. u \in Nat /\ Bounds[p] < u
        BY DEF StartupAssumption, Part
      <3> QED  BY <2>2, <3>1
    <2> QED  BY <2>1, <2>2, <2>3 DEF FetcherInv, Fetcher
  <1>2. fetchers \in [Partitions -> Fetcher]
    BY <1>1 DEF Init
  <1>3. FetchInv
    BY <1>1, <1>2 DEF FetchInv, Init
  <1> QED  BY <1>3 DEF IInv, UsersInv, ReservesInv, CategoriesInv, RevertedInv, Loaded, Init

\* A step of one goroutine keeps what the others have.
LEMMA FetcherStep ==
    ASSUME FetchInv, NEW p \in Partitions, NEW f \in Fetcher,
           fetchers' = [fetchers EXCEPT ![p] = f], FetcherInv(p)',
           f.answer = "none" => fetchers[p].answer = "none",
           stage = "users", stage' = stage, received' = received
    PROVE  FetchInv'
  <1>1. fetchers' \in [Partitions -> Fetcher] /\ fetchers'[p] = f
    BY DEF FetchInv
  <1>2. ASSUME NEW q \in Partitions, q # p PROVE fetchers'[q] = fetchers[q]
    BY <1>2 DEF FetchInv
  <1>3. \A q \in Partitions : FetcherInv(q)'
    BY <1>2 DEF FetchInv, FetcherInv
  <1>4. ASSUME NEW q \in received PROVE fetchers'[q].answer # "none"
    BY <1>1, <1>2 DEF FetchInv
  <1> QED  BY <1>1, <1>3, <1>4 DEF FetchInv

LEMMA FetchPageInv ==
    ASSUME StartupAssumption, FetchInv, NEW p \in Partitions, FetchPage(p)
    PROVE  FetchInv'
  <1> DEFINE f == fetchers[p]
  <1>1. f \in Fetcher /\ FetcherInv(p) /\ stage = "users"
    BY DEF FetchInv, FetchPage
  <1>2. PICK S \in SUBSET Borrowers :
          /\ IsPage(S, Rest(p))
          /\ \/ S = {} /\ fetchers' = [fetchers EXCEPT ![p] = [f EXCEPT !.answer = "users"]]
             \/ \E last \in S :
                   /\ \A u \in S : u <= last
                   /\ fetchers' = [fetchers EXCEPT ![p] = WithPage(f, S, last)]
    BY DEF FetchPage, Cursor
  <1>3. CASE S = {} /\ fetchers' = [fetchers EXCEPT ![p] = [f EXCEPT !.answer = "users"]]
    <2>1. Rest(p) = {}
      BY <1>2, <1>3, EmptyPage
    <2>2. f.lastID \in Nat /\ f.found = {u \in Part(p) : u <= f.lastID}
      BY <1>1 DEF Fetcher, FetcherInv
    <2>3. ASSUME NEW u \in Part(p) PROVE u <= f.lastID
      BY <2>1, <2>2 DEF Part, Rest, StartupAssumption
    <2>4. f.found = Part(p)
      BY <2>2, <2>3
    <2> DEFINE g == [f EXCEPT !.answer = "users"]
    <2>5. g \in Fetcher /\ g.answer = "users" /\ g.found = f.found /\ g.lastID = f.lastID
      BY <1>1, AnswerFields
    <2>6. fetchers'[p] = g
      BY <1>3 DEF FetchInv
    <2> HIDE DEF g
    <2>7. FetcherInv(p)'
      BY <1>1, <2>4, <2>5, <2>6 DEF FetcherInv, Part
    <2>8. fetchers' = [fetchers EXCEPT ![p] = g]
      BY <1>3 DEF g
    <2> QED  BY <1>1, <2>5, <2>7, <2>8, FetcherStep DEF FetchPage
  <1>4. CASE \E last \in S :
                   /\ \A u \in S : u <= last
                   /\ fetchers' = [fetchers EXCEPT ![p] = WithPage(f, S, last)]
    <2>1. PICK last \in S :
                   /\ \A u \in S : u <= last
                   /\ fetchers' = [fetchers EXCEPT ![p] = WithPage(f, S, last)]
      BY <1>4
    <2> DEFINE g == WithPage(f, S, last)
    <2>2. fetchers'[p] = g
      BY <2>1 DEF FetchInv
    <2>3. Borrowers \subseteq Nat /\ last \in Nat /\ f.lastID \in Nat /\ Bounds[p] \in Nat
          /\ f.answer = "none"
      BY <1>1, BoundsFact DEF StartupAssumption, Fetcher, FetchPage
    <2>4. g \in Fetcher /\ g.found = f.found \cup S /\ g.lastID = last /\ g.answer = f.answer
      <3>1. f.found \cup S \in SUBSET Borrowers /\ f.answer \in {"none", "users", "error"}
        BY <1>1 DEF Fetcher
      <3>2. g = [lastID |-> last, attempt |-> 0, found |-> f.found \cup S, answer |-> f.answer]
        BY DEF WithPage
      <3> HIDE DEF g, f
      <3>3. g \in Fetcher
        BY <2>3, <3>1, <3>2 DEF Fetcher
      <3> QED  BY <3>2, <3>3
    <2> HIDE DEF g
    <2>5. S \subseteq Rest(p) /\ \A u \in S, v \in Rest(p) \ S : u < v
      BY <1>2 DEF IsPage
    <2>6. f.lastID < last /\ last \in Part(p) /\ Bounds[p] <= f.lastID
      BY <1>1, <2>3, <2>5 DEF Rest, Part, FetcherInv
    <2>7. ASSUME NEW u \in Part(p), u <= last PROVE u \in f.found \cup S
      <3>1. u \in Nat
        BY <2>3 DEF Part
      <3>2. CASE u <= f.lastID
        BY <1>1, <3>2 DEF FetcherInv
      <3>3. CASE f.lastID < u
        <4>1. u \in Rest(p)
          BY <3>3 DEF Rest, Part
        <4>2. ~(last < u)
          BY <2>3, <2>7, <3>1
        <4> QED  BY <2>5, <4>1, <4>2
      <3> QED  BY <2>3, <3>1, <3>2, <3>3
    <2>8. ASSUME NEW u \in f.found \cup S PROVE u \in Part(p) /\ u <= last
      <3>1. CASE u \in f.found
        <4>1. u \in Part(p) /\ u <= f.lastID
          BY <1>1, <3>1 DEF FetcherInv
        <4>2. u \in Nat
          BY <2>3, <4>1 DEF Part
        <4> QED  BY <2>3, <2>6, <4>1, <4>2
      <3>2. CASE u \in S
        <4>1. u \in Borrowers /\ f.lastID < u /\ u < Bounds[p + 1]
          BY <2>5, <3>2 DEF Rest
        <4>2. Bounds[p] < u
          <5>1. u \in Nat
            BY <2>3, <4>1
          <5> HIDE DEF f
          <5> QED  BY ONLY <5>1, <2>3, <2>6, <4>1
        <4> QED  BY <2>1, <3>2, <4>1, <4>2 DEF Part
      <3> QED  BY <3>1, <3>2
    <2>9. g.found = {u \in Part(p) : u <= last}
      <3>1. f.found \cup S = {u \in Part(p) : u <= last}
        BY <2>7, <2>8
      <3> QED  BY <2>4, <3>1
    <2>10. FetcherInv(p)'
      <3>1. Bounds[p] <= last
        BY ONLY <2>3, <2>6
      <3>2. fetchers'[p].lastID = last /\ fetchers'[p].answer # "users"
            /\ fetchers'[p].found = {u \in Part(p) : u <= last}
        BY <2>2, <2>3, <2>4, <2>9
      <3>3. (Part(p))' = Part(p) /\ (Bounds[p])' = Bounds[p]
        BY DEF Part
      <3> HIDE DEF f
      <3>4. Bounds[p] <= fetchers'[p].lastID
        BY <3>1, <3>2
      <3>5. fetchers'[p].found = {u \in Part(p) : u <= fetchers'[p].lastID}
        BY <3>2
      <3> QED  BY <3>2, <3>3, <3>4, <3>5 DEF FetcherInv
    <2>11. fetchers' = [fetchers EXCEPT ![p] = g]
      BY <2>1 DEF g
    <2>12. stage = "users" /\ stage' = stage /\ received' = received
      BY DEF FetchPage
    <2>13. fetchers[p].answer = "none" /\ g \in Fetcher
      BY <2>3, <2>4
    <2> HIDE DEF f
    <2> QED  BY <2>10, <2>11, <2>12, <2>13, FetcherStep
  <1> QED  BY <1>2, <1>3, <1>4

\* A failure changes nothing of what was found.
LEMMA FailureInv ==
    ASSUME StartupAssumption, FetchInv, NEW p \in Partitions, QueryFails(p) \/ BadAnswer(p)
    PROVE  FetchInv'
  <1> DEFINE f == fetchers[p]
  <1>1. f \in Fetcher /\ FetcherInv(p) /\ f.answer = "none"
    BY DEF FetchInv, QueryFails, BadAnswer
  <1>2. PICK g : /\ fetchers' = [fetchers EXCEPT ![p] = g]
                 /\ g = [f EXCEPT !.attempt = f.attempt + 1] \/ g = [f EXCEPT !.answer = "error"]
    BY DEF QueryFails, BadAnswer, AfterRetries
  <1>3. /\ g \in Fetcher /\ g.answer # "users"
        /\ g.found = f.found /\ g.lastID = f.lastID
    <2> HIDE DEF f
    <2>1. CASE g = [f EXCEPT !.attempt = f.attempt + 1]
      BY <1>1, <2>1, AttemptFields
    <2>2. CASE g = [f EXCEPT !.answer = "error"]
      BY <1>1, <2>2, AnswerFields
    <2> QED  BY <1>2, <2>1, <2>2
  <1>4. fetchers'[p] = g
    BY <1>2 DEF FetchInv
  <1>5. FetcherInv(p)'
    BY <1>1, <1>3, <1>4 DEF FetcherInv, Part
  <1> QED  BY <1>1, <1>2, <1>3, <1>5, FetcherStep DEF QueryFails, BadAnswer

\* The last batch stores what is required.
LEMMA StoreInv ==
    ASSUME StartupAssumption, IInv, BatchFetchEModeCategories PROVE IInv'
  <1>1. CASE Dies /\ UNCHANGED <<users, categories, bitmaps, reverted>>
    BY <1>1 DEF BatchFetchEModeCategories, Dies, IInv, FetchInv, FetcherInv, Part, UsersInv,
                ReservesInv, CategoriesInv, RevertedInv, Loaded, fetching
  <1>2. CASE users' = AllUsers /\ stage' = "executor"
    <2>1. \A p \in Partitions : fetchers[p].found = Part(p)
      BY DEF IInv, FetchInv, FetcherInv, BatchFetchEModeCategories
    <2>2. AllUsers = Borrowers
      BY ONLY <2>1, AllParts DEF AllUsers
    <2>3. PICK ids \in Walks, R \in Reverts(2 * Cardinality(EModes)) :
             /\ categories' = {ids[i] : i \in {k \in DOMAIN ids : ConfigCall(k) \notin R}}
             /\ bitmaps' = {ids[i] : i \in {k \in DOMAIN ids : ConfigCall(k) \notin R
                                                               /\ BitmapCall(k) \notin R}}
             /\ reverted' = [reverted EXCEPT
                    !.configs = {ids[i] : i \in {k \in DOMAIN ids : 2 * k - 1 \in R}},
                    !.bitmaps = {ids[i] : i \in {k \in DOMAIN ids : 2 * k \in R}}]
      BY <1>2 DEF BatchFetchEModeCategories, Dies
    <2>4. /\ reverted'.reserves = reverted.reserves
          /\ reverted'.configs = {ids[i] : i \in {k \in DOMAIN ids : 2 * k - 1 \in R}}
          /\ reverted'.bitmaps = {ids[i] : i \in {k \in DOMAIN ids : 2 * k \in R}}
          /\ DOMAIN reverted' = DOMAIN reverted
      BY <2>3 DEF IInv, RevertedInv
    <2>5. DOMAIN ids \subseteq Nat /\ {ids[i] : i \in DOMAIN ids} = EModes
          /\ \A i, j \in DOMAIN ids : ids[i] = ids[j] => i = j
      BY DEF Walks
    <2>6. EModes = {CategoryOf[u] : u \in users'} \ {0}
      BY <1>2 DEF EModes
    <2>7. categories' = EModes \ reverted'.configs
      BY <2>3, <2>4, <2>5 DEF ConfigCall
    <2>8. bitmaps' = categories' \ reverted'.bitmaps
      BY <2>3, <2>4, <2>5 DEF BitmapCall
    <2>9. CategoriesInv'
      BY <2>6, <2>7, <2>8 DEF CategoriesInv
    <2>10. ReservesInv' /\ RevertedInv'
      BY <1>2, <2>4 DEF IInv, ReservesInv, RevertedInv, BatchFetchEModeCategories
    <2>11. UsersInv' /\ FetchInv'
      BY <1>2, <2>2 DEF IInv, UsersInv, FetchInv, FetcherInv, Part, BatchFetchEModeCategories,
                        fetching
    <2> QED  BY <2>9, <2>10, <2>11 DEF IInv
  <1> QED  BY <1>1, <1>2 DEF BatchFetchEModeCategories

\* Every step keeps the invariant.
LEMMA Step == ASSUME StartupAssumption, IInv, [Next]_vars PROVE IInv'
  <1> USE DEF Quiet, Dies, fetching, stored
  <1>1. CASE FetchReservesList \/ BuildCachePools \/ GetAnchorBlock \/ Timeout \/ Shutdown
             \/ SetupTxExecutor
    <2>1. /\ UNCHANGED <<fetchers, cancelled, received, configs, users, categories, bitmaps, reverted>>
          /\ stage' = "emodes" => stage = "emodes"
          /\ Loaded' => Loaded
          /\ stage' \notin {"users", "emodes"} \/ stage = stage'
      BY <1>1 DEF FetchReservesList, BuildCachePools, GetAnchorBlock, Timeout, Shutdown,
                  SetupTxExecutor, Loaded
    <2>2. FetchInv'
      BY <2>1 DEF IInv, FetchInv, FetcherInv, Part
    <2>3. UsersInv' /\ CategoriesInv' /\ RevertedInv'
      BY <2>1 DEF IInv, UsersInv, CategoriesInv, RevertedInv
    <2>4. ReservesInv'
      BY <2>1 DEF IInv, ReservesInv
    <2> QED  BY <2>2, <2>3, <2>4 DEF IInv
  <1>2. CASE BuildCacheBalances
    <2>1. /\ reverted'.reserves = reverted.reserves /\ reverted'.configs = reverted.configs
          /\ reverted'.bitmaps = reverted.bitmaps /\ DOMAIN reverted' = DOMAIN reverted
      BY <1>2 DEF BuildCacheBalances, IInv, RevertedInv
    <2>2. UNCHANGED <<fetchers, cancelled, received, configs, users, categories, bitmaps>>
          /\ stage' \in {"anchor", "dead"}
      BY <1>2 DEF BuildCacheBalances
    <2> QED  BY <2>1, <2>2 DEF IInv, FetchInv, FetcherInv, Part, UsersInv, ReservesInv,
                               CategoriesInv, RevertedInv, Loaded
  <1>3. CASE BatchFetchReserveData
    <2>1. CASE Dies /\ UNCHANGED <<configs, reverted>>
      BY <1>3, <2>1 DEF BatchFetchReserveData, IInv, FetchInv, FetcherInv, Part, UsersInv,
                        ReservesInv, CategoriesInv, RevertedInv, Loaded
    <2>2. CASE stage' = "users"
      <3>1. PICK R \in Reverts(Len(Reserves)) :
               /\ configs' = DecodeResults(Answers(R))
               /\ reverted' = [reverted EXCEPT !.reserves = {Reserves[i] : i \in R}]
        BY <1>3, <2>2 DEF BatchFetchReserveData
      <3>2. /\ reverted'.reserves = {Reserves[i] : i \in R} /\ DOMAIN reverted' = DOMAIN reverted
            /\ R \subseteq 1 .. Len(Reserves)
        BY <3>1 DEF IInv, RevertedInv, Reverts
      <3>3. configs' = [a \in Assets \ reverted'.reserves |-> a]
        BY <3>1, <3>2, ResultsDecoded
      <3>4. UNCHANGED <<fetchers, cancelled, received, users>>
        BY <1>3 DEF BatchFetchReserveData
      <3> QED  BY <2>2, <3>2, <3>3, <3>4 DEF IInv, FetchInv, FetcherInv, Part, UsersInv,
                    ReservesInv, CategoriesInv, RevertedInv, Loaded
    <2> QED  BY <1>3, <2>1, <2>2 DEF BatchFetchReserveData
  <1>4. CASE \E p \in Partitions : FetchPage(p) \/ QueryFails(p) \/ BadAnswer(p)
    <2>1. FetchInv'
      BY <1>4, FetchPageInv, FailureInv DEF IInv
    <2>2. UNCHANGED <<stage, users, configs, categories, bitmaps, reverted>>
      BY <1>4 DEF FetchPage, QueryFails, BadAnswer
    <2> QED  BY <2>1, <2>2 DEF IInv, UsersInv, ReservesInv, CategoriesInv, RevertedInv, Loaded
  <1>5. CASE \E p \in Partitions : Receive(p)
    BY <1>5 DEF Receive, IInv, FetchInv, FetcherInv, Part, UsersInv, ReservesInv, CategoriesInv,
                RevertedInv, Loaded
  <1>6. CASE ReceivedAll
    <2>1. stage' = "emodes" => \A p \in Partitions : fetchers[p].answer = "users"
      BY <1>6 DEF ReceivedAll, IInv, FetchInv, Fetcher
    <2> QED  BY <1>6, <2>1 DEF ReceivedAll, IInv, FetchInv, FetcherInv, Part, UsersInv,
                    ReservesInv, CategoriesInv, RevertedInv, Loaded
  <1>7. CASE BatchFetchEModeCategories
    BY <1>7, StoreInv
  <1>8. CASE UNCHANGED vars
    BY <1>8 DEF vars, IInv, FetchInv, FetcherInv, Part, UsersInv, ReservesInv, CategoriesInv,
                RevertedInv, Loaded
  <1> QED  BY <1>1, <1>2, <1>3, <1>4, <1>5, <1>6, <1>7, <1>8 DEF Next, Main, Fetch

LEMMA Invariance == Spec => []IInv
  <1>1. Init => IInv
    BY InitInv, StartupAssumption
  <1>2. IInv /\ [Next]_vars => IInv'
    BY Step, StartupAssumption
  <1> QED  BY <1>1, <1>2, PTL DEF Spec

\* The bot runs only with every borrower of the anchor block in its store, whichever
\* pages, retries and failures the goroutines of GetAllUsersAtBlock met.
THEOREM BorrowersLoaded == Spec => []AllBorrowersLoaded
  <1>1. IInv => AllBorrowersLoaded
    BY DEF IInv, UsersInv, Loaded, AllBorrowersLoaded, Running
  <1> QED  BY <1>1, Invariance, PTL

\* BatchFetchReserveData stored its own data for every asset whose call did not revert, and
\* nothing for the others.
THEOREM ConfigsLoaded == Spec => []ReservesLoaded
  <1>1. IInv => ReservesLoaded
    BY DEF IInv, ReservesInv, Loaded, ReservesLoaded, Running
  <1> QED  BY <1>1, Invariance, PTL

\* Only the calls that reverted are missing in what BatchFetchEModeCategories returned,
\* in whichever order the categories were asked for.
THEOREM EModesLoaded == Spec => []CategoriesLoaded
  <1>1. IInv => CategoriesLoaded
    BY DEF IInv, CategoriesInv, Loaded, CategoriesLoaded, Running
  <1> QED  BY <1>1, Invariance, PTL
-----------------------------------------------------------------------------
\* Induction, from the well-foundedness of the order of the naturals.
LEMMA MinNat ==
    ASSUME NEW S \in SUBSET Nat, S # {}
    PROVE  \E m \in S : \A n \in S : m <= n
  <1> DEFINE R == OpToRel(<, Nat)
  <1>1. IsWellFoundedOn(R, Nat)
    BY NatLessThanWellFounded
  <1>2. \A x, y \in Nat : <<x, y>> \in R <=> x < y
    BY DEF OpToRel
  <1> HIDE DEF R
  <1>3. PICK m \in S : \A y \in S : ~ (<<y, m>> \in R)
    BY <1>1, WFMin
  <1>4. ASSUME NEW n \in S PROVE m <= n
    <2>1. m \in Nat /\ n \in Nat
      OBVIOUS
    <2>2. ~ (n < m)
      BY <1>2, <1>3, <2>1
    <2> QED  BY <2>1, <2>2
  <1> QED  BY <1>4

\* A set of naturals with 0 and with the successor of each of its members has them all.
LEMMA Induction ==
    ASSUME NEW S \in SUBSET Nat, 0 \in S, \A n \in S : n + 1 \in S
    PROVE  S = Nat
  <1> SUFFICES ASSUME Nat \ S # {} PROVE FALSE
    OBVIOUS
  <1>1. PICK m \in Nat \ S : \A n \in Nat \ S : m <= n
    BY MinNat
  <1>2. m - 1 \in Nat /\ m - 1 \notin Nat \ S
    BY <1>1
  <1> QED  BY <1>1, <1>2

LEMMA MemberIsNat == ASSUME NEW s \in Seq(Nat), NEW i \in 1 .. Len(s) PROVE s[i] \in Nat
  OBVIOUS

LEMMA Nested ==
    ASSUME NEW a, NEW b, NEW c, NEW d, NEW e, NEW f, <<<<a, b>>, c>> = <<<<d, e>>, f>>
    PROVE  a = d /\ b = e /\ c = f
  <1>1. <<a, b>> = <<d, e>> /\ c = f
    OBVIOUS
  <1> QED  BY <1>1

\* The questions are finitely many.
LEMMA AskedFinite == ASSUME StartupAssumption PROVE IsFiniteSet(Asked)
  <1> DEFINE I == 1 .. Len(Reserves)
             J == 1 .. Len(Fees)
             T == (I \X I) \X J
             f == [x \in Asked |-> <<<<x[1], x[2]>>, x[3]>>]
  <1>1. Len(Reserves) \in Nat /\ Len(Fees) \in Nat
    BY DEF StartupAssumption
  <1>2. IsFiniteSet(I) /\ IsFiniteSet(J)
    BY <1>1, FS_Interval
  <1>3. IsFiniteSet(T)
    <2> HIDE DEF I, J
    <2>1. IsFiniteSet(I \X I)
      BY <1>2, FS_Product
    <2> QED  BY <1>2, <2>1, FS_Product DEF T
  <1>4. ASSUME NEW x \in Asked PROVE f[x] \in T /\ x = <<x[1], x[2], x[3]>>
    BY DEF Asked
  <1>5. ASSUME NEW x \in Asked, NEW y \in Asked, f[x] = f[y] PROVE x = y
    <2>1. f[x] = <<<<x[1], x[2]>>, x[3]>> /\ f[y] = <<<<y[1], y[2]>>, y[3]>>
      OBVIOUS
    <2>2. <<<<x[1], x[2]>>, x[3]>> = <<<<y[1], y[2]>>, y[3]>>
      <3> HIDE DEF f
      <3> QED  BY <1>5, <2>1
    <2>3. x[1] = y[1] /\ x[2] = y[2] /\ x[3] = y[3]
      BY <2>2, Nested
    <2> HIDE DEF T, f
    <2>4. x = <<x[1], x[2], x[3]>> /\ y = <<y[1], y[2], y[3]>>
      BY <1>4
    <2> QED  BY <2>3, <2>4
  <1> HIDE DEF T
  <1>6. f \in [Asked -> T]
    BY <1>4
  <1> HIDE DEF f
  <1>7. f \in Injection(Asked, T)
    BY <1>5, <1>6 DEF Injection, IsInjective
  <1> QED  BY <1>3, <1>7, FS_Injection

LEMMA AskedTyped ==
    ASSUME StartupAssumption, NEW x \in Asked
    PROVE  /\ x[1] \in 1 .. Len(Reserves) /\ x[2] \in 1 .. Len(Reserves) /\ x[3] \in 1 .. Len(Fees)
           /\ x[1] < x[2] /\ x = <<x[1], x[2], x[3]>> /\ Len(Reserves) \in Nat /\ Len(Fees) \in Nat
           /\ Reserves[x[1]] \in Nat /\ Reserves[x[2]] \in Nat /\ Fees[x[3]] \in Nat
           /\ Reserves[x[1]] # Reserves[x[2]]
  <1>1. x[1] \in 1 .. Len(Reserves) /\ x[2] \in 1 .. Len(Reserves) /\ x[3] \in 1 .. Len(Fees)
        /\ x[1] < x[2] /\ x = <<x[1], x[2], x[3]>>
    BY DEF Asked
  <1>2. Len(Reserves) \in Nat /\ Len(Fees) \in Nat
    BY DEF StartupAssumption
  <1>3. Reserves[x[1]] \in Nat /\ Reserves[x[2]] \in Nat /\ Fees[x[3]] \in Nat
    <2>1. Reserves \in Seq(Nat) /\ Fees \in Seq(Nat)
      BY DEF StartupAssumption
    <2> QED  BY <1>1, <2>1, MemberIsNat
  <1>4. x[1] # x[2]
    BY <1>1, <1>2
  <1>5. Reserves[x[1]] # Reserves[x[2]]
    BY <1>1, <1>4 DEF StartupAssumption
  <1> QED  BY <1>1, <1>2, <1>3, <1>5

\* How many of the questions S come before x.
Below(S, x) == {y \in S : Before(y, x)}

\* Before orders the questions, all of them.
LEMMA BeforeOrders ==
    ASSUME StartupAssumption, NEW x \in Asked, NEW y \in Asked
    PROVE  /\ ~Before(x, x)
           /\ x # y => Before(x, y) \/ Before(y, x)
           /\ \A z \in Asked : Before(x, y) /\ Before(y, z) => Before(x, z)
  <1> DEFINE Question(u) == u[1] \in Int /\ u[2] \in Int /\ u[3] \in Int /\ u = <<u[1], u[2], u[3]>>
  <1>1. \A u \in Asked : Question(u)
    BY AskedTyped
  <1>2. ~Before(x, x)
    BY <1>1 DEF Before
  <1>3. x # y => Before(x, y) \/ Before(y, x)
    <2>1. Question(x) /\ Question(y)
      BY <1>1
    <2>2. x # y => x[1] # y[1] \/ x[2] # y[2] \/ x[3] # y[3]
      BY <2>1
    <2> QED  BY <2>1, <2>2 DEF Before
  <1>4. ASSUME NEW z \in Asked, Before(x, y), Before(y, z) PROVE Before(x, z)
    BY <1>1, <1>4 DEF Before
  <1> QED  BY <1>2, <1>3, <1>4

\* Each place among the questions is that of exactly one of them.
LEMMA PlacesTaken ==
    ASSUME StartupAssumption, NEW S \in SUBSET Asked
    PROVE  /\ Cardinality(S) \in Nat
           /\ \A k \in 1 .. Cardinality(S) : \E x \in S : Cardinality(Below(S, x)) = k - 1
  <1> DEFINE n == Cardinality(S)
             rank == [x \in S |-> Cardinality(Below(S, x)) + 1]
  <1>1. IsFiniteSet(S)
    BY AskedFinite, FS_Subset
  <1>2. n \in Nat
    BY <1>1, FS_CardinalityType
  <1>3. ASSUME NEW x \in S
        PROVE  Below(S, x) \in SUBSET S /\ IsFiniteSet(Below(S, x)) /\ x \notin Below(S, x)
               /\ Cardinality(Below(S, x)) \in Nat
    <2>1. Below(S, x) \in SUBSET S /\ x \notin Below(S, x)
      BY BeforeOrders DEF Below
    <2>2. IsFiniteSet(Below(S, x))
      BY <1>1, <2>1, FS_Subset
    <2> QED  BY <2>1, <2>2, FS_CardinalityType
  <1>4. ASSUME NEW x \in S PROVE Cardinality(Below(S, x)) < n
    <2>1. Cardinality(Below(S, x)) <= n /\ Cardinality(Below(S, x)) # n
      BY <1>1, <1>3, FS_Subset
    <2> QED  BY <1>2, <1>3, <2>1
  <1>5. ASSUME NEW x \in S, NEW y \in S, Before(x, y)
        PROVE  Cardinality(Below(S, x)) # Cardinality(Below(S, y))
    <2>1. Below(S, x) \in SUBSET Below(S, y)
      BY <1>5, BeforeOrders DEF Below
    <2>2. x \in Below(S, y) /\ x \notin Below(S, x)
      BY <1>3, <1>5 DEF Below
    <2> QED  BY <1>3, <2>1, <2>2, FS_Subset
  <1>6. rank \in [S -> 1 .. n]
    BY <1>2, <1>3, <1>4
  <1>7. ASSUME NEW x \in S, NEW y \in S, rank[x] = rank[y] PROVE x = y
    <2>1. Cardinality(Below(S, x)) = Cardinality(Below(S, y))
      BY <1>3, <1>7
    <2> QED  BY <1>5, <2>1, BeforeOrders
  <1>8. rank \in Injection(S, 1 .. n)
    <2> HIDE DEF rank, n
    <2> QED  BY <1>6, <1>7 DEF Injection, IsInjective
  <1>9. IsFiniteSet(1 .. n) /\ Cardinality(1 .. n) = n
    BY <1>2, FS_Interval
  <1>10. rank \in Surjection(S, 1 .. n)
    <2> HIDE DEF rank
    <2> QED  BY <1>8, <1>9, FS_Injection
  <1>11. ASSUME NEW k \in 1 .. n PROVE \E x \in S : Cardinality(Below(S, x)) = k - 1
    <2>1. PICK x \in S : rank[x] = k
      <3> HIDE DEF rank, n
      <3> QED  BY <1>10 DEF Surjection
    <2> QED  BY <1>2, <1>3, <2>1
  <1> QED  BY <1>2, <1>11

LEMMA PoolsDistinct ==
    ASSUME StartupAssumption, NEW x \in Asked, NEW y \in Asked, Pool(x) = Pool(y)
    PROVE  x = y
  <1>1. x[3] = y[3]
    <2>1. Fees[x[3]] = Fees[y[3]]
      BY DEF Pool
    <2> QED  BY <2>1, AskedTyped DEF StartupAssumption
  <1>2. Key(Reserves[x[1]], Reserves[x[2]]) = Key(Reserves[y[1]], Reserves[y[2]])
    BY DEF Pool, Key
  <1>3. {Reserves[x[1]], Reserves[x[2]]} = {Reserves[y[1]], Reserves[y[2]]}
    BY <1>2 DEF Key
  <1>4. CASE Reserves[x[1]] = Reserves[y[1]] /\ Reserves[x[2]] = Reserves[y[2]]
    <2>1. x[1] = y[1] /\ x[2] = y[2]
      BY <1>4, AskedTyped DEF StartupAssumption
    <2> QED  BY <1>1, <2>1, AskedTyped
  <1>5. CASE Reserves[x[1]] = Reserves[y[2]] /\ Reserves[x[2]] = Reserves[y[1]]
    <2>1. x[1] = y[2] /\ x[2] = y[1]
      BY <1>5, AskedTyped DEF StartupAssumption
    <2> QED  BY <2>1, AskedTyped
  <1> QED  BY <1>3, <1>4, <1>5

\* The pools of a set of questions: each of them once, with a key in order.
LEMMA PoolsOfFacts ==
    ASSUME StartupAssumption, NEW S \in SUBSET Asked
    PROVE  /\ Cardinality(S) \in Nat
           /\ DOMAIN PoolsOf(S) = 1 .. Cardinality(S)
           /\ \A k \in 1 .. Cardinality(S) : \E x \in S : PoolsOf(S)[k] = Pool(x)
           /\ \A k, l \in 1 .. Cardinality(S) : PoolsOf(S)[k] = PoolsOf(S)[l] => k = l
  <1> DEFINE n == Cardinality(S)
             At(k) == CHOOSE x \in S : Cardinality(Below(S, x)) = k - 1
  <1>1. n \in Nat /\ \A k \in 1 .. n : At(k) \in S /\ Cardinality(Below(S, At(k))) = k - 1
    BY PlacesTaken
  <1>2. PoolsOf(S) = [k \in 1 .. n |-> Pool(At(k))]
    BY DEF PoolsOf, Below
  <1> HIDE DEF At, n
  <1>3. ASSUME NEW k \in 1 .. n, NEW l \in 1 .. n, PoolsOf(S)[k] = PoolsOf(S)[l] PROVE k = l
    <2>1. At(k) = At(l)
      BY <1>1, <1>2, <1>3, PoolsDistinct
    <2>2. k - 1 = l - 1
      BY <1>1, <2>1
    <2> QED  BY <1>1, <2>2
  <1> QED  BY <1>1, <1>2, <1>3 DEF n

\* The first of the largest values of a set of indices, which is not empty.
Largest(i, I, val) == i \in I /\ \A j \in I : val[j] <= val[i] /\ (j < i => val[j] < val[i])

LEMMA FirstLargest ==
    ASSUME NEW n \in Nat, NEW val \in [1 .. n -> Nat], NEW I \in SUBSET (1 .. n), I # {}
    PROVE  \E i \in I : Largest(i, I, val)
  <1> DEFINE Upto(k) == I \cap (1 .. k)
             Has(k) == Upto(k) # {} => \E i \in I : Largest(i, Upto(k), val)
             N == {k \in Nat : k <= n => Has(k)}
  <1>1. 0 \in N
    OBVIOUS
  <1>2. ASSUME NEW k \in N PROVE k + 1 \in N
    <2>0. k \in Nat /\ (k <= n => Has(k))
      OBVIOUS
    <2> HIDE DEF Has
    <2>1. SUFFICES ASSUME k + 1 <= n PROVE Has(k + 1)
      BY <2>0
    <2>2. k \in Nat /\ Has(k)
      BY <2>0, <2>1
    <2> USE DEF Has
    <2>3. CASE k + 1 \notin I
      <3>1. 1 .. (k + 1) = (1 .. k) \cup {k + 1}
        BY <2>2
      <3>2. Upto(k + 1) = Upto(k)
        BY <2>3, <3>1
      <3> QED  BY <2>2, <3>2
    <2>4. CASE k + 1 \in I
      <3>0. 1 .. (k + 1) = (1 .. k) \cup {k + 1}
        BY <2>2
      <3>1. Upto(k + 1) = Upto(k) \cup {k + 1}
        BY <2>4, <3>0
      <3>2. \A j \in Upto(k) : j \in Nat /\ j < k + 1 /\ val[j] \in Nat
        BY <2>2
      <3>3. val[k + 1] \in Nat
        BY <2>4
      <3>4. CASE Upto(k) = {}
        BY <2>4, <3>1, <3>3, <3>4 DEF Largest
      <3>5. CASE Upto(k) # {}
        <4>1. PICK m \in I : Largest(m, Upto(k), val)
          BY <2>2, <3>5
        <4>2. m \in Upto(k) /\ val[m] \in Nat /\ m < k + 1 /\ m \in Nat
              /\ \A j \in Upto(k) : val[j] <= val[m] /\ (j < m => val[j] < val[m])
          BY <3>2, <4>1 DEF Largest
        <4> HIDE DEF Upto
        <4>3. CASE val[k + 1] <= val[m]
          <5>1. Largest(m, Upto(k) \cup {k + 1}, val)
            BY <2>2, <3>2, <3>3, <4>2, <4>3 DEF Largest
          <5> QED  BY <3>1, <5>1
        <4>4. CASE val[m] < val[k + 1]
          <5>1. \A j \in Upto(k) : val[j] < val[k + 1]
            BY <3>2, <3>3, <4>2, <4>4
          <5>2. Largest(k + 1, Upto(k) \cup {k + 1}, val)
            BY <2>2, <3>2, <3>3, <5>1 DEF Largest
          <5> QED  BY <2>4, <3>1, <5>2
        <4> QED  BY <3>3, <4>2, <4>3, <4>4
      <3> QED  BY <3>4, <3>5
    <2> QED  BY <2>3, <2>4
  <1>3. N = Nat
    <2>1. N \in SUBSET Nat
      OBVIOUS
    <2> HIDE DEF N
    <2> QED  BY <1>1, <1>2, <2>1, Induction
  <1>4. n \in N
    BY <1>3
  <1>5. Upto(n) = I
    OBVIOUS
  <1>6. Has(n)
    <2> HIDE DEF Has
    <2> QED  BY <1>4
  <1> HIDE DEF Upto
  <1> QED  BY <1>5, <1>6

\* The pools found: pools that exist, each of them asked for and noted once.
PoolsOK ==
    /\ pools \in Seq(DOMAIN Balance)
    /\ \A i \in 1 .. Len(pools) : \E x \in Asked : pools[i] = Pool(x)
    /\ \A i, j \in 1 .. Len(pools) : pools[i] = pools[j] => i = j

\* The fee of a pair is that of its best pool.
Chosen(a, b) ==
    LET known == {x \in {pools[i] : i \in 1 .. Len(pools)} \ reverted.balances :
                     {x[1], x[2]} = {a, b}}
    IN  IF known = {} THEN GetOptimalFee(a, b) = 0
        ELSE \E x \in known : /\ GetOptimalFee(a, b) = x[3]
                              /\ \A y \in known : Balance[y] <= Balance[x]

\* No fee before the balances are known, the best ones from then on.
FeesOK ==
    /\ stage \in {"reserves", "pools", "balances"} => bestFees = [pair \in Pairs |-> 0]
    /\ stage \in {"anchor", "indices", "users", "emodes"} \/ Loaded =>
          \A a, b \in Assets : a # b => Chosen(a, b)

PoolTypes ==
    bestFees \in [Pairs -> {0} \cup {Fees[i] : i \in 1 .. Len(Fees)}]

TypeInv == TypeOK /\ PoolsOK /\ FeesOK /\ RevertedInv

LEMMA AssetsAreNat == ASSUME StartupAssumption PROVE \A a \in Assets : a \in Nat
  <1>1. Reserves \in Seq(Nat)
    BY DEF StartupAssumption
  <1> QED  BY <1>1, MemberIsNat DEF Assets

LEMMA PoolIs ==
    ASSUME StartupAssumption, NEW x \in Asked
    PROVE  /\ Pool(x) = <<Pool(x)[1], Pool(x)[2], Fees[x[3]]>>
           /\ Pool(x)[3] = Fees[x[3]]
           /\ Pool(x)[1] \in Nat /\ Pool(x)[2] \in Nat /\ Pool(x)[1] < Pool(x)[2]
  <1>1. /\ Reserves[x[1]] \in Nat /\ Reserves[x[2]] \in Nat
        /\ Reserves[x[1]] # Reserves[x[2]]
    BY AskedTyped
  <1> QED  BY <1>1 DEF Pool, Key

\* A pool is one of two assets when it is noted under their key.
LEMMA KeyMatches ==
    ASSUME StartupAssumption, NEW x \in Asked, NEW a \in Assets, NEW b \in Assets, a # b
    PROVE  {Pool(x)[1], Pool(x)[2]} = {a, b} <=> Of(Pool(x), Key(a, b))
  <1>1. a \in Nat /\ b \in Nat
    BY AssetsAreNat
  <1> DEFINE p == Pool(x)[1]
             q == Pool(x)[2]
  <1>2. p \in Nat /\ q \in Nat /\ p < q
    BY PoolIs
  <1> HIDE DEF p, q
  <1>3. CASE a < b
    <2>1. Key(a, b) = <<a, b>>
      BY <1>3 DEF Key
    <2>2. {p, q} = {a, b} <=> p = a /\ q = b
      <3>1. ASSUME {p, q} = {a, b} PROVE p = a /\ q = b
        <4>1. p \in {a, b} /\ q \in {a, b}
          BY <3>1, Zenon
        <4> QED  BY <1>1, <1>2, <1>3, <4>1
      <3>2. p = a /\ q = b => {p, q} = {a, b}
        OBVIOUS
      <3> QED  BY <3>1, <3>2, Zenon
    <2>3. <<p, q>> = Key(a, b) <=> p = a /\ q = b
      BY <2>1
    <2> QED  BY <2>2, <2>3 DEF Of, p, q
  <1>4. CASE b < a
    <2>1. Key(a, b) = <<b, a>>
      BY <1>1, <1>4 DEF Key
    <2>2. {p, q} = {b, a} <=> p = b /\ q = a
      <3>1. ASSUME {p, q} = {b, a} PROVE p = b /\ q = a
        <4>1. p \in {b, a} /\ q \in {b, a}
          BY <3>1, Zenon
        <4> QED  BY <1>1, <1>2, <1>4, <4>1
      <3>2. p = b /\ q = a => {p, q} = {b, a}
        OBVIOUS
      <3> QED  BY <3>1, <3>2, Zenon
    <2>3. <<p, q>> = Key(a, b) <=> p = b /\ q = a
      BY <2>1
    <2>4. {b, a} = {a, b}
      OBVIOUS
    <2> QED  BY <2>2, <2>3, <2>4 DEF Of, p, q
  <1>5. a < b \/ b < a
    BY <1>1
  <1> QED  BY <1>3, <1>4, <1>5

LEMMA KeyIsPair ==
    ASSUME StartupAssumption, NEW a \in Assets, NEW b \in Assets, a # b
    PROVE  Key(a, b) \in Pairs
  <1>1. Key(a, b) \in {Key(c, d) : c, d \in Assets}
    OBVIOUS
  <1>2. ASSUME NEW c \in Assets PROVE Key(a, b) # <<c, c>>
    BY DEF Key
  <1> QED  BY <1>1, <1>2 DEF Pairs

\* Among the pools of a pair that answered there is a best one.
LEMMA BestExists ==
    ASSUME StartupAssumption, PoolsOK, NEW answered \in SUBSET (1 .. Len(pools)), NEW pair,
           \E i \in answered : Of(MetaOf(i), pair)
    PROVE  \E i \in answered : IsBest(i, pair, answered)
  <1> DEFINE n == Len(pools)
             val == [i \in 1 .. n |-> Balance[pools[i]]]
             I == {i \in answered : Of(MetaOf(i), pair)}
  <1>1. n \in Nat
    BY DEF PoolsOK
  <1>2. ASSUME NEW i \in 1 .. n PROVE Balance[pools[i]] \in Nat
    <2>1. pools[i] \in DOMAIN Balance
      BY DEF PoolsOK
    <2> QED  BY <2>1 DEF StartupAssumption
  <1>3. val \in [1 .. n -> Nat]
    BY <1>2
  <1>4. I \in SUBSET (1 .. n) /\ I # {}
    OBVIOUS
  <1>5. \A i \in 1 .. n : val[i] = Balance[pools[i]]
    OBVIOUS
  <1>6. \A i \in answered : i \in I <=> Of(MetaOf(i), pair)
    OBVIOUS
  <1> HIDE DEF I, val, n
  <1>7. PICK i \in I : Largest(i, I, val)
    BY <1>1, <1>3, <1>4, FirstLargest
  <1>8. i \in answered
    BY DEF I
  <1>9. IsBest(i, pair, answered)
    BY <1>4, <1>5, <1>6, <1>7, <1>8 DEF IsBest, Largest
  <1> QED  BY <1>8, <1>9

\* The fees chosen when the balances have been read.
LEMMA BalancesStep ==
    ASSUME StartupAssumption, TypeInv, BuildCacheBalances, stage' # "dead"
    PROVE  /\ PoolTypes' /\ RevertedInv'
           /\ \A a, b \in Assets : a # b => Chosen(a, b)'
  <1>1. PICK R \in Reverts(Len(pools)) :
           LET answered == (1 .. Len(pools)) \ R
           IN  /\ bestFees' = [pair \in Pairs |->
                      IF \E i \in answered : Of(MetaOf(i), pair)
                      THEN MetaOf(CHOOSE i \in answered : IsBest(i, pair, answered))[3]
                      ELSE 0]
               /\ reverted' = [reverted EXCEPT !.balances = {pools[i] : i \in R}]
    BY DEF BuildCacheBalances, Dies
  <1> DEFINE n == Len(pools)
             answered == (1 .. n) \ R
             Answered(pair) == \E i \in answered : Of(pools[i], pair)
             best(pair) == CHOOSE i \in answered : IsBest(i, pair, answered)
  <1>2. PoolsOK /\ pools' = pools /\ R \in SUBSET (1 .. n)
    BY DEF TypeInv, BuildCacheBalances, Reverts
  <1>3. bestFees' = [pair \in Pairs |-> IF Answered(pair) THEN pools[best(pair)][3] ELSE 0]
    BY <1>1 DEF MetaOf
  <1>4. reverted'.balances = {pools[i] : i \in R} /\ RevertedInv'
    BY <1>1 DEF TypeInv, RevertedInv
  <1>5. ASSUME NEW pair, Answered(pair)
        PROVE  best(pair) \in answered /\ IsBest(best(pair), pair, answered)
    <2>1. \E i \in answered : IsBest(i, pair, answered)
      BY <1>2, <1>5, BestExists DEF MetaOf
    <2> QED  BY <2>1
  <1> HIDE DEF Answered, best
  <1>6. ASSUME NEW i \in 1 .. n PROVE pools[i][3] \in {Fees[f] : f \in 1 .. Len(Fees)}
    <2>1. PICK x \in Asked : pools[i] = Pool(x)
      BY <1>2 DEF PoolsOK
    <2>2. Pool(x)[3] = Fees[x[3]]
      BY PoolIs
    <2>3. x[3] \in 1 .. Len(Fees)
      BY AskedTyped
    <2> QED  BY <2>1, <2>2, <2>3
  <1>7. PoolTypes'
    <2>1. ASSUME NEW pair \in Pairs
          PROVE  (IF Answered(pair) THEN pools[best(pair)][3] ELSE 0)
                    \in {0} \cup {Fees[f] : f \in 1 .. Len(Fees)}
      BY <1>5, <1>6
    <2> HIDE DEF answered
    <2> QED  BY <1>3, <2>1 DEF PoolTypes
  <1>8. ASSUME NEW a \in Assets, NEW b \in Assets, a # b PROVE Chosen(a, b)'
    <2> DEFINE pair == Key(a, b)
               known == {x \in {pools[i] : i \in 1 .. n} \ {pools[i] : i \in R} : {x[1], x[2]} = {a, b}}
    <2>1. pair \in Pairs
      BY <1>8, KeyIsPair
    <2>2. ASSUME NEW i \in 1 .. n
          PROVE  /\ {pools[i][1], pools[i][2]} = {a, b} <=> Of(pools[i], pair)
                 /\ pools[i] \in {pools[j] : j \in R} <=> i \in R
      <3>1. PICK x \in Asked : pools[i] = Pool(x)
        BY <1>2 DEF PoolsOK
      <3>2. {pools[i][1], pools[i][2]} = {a, b} <=> Of(pools[i], pair)
        <4>1. {Pool(x)[1], Pool(x)[2]} = {a, b} <=> Of(Pool(x), Key(a, b))
          BY <1>8, KeyMatches
        <4> QED  BY <3>1, <4>1
      <3>3. \A j \in R : pools[i] = pools[j] => i = j
        BY <1>2 DEF PoolsOK
      <3>4. pools[i] \in {pools[j] : j \in R} <=> i \in R
        BY <3>3
      <3> QED  BY <3>2, <3>4
    <2> HIDE DEF pair
    <2>3. GetOptimalFee(a, b)' = IF Answered(pair) THEN pools[best(pair)][3] ELSE 0
      <3>1. GetOptimalFee(a, b)' = bestFees'[pair]
        BY DEF GetOptimalFee, pair
      <3> QED  BY <1>3, <2>1, <3>1
    <2>4. \A i \in answered : Of(pools[i], pair) => pools[i] \in known
      BY <2>2
    <2>5. \A x \in known : \E i \in answered : x = pools[i] /\ Of(pools[i], pair)
      <3> SUFFICES ASSUME NEW x \in known PROVE \E i \in answered : x = pools[i] /\ Of(pools[i], pair)
        OBVIOUS
      <3>1. PICK i \in 1 .. n : x = pools[i]
        OBVIOUS
      <3> QED  BY <2>2, <3>1
    <2>6. Chosen(a, b)' <=> IF known = {} THEN GetOptimalFee(a, b)' = 0
                            ELSE \E x \in known : /\ GetOptimalFee(a, b)' = x[3]
                                                  /\ \A y \in known : Balance[y] <= Balance[x]
      BY <1>2, <1>4 DEF Chosen
    <2> HIDE DEF known
    <2>7. CASE Answered(pair)
      <3> DEFINE m == best(pair)
      <3>1. m \in answered /\ Of(pools[m], pair)
            /\ \A j \in answered : Of(pools[j], pair) => Balance[pools[j]] <= Balance[pools[m]]
        BY <1>5, <2>7 DEF IsBest, MetaOf
      <3> HIDE DEF m
      <3>2. pools[m] \in known
        BY <2>4, <3>1
      <3>3. \A y \in known : Balance[y] <= Balance[pools[m]]
        BY <2>5, <3>1
      <3>4. GetOptimalFee(a, b)' = pools[m][3]
        BY <2>3, <2>7 DEF m
      <3> QED  BY <2>6, <3>2, <3>3, <3>4
    <2>8. CASE ~Answered(pair)
      <3>1. known = {}
        BY <2>5, <2>8 DEF Answered
      <3> QED  BY <2>3, <2>6, <2>8, <3>1
    <2> QED  BY <2>7, <2>8
  <1> QED  BY <1>4, <1>7, <1>8

LEMMA SequenceOf ==
    ASSUME NEW V, NEW n \in Nat, NEW s, s = [k \in 1 .. n |-> s[k]], \A k \in 1 .. n : s[k] \in V
    PROVE  s \in Seq(V) /\ Len(s) = n
  OBVIOUS

\* The pools that were found, in the order of the questions.
LEMMA PoolsStep ==
    ASSUME StartupAssumption, NEW found \in SUBSET Asked, \A x \in found : Pool(x) \in DOMAIN Balance,
           pools' = PoolsOf(found)
    PROVE  PoolsOK' /\ (found = {} => \A i \in 1 .. Len(pools') : FALSE)
  <1> DEFINE n == Cardinality(found)
             s == PoolsOf(found)
  <1>1. /\ n \in Nat /\ DOMAIN s = 1 .. n
        /\ \A k \in 1 .. n : \E x \in found : s[k] = Pool(x)
        /\ \A k, l \in 1 .. n : s[k] = s[l] => k = l
    BY PoolsOfFacts
  <1>2. s = [k \in 1 .. n |-> s[k]]
    BY <1>1 DEF PoolsOf
  <1>3. \A k \in 1 .. n : s[k] \in DOMAIN Balance
    BY <1>1
  <1>4. found = {} => n = 0
    BY FS_EmptySet
  <1> HIDE DEF s, n
  <1>5. s \in Seq(DOMAIN Balance) /\ Len(s) = n
    BY <1>1, <1>2, <1>3, SequenceOf
  <1>6. pools' = s
    BY DEF s
  <1> QED  BY <1>1, <1>4, <1>5, <1>6 DEF PoolsOK

\* The types of the store and of what only the bootstrap keeps.
StoreTypes ==
    /\ DOMAIN configs \subseteq Assets /\ \A a \in DOMAIN configs : configs[a] \in Assets
    /\ users \subseteq Borrowers
    /\ bitmaps \subseteq categories /\ categories \subseteq Nat \ {0}

Goroutine == [lastID : Nat, attempt : 0 .. maxRetries - 1, found : SUBSET Borrowers,
              answer : {"none", "users", "error"}]

FetchTypes ==
    /\ fetchers \in [Partitions -> Goroutine]
    /\ cancelled \in BOOLEAN
    /\ received \subseteq Partitions

LEMMA TypesAre ==
    TypeOK <=> stage \in Stages /\ pools \in Seq(DOMAIN Balance) /\ PoolTypes /\ FetchTypes /\ StoreTypes
  BY DEF TypeOK, PoolTypes, FetchTypes, StoreTypes, Goroutine

LEMMA InitTypes == ASSUME StartupAssumption, Init PROVE TypeInv
  <1>1. ASSUME NEW p \in Partitions
        PROVE  [lastID |-> Bounds[p], attempt |-> 0, found |-> {}, answer |-> "none"] \in Goroutine
    BY BoundsFact DEF Goroutine, StartupAssumption
  <1>2. FetchTypes
    BY <1>1 DEF Init, FetchTypes
  <1>3. PoolTypes /\ StoreTypes /\ stage = "reserves"
    BY DEF Init, PoolTypes, StoreTypes
  <1>4. pools \in Seq(DOMAIN Balance) /\ Len(pools) = 0
    BY DEF Init
  <1>5. PoolsOK
    BY <1>4 DEF PoolsOK
  <1>6. FeesOK /\ RevertedInv
    BY DEF Init, FeesOK, RevertedInv, Loaded
  <1> QED  BY <1>2, <1>3, <1>4, <1>5, <1>6, TypesAre DEF TypeInv, Stages

LEMMA OneMore ==
    ASSUME NEW f \in Goroutine
    PROVE  [f EXCEPT !.attempt = f.attempt + 1] =
              [lastID |-> f.lastID, attempt |-> f.attempt + 1, found |-> f.found, answer |-> f.answer]
  BY DEF Goroutine

\* What a goroutine does to itself.
LEMMA FetchSteps ==
    ASSUME StartupAssumption, FetchTypes, NEW p \in Partitions, FetchPage(p) \/ QueryFails(p) \/ BadAnswer(p)
    PROVE  FetchTypes' /\ UNCHANGED <<stage, pools, bestFees, stored, reverted>>
  <1> DEFINE f == fetchers[p]
  <1>1. f \in Goroutine
    BY DEF FetchTypes
  <1>2. f = [lastID |-> f.lastID, attempt |-> f.attempt, found |-> f.found, answer |-> f.answer]
        /\ f.lastID \in Nat /\ f.attempt \in 0 .. maxRetries - 1 /\ f.found \in SUBSET Borrowers
        /\ f.answer \in {"none", "users", "error"}
    BY <1>1 DEF Goroutine
  <1>3. maxRetries \in Nat \ {0} /\ Borrowers \subseteq Nat
    BY DEF StartupAssumption
  <1>4. ASSUME NEW g \in Goroutine, fetchers' = [fetchers EXCEPT ![p] = g], cancelled' \in BOOLEAN,
               received' = received
        PROVE  FetchTypes'
    BY <1>4 DEF FetchTypes
  <1>5. ASSUME NEW a \in {"users", "error"} PROVE [f EXCEPT !.answer = a] \in Goroutine
    <2> HIDE DEF f
    <2> QED  BY <1>2 DEF Goroutine
  <1>6. ASSUME f.attempt + 1 < maxRetries PROVE [f EXCEPT !.attempt = f.attempt + 1] \in Goroutine
    <2> HIDE DEF f
    <2>1. [f EXCEPT !.attempt = f.attempt + 1] =
             [lastID |-> f.lastID, attempt |-> f.attempt + 1, found |-> f.found, answer |-> f.answer]
      BY <1>1, OneMore
    <2>2. f.attempt + 1 \in 0 .. maxRetries - 1
      BY <1>2, <1>3, <1>6
    <2> QED  BY <1>2, <2>1, <2>2 DEF Goroutine
  <1>7. ASSUME NEW S \in SUBSET Borrowers, NEW last \in S PROVE WithPage(f, S, last) \in Goroutine
    <2> HIDE DEF f
    <2>1. last \in Nat /\ f.found \cup S \in SUBSET Borrowers /\ 0 \in 0 .. maxRetries - 1
      BY <1>2, <1>3
    <2> QED  BY <1>2, <2>1 DEF WithPage, Goroutine
  <1>8. CASE FetchPage(p)
    <2>1. PICK S \in SUBSET Borrowers :
             \/ fetchers' = [fetchers EXCEPT ![p] = [f EXCEPT !.answer = "users"]]
             \/ \E last \in S : fetchers' = [fetchers EXCEPT ![p] = WithPage(f, S, last)]
      BY <1>8 DEF FetchPage, Cursor
    <2>2. cancelled' = cancelled /\ cancelled \in BOOLEAN /\ received' = received
      BY <1>8 DEF FetchPage, FetchTypes
    <2> HIDE DEF f
    <2>3. FetchTypes'
      BY <1>4, <1>5, <1>7, <2>1, <2>2
    <2> QED  BY <1>8, <2>3 DEF FetchPage
  <1>9. CASE QueryFails(p)
    <2>1. \/ /\ f.attempt + 1 < maxRetries
             /\ fetchers' = [fetchers EXCEPT ![p] = [f EXCEPT !.attempt = f.attempt + 1]]
             /\ cancelled' = cancelled
          \/ /\ fetchers' = [fetchers EXCEPT ![p] = [f EXCEPT !.answer = "error"]]
             /\ cancelled' \in BOOLEAN
      BY <1>9 DEF QueryFails, MayRetry, AfterRetries
    <2>2. cancelled \in BOOLEAN /\ received' = received
      BY <1>9 DEF QueryFails, FetchTypes
    <2> HIDE DEF f
    <2>3. FetchTypes'
      BY <1>4, <1>5, <1>6, <2>1, <2>2
    <2> QED  BY <1>9, <2>3 DEF QueryFails
  <1>10. CASE BadAnswer(p)
    <2>1. fetchers' = [fetchers EXCEPT ![p] = [f EXCEPT !.answer = "error"]] /\ cancelled' \in BOOLEAN
          /\ received' = received
      BY <1>10 DEF BadAnswer
    <2> HIDE DEF f
    <2>2. FetchTypes'
      BY <1>4, <1>5, <2>1
    <2> QED  BY <1>10, <2>2 DEF BadAnswer
  <1> QED  BY <1>8, <1>9, <1>10

\* Whatever the fields of the history say, what was chosen stays the choice.
LEMMA FeesKept ==
    ASSUME FeesOK, UNCHANGED <<pools, bestFees>>, reverted'.balances = reverted.balances,
           stage' \in {"reserves", "pools", "balances"} =>
               stage \in {"reserves", "pools", "balances"},
           stage' \in {"anchor", "indices", "users", "emodes"} \/ Loaded' =>
               stage \in {"anchor", "indices", "users", "emodes"} \/ Loaded
    PROVE  FeesOK'
  <1>1. ASSUME NEW a \in Assets, NEW b \in Assets, Chosen(a, b) PROVE Chosen(a, b)'
    <2>1. pools' = pools /\ bestFees' = bestFees /\ reverted'.balances = reverted.balances
      OBVIOUS
    <2>2. GetOptimalFee(a, b)' = GetOptimalFee(a, b)
      BY <2>1 DEF GetOptimalFee, Key
    <2> DEFINE known == {x \in {pools[i] : i \in 1 .. Len(pools)} \ reverted.balances : {x[1], x[2]} = {a, b}}
    <2>3. known' = known
      BY <2>1
    <2>4. Chosen(a, b)' <=> IF known' = {} THEN GetOptimalFee(a, b)' = 0
                            ELSE \E x \in known' : /\ GetOptimalFee(a, b)' = x[3]
                                                   /\ \A y \in known' : Balance[y] <= Balance[x]
      BY DEF Chosen
    <2>5. Chosen(a, b) <=> IF known = {} THEN GetOptimalFee(a, b) = 0
                            ELSE \E x \in known : /\ GetOptimalFee(a, b) = x[3]
                                                   /\ \A y \in known : Balance[y] <= Balance[x]
      BY DEF Chosen
    <2> HIDE DEF known
    <2> QED  BY <1>1, <2>2, <2>3, <2>4, <2>5
  <1> QED  BY <1>1 DEF FeesOK

LEMMA TypesStep == ASSUME StartupAssumption, TypeInv, [Next]_vars PROVE TypeInv'
  <1> USE DEF Quiet, Dies, fetching, stored
  <1>1. /\ stage \in Stages /\ PoolTypes /\ FetchTypes /\ StoreTypes
        /\ PoolsOK /\ FeesOK /\ RevertedInv
    BY TypesAre DEF TypeInv
  <1>2. ASSUME UNCHANGED pools PROVE PoolsOK'
    BY <1>1, <1>2 DEF PoolsOK
  <1>3. ASSUME stage' \in Stages, PoolTypes', FetchTypes', StoreTypes', PoolsOK', FeesOK', RevertedInv'
        PROVE  TypeInv'
    BY <1>3, TypesAre DEF TypeInv, PoolsOK, TypeOK, PoolTypes, FetchTypes, StoreTypes, Goroutine
  <1>4. ASSUME UNCHANGED fetching PROVE FetchTypes'
    BY <1>1, <1>4 DEF FetchTypes
  <1>5. ASSUME UNCHANGED stored PROVE StoreTypes'
    BY <1>1, <1>5 DEF StoreTypes
  <1>6. ASSUME UNCHANGED bestFees PROVE PoolTypes'
    BY <1>1, <1>6 DEF PoolTypes
  <1>7. ASSUME UNCHANGED reverted PROVE RevertedInv'
    BY <1>1, <1>7 DEF RevertedInv
  <1>8. CASE FetchReservesList \/ GetAnchorBlock \/ Timeout \/ Shutdown \/ SetupTxExecutor \/ ReceivedAll
             \/ UNCHANGED vars
    <2>1. UNCHANGED <<pools, bestFees, fetching, stored, reverted>>
      BY <1>8 DEF FetchReservesList, GetAnchorBlock, Timeout, Shutdown, SetupTxExecutor, ReceivedAll, vars
    <2>2. /\ stage' \in Stages
          /\ stage' \in {"reserves", "pools", "balances"} => stage \in {"reserves", "pools", "balances"}
          /\ stage' \in {"anchor", "indices", "users", "emodes"} \/ Loaded' =>
               stage \in {"anchor", "indices", "users", "emodes"} \/ Loaded
      BY <1>1, <1>8 DEF FetchReservesList, GetAnchorBlock, Timeout, Shutdown, SetupTxExecutor, ReceivedAll,
                        vars, Stages, Loaded
    <2>3. FeesOK'
      BY <1>1, <2>1, <2>2, FeesKept
    <2> QED  BY <1>2, <1>3, <1>4, <1>5, <1>6, <1>7, <2>1, <2>2, <2>3
  <1>9. CASE BuildCachePools
    <2>1. UNCHANGED <<bestFees, fetching, stored, reverted>> /\ stage = "pools"
      BY <1>9 DEF BuildCachePools
    <2>2. CASE stage' = "dead" /\ UNCHANGED pools
      <3>1. stage' \in Stages /\ FeesOK'
        BY <1>1, <2>2 DEF Stages, FeesOK, Loaded
      <3> QED  BY <1>2, <1>3, <1>4, <1>5, <1>6, <1>7, <2>1, <2>2, <3>1
    <2>3. CASE \E found \in SUBSET {x \in Asked : Pool(x) \in DOMAIN Balance} :
                  pools' = PoolsOf(found) /\ stage' = IF found = {} THEN "anchor" ELSE "balances"
      <3>1. PICK found \in SUBSET {x \in Asked : Pool(x) \in DOMAIN Balance} :
                  pools' = PoolsOf(found) /\ stage' = IF found = {} THEN "anchor" ELSE "balances"
        BY <2>3
      <3>2. found \in SUBSET Asked /\ \A x \in found : Pool(x) \in DOMAIN Balance
        OBVIOUS
      <3>3. PoolsOK' /\ (found = {} => \A i \in 1 .. Len(pools') : FALSE)
        BY <3>1, <3>2, PoolsStep
      <3>4. bestFees' = [pair \in Pairs |-> 0]
        BY <1>1, <2>1 DEF FeesOK
      <3>5. CASE found = {}
        <4>1. ASSUME NEW a \in Assets, NEW b \in Assets, a # b PROVE Chosen(a, b)'
          <5>1. bestFees'[Key(a, b)] = 0
            BY <3>4, <4>1, KeyIsPair
          <5>2. {x \in {pools'[i] : i \in 1 .. Len(pools')} \ reverted'.balances : {x[1], x[2]} = {a, b}} = {}
            BY <3>3, <3>5
          <5> QED  BY <5>1, <5>2 DEF Chosen, GetOptimalFee
        <4>2. stage' = "anchor"
          BY <3>1, <3>5
        <4>3. FeesOK'
          BY <4>1, <4>2 DEF FeesOK
        <4> QED  BY <1>3, <1>4, <1>5, <1>6, <1>7, <2>1, <3>3, <4>2, <4>3 DEF Stages
      <3>6. CASE found # {}
        <4>1. stage' = "balances"
          BY <3>1, <3>6
        <4>2. FeesOK'
          BY <3>4, <4>1 DEF FeesOK, Loaded
        <4> QED  BY <1>3, <1>4, <1>5, <1>6, <1>7, <2>1, <3>3, <4>1, <4>2 DEF Stages
      <3> QED  BY <3>5, <3>6
    <2> QED  BY <1>9, <2>2, <2>3 DEF BuildCachePools
  <1>10. CASE BuildCacheBalances
    <2>1. UNCHANGED <<pools, fetching, stored>>
      BY <1>10 DEF BuildCacheBalances
    <2>2. CASE stage' = "dead"
      <3>1. UNCHANGED <<bestFees, reverted>>
        BY <1>10, <2>2 DEF BuildCacheBalances
      <3>2. stage' \in Stages /\ FeesOK'
        BY <2>2 DEF Stages, FeesOK, Loaded
      <3> QED  BY <1>2, <1>3, <1>4, <1>5, <1>6, <1>7, <2>1, <3>1, <3>2
    <2>3. CASE stage' # "dead"
      <3>1. PoolTypes' /\ RevertedInv' /\ \A a, b \in Assets : a # b => Chosen(a, b)'
        BY <1>10, <2>3, BalancesStep
      <3>2. stage' = "anchor"
        BY <1>10, <2>3 DEF BuildCacheBalances
      <3>3. FeesOK'
        BY <3>1, <3>2 DEF FeesOK
      <3> QED  BY <1>2, <1>3, <1>4, <1>5, <2>1, <3>1, <3>2, <3>3 DEF Stages
    <2> QED  BY <2>2, <2>3
  <1>11. CASE BatchFetchReserveData
    <2>1. UNCHANGED <<pools, bestFees, fetching, users, categories, bitmaps>> /\ stage = "indices"
          /\ stage' \in {"users", "dead"}
      BY <1>11 DEF BatchFetchReserveData
    <2>2. /\ DOMAIN configs' \subseteq Assets /\ \A a \in DOMAIN configs' : configs'[a] \in Assets
          /\ reverted'.balances = reverted.balances /\ RevertedInv'
      <3>1. CASE UNCHANGED <<configs, reverted>>
        BY <1>1, <1>7, <3>1 DEF StoreTypes
      <3>2. CASE \E R \in Reverts(Len(Reserves)) :
                    /\ configs' = DecodeResults(Answers(R))
                    /\ reverted' = [reverted EXCEPT !.reserves = {Reserves[i] : i \in R}]
        <4>1. PICK R \in Reverts(Len(Reserves)) :
                    /\ configs' = DecodeResults(Answers(R))
                    /\ reverted' = [reverted EXCEPT !.reserves = {Reserves[i] : i \in R}]
          BY <3>2
        <4>2. configs' = [a \in Assets \ {Reserves[i] : i \in R} |-> a]
          BY <4>1, ResultsDecoded DEF Reverts
        <4>3. DOMAIN configs' \subseteq Assets /\ \A a \in DOMAIN configs' : configs'[a] \in Assets
          BY <4>2
        <4> QED  BY <1>1, <4>1, <4>3 DEF RevertedInv
      <3> QED  BY <1>11, <3>1, <3>2 DEF BatchFetchReserveData
    <2>3. StoreTypes'
      BY <1>1, <2>1, <2>2 DEF StoreTypes
    <2>4. stage' \in Stages /\ FeesOK'
      BY <1>1, <2>1, <2>2, FeesKept DEF Stages, Loaded
    <2> QED  BY <1>2, <1>3, <1>4, <1>6, <2>1, <2>2, <2>3, <2>4
  <1>12. CASE \E p \in Partitions : FetchPage(p) \/ QueryFails(p) \/ BadAnswer(p)
    <2>1. FetchTypes' /\ UNCHANGED <<stage, pools, bestFees, stored, reverted>>
      BY <1>1, <1>12, FetchSteps
    <2>2. FeesOK'
      BY <1>1, <2>1, FeesKept DEF Loaded
    <2> QED  BY <1>1, <1>2, <1>3, <1>5, <1>6, <1>7, <2>1, <2>2
  <1>13. CASE \E p \in Partitions : Receive(p)
    <2>1. UNCHANGED <<stage, pools, bestFees, stored, reverted>>
      BY <1>13 DEF Receive
    <2>2. FetchTypes'
      BY <1>1, <1>13 DEF Receive, FetchTypes
    <2>3. FeesOK'
      BY <1>1, <2>1, FeesKept DEF Loaded
    <2> QED  BY <1>1, <1>2, <1>3, <1>5, <1>6, <1>7, <2>1, <2>2, <2>3
  <1>14. CASE BatchFetchEModeCategories
    <2>1. UNCHANGED <<pools, bestFees, fetching, configs>> /\ stage = "emodes"
          /\ stage' \in {"executor", "dead"}
      BY <1>14 DEF BatchFetchEModeCategories
    <2>2. StoreTypes' /\ reverted'.balances = reverted.balances /\ RevertedInv'
      <3>1. CASE UNCHANGED <<users, categories, bitmaps, reverted>>
        BY <1>1, <1>7, <2>1, <3>1 DEF StoreTypes
      <3>2. CASE users' = AllUsers /\ \E ids \in Walks, R \in Reverts(2 * Cardinality(EModes)) :
                /\ categories' = {ids[i] : i \in {k \in DOMAIN ids : ConfigCall(k) \notin R}}
                /\ bitmaps' = {ids[i] : i \in {k \in DOMAIN ids : ConfigCall(k) \notin R
                                                                  /\ BitmapCall(k) \notin R}}
                /\ reverted' = [reverted EXCEPT
                       !.configs = {ids[i] : i \in {k \in DOMAIN ids : 2 * k - 1 \in R}},
                       !.bitmaps = {ids[i] : i \in {k \in DOMAIN ids : 2 * k \in R}}]
        <4>1. PICK ids \in Walks, R \in Reverts(2 * Cardinality(EModes)) :
                /\ categories' = {ids[i] : i \in {k \in DOMAIN ids : ConfigCall(k) \notin R}}
                /\ bitmaps' = {ids[i] : i \in {k \in DOMAIN ids : ConfigCall(k) \notin R
                                                                  /\ BitmapCall(k) \notin R}}
                /\ reverted' = [reverted EXCEPT
                       !.configs = {ids[i] : i \in {k \in DOMAIN ids : 2 * k - 1 \in R}},
                       !.bitmaps = {ids[i] : i \in {k \in DOMAIN ids : 2 * k \in R}}]
          BY <3>2
        <4>2. AllUsers \subseteq Borrowers
          <5>1. \A p \in Partitions : fetchers[p].found \subseteq Borrowers
            BY <1>1 DEF FetchTypes, Goroutine
          <5> QED  BY <5>1 DEF AllUsers
        <4>3. EModes \subseteq Nat \ {0}
          <5>1. CategoryOf \in [Borrowers -> Nat]
            BY DEF StartupAssumption
          <5>2. \A u \in AllUsers : CategoryOf[u] \in Nat
            BY <4>2, <5>1
          <5>3. ASSUME NEW c \in EModes PROVE c \in Nat \ {0}
            BY <5>2 DEF EModes
          <5> QED  BY <5>3
        <4>4. \A k \in DOMAIN ids : ids[k] \in EModes
          BY DEF Walks
        <4>5. categories' \subseteq Nat \ {0} /\ bitmaps' \subseteq categories'
          BY <4>1, <4>3, <4>4
        <4>6. reverted'.balances = reverted.balances /\ RevertedInv'
          BY <1>1, <4>1 DEF RevertedInv
        <4>7. /\ users' \subseteq Borrowers /\ DOMAIN configs' \subseteq Assets
              /\ \A a \in DOMAIN configs' : configs'[a] \in Assets
          BY <1>1, <2>1, <3>2, <4>2 DEF StoreTypes
        <4> QED  BY <4>5, <4>6, <4>7 DEF StoreTypes
      <3> QED  BY <1>14, <3>1, <3>2 DEF BatchFetchEModeCategories
    <2>3. stage' \in Stages /\ FeesOK'
      BY <1>1, <2>1, <2>2, FeesKept DEF Stages, Loaded
    <2> QED  BY <1>2, <1>3, <1>4, <1>6, <2>1, <2>2, <2>3
  <1> QED  BY <1>8, <1>9, <1>10, <1>11, <1>12, <1>13, <1>14 DEF Next, Main, Fetch

LEMMA Typed == Spec => []TypeInv
  <1>1. Init => TypeInv
    BY InitTypes, StartupAssumption
  <1>2. TypeInv /\ [Next]_vars => TypeInv'
    BY TypesStep, StartupAssumption
  <1> QED  BY <1>1, <1>2, PTL DEF Spec

\* Every variable keeps its type: no goroutine exceeds its retries, no pool is noted that does
\* not exist (fee_cache.go:37-152, bootstrapper.go:50-130, graph_client.go:57-223).
THEOREM Types == Spec => []TypeOK
  BY Typed, PTL DEF TypeInv

\* The fee of a swap is that of the pair's pool with most of its first token, for every list
\* of reserves and fees and every set of calls that revert: the answers of the second batch
\* are matched with the right pools (fee_cache.go:81-134), in either direction of the swap
\* (fee_cache.go:141-152).
THEOREM BestPool == Spec => []BestPoolKept
  <1>1. TypeInv => BestPoolKept
    BY DEF TypeInv, FeesOK, Loaded, Chosen, BestPoolKept, Running
  <1> QED  BY <1>1, Typed, PTL
=============================================================================
