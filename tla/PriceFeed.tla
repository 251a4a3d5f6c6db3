----------------------------- MODULE PriceFeed ------------------------------
(***************************************************************************)
(* How a new price or index of an asset reaches the users who have it: the *)
(* oracle feeder (oracle.go), the handlers of the logs                     *)
(* (log_replay_engine.go), the reverse index in the store (store.go) and   *)
(* the workers (risk_engine.go).  Feeder and handlers store a value first  *)
(* and ask for the subscribers of the asset afterwards, each under a lock  *)
(* of its own; a value that is stored already is not announced again.      *)
(*                                                                         *)
(* The order in which the feeder walks the assets, and in which tasks are  *)
(* taken from the queue, is left open.                                     *)
(***************************************************************************)
EXTENDS Integers

CONSTANTS
    Users,
    NoUser,
    Assets,         \* targetAssets
    NoAsset,
    Prices,         \* what the oracle may answer
    NoPrice,        \* not answered yet
    Workers,
    MaxIndex        \* bound of the indices

ASSUME FeedAssumption ==
    /\ NoUser \notin Users
    /\ NoAsset \notin Assets
    /\ NoPrice \notin Prices
    /\ MaxIndex \in Nat

VARIABLES
    quote,      \* prices and globalIndices of the store
    subs,       \* assetSubscribers
    has,        \* the reserves in a user's stored position
    holds,      \* those with a balance
    feeder,     \* fetchAndStorePrices
    handler,    \* processLog
    dirty,      \* dirtyUsers
    queue,      \* the users in taskQueue
    lost,       \* users whose task a full queue has dropped since they were last calculated
    work,       \* the iteration of each worker
    seen        \* the values a user's latest calculation has read

vars == <<quote, subs, has, holds, feeder, handler, dirty, queue, lost, work, seen>>

Quote == [price : Prices \cup {NoPrice}, index : 0 .. MaxIndex]

\* Waiting for the next tick: no price to be compared, no asset or user to be announced.
Waiting == [todo |-> {}, changed |-> {}, targets |-> {}]

\* Between two logs.
Idle == [user |-> NoUser, asset |-> NoAsset, targets |-> {}]
Free == [pc |-> "free", user |-> NoUser]

\* Enqueue: the task is dropped when the queue is full.
Enqueue(u) ==
    \/ queue' = queue \cup {u} /\ UNCHANGED lost
    \/ lost' = lost \cup {u} /\ UNCHANGED queue
-----------------------------------------------------------------------------
\* The oracle feeder.

\* The oracle answers; if it does not, nothing happens until the next tick.
FetchPrices ==
    /\ feeder = Waiting
    /\ feeder' = [Waiting EXCEPT !.todo = Assets]
    /\ UNCHANGED <<quote, subs, has, holds, handler, dirty, queue, lost, work, seen>>

\* A slip: a first price is no change.
MutStorePrice(a, p) ==
    /\ a \in feeder.todo
    /\ quote' = [quote EXCEPT ![a].price = p]
    /\ feeder' = [feeder EXCEPT
                     !.todo = @ \ {a},
                     !.changed = IF quote[a].price \in {p, NoPrice} THEN @ ELSE @ \cup {a}]
    /\ UNCHANGED <<subs, has, holds, handler, dirty, queue, lost, work, seen>>

\* One round of the first loop: the price p in the answer is stored if it differs from
\* the stored one.
StorePrice(a, p) ==
    /\ a \in feeder.todo
    /\ quote' = [quote EXCEPT ![a].price = p]
    /\ feeder' = [feeder EXCEPT
                     !.todo = @ \ {a},
                     !.changed = IF quote[a].price = p THEN @ ELSE @ \cup {a}]
    /\ UNCHANGED <<subs, has, holds, handler, dirty, queue, lost, work, seen>>

\* A slip: the loop ends with its first asset.
MutFanOut(a) ==
    /\ feeder.todo = {} /\ feeder.targets = {}
    /\ a \in feeder.changed
    /\ feeder' = [feeder EXCEPT !.changed = {}, !.targets = subs[a]]
    /\ UNCHANGED <<quote, subs, has, holds, handler, dirty, queue, lost, work, seen>>

\* One round of the second loop, EnqueueByAsset: GetSubscribers copies the subscribers.
FanOut(a) ==
    /\ feeder.todo = {} /\ feeder.targets = {}
    /\ a \in feeder.changed
    /\ feeder' = [feeder EXCEPT !.changed = @ \ {a}, !.targets = subs[a]]
    /\ UNCHANGED <<quote, subs, has, holds, handler, dirty, queue, lost, work, seen>>

EnqueueTarget(u) ==
    /\ u \in feeder.targets
    /\ Enqueue(u)
    /\ feeder' = [feeder EXCEPT !.targets = @ \ {u}]
    /\ UNCHANGED <<quote, subs, has, holds, handler, dirty, work, seen>>
-----------------------------------------------------------------------------
\* The log replay engine.

\* A slip: the asset is entered under the user.
MutGetUserReserve(u, a) ==
    /\ handler = Idle
    /\ has' = [has EXCEPT ![u] = @ \cup {a}]
    /\ subs' = IF a \in has[u] THEN subs ELSE [subs EXCEPT ![a] = @ \cup {a}]
    /\ handler' = [Idle EXCEPT !.user = u, !.asset = a]
    /\ UNCHANGED <<quote, holds, feeder, dirty, queue, lost, work, seen>>

\* GetUserReserve, of a handler about user u and asset a: who gets the reserve is
\* subscribed to the asset.
GetUserReserve(u, a) ==
    /\ handler = Idle
    /\ has' = [has EXCEPT ![u] = @ \cup {a}]
    /\ subs' = IF a \in has[u] THEN subs ELSE [subs EXCEPT ![a] = @ \cup {u}]
    /\ handler' = [Idle EXCEPT !.user = u, !.asset = a]
    /\ UNCHANGED <<quote, holds, feeder, dirty, queue, lost, work, seen>>

\* The handler changes the balance and marks the user.
MarkUserDirty ==
    /\ handler.user # NoUser
    /\ \E h \in {holds[handler.user] \cup {handler.asset}, holds[handler.user] \ {handler.asset}} :
          holds' = [holds EXCEPT ![handler.user] = h]
    /\ dirty' = dirty \cup {handler.user}
    /\ handler' = Idle
    /\ UNCHANGED <<quote, subs, has, feeder, queue, lost, work, seen>>

\* One user of flushDirtyUsers, which runs between two logs.
FlushDirtyUser(u) ==
    /\ handler = Idle
    /\ u \in dirty
    /\ Enqueue(u)
    /\ dirty' = dirty \ {u}
    /\ UNCHANGED <<quote, subs, has, holds, feeder, handler, work, seen>>

\* handleReserveDataUpdated stores the new index ...
SetGlobalIndex(a) ==
    /\ handler = Idle
    /\ quote[a].index < MaxIndex
    /\ quote' = [quote EXCEPT ![a].index = @ + 1]
    /\ handler' = [Idle EXCEPT !.asset = a]
    /\ UNCHANGED <<subs, has, holds, feeder, dirty, queue, lost, work, seen>>

\* ... and then calls EnqueueByAsset.
FanOutIndex ==
    /\ handler.user = NoUser /\ handler.asset # NoAsset
    /\ handler' = [Idle EXCEPT !.targets = subs[handler.asset]]
    /\ UNCHANGED <<quote, subs, has, holds, feeder, dirty, queue, lost, work, seen>>

EnqueueHolder(u) ==
    /\ u \in handler.targets
    /\ Enqueue(u)
    /\ handler' = [handler EXCEPT !.targets = @ \ {u}]
    /\ UNCHANGED <<quote, subs, has, holds, feeder, dirty, work, seen>>
-----------------------------------------------------------------------------
\* The workers.

Take(w, u) ==
    /\ work[w].pc = "free"
    /\ u \in queue
    /\ queue' = queue \ {u}
    /\ work' = [work EXCEPT ![w] = [pc |-> "taken", user |-> u]]
    /\ UNCHANGED <<quote, subs, has, holds, feeder, handler, dirty, lost, seen>>

\* computeHFMath reads prices and indices under one lock.  Without all prices there is no
\* factor, and the user is out of the heap until they come.
Calculate(w) ==
    /\ work[w].pc = "taken"
    /\ seen' = [seen EXCEPT ![work[w].user] = quote]
    /\ lost' = lost \ {work[w].user}
    /\ work' = [work EXCEPT ![w] =
                    IF \A a \in holds[@.user] : quote[a].price # NoPrice
                    THEN [@ EXCEPT !.pc = "calculated"] ELSE Free]
    /\ UNCHANGED <<quote, subs, has, holds, feeder, handler, dirty, queue>>

\* A liquidatable user, who holds something, is verified: the position fetched has every
\* reserve.
ReplacePosition(w) ==
    /\ work[w].pc = "calculated"
    /\ holds[work[w].user] # {}
    /\ has' = [has EXCEPT ![work[w].user] = Assets]
    /\ work' = [work EXCEPT ![w] = Free]
    /\ UNCHANGED <<quote, subs, holds, feeder, handler, dirty, queue, lost, seen>>

\* Any other end of the iteration.
Finish(w) ==
    /\ work[w].pc = "calculated"
    /\ work' = [work EXCEPT ![w] = Free]
    /\ UNCHANGED <<quote, subs, has, holds, feeder, handler, dirty, queue, lost, seen>>
-----------------------------------------------------------------------------
\* The bootstrapper has stored positions and indices, and subscribed the users; no price
\* is known.
Init ==
    /\ quote = [a \in Assets |-> [price |-> NoPrice, index |-> 0]]
    /\ holds \in [Users -> SUBSET Assets]
    /\ has = holds
    /\ subs = [a \in Assets |-> {u \in Users : a \in holds[u]}]
    /\ feeder = Waiting
    /\ handler = Idle
    /\ dirty = {}
    /\ queue = {}
    /\ lost = {}
    /\ work = [w \in Workers |-> Free]
    /\ seen = [u \in Users |-> quote]

Feed ==
    \/ \E a \in Assets : FanOut(a) \/ \E p \in Prices : StorePrice(a, p)
    \/ \E u \in Users : EnqueueTarget(u)

\* What the handlers do when no further log arrives.
Handle ==
    \/ MarkUserDirty \/ FanOutIndex
    \/ \E u \in Users : EnqueueHolder(u) \/ FlushDirtyUser(u)

NewLog == \E a \in Assets : SetGlobalIndex(a) \/ \E u \in Users : GetUserReserve(u, a)

Work(w) ==
    \/ \E u \in Users : Take(w, u)
    \/ Calculate(w) \/ ReplacePosition(w) \/ Finish(w)

Next == FetchPrices \/ Feed \/ NewLog \/ Handle \/ \E w \in Workers : Work(w)

\* The loops of the feeder and of the handlers wait for nothing, the queue serves every
\* task in turn, and a request of a worker is answered or fails.
Fairness ==
    /\ \A a \in Assets : WF_vars(\E p \in Prices : StorePrice(a, p)) /\ WF_vars(FanOut(a))
    /\ \A u \in Users :
          /\ WF_vars(EnqueueTarget(u)) /\ WF_vars(EnqueueHolder(u))
          /\ SF_vars(FlushDirtyUser(u))
          /\ SF_vars(\E w \in Workers : Take(w, u))
    /\ WF_vars(MarkUserDirty) /\ WF_vars(FanOutIndex)
    /\ \A w \in Workers : WF_vars(Calculate(w)) /\ WF_vars(Finish(w))

Spec == Init /\ [][Next]_vars
FairSpec == Spec /\ Fairness
-----------------------------------------------------------------------------
TypeOK ==
    /\ quote \in [Assets -> Quote]
    /\ subs \in [Assets -> SUBSET Users]
    /\ has \in [Users -> SUBSET Assets]
    /\ holds \in [Users -> SUBSET Assets]
    /\ feeder \in [todo : SUBSET Assets, changed : SUBSET Assets,
                   targets : SUBSET Users]
    /\ handler \in [user : Users \cup {NoUser}, asset : Assets \cup {NoAsset},
                    targets : SUBSET Users]
    /\ dirty \subseteq Users
    /\ queue \subseteq Users
    /\ lost \subseteq Users
    /\ work \in [Workers -> [pc : {"free", "taken", "calculated"}, user : Users \cup {NoUser}]]
    /\ seen \in [Users -> [Assets -> Quote]]

\* The latest calculation of the user read another price or index of the asset.
Outdated(u, a) == seen[u][a] # quote[a]

\* A calculation of the user is under way or sure to be begun, or a full queue has dropped it.
Coming(u, a) ==
    \/ u \in queue \cup dirty \cup lost
    \/ u \in feeder.targets \cup handler.targets
    \/ a \in feeder.changed
    \/ handler.user = u
    \/ handler.user = NoUser /\ handler.asset = a
    \/ \E w \in Workers : work[w] = [pc |-> "taken", user |-> u]

\* A change is never stored behind the back of a subscriber: whoever was last calculated
\* with another price or index of an asset he is subscribed to will be calculated again,
\* however feeder, handlers and workers interleave.
SubscribersReached ==
    \A a \in Assets : \A u \in subs[a] : Outdated(u, a) => Coming(u, a)

\* README.md:75 of the repository: a change of a price puts all users who hold or borrow
\* the asset into the queue.
HoldersReached ==
    \A u \in Users : \A a \in holds[u] : Outdated(u, a) => Coming(u, a)

\* The calculation does take place, with every value the user is subscribed to, unless the
\* queue was full.
CalculatedAgain ==
    \A u \in Users, a \in Assets :
        (u \in subs[a] /\ Outdated(u, a)) ~> (~Outdated(u, a) \/ u \in lost)
=============================================================================
