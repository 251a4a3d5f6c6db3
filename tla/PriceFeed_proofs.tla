--------------------------- MODULE PriceFeed_proofs ---------------------------
(***************************************************************************)
(* No change of a price or an index is stored behind the back of a         *)
(* subscriber: for all users, assets, prices and workers.                  *)
(***************************************************************************)
EXTENDS PriceFeed, TLAPS

\* A handler is at work on one thing at a time.
HandlerInv ==
    /\ handler.user # NoUser => handler.asset # NoAsset
    /\ handler.asset # NoAsset => handler.targets = {}

Inv == TypeOK /\ HandlerInv

LEMMA InitInv == Init => Inv
  BY FeedAssumption DEF FeedAssumption, Init, Inv, TypeOK, HandlerInv, Quote, Waiting, Idle, Free

\* Whatever Enqueue does, the two sets keep their types and lose nobody.
LEMMA EnqueueGrows ==
    ASSUME NEW u, Enqueue(u)
    PROVE  /\ u \in queue' \cup lost' /\ queue \subseteq queue' /\ lost \subseteq lost'
           /\ queue' \subseteq queue \cup {u} /\ lost' \subseteq lost \cup {u}
  BY DEF Enqueue

LEMMA FeederTypes == ASSUME TypeOK, FetchPrices \/ Feed PROVE TypeOK'
  <1>1. CASE FetchPrices
    BY <1>1 DEF FetchPrices, TypeOK, Waiting
  <1>2. ASSUME NEW a \in Assets, NEW p \in Prices, StorePrice(a, p) PROVE TypeOK'
    <2>1. [quote[a] EXCEPT !.price = p] \in Quote
      BY DEF TypeOK, Quote
    <2>2. quote' \in [Assets -> Quote]
      BY <1>2, <2>1 DEF StorePrice, TypeOK
    <2>3. feeder' \in [todo : SUBSET Assets, changed : SUBSET Assets, targets : SUBSET Users]
      BY <1>2 DEF StorePrice, TypeOK
    <2> QED  BY <1>2, <2>2, <2>3 DEF StorePrice, TypeOK
  <1>3. ASSUME NEW a \in Assets, FanOut(a) PROVE TypeOK'
    <2>1. feeder' \in [todo : SUBSET Assets, changed : SUBSET Assets, targets : SUBSET Users]
      BY <1>3 DEF FanOut, TypeOK
    <2> QED  BY <1>3, <2>1 DEF FanOut, TypeOK
  <1>4. ASSUME NEW u \in Users, EnqueueTarget(u) PROVE TypeOK'
    <2>1. feeder' \in [todo : SUBSET Assets, changed : SUBSET Assets, targets : SUBSET Users]
      BY <1>4 DEF EnqueueTarget, TypeOK
    <2>2. queue' \subseteq Users /\ lost' \subseteq Users
      BY <1>4, EnqueueGrows DEF EnqueueTarget, TypeOK
    <2> QED  BY <1>4, <2>1, <2>2 DEF EnqueueTarget, TypeOK
  <1> QED  BY <1>1, <1>2, <1>3, <1>4 DEF Feed

LEMMA HandlerTypes == ASSUME Inv, NewLog \/ Handle PROVE TypeOK'
  <1> USE DEF Inv
  <1> DEFINE Handlers == [user : Users \cup {NoUser}, asset : Assets \cup {NoAsset},
                          targets : SUBSET Users]
  <1>1. ASSUME NEW u \in Users, NEW a \in Assets, GetUserReserve(u, a) PROVE TypeOK'
    <2>1. handler' \in Handlers
      BY <1>1 DEF GetUserReserve, Idle
    <2>2. has' \in [Users -> SUBSET Assets] /\ subs' \in [Assets -> SUBSET Users]
      BY <1>1 DEF GetUserReserve, TypeOK
    <2> QED  BY <1>1, <2>1, <2>2 DEF GetUserReserve, TypeOK
  <1>2. CASE MarkUserDirty
    <2>1. handler.user \in Users /\ handler.asset \in Assets /\ handler' \in Handlers
      BY <1>2 DEF MarkUserDirty, TypeOK, HandlerInv, Idle
    <2>2. PICK h \in {holds[handler.user] \cup {handler.asset}, holds[handler.user] \ {handler.asset}} :
              holds' = [holds EXCEPT ![handler.user] = h]
      BY <1>2 DEF MarkUserDirty
    <2>3. h \in SUBSET Assets
      BY <2>1, <2>2 DEF TypeOK
    <2> QED  BY <1>2, <2>1, <2>2, <2>3 DEF MarkUserDirty, TypeOK
  <1>3. ASSUME NEW a \in Assets, SetGlobalIndex(a) PROVE TypeOK'
    <2>1. quote[a] \in Quote /\ quote[a].index + 1 \in 0 .. MaxIndex
      BY <1>3, FeedAssumption DEF SetGlobalIndex, TypeOK, Quote, FeedAssumption
    <2>2. [quote[a] EXCEPT !.index = @ + 1] \in Quote
      BY <2>1 DEF Quote
    <2>3. quote' \in [Assets -> Quote]
      BY <1>3, <2>2 DEF SetGlobalIndex, TypeOK
    <2>4. handler' \in Handlers
      BY <1>3 DEF SetGlobalIndex, Idle
    <2> QED  BY <1>3, <2>3, <2>4 DEF SetGlobalIndex, TypeOK
  <1>4. CASE FanOutIndex
    <2>1. handler' \in Handlers
      BY <1>4 DEF FanOutIndex, TypeOK, Idle
    <2> QED  BY <1>4, <2>1 DEF FanOutIndex, TypeOK
  <1>5. ASSUME NEW u \in Users, EnqueueHolder(u) PROVE TypeOK'
    <2>1. handler' \in Handlers
      BY <1>5 DEF EnqueueHolder, TypeOK
    <2>2. queue' \subseteq Users /\ lost' \subseteq Users
      BY <1>5, EnqueueGrows DEF EnqueueHolder, TypeOK
    <2> QED  BY <1>5, <2>1, <2>2 DEF EnqueueHolder, TypeOK
  <1>6. ASSUME NEW u \in Users, FlushDirtyUser(u) PROVE TypeOK'
    <2>1. queue' \subseteq Users /\ lost' \subseteq Users
      BY <1>6, EnqueueGrows DEF FlushDirtyUser, TypeOK
    <2> QED  BY <1>6, <2>1 DEF FlushDirtyUser, TypeOK
  <1> QED  BY <1>1, <1>2, <1>3, <1>4, <1>5, <1>6 DEF NewLog, Handle

LEMMA WorkerTypes == ASSUME TypeOK, NEW w \in Workers, Work(w) PROVE TypeOK'
  <1> DEFINE Tasks == [pc : {"free", "taken", "calculated"}, user : Users \cup {NoUser}]
  <1>1. ASSUME NEW u \in Users, Take(w, u) PROVE TypeOK'
    BY <1>1 DEF Take, TypeOK
  <1>2. CASE Calculate(w)
    <2>1. work' \in [Workers -> Tasks]
      BY <1>2 DEF Calculate, TypeOK, Free
    <2>2. seen' \in [Users -> [Assets -> Quote]]
      BY <1>2 DEF Calculate, TypeOK
    <2> QED  BY <1>2, <2>1, <2>2 DEF Calculate, TypeOK
  <1>3. CASE ReplacePosition(w)
    <2>1. work' \in [Workers -> Tasks]
      BY <1>3 DEF ReplacePosition, TypeOK, Free
    <2> QED  BY <1>3, <2>1 DEF ReplacePosition, TypeOK
  <1>4. CASE Finish(w)
    <2>1. work' \in [Workers -> Tasks]
      BY <1>4 DEF Finish, TypeOK, Free
    <2> QED  BY <1>4, <2>1 DEF Finish, TypeOK
  <1> QED  BY <1>1, <1>2, <1>3, <1>4 DEF Work

LEMMA NextHandlerInv == ASSUME Inv, [Next]_vars PROVE HandlerInv'
  <1>1. CASE UNCHANGED handler
    BY <1>1 DEF Inv, HandlerInv
  <1>2. CASE NewLog
    BY <1>2, FeedAssumption DEF NewLog, SetGlobalIndex, GetUserReserve, Idle, HandlerInv, FeedAssumption
  <1>3. CASE Handle
    BY <1>3 DEF Handle, MarkUserDirty, FanOutIndex, EnqueueHolder, FlushDirtyUser, Idle, Inv, TypeOK,
                HandlerInv
  <1>4. CASE UNCHANGED vars \/ FetchPrices \/ Feed \/ \E w \in Workers : Work(w)
    <2>1. UNCHANGED handler
      BY <1>4 DEF vars, FetchPrices, Feed, StorePrice, FanOut, EnqueueTarget, Work, Take, Calculate,
                  ReplacePosition, Finish
    <2> QED  BY <1>1, <2>1
  <1> QED  BY <1>2, <1>3, <1>4 DEF Next

LEMMA NextInv == Inv /\ [Next]_vars => Inv'
  <1> SUFFICES ASSUME Inv, [Next]_vars PROVE Inv'
    OBVIOUS
  <1>1. TypeOK'
    <2>1. CASE UNCHANGED vars
      BY <2>1 DEF vars, Inv, TypeOK
    <2> QED  BY <2>1, FeederTypes, HandlerTypes, WorkerTypes DEF Inv, Next
  <1> QED  BY <1>1, NextHandlerInv DEF Inv

\* Every variable keeps its type, for any number of users, assets and workers.
THEOREM TypeCorrect == Spec => []TypeOK
  <1>1. Inv => TypeOK
    BY DEF Inv
  <1> QED  BY <1>1, InitInv, NextInv, PTL DEF Spec
-----------------------------------------------------------------------------
\* What holds of one user and one asset, and has to be shown of every step.
Reached(u, a) == u \in subs[a] /\ Outdated(u, a) => Coming(u, a)

LEMMA FeederReaches ==
    ASSUME TypeOK, NEW u \in Users, NEW a \in Assets, Reached(u, a), FetchPrices \/ Feed
    PROVE  Reached(u, a)'
  <1>1. CASE FetchPrices
    BY <1>1 DEF FetchPrices, Waiting, Reached, Outdated, Coming
  \* A price that changes is announced later.
  <1>2. ASSUME NEW b \in Assets, NEW p \in Prices, StorePrice(b, p) PROVE Reached(u, a)'
    <2>1. /\ UNCHANGED <<subs, handler, dirty, queue, lost, work, seen>>
          /\ feeder'.targets = feeder.targets /\ feeder.changed \subseteq feeder'.changed
      BY <1>2 DEF StorePrice, TypeOK
    <2>2. a \in feeder'.changed \/ quote'[a] = quote[a]
      <3>1. CASE a # b
        BY <1>2, <3>1 DEF StorePrice, TypeOK
      <3>2. CASE a = b /\ quote[b].price # p
        BY <1>2, <3>2 DEF StorePrice, TypeOK
      <3>3. CASE a = b /\ quote[b].price = p
        <4>1. quote[a] \in Quote /\ quote'[a] = [quote[a] EXCEPT !.price = p]
          BY <1>2, <3>3 DEF StorePrice, TypeOK
        <4> QED  BY <3>3, <4>1 DEF Quote
      <3> QED  BY <3>1, <3>2, <3>3
    <2> QED  BY <2>1, <2>2 DEF Reached, Outdated, Coming
  \* The subscribers of an asset whose turn has come are the targets now.
  <1>3. ASSUME NEW b \in Assets, FanOut(b) PROVE Reached(u, a)'
    <2>1. /\ UNCHANGED <<quote, subs, handler, dirty, queue, lost, work, seen>>
          /\ feeder.targets = {} /\ feeder'.targets = subs[b] /\ feeder'.changed = feeder.changed \ {b}
      BY <1>3 DEF FanOut, TypeOK
    <2> QED  BY <2>1 DEF Reached, Outdated, Coming
  <1>4. ASSUME NEW v \in Users, EnqueueTarget(v) PROVE Reached(u, a)'
    <2>1. /\ UNCHANGED <<quote, subs, handler, dirty, work, seen>>
          /\ feeder'.targets = feeder.targets \ {v} /\ feeder'.changed = feeder.changed
      BY <1>4 DEF EnqueueTarget, TypeOK
    <2>2. v \in queue' \cup lost' /\ queue \subseteq queue' /\ lost \subseteq lost'
      BY <1>4, EnqueueGrows DEF EnqueueTarget
    <2> QED  BY <2>1, <2>2 DEF Reached, Outdated, Coming
  <1> QED  BY <1>1, <1>2, <1>3, <1>4 DEF Feed

LEMMA HandlerReaches ==
    ASSUME Inv, NEW u \in Users, NEW a \in Assets, Reached(u, a), NewLog \/ Handle
    PROVE  Reached(u, a)'
  <1> USE DEF Inv
  \* A new subscriber is in the hands of the handler until he is marked.
  <1>1. ASSUME NEW v \in Users, NEW b \in Assets, GetUserReserve(v, b) PROVE Reached(u, a)'
    <2>1. /\ UNCHANGED <<quote, feeder, dirty, queue, lost, work, seen>>
          /\ handler = Idle /\ handler'.user = v
      BY <1>1 DEF GetUserReserve, Idle
    <2>2. u \in subs'[a] => u \in subs[a] \/ u = v
      BY <1>1 DEF GetUserReserve, TypeOK
    <2>3. handler.user = NoUser /\ handler.asset = NoAsset /\ handler.targets = {}
      BY <2>1 DEF Idle
    <2>4. u # NoUser /\ a # NoAsset
      BY FeedAssumption DEF FeedAssumption
    <2> QED  BY <2>1, <2>2, <2>3, <2>4 DEF Reached, Outdated, Coming
  <1>2. CASE MarkUserDirty
    <2>1. /\ UNCHANGED <<quote, subs, feeder, queue, lost, work, seen>>
          /\ handler.user # NoUser /\ dirty' = dirty \cup {handler.user}
      BY <1>2 DEF MarkUserDirty
    <2>2. handler.targets = {}
      BY <2>1 DEF HandlerInv
    <2> QED  BY <2>1, <2>2 DEF Reached, Outdated, Coming
  \* The subscribers of an asset whose index is new are still to be asked for.
  <1>3. ASSUME NEW b \in Assets, SetGlobalIndex(b) PROVE Reached(u, a)'
    <2>1. /\ UNCHANGED <<subs, feeder, dirty, queue, lost, work, seen>>
          /\ handler.user = NoUser /\ handler.asset = NoAsset /\ handler.targets = {}
          /\ handler'.user = NoUser /\ handler'.asset = b
      BY <1>3 DEF SetGlobalIndex, Idle
    <2>2. a = b \/ quote'[a] = quote[a]
      BY <1>3 DEF SetGlobalIndex, TypeOK
    <2>3. u # NoUser /\ a # NoAsset
      BY FeedAssumption DEF FeedAssumption
    <2> QED  BY <2>1, <2>2, <2>3 DEF Reached, Outdated, Coming
  <1>4. CASE FanOutIndex
    <2>1. /\ UNCHANGED <<quote, subs, feeder, dirty, queue, lost, work, seen>>
          /\ handler'.targets = subs[handler.asset]
          /\ handler.user = NoUser /\ handler.targets = {}
      BY <1>4 DEF FanOutIndex, Idle, HandlerInv
    <2>2. u # NoUser
      BY FeedAssumption DEF FeedAssumption
    <2> QED  BY <2>1, <2>2 DEF Reached, Outdated, Coming
  <1>5. ASSUME NEW v \in Users, EnqueueHolder(v) PROVE Reached(u, a)'
    <2>1. /\ UNCHANGED <<quote, subs, feeder, dirty, work, seen>>
          /\ handler'.targets = handler.targets \ {v}
          /\ handler'.user = handler.user /\ handler'.asset = handler.asset
      BY <1>5 DEF EnqueueHolder, TypeOK
    <2>2. v \in queue' \cup lost' /\ queue \subseteq queue' /\ lost \subseteq lost'
      BY <1>5, EnqueueGrows DEF EnqueueHolder
    <2> QED  BY <2>1, <2>2 DEF Reached, Outdated, Coming
  <1>6. ASSUME NEW v \in Users, FlushDirtyUser(v) PROVE Reached(u, a)'
    <2>1. UNCHANGED <<quote, subs, feeder, handler, work, seen>> /\ dirty' = dirty \ {v}
      BY <1>6 DEF FlushDirtyUser
    <2>2. v \in queue' \cup lost' /\ queue \subseteq queue' /\ lost \subseteq lost'
      BY <1>6, EnqueueGrows DEF FlushDirtyUser
    <2> QED  BY <2>1, <2>2 DEF Reached, Outdated, Coming
  <1> QED  BY <1>1, <1>2, <1>3, <1>4, <1>5, <1>6 DEF NewLog, Handle

LEMMA WorkerReaches ==
    ASSUME TypeOK, NEW u \in Users, NEW a \in Assets, Reached(u, a), NEW w \in Workers, Work(w)
    PROVE  Reached(u, a)'
  <1>1. ASSUME NEW v \in Users, Take(w, v) PROVE Reached(u, a)'
    <2>1. /\ UNCHANGED <<quote, subs, feeder, handler, dirty, lost, seen>>
          /\ queue' = queue \ {v} /\ work[w].pc = "free"
          /\ work' = [work EXCEPT ![w] = [pc |-> "taken", user |-> v]]
      BY <1>1 DEF Take
    <2>2. \A x \in Workers : work[x] = [pc |-> "taken", user |-> u] => work'[x] = work[x]
      BY <2>1 DEF TypeOK
    <2>3. work'[w] = [pc |-> "taken", user |-> v]
      BY <2>1 DEF TypeOK
    <2> QED  BY <2>1, <2>2, <2>3 DEF Reached, Outdated, Coming
  \* Who is calculated is up to date.
  <1>2. CASE Calculate(w)
    <2>1. /\ UNCHANGED <<quote, subs, feeder, handler, dirty, queue>>
          /\ work[w].pc = "taken" /\ lost' = lost \ {work[w].user}
          /\ \A x \in Workers : x # w => work'[x] = work[x]
      BY <1>2 DEF Calculate, TypeOK
    <2>2. CASE u = work[w].user
      <3>1. seen'[u] = quote
        BY <1>2, <2>2 DEF Calculate, TypeOK
      <3> QED  BY <2>1, <3>1 DEF Reached, Outdated
    <2>3. CASE u # work[w].user
      <3>1. seen'[u] = seen[u]
        BY <1>2, <2>3 DEF Calculate, TypeOK
      <3>2. \A x \in Workers : work[x] = [pc |-> "taken", user |-> u] => work'[x] = work[x]
        BY <2>1, <2>3
      <3> QED  BY <2>1, <2>3, <3>1, <3>2 DEF Reached, Outdated, Coming
    <2> QED  BY <2>2, <2>3
  <1>3. CASE ReplacePosition(w) \/ Finish(w)
    <2>1. /\ UNCHANGED <<quote, subs, feeder, handler, dirty, queue, lost, seen>>
          /\ work[w].pc = "calculated"
          /\ \A x \in Workers : x # w => work'[x] = work[x]
      BY <1>3 DEF ReplacePosition, Finish, TypeOK
    <2>2. \A x \in Workers : work[x] = [pc |-> "taken", user |-> u] => work'[x] = work[x]
      BY <2>1
    <2> QED  BY <2>1, <2>2 DEF Reached, Outdated, Coming
  <1> QED  BY <1>1, <1>2, <1>3 DEF Work

\* Nothing that the feeder (oracle.go:91-132), the handlers (log_replay_engine.go:158-182) and the
\* workers (risk_engine.go:283-419) do in between lets a subscriber miss a change they have stored.
THEOREM AllReached == Spec => []SubscribersReached
  <1>1. Init => SubscribersReached
    BY DEF Init, SubscribersReached, Outdated
  <1>2. Inv /\ Inv' /\ SubscribersReached /\ [Next]_vars => SubscribersReached'
    <2> SUFFICES ASSUME Inv, Inv', SubscribersReached, [Next]_vars,
                        NEW a \in Assets, NEW u \in subs'[a]
                 PROVE  Reached(u, a)'
      BY DEF Reached, SubscribersReached
    <2>1. u \in Users
      BY DEF Inv, TypeOK
    <2>2. Reached(u, a)
      BY DEF Reached, SubscribersReached
    <2>3. CASE UNCHANGED vars
      BY <2>2, <2>3 DEF vars, Reached, Outdated, Coming
    <2> QED  BY <2>1, <2>2, <2>3, FeederReaches, HandlerReaches, WorkerReaches DEF Inv, Next
  <1> QED  BY <1>1, <1>2, InitInv, NextInv, PTL DEF Spec
=============================================================================
