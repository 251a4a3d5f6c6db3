-------------------------- MODULE PositionSync_proofs --------------------------
(***************************************************************************)
(* What is proved of PositionSync for all assets, events and amounts, any  *)
(* number of workers and every interleaving of their requests with the     *)
(* handlers: the types; that the user is subscribed to every asset he      *)
(* holds or owes, as long as no fetched position has replaced the stored   *)
(* one; that the stored position follows the chain, and its E-mode too.    *)
(***************************************************************************)
EXTENDS PositionSync, TLAPS

\* The logs are events of the user; those about a reserve name it.
LogsOK ==
    /\ logs \in Seq(Log)
    /\ head \in Nat
    /\ \A i \in 1 .. Len(logs) :
          /\ logs[i].kind # "emode" => logs[i].asset \in Assets
          /\ logs[i].kind # "emode" => logs[i].debt \in Assets
          /\ logs[i].index > 0 /\ logs[i].debtIndex > 0

\* The handler at work has created what it looked up.
HeldOK ==
    /\ applied \in Nat
    /\ held \in Seq({"live", "orphan"})
    /\ held # <<>> => applied < Len(logs) /\ l.kind # "emode" /\ Len(held) <= Len(Reserves)
    /\ ~replaced => \A i \in 1 .. Len(held) : Reserves[i] \in pos.has

\* What is not among the reserves of the position is neither held nor owed.
SubsOK ==
    ~replaced =>
        /\ DOMAIN pos = {"known", "has", "coll", "debt", "used", "emode", "fetched"}
        /\ DOMAIN pos.coll = Assets
        /\ DOMAIN pos.debt = Assets
        /\ pos.has \subseteq subs
        /\ \A a \in Assets : a \notin pos.has => pos.coll[a] = 0 /\ pos.debt[a] = 0

Inv == LogsOK /\ HeldOK /\ SubsOK

LEMMA InvEnough == Inv => SubscribedUnlessReplaced
  BY DEF Inv, SubsOK, SubscribedUnlessReplaced

LEMMA InitInv == Init => Inv
  <1> SUFFICES ASSUME Init PROVE Inv
    OBVIOUS
  <1>1. LogsOK
    BY SyncAssumption DEF Init, LogsOK, SyncAssumption
  <1>2. HeldOK
    BY DEF Init, HeldOK
  <1>3. SubsOK
    BY DEF Init, Bootstrapped, SubsOK, Clean
  <1> QED  BY <1>1, <1>2, <1>3 DEF Inv

\* A new log changes none of those before it.
LEMMA EmitInv ==
    ASSUME Inv, NEW kind \in Kinds, NEW a \in Assets \cup {NoAsset}, NEW d \in Assets \cup {NoAsset},
           NEW n \in Amounts \cup Categories \cup {0}, NEW m \in Amounts \cup Categories \cup {0},
           NEW i0 \in Indices, NEW j0 \in Indices, Emit(kind, a, d, n, m, i0, j0)
    PROVE  Inv'
  <1> DEFINE x == [block |-> head + 1, kind |-> kind, asset |-> a, debt |-> d, amount |-> n,
                   cover |-> m, index |-> i0, debtIndex |-> j0]
  <1>1. /\ logs' = Append(logs, x)
        /\ UNCHANGED <<head, applied, held, pos, subs, replaced>>
    BY DEF Emit
  <1>2. x \in Log
    <2>1. head + 1 \in Nat
      BY DEF Inv, LogsOK
    <2>2. /\ kind \in AllKinds /\ n \in Nat /\ m \in Nat
          /\ i0 \in Nat \ {0} /\ j0 \in Nat \ {0}
      BY SyncAssumption DEF SyncAssumption
    <2> QED  BY <2>1, <2>2 DEF Log
  <1>3. /\ (kind # "emode" => a \in Assets) /\ (kind # "emode" => d \in Assets)
        /\ i0 > 0 /\ j0 > 0
    BY SyncAssumption DEF Emit, SyncAssumption
  <1>4. /\ logs \in Seq(Log) /\ Len(logs') = Len(logs) + 1 /\ logs'[Len(logs) + 1] = x
        /\ \A i \in 1 .. Len(logs) : logs'[i] = logs[i]
    BY <1>1, <1>2 DEF Inv, LogsOK
  <1>5. LogsOK'
    <2>1. logs' \in Seq(Log)
      BY <1>1, <1>2, <1>4
    <2>2. ASSUME NEW i \in 1 .. Len(logs')
          PROVE  /\ logs'[i].kind # "emode" => logs'[i].asset \in Assets
                 /\ logs'[i].kind # "emode" => logs'[i].debt \in Assets
                 /\ logs'[i].index > 0 /\ logs'[i].debtIndex > 0
      <3>1. CASE i = Len(logs) + 1
        BY <1>3, <1>4, <3>1
      <3>2. CASE i \in 1 .. Len(logs)
        BY <1>4, <3>2 DEF Inv, LogsOK
      <3> QED  BY <1>4, <2>2, <3>1, <3>2
    <2> QED  BY <1>1, <2>1, <2>2 DEF Inv, LogsOK
  <1>6. HeldOK'
    <2>1. held # <<>> => l' = l
      BY <1>1, <1>4 DEF l, Inv, HeldOK
    <2>2. held # <<>> => Reserves' = Reserves
      BY <2>1 DEF Reserves
    <2>3. CASE held = <<>>
      BY <1>1, <2>3 DEF Inv, HeldOK
    <2>4. CASE held # <<>>
      BY <1>1, <1>4, <2>1, <2>2, <2>4 DEF Inv, HeldOK
    <2> QED  BY <2>3, <2>4
  <1> QED  BY <1>1, <1>5, <1>6 DEF Inv, SubsOK

\* The reserves of a log are reserves.
LEMMA ReservesAreAssets ==
    ASSUME Inv, applied < Len(logs), l.kind # "emode"
    PROVE  /\ Reserves = IF l.kind = "liquidation" THEN <<l.debt, l.asset>> ELSE <<l.asset>>
           /\ l.asset \in Assets
           /\ l.kind = "liquidation" => l.debt \in Assets
           /\ Len(Reserves) \in Nat
           /\ \A i \in 1 .. Len(Reserves) : Reserves[i] \in Assets
  <1>1. applied + 1 \in 1 .. Len(logs)
    BY DEF Inv, HeldOK, LogsOK
  <1>2. l.asset \in Assets /\ (l.kind = "liquidation" => l.debt \in Assets)
    BY <1>1 DEF l, Inv, LogsOK
  <1> QED  BY <1>2 DEF Reserves

\* GetUserReserve creates a reserve and subscribes the user in one step.
LEMMA LookUpInv == ASSUME Inv, GetUserReserve PROVE Inv'
  <1> DEFINE a == Reserves[Len(held) + 1]
  <1>1. /\ applied < Len(logs) /\ l.kind # "emode" /\ Len(held) < Len(Reserves)
        /\ pos' = [pos EXCEPT !.known = TRUE, !.has = @ \cup {a}]
        /\ subs' = IF a \notin pos.has THEN subs \cup {a} ELSE subs
        /\ held' = Append(held, "live")
        /\ UNCHANGED <<logs, head, applied, replaced>>
    BY DEF GetUserReserve, Popped, chainVars
  <1>2. LogsOK'
    BY <1>1 DEF Inv, LogsOK
  <1>3. l' = l /\ Reserves' = Reserves
    BY <1>1 DEF Reserves, l
  <1>4. held \in Seq({"live", "orphan"}) /\ Len(held') = Len(held) + 1 /\ held' \in Seq({"live", "orphan"})
    BY <1>1 DEF Inv, HeldOK
  <1>5. ASSUME ~replaced
        PROVE  /\ DOMAIN pos' = DOMAIN pos
               /\ pos'.has = pos.has \cup {a} /\ pos'.coll = pos.coll /\ pos'.debt = pos.debt
    BY <1>1, <1>5 DEF Inv, SubsOK
  <1>6. HeldOK'
    <2>1. ASSUME ~replaced, NEW i \in 1 .. Len(held') PROVE Reserves[i] \in pos'.has
      <3>1. CASE i = Len(held) + 1
        BY <1>5, <2>1, <3>1
      <3>2. CASE i \in 1 .. Len(held)
        BY <1>5, <2>1, <3>2 DEF Inv, HeldOK
      <3> QED  BY <1>4, <2>1, <3>1, <3>2
    <2>2. Len(held') <= Len(Reserves)
      BY <1>1, <1>4, ReservesAreAssets
    <2> QED  BY <1>1, <1>3, <1>4, <2>1, <2>2 DEF Inv, HeldOK
  <1>7. SubsOK'
    BY <1>1, <1>5 DEF Inv, SubsOK
  <1> QED  BY <1>2, <1>6, <1>7 DEF Inv

\* A position whose balances differ from those of pos in reserves it has only.
Within(p) ==
    /\ DOMAIN p = DOMAIN pos /\ DOMAIN p.coll = Assets /\ DOMAIN p.debt = Assets
    /\ p.has = pos.has
    /\ \A a \in Assets : a \notin pos.has => p.coll[a] = pos.coll[a] /\ p.debt[a] = pos.debt[a]

\* A handler changes balances of the reserves it has looked up only.
LEMMA HandleInv == ASSUME Inv, Handle, ~GetUserReserve PROVE Inv'
  <1>1. applied < Len(logs) /\ UNCHANGED <<logs, head, subs, replaced>> /\ applied' = applied + 1
    BY DEF Handle, PassOver, handleSupply, handleWithdraw, handleBorrow, handleRepay, handleCollateral,
           handleLiquidationCall, handleUserEModeSet, Ready, Handled, Popped, chainVars
  <1>2. held' = <<>>
    BY DEF Handle, PassOver, handleSupply, handleWithdraw, handleBorrow, handleRepay,
           handleCollateral, handleLiquidationCall, handleUserEModeSet, Handled, Inv, HeldOK
  <1>3. ASSUME ~replaced PROVE Within(pos')
    <2>1. /\ DOMAIN pos = {"known", "has", "coll", "debt", "used", "emode", "fetched"}
          /\ DOMAIN pos.coll = Assets /\ DOMAIN pos.debt = Assets
      BY <1>3 DEF Inv, SubsOK
    <2>2. CASE handleUserEModeSet
      BY <2>1, <2>2 DEF handleUserEModeSet, Within
    <2>3. ASSUME NEW kinds, "emode" \notin kinds, Ready(kinds)
          PROVE  /\ l.asset \in pos.has
                 /\ l.kind = "liquidation" => l.debt \in pos.has
      <3>1. l.kind # "emode" /\ Len(held) = Len(Reserves)
        BY <2>3 DEF Ready
      <3>2. \A i \in 1 .. Len(Reserves) : Reserves[i] \in pos.has
        BY <1>3, <3>1 DEF Inv, HeldOK
      <3>3. CASE l.kind = "liquidation"
        <4>1. Reserves = <<l.debt, l.asset>>
          BY <3>3 DEF Reserves
        <4> QED  BY <3>2, <4>1
      <3>4. CASE l.kind # "liquidation"
        <4>1. Reserves = <<l.asset>>
          BY <3>4 DEF Reserves
        <4> QED  BY <3>2, <3>4, <4>1
      <3> QED  BY <3>3, <3>4
    <2>4. CASE handleSupply
      <3>1. l.asset \in pos.has
        BY <2>3, <2>4 DEF handleSupply
      <3> QED  BY <2>1, <2>4, <3>1 DEF handleSupply, Through, Within
    <2>5. CASE handleWithdraw
      <3>1. l.asset \in pos.has
        BY <2>3, <2>5 DEF handleWithdraw
      <3> QED  BY <2>1, <2>5, <3>1 DEF handleWithdraw, Through, Within
    <2>6. CASE handleBorrow
      <3>1. l.asset \in pos.has
        BY <2>3, <2>6 DEF handleBorrow
      <3> QED  BY <2>1, <2>6, <3>1 DEF handleBorrow, Through, Within
    <2>7. CASE handleRepay
      <3>1. l.asset \in pos.has
        BY <2>3, <2>7 DEF handleRepay
      <3> QED  BY <2>1, <2>7, <3>1 DEF handleRepay, Through, Within
    <2>8. CASE handleCollateral
      BY <2>1, <2>8 DEF handleCollateral, Through, Within
    <2>9. CASE handleLiquidationCall
      <3>1. l.asset \in pos.has /\ l.debt \in pos.has
        BY <2>3, <2>9 DEF handleLiquidationCall, Ready
      <3> QED  BY <2>1, <2>9, <3>1 DEF handleLiquidationCall, Within
    <2>10. CASE PassOver
      BY <2>1, <2>10 DEF PassOver, Within
    <2> QED  BY <2>2, <2>4, <2>5, <2>6, <2>7, <2>8, <2>9, <2>10 DEF Handle
  <1>4. HeldOK'
    BY <1>1, <1>2 DEF Inv, HeldOK
  <1>5. SubsOK'
    BY <1>1, <1>3 DEF Inv, SubsOK, Within
  <1> QED  BY <1>1, <1>4, <1>5 DEF Inv, LogsOK

\* A worker changes the E-mode, or replaces the position.
LEMMA WorkInv == ASSUME Inv, NEW w \in Workers, Work(w) PROVE Inv'
  <1>1. UNCHANGED <<logs, head, applied, subs>>
    BY DEF Work, Calculate, FetchUserEMode, WriteEMode, StorePosition, Abandon, chainVars
  <1>2. LogsOK'
    BY <1>1 DEF Inv, LogsOK
  <1>3. l' = l /\ Reserves' = Reserves
    BY <1>1 DEF l, Reserves
  <1>4. CASE StorePosition(w)
    <2>1. replaced' = TRUE /\ held' = [i \in 1 .. Len(held) |-> "orphan"]
      BY <1>4 DEF StorePosition
    <2>2. held' \in Seq({"live", "orphan"}) /\ Len(held') = Len(held)
      BY <2>1 DEF Inv, HeldOK
    <2>3. held' # <<>> => held # <<>>
      BY <2>2 DEF Inv, HeldOK
    <2>4. HeldOK'
      BY <1>1, <1>3, <2>1, <2>2, <2>3 DEF Inv, HeldOK
    <2> QED  BY <1>2, <2>1, <2>4 DEF Inv, SubsOK
  <1>5. CASE UNCHANGED <<pos, held, replaced>>
    BY <1>1, <1>2, <1>3, <1>5 DEF Inv, HeldOK, SubsOK
  <1>6. CASE WriteEMode(w) /\ work[w].ptr = "live"
    <2>1. /\ UNCHANGED <<held, replaced>>
          /\ pos' = [pos EXCEPT !.emode = truth[work[w].seen + 1].emode, !.fetched = TRUE]
      BY <1>6 DEF WriteEMode
    <2>2. ASSUME ~replaced
          PROVE  /\ DOMAIN pos' = DOMAIN pos
                 /\ pos'.has = pos.has /\ pos'.coll = pos.coll /\ pos'.debt = pos.debt
      BY <2>1, <2>2 DEF Inv, SubsOK
    <2>3. HeldOK'
      BY <1>1, <1>3, <2>1, <2>2 DEF Inv, HeldOK
    <2>4. SubsOK'
      BY <1>1, <2>1, <2>2 DEF Inv, SubsOK
    <2> QED  BY <1>2, <2>3, <2>4 DEF Inv
  <1> QED  BY <1>4, <1>5, <1>6 DEF Work, Calculate, FetchUserEMode, WriteEMode, Abandon

LEMMA NextInv == Inv /\ [Next]_vars => Inv'
  <1> SUFFICES ASSUME Inv, [Next]_vars PROVE Inv'
    OBVIOUS
  <1>1. ASSUME UNCHANGED <<logs, applied, held, pos, subs, replaced>>, head' \in Nat PROVE Inv'
    <2>1. l' = l /\ Reserves' = Reserves
      BY <1>1 DEF l, Reserves
    <2> QED  BY <1>1, <2>1 DEF Inv, LogsOK, HeldOK, SubsOK
  <1>2. CASE Mine
    BY <1>1, <1>2 DEF Mine, Inv, LogsOK
  <1>3. CASE GoLive
    BY <1>1, <1>3 DEF GoLive, chainVars, Inv, LogsOK
  <1>4. ASSUME NEW b \in Anchor .. MaxBlock, SetCurrentBlock(b) PROVE Inv'
    BY <1>1, <1>4 DEF SetCurrentBlock, chainVars, Inv, LogsOK
  <1>5. CASE UNCHANGED vars
    BY <1>1, <1>5 DEF vars, Inv, LogsOK
  <1>6. CASE Chain
    BY <1>2, <1>6, EmitInv DEF Chain
  <1>7. CASE Handle
    BY <1>7, HandleInv, LookUpInv
  <1>8. ASSUME NEW a \in Assets, handleReserveDataUpdated(a) PROVE Inv'
    BY <1>1, <1>8 DEF handleReserveDataUpdated, chainVars, Inv, LogsOK
  <1> QED  BY <1>3, <1>4, <1>5, <1>6, <1>7, <1>8, WorkInv DEF Next

\* GetUserReserve and UpsertUserReserve (store.go:128-157, 86-105) subscribe the user to whatever
\* the handlers let him hold or owe; only a fetched position (risk_engine.go:159-161) breaks that.
THEOREM Subscribed == Spec => []SubscribedUnlessReplaced
  BY InitInv, NextInv, InvEnough, PTL DEF Spec
-----------------------------------------------------------------------------
LEMMA Established == Spec => []Inv
  BY InitInv, NextInv, PTL DEF Spec

\* k logs are those of the blocks up to b.
Cut(b, k) ==
    /\ \A i \in 1 .. k : logs[i].block <= b
    /\ k < Len(logs) => logs[k + 1].block > b

\* s and t may be what the pool made of the amounts of log x.
Made(x, s, t) ==
    /\ s \in Nat /\ t \in Nat
    /\ RayDiv(x.amount, x.index) - s \in -1 .. 1
    /\ RayDiv(x.cover, x.debtIndex) - t \in -1 .. 1

\* The pool may have led from position p to q by log x.
StepOf(p, x, q) ==
    \E s, t \in Nat : Made(x, s, t) /\ Allowed(p, x, s, t) /\ q = After(p, x, s, t)

\* The logs come in the order of their blocks, truth follows them one by one, and only a
\* UserEModeSet changes the category.
ChainOK ==
    /\ truth \in Seq(ChainPosition) /\ Len(truth) = Len(logs) + 1
    /\ \A i \in 1 .. Len(logs) : logs[i].block <= head + 1
    /\ \A b \in Nat : \E k \in 0 .. Len(logs) : Cut(b, k)
    /\ \A i \in 1 .. Len(logs) : StepOf(truth[i], logs[i], truth[i + 1])
    /\ \A j, k \in 0 .. Len(logs) :
          j <= k /\ (\A i \in (j + 1) .. k : logs[i].kind # "emode")
          => truth[j + 1].emode = truth[k + 1].emode

LEMMA LogsUpToType == ASSUME ChainOK, NEW b \in Nat PROVE LogsUpTo(b) \in 0 .. Len(logs)
  <1>1. \E k \in 0 .. Len(logs) : Cut(b, k)
    BY DEF ChainOK
  <1> QED  BY <1>1 DEF LogsUpTo, Cut

\* Two quotients by b of numbers less than b apart.
LEMMA QuotientsClose ==
    ASSUME NEW a \in Nat, NEW b \in Nat, b > 0, NEW x \in Nat, NEW y \in Nat, x < b, y < b
    PROVE  (a + x) \div b \in Nat /\ (a + x) \div b <= (a + y) \div b + 1
  <1> DEFINE q == (a + x) \div b
             r == (a + y) \div b
  <1>1. q \in Nat /\ b * q <= a + x
    OBVIOUS
  <1>2. r \in Nat /\ a + y < b * r + b
    OBVIOUS
  <1> HIDE DEF q, r
  <1>3. b * q < b * (r + 2)
    <2>1. b * (r + 2) = b * r + b + b
      BY <1>2
    <2>2. b * q \in Nat /\ b * r \in Nat
      BY <1>1, <1>2
    <2> QED  BY <1>1, <1>2, <2>1, <2>2
  <1>4. q < r + 2
    <2>1. q \in Int /\ r + 2 \in Int
      BY <1>1, <1>2
    <2>2. \A m, n \in Int : b * m < b * n => m < n
      OBVIOUS
    <2> QED  BY <1>3, <2>1, <2>2
  <1> QED  BY <1>1, <1>2, <1>4 DEF q, r

\* However the pool rounds, RayDiv is at most one unit off.
LEMMA Rounding ==
    ASSUME NEW n \in Nat, NEW index \in Nat \ {0}, NEW up \in BOOLEAN
    PROVE  /\ RayDiv(n, index) \in Nat /\ PoolScaled(n, index, up) \in Nat
           /\ RayDiv(n, index) - PoolScaled(n, index, up) \in -1 .. 1
  <1> DEFINE a == n * RAY
             y == IF up THEN index - 1 ELSE 0
  <1>1. a \in Nat
    <2>1. RAY \in Nat
      BY SyncAssumption DEF SyncAssumption
    <2> QED  BY <2>1
  <1>2. index \div 2 \in Nat /\ index \div 2 < index /\ index \in Nat /\ index > 0
    OBVIOUS
  <1>3. y \in Nat /\ y < index
    BY <1>2
  <1>4. RayDiv(n, index) = (a + index \div 2) \div index /\ PoolScaled(n, index, up) = (a + y) \div index
    BY DEF RayDiv, PoolScaled
  <1> DEFINE x == index \div 2
  <1>5. x \in Nat /\ x < index
    BY <1>2
  <1> HIDE DEF a, x, y
  <1>6. /\ (a + x) \div index \in Nat /\ (a + x) \div index <= (a + y) \div index + 1
        /\ (a + y) \div index \in Nat /\ (a + y) \div index <= (a + x) \div index + 1
    BY <1>1, <1>2, <1>3, <1>5, QuotientsClose
  <1>7. RayDiv(n, index) = (a + x) \div index
    BY <1>4 DEF x
  <1> DEFINE u == (a + x) \div index
             v == (a + y) \div index
  <1>8. u \in Nat /\ v \in Nat /\ u <= v + 1 /\ v <= u + 1
    BY <1>6
  <1> HIDE DEF u, v
  <1>9. u - v \in -1 .. 1
    BY <1>8
  <1> QED  BY <1>4, <1>7, <1>8, <1>9 DEF u, v

\* The pool gives a position for every event it allows.
LEMMA AfterType ==
    ASSUME NEW p \in ChainPosition, NEW x \in Log, NEW s \in Nat, NEW t \in Nat, Allowed(p, x, s, t),
           x.kind # "emode" => x.asset \in Assets, x.kind = "liquidation" => x.debt \in Assets
    PROVE  /\ After(p, x, s, t) \in ChainPosition
           /\ x.kind # "emode" => After(p, x, s, t).emode = p.emode
  <1>1. /\ p.coll \in [Assets -> Nat] /\ p.debt \in [Assets -> Nat]
        /\ p.used \in [Assets -> BOOLEAN] /\ p.emode \in Nat
        /\ p = [coll |-> p.coll, debt |-> p.debt, used |-> p.used, emode |-> p.emode]
    BY DEF ChainPosition
  <1>2. x.amount \in Nat /\ x.kind \in AllKinds
    BY DEF Log
  <1>3. CASE x.kind = "supply"
    <2>1. After(p, x, s, t) = [p EXCEPT !.coll[x.asset] = @ + s]
      BY <1>3 DEF After
    <2>2. p.coll[x.asset] + s \in Nat
      BY <1>1, <1>2, <1>3
    <2> QED  BY <1>1, <1>3, <2>1, <2>2 DEF ChainPosition
  <1>4. CASE x.kind = "withdraw"
    <2>1. After(p, x, s, t) = [p EXCEPT !.coll[x.asset] = @ - s]
      BY <1>4 DEF After
    <2>2. p.coll[x.asset] - s \in Nat
      BY <1>1, <1>2, <1>4 DEF Allowed
    <2> QED  BY <1>1, <1>4, <2>1, <2>2 DEF ChainPosition
  <1>5. CASE x.kind = "borrow"
    <2>1. After(p, x, s, t) = [p EXCEPT !.debt[x.asset] = @ + s]
      BY <1>5 DEF After
    <2>2. p.debt[x.asset] + s \in Nat
      BY <1>1, <1>2, <1>5
    <2> QED  BY <1>1, <1>5, <2>1, <2>2 DEF ChainPosition
  <1>6. CASE x.kind = "repay"
    <2>1. After(p, x, s, t) = [p EXCEPT !.debt[x.asset] = @ - s]
      BY <1>6 DEF After
    <2>2. p.debt[x.asset] - s \in Nat
      BY <1>1, <1>2, <1>6 DEF Allowed
    <2> QED  BY <1>1, <1>6, <2>1, <2>2 DEF ChainPosition
  <1>7. CASE x.kind \in {"enable", "disable"}
    <2>1. After(p, x, s, t) = [p EXCEPT !.used[x.asset] = (x.kind = "enable")]
      BY <1>7 DEF After
    <2>2. [p.used EXCEPT ![x.asset] = (x.kind = "enable")] \in [Assets -> BOOLEAN]
      <3> DEFINE on == (x.kind = "enable")
      <3>1. on \in BOOLEAN
        OBVIOUS
      <3> HIDE DEF on
      <3>2. [p.used EXCEPT ![x.asset] = on] \in [Assets -> BOOLEAN]
        BY <1>1, <3>1
      <3> QED  BY <3>2 DEF on
    <2>3. After(p, x, s, t) = [p EXCEPT !.used = [p.used EXCEPT ![x.asset] = (x.kind = "enable")]]
      BY <2>1, Zenon
    <2> DEFINE u == [p.used EXCEPT ![x.asset] = (x.kind = "enable")]
    <2> HIDE DEF u
    <2>4. u \in [Assets -> BOOLEAN] /\ After(p, x, s, t) = [p EXCEPT !.used = u]
      BY <2>2, <2>3 DEF u
    <2> QED  BY <1>1, <1>7, <2>4 DEF ChainPosition
  <1>8. CASE x.kind = "emode"
    <2>1. After(p, x, s, t) = [p EXCEPT !.emode = x.amount]
      BY <1>8 DEF After
    <2> QED  BY <1>1, <1>2, <1>8, <2>1 DEF ChainPosition
  <1>9. CASE x.kind = "liquidation"
    <2>1. After(p, x, s, t) = [p EXCEPT !.coll[x.asset] = @ - s, !.debt[x.debt] = @ - t]
      BY <1>9 DEF After
    <2>2. p.coll[x.asset] - s \in Nat /\ p.debt[x.debt] - t \in Nat
      BY <1>1, <1>2, <1>9 DEF Allowed
    <2> DEFINE c == [p.coll EXCEPT ![x.asset] = @ - s]
               d == [p.debt EXCEPT ![x.debt] = @ - t]
    <2>3. c \in [Assets -> Nat] /\ d \in [Assets -> Nat]
      BY <1>1, <1>9, <2>2
    <2>4. After(p, x, s, t) = [p EXCEPT !.coll = c, !.debt = d]
      BY <1>1, <2>1
    <2> HIDE DEF c, d
    <2> QED  BY <1>1, <2>3, <2>4 DEF ChainPosition
  <1> QED  BY <1>2, <1>3, <1>4, <1>5, <1>6, <1>7, <1>8, <1>9 DEF AllKinds

\* What an event changes in the position.
LEMMA AfterFields ==
    ASSUME NEW p \in ChainPosition, NEW x \in Log, NEW s \in Nat, NEW t \in Nat, x.kind # "emode"
    PROVE  /\ After(p, x, s, t).coll =
                 CASE x.kind = "supply" -> [p.coll EXCEPT ![x.asset] = @ + s]
                   [] x.kind \in {"withdraw", "liquidation"} -> [p.coll EXCEPT ![x.asset] = @ - s]
                   [] OTHER -> p.coll
           /\ After(p, x, s, t).debt =
                 CASE x.kind = "borrow" -> [p.debt EXCEPT ![x.asset] = @ + s]
                   [] x.kind = "repay" -> [p.debt EXCEPT ![x.asset] = @ - s]
                   [] x.kind = "liquidation" -> [p.debt EXCEPT ![x.debt] = @ - t]
                   [] OTHER -> p.debt
           /\ After(p, x, s, t).used = IF x.kind \in {"enable", "disable"}
                                 THEN [p.used EXCEPT ![x.asset] = (x.kind = "enable")] ELSE p.used
  <1>1. x.kind \in AllKinds
    BY DEF Log
  <1>2. CASE x.kind \in {"supply", "withdraw", "borrow", "repay"}
    BY <1>2 DEF After, ChainPosition
  <1>3. CASE x.kind = "liquidation"
    <2>1. After(p, x, s, t) = [p EXCEPT !.coll[x.asset] = @ - s, !.debt[x.debt] = @ - t]
      BY <1>3 DEF After
    <2> QED  BY <1>3, <2>1 DEF ChainPosition
  <1>4. CASE x.kind \in {"enable", "disable"}
    <2> DEFINE on == (x.kind = "enable")
    <2>1. After(p, x, s, t) = [p EXCEPT !.used[x.asset] = on]
      BY <1>4 DEF After
    <2> HIDE DEF on
    <2>2. /\ After(p, x, s, t).coll = p.coll /\ After(p, x, s, t).debt = p.debt
          /\ After(p, x, s, t).used = [p.used EXCEPT ![x.asset] = on]
      BY <2>1 DEF ChainPosition
    <2> QED  BY <1>4, <2>2 DEF on
  <1> QED  BY <1>1, <1>2, <1>3, <1>4 DEF AllKinds

\* The balances and the category a behaviour starts with.
LEMMA InitFacts ==
    ASSUME Init
    PROVE  \E coll, debt \in [Assets -> Nat], cat \in Nat : Bootstrapped(coll, debt, cat)
  <1>1. PICK start \in Starts, cat \in Categories \cup {0} :
            Bootstrapped([a \in Assets |-> start[a][1]], [a \in Assets |-> start[a][2]], cat)
    BY DEF Init
  <1> DEFINE coll == [a \in Assets |-> start[a][1]]
             debt == [a \in Assets |-> start[a][2]]
  <1>2. coll \in [Assets -> Nat] /\ debt \in [Assets -> Nat] /\ cat \in Nat
    BY SyncAssumption DEF SyncAssumption
  <1>3. Bootstrapped(coll, debt, cat)
    BY <1>1
  <1> HIDE DEF coll, debt
  <1> QED  BY <1>2, <1>3

LEMMA InitChain == Init => ChainOK
  <1> SUFFICES ASSUME Init PROVE ChainOK
    OBVIOUS
  <1>1. PICK coll \in [Assets -> Nat], debt \in [Assets -> Nat], cat \in Nat :
            Bootstrapped(coll, debt, cat)
    BY InitFacts
  <1> DEFINE used == [a \in Assets |-> coll[a] > 0]
  <1>2. truth = <<[coll |-> coll, debt |-> debt, used |-> used, emode |-> cat]>>
    BY <1>1 DEF Bootstrapped
  <1>3. used \in [Assets -> BOOLEAN]
    OBVIOUS
  <1> HIDE DEF used
  <1>4. truth \in Seq(ChainPosition) /\ Len(truth) = 1
    BY <1>2, <1>3 DEF ChainPosition
  <1>5. logs = <<>> /\ Len(logs) = 0
    BY DEF Init
  <1> QED  BY <1>4, <1>5 DEF ChainOK, Cut

\* A new log is of the next block; it adds one position to truth.
LEMMA EmitChain ==
    ASSUME Inv, ChainOK, NEW kind \in Kinds,
           NEW a \in Assets \cup {NoAsset}, NEW d \in Assets \cup {NoAsset},
           NEW n \in Amounts \cup Categories \cup {0}, NEW m \in Amounts \cup Categories \cup {0},
           NEW i0 \in Indices, NEW j0 \in Indices, Emit(kind, a, d, n, m, i0, j0)
    PROVE  ChainOK'
  <1>0. PICK N \in Nat : N = Len(logs)
    BY DEF Inv, LogsOK
  <1> DEFINE x == [block |-> head + 1, kind |-> kind, asset |-> a, debt |-> d, amount |-> n,
                   cover |-> m, index |-> i0, debtIndex |-> j0]
  <1>01. PICK r \in Roundings :
             /\ Allowed(truth[N + 1], x, PoolScaled(n, i0, r[1]), PoolScaled(m, j0, r[2]))
             /\ truth' = Append(truth, After(truth[N + 1], x, PoolScaled(n, i0, r[1]),
                                                             PoolScaled(m, j0, r[2])))
    BY <1>0 DEF Emit, ChainOK
  <1> DEFINE s == PoolScaled(n, i0, r[1])
             t == PoolScaled(m, j0, r[2])
             q == After(truth[N + 1], x, s, t)
  <1>1. /\ logs' = Append(logs, x) /\ truth' = Append(truth, q) /\ head' = head
        /\ Allowed(truth[N + 1], x, s, t)
    BY <1>01 DEF Emit
  <1>02. Made(x, s, t)
    <2>1. n \in Nat /\ m \in Nat /\ i0 \in Nat \ {0} /\ j0 \in Nat \ {0} /\ r \in BOOLEAN \X BOOLEAN
      BY SyncAssumption DEF SyncAssumption
    <2>2. /\ s \in Nat /\ RayDiv(n, i0) - s \in -1 .. 1
          /\ t \in Nat /\ RayDiv(m, j0) - t \in -1 .. 1
      BY <2>1, Rounding
    <2> QED  BY <2>2 DEF Made
  <1>2. x \in Log /\ (kind # "emode" => a \in Assets) /\ (kind # "emode" => d \in Assets)
    <2>1. head + 1 \in Nat
      BY DEF Inv, LogsOK
    <2>2. /\ kind \in AllKinds /\ n \in Nat /\ m \in Nat
          /\ i0 \in Nat \ {0} /\ j0 \in Nat \ {0}
      BY SyncAssumption DEF SyncAssumption
    <2>3. (kind # "emode" => a \in Assets) /\ (kind # "emode" => d \in Assets)
      BY DEF Emit
    <2> QED  BY <2>1, <2>2, <2>3 DEF Log
  <1>3. /\ logs \in Seq(Log) /\ N \in Nat /\ head \in Nat /\ truth \in Seq(ChainPosition)
        /\ Len(truth) = N + 1 /\ truth[N + 1] \in ChainPosition
    BY <1>0 DEF Inv, LogsOK, ChainOK
  <1>4. q \in ChainPosition /\ (kind # "emode" => q.emode = truth[N + 1].emode)
    <2>1. s \in Nat /\ t \in Nat
      BY <1>02 DEF Made
    <2> HIDE DEF s, t
    <2> QED  BY <1>1, <1>2, <1>3, <2>1, AfterType
  <1>03. StepOf(truth[N + 1], x, q)
    <2>1. s \in Nat /\ t \in Nat
      BY <1>02 DEF Made
    <2> HIDE DEF s, t, x
    <2> QED  BY <1>1, <1>02, <2>1 DEF StepOf
  <1> HIDE DEF x, q
  <1>5. /\ Len(logs') = N + 1 /\ logs'[N + 1] = x /\ \A i \in 1 .. N : logs'[i] = logs[i]
        /\ truth' \in Seq(ChainPosition) /\ Len(truth') = N + 2
        /\ truth'[N + 2] = q /\ \A i \in 1 .. N + 1 : truth'[i] = truth[i]
    BY <1>0, <1>1, <1>2, <1>3, <1>4
  <1>6. x.block = head + 1 /\ x.kind = kind
    BY DEF x
  <1>7. ASSUME NEW i \in 1 .. N + 1 PROVE logs'[i].block <= head + 1
    <2>1. CASE i = N + 1
      BY <1>3, <1>5, <1>6, <2>1
    <2>2. CASE i \in 1 .. N
      BY <1>0, <1>5, <2>2 DEF ChainOK
    <2> QED  BY <1>3, <2>1, <2>2
  <1>8. ASSUME NEW b \in Nat PROVE \E k \in 0 .. N + 1 : Cut(b, k)'
    <2>1. CASE b >= head + 1
      <3>1. \A i \in 1 .. N + 1 : logs'[i].block <= b
        <4> TAKE i \in 1 .. N + 1
        <4>1. logs'[i] \in Log
          <5>1. logs' \in Seq(Log)
            BY <1>1, <1>2, <1>3
          <5> QED  BY <1>5, <5>1
        <4>2. logs'[i].block \in Nat
          BY <4>1 DEF Log
        <4> QED  BY <1>3, <1>7, <2>1, <4>2
      <3>2. Cut(b, N + 1)'
        BY <1>5, <1>3, <3>1 DEF Cut
      <3> QED  BY <1>3, <3>2
    <2>2. CASE b < head + 1
      <3>1. PICK k \in 0 .. N : Cut(b, k)
        BY <1>0 DEF ChainOK
      <3>2. \A i \in 1 .. k : logs'[i].block <= b
        <4> TAKE i \in 1 .. k
        <4>1. i \in 1 .. N /\ logs[i].block <= b
          BY <3>1 DEF Cut
        <4> QED  BY <1>5, <4>1
      <3>3. logs'[k + 1].block > b
        <4>1. CASE k = N
          BY <1>3, <1>5, <1>6, <2>2, <4>1
        <4>2. CASE k < N
          <5>1. k + 1 \in 1 .. N /\ logs[k + 1].block > b
            BY <1>0, <3>1, <4>2 DEF Cut
          <5> QED  BY <1>5, <5>1
        <4> QED  BY <1>3, <4>1, <4>2
      <3>4. Cut(b, k)'
        BY <3>2, <3>3 DEF Cut
      <3> QED  BY <1>3, <3>4
    <2> QED  BY <1>3, <2>1, <2>2
  <1>9. ASSUME NEW i \in 1 .. N + 1
        PROVE  StepOf(truth'[i], logs'[i], truth'[i + 1])
    <2>1. CASE i = N + 1
      <3>1. truth'[i] = truth[N + 1] /\ logs'[i] = x /\ truth'[i + 1] = q
        BY <1>3, <1>5, <2>1
      <3> QED  BY <1>03, <3>1
    <2>2. CASE i \in 1 .. N
      <3>1. StepOf(truth[i], logs[i], truth[i + 1])
        BY <1>0, <2>2 DEF ChainOK
      <3>2. i \in 1 .. N + 1 /\ i + 1 \in 1 .. N + 1
        BY <2>2
      <3>3. truth'[i] = truth[i] /\ logs'[i] = logs[i] /\ truth'[i + 1] = truth[i + 1]
        BY <1>5, <2>2, <3>2
      <3> QED  BY <3>1, <3>3
    <2> QED  BY <1>3, <2>1, <2>2
  <1>10. ASSUME NEW j \in 0 .. N + 1, NEW k \in 0 .. N + 1, j <= k,
                \A i \in (j + 1) .. k : logs'[i].kind # "emode"
         PROVE  truth'[j + 1].emode = truth'[k + 1].emode
    <2>1. CASE k \in 0 .. N
      <3>1. j \in 0 .. N /\ \A i \in (j + 1) .. k : logs[i].kind # "emode"
        BY <1>3, <1>5, <1>10, <2>1
      <3>2. truth[j + 1].emode = truth[k + 1].emode
        BY <1>0, <1>10, <2>1, <3>1 DEF ChainOK
      <3> QED  BY <1>3, <1>5, <2>1, <3>1, <3>2
    <2>2. CASE k = N + 1 /\ j = N + 1
      BY <2>2
    <2>3. CASE k = N + 1 /\ j \in 0 .. N
      <3>1. kind # "emode"
        BY <1>3, <1>5, <1>6, <1>10, <2>3
      <3>2. \A i \in (j + 1) .. N : logs[i].kind # "emode"
        BY <1>3, <1>5, <1>10, <2>3
      <3>3. truth[j + 1].emode = truth[N + 1].emode
        <4>1. N \in 0 .. N /\ j <= N
          BY <2>3
        <4> QED  BY <1>0, <2>3, <3>2, <4>1 DEF ChainOK
      <3> QED  BY <1>3, <1>4, <1>5, <2>3, <3>1, <3>3
    <2> QED  BY <2>1, <2>2, <2>3
  <1>11. Len(logs') = N + 1 /\ truth' \in Seq(ChainPosition) /\ Len(truth') = Len(logs') + 1
    BY <1>5
  <1>12. /\ \A i \in 1 .. Len(logs') : logs'[i].block <= head' + 1
         /\ \A i \in 1 .. Len(logs') : StepOf(truth'[i], logs'[i], truth'[i + 1])
    BY <1>1, <1>7, <1>9, <1>11
  <1>13. \A b \in Nat : \E k \in 0 .. Len(logs') : Cut(b, k)'
    BY <1>8, <1>11
  <1>14. \A j, k \in 0 .. Len(logs') :
            j <= k /\ (\A i \in (j + 1) .. k : logs'[i].kind # "emode")
            => truth'[j + 1].emode = truth'[k + 1].emode
    BY <1>10, <1>11
  <1>15. \A i \in 1 .. Len(logs') : StepOf(truth[i], logs[i], truth[i + 1])'
    BY <1>12 DEF StepOf, Made, Allowed, After
  <1> QED  BY <1>11, <1>12, <1>13, <1>14, <1>15, ZenonT(60) DEF ChainOK

\* Logs that stay what they are, under a block that is not lower.
LEMMA ChainStays ==
    ASSUME ChainOK, logs' = logs, truth' = truth, head \in Nat, head' \in Nat, head <= head', logs \in Seq(Log)
    PROVE  ChainOK'
  <1>1. truth' \in Seq(ChainPosition) /\ Len(truth') = Len(logs') + 1
    BY DEF ChainOK
  <1>2. \A i \in 1 .. Len(logs') : logs'[i].block <= head' + 1
    <2> SUFFICES ASSUME NEW i \in 1 .. Len(logs) PROVE logs[i].block <= head' + 1
      OBVIOUS
    <2>1. logs[i] \in Log
      OBVIOUS
    <2>2. logs[i].block \in Nat
      BY <2>1 DEF Log
    <2>3. logs[i].block <= head + 1
      BY Zenon DEF ChainOK
    <2> QED  BY <2>2, <2>3
  <1>3. \A b \in Nat : \E k \in 0 .. Len(logs') : Cut(b, k)'
    <2>1. \A b, k : Cut(b, k)' <=> Cut(b, k)
      BY DEF Cut
    <2> QED  BY <2>1 DEF ChainOK
  <1>4. \A i \in 1 .. Len(logs') : StepOf(truth[i], logs[i], truth[i + 1])'
    <2>1. \A i \in 1 .. Len(logs') : StepOf(truth'[i], logs'[i], truth'[i + 1])
      BY DEF ChainOK
    <2> QED  BY <2>1 DEF StepOf, Made, Allowed, After
  <1>5. \A j, k \in 0 .. Len(logs') :
            j <= k /\ (\A i \in (j + 1) .. k : logs'[i].kind # "emode")
            => truth'[j + 1].emode = truth'[k + 1].emode
    <2>1. \A j, k \in 0 .. Len(logs) :
              j <= k /\ (\A i \in (j + 1) .. k : logs[i].kind # "emode")
              => truth[j + 1].emode = truth[k + 1].emode
      BY Zenon DEF ChainOK
    <2> QED  BY <2>1
  <1> QED  BY <1>1, <1>2, <1>3, <1>4, <1>5, ZenonT(60) DEF ChainOK

LEMMA NextChain == ASSUME Inv, ChainOK, [Next]_vars PROVE ChainOK'
  <1>0. head \in Nat /\ logs \in Seq(Log)
    BY DEF Inv, LogsOK
  <1>1. CASE UNCHANGED chainVars
    <2>1. logs' = logs /\ truth' = truth /\ head' = head
      BY <1>1 DEF chainVars
    <2> QED  BY <1>0, <2>1, ChainStays
  <1>2. CASE Mine
    <2>1. logs' = logs /\ truth' = truth /\ head' = head + 1
      BY <1>2 DEF Mine
    <2>2. head' \in Nat /\ head <= head'
      BY <1>0, <2>1
    <2> QED  BY <1>0, <2>1, <2>2, ChainStays
  <1>3. CASE Chain
    BY <1>2, <1>3, EmitChain DEF Chain
  <1>4. CASE Handle
    BY <1>1, <1>4 DEF Handle, PassOver, GetUserReserve, handleSupply, handleWithdraw, handleBorrow, handleRepay,
           handleCollateral, handleLiquidationCall, handleUserEModeSet, Handled
  <1>5. ASSUME NEW w \in Workers, Work(w) PROVE UNCHANGED chainVars
    BY <1>5 DEF Work, Calculate, FetchUserEMode, WriteEMode, StorePosition, Abandon
  <1> QED  BY <1>1, <1>3, <1>4, <1>5 DEF Next, GoLive, SetCurrentBlock, handleReserveDataUpdated, vars,
                                         chainVars
-----------------------------------------------------------------------------
\* The scaled amounts of the log the handler is at.
Scaled == RayDiv(l.amount, l.index)
Covered == RayDiv(l.cover, l.debtIndex)

\* What the handler at work knows of its log.
LEMMA LogFacts ==
    ASSUME Inv, applied < Len(logs)
    PROVE  /\ l \in Log /\ applied + 1 \in 1 .. Len(logs)
           /\ l.kind \in AllKinds /\ l.amount \in Nat
           /\ Scaled \in Nat /\ Covered \in Nat
           /\ l.kind # "emode" => l.asset \in Assets
           /\ l.kind # "emode" => l.debt \in Assets
  <1>1. applied + 1 \in 1 .. Len(logs) /\ logs \in Seq(Log)
    BY DEF Inv, HeldOK, LogsOK
  <1>2. l \in Log
    BY <1>1 DEF l
  <1>3. /\ l.amount \in Nat /\ l.cover \in Nat /\ l.index \in Nat \ {0} /\ l.debtIndex \in Nat \ {0}
    <2>1. l.index > 0 /\ l.debtIndex > 0
      BY <1>1 DEF l, Inv, LogsOK
    <2>2. l.amount \in Nat /\ l.cover \in Nat /\ l.index \in Nat /\ l.debtIndex \in Nat
      BY <1>2 DEF Log
    <2> QED  BY <2>1, <2>2
  <1>4. Scaled \in Nat /\ Covered \in Nat
    BY <1>3, Rounding DEF Scaled, Covered
  <1> QED  BY <1>1, <1>2, <1>3, <1>4 DEF Log, l, Inv, LogsOK

\* What Clean cuts off is dust.
LEMMA CleanFacts ==
    ASSUME NEW x \in Int
    PROVE  Clean(x) \in Nat /\ (x >= 0 => Clean(x) <= x /\ x - Clean(x) <= Dust) /\ (x < 0 => Clean(x) = 0)
  BY SyncAssumption DEF Clean, SyncAssumption

\* What a handler does to a position it still points into.
HandledPosition ==
    CASE l.kind = "supply" -> [pos EXCEPT !.coll[l.asset] = @ + Scaled]
      [] l.kind = "withdraw" -> [pos EXCEPT !.coll[l.asset] = Clean(@ - Scaled)]
      [] l.kind = "borrow" -> [pos EXCEPT !.debt[l.asset] = @ + Scaled]
      [] l.kind = "repay" -> [pos EXCEPT !.debt[l.asset] = Clean(@ - Scaled)]
      [] l.kind \in {"enable", "disable"} -> [pos EXCEPT !.used[l.asset] = (l.kind = "enable")]
      [] OTHER -> [pos EXCEPT !.debt[l.debt] = Clean(@ - Covered), !.coll[l.asset] = Clean(@ - Scaled)]

\* The fields of a handled position.
LEMMA HandledFacts ==
    ASSUME Inv, pos \in Position, applied < Len(logs), l.kind # "emode"
    PROVE  /\ HandledPosition \in Position
           /\ HandledPosition.emode = pos.emode /\ HandledPosition.fetched = pos.fetched
           /\ HandledPosition.coll =
                 CASE l.kind = "supply" -> [pos.coll EXCEPT ![l.asset] = @ + Scaled]
                   [] l.kind \in {"withdraw", "liquidation"} ->
                         [pos.coll EXCEPT ![l.asset] = Clean(@ - Scaled)]
                   [] OTHER -> pos.coll
           /\ HandledPosition.debt =
                 CASE l.kind = "borrow" -> [pos.debt EXCEPT ![l.asset] = @ + Scaled]
                   [] l.kind = "repay" -> [pos.debt EXCEPT ![l.asset] = Clean(@ - Scaled)]
                   [] l.kind = "liquidation" -> [pos.debt EXCEPT ![l.debt] = Clean(@ - Covered)]
                   [] OTHER -> pos.debt
           /\ HandledPosition.used =
                 IF l.kind \in {"enable", "disable"}
                 THEN [pos.used EXCEPT ![l.asset] = (l.kind = "enable")] ELSE pos.used
  <1>1. /\ l.asset \in Assets /\ (l.kind = "liquidation" => l.debt \in Assets)
        /\ Scaled \in Nat /\ Covered \in Nat /\ l.kind \in AllKinds
    BY LogFacts
  <1>2. /\ pos.coll \in [Assets -> Nat] /\ pos.debt \in [Assets -> Nat]
        /\ pos.used \in [Assets -> BOOLEAN]
    BY DEF Position
  <1>3. \A x \in Int : Clean(x) \in Nat
    BY CleanFacts
  <1>4. CASE l.kind = "supply"
    <2>1. HandledPosition = [pos EXCEPT !.coll[l.asset] = @ + Scaled]
      BY <1>4 DEF HandledPosition
    <2>2. pos.coll[l.asset] + Scaled \in Nat
      BY <1>1, <1>2
    <2> QED  BY <1>1, <1>2, <1>4, <2>1, <2>2 DEF Position
  <1>5. CASE l.kind = "withdraw"
    <2>1. HandledPosition = [pos EXCEPT !.coll[l.asset] = Clean(@ - Scaled)]
      BY <1>5 DEF HandledPosition
    <2>2. Clean(pos.coll[l.asset] - Scaled) \in Nat
      <3>1. pos.coll[l.asset] - Scaled \in Int
        BY <1>1, <1>2
      <3> QED  BY <1>3, <3>1, Zenon
    <2> QED  BY <1>1, <1>2, <1>5, <2>1, <2>2 DEF Position
  <1>6. CASE l.kind = "borrow"
    <2>1. HandledPosition = [pos EXCEPT !.debt[l.asset] = @ + Scaled]
      BY <1>6 DEF HandledPosition
    <2>2. pos.debt[l.asset] + Scaled \in Nat
      BY <1>1, <1>2
    <2> QED  BY <1>1, <1>2, <1>6, <2>1, <2>2 DEF Position
  <1>7. CASE l.kind = "repay"
    <2>1. HandledPosition = [pos EXCEPT !.debt[l.asset] = Clean(@ - Scaled)]
      BY <1>7 DEF HandledPosition
    <2>2. Clean(pos.debt[l.asset] - Scaled) \in Nat
      <3>1. pos.debt[l.asset] - Scaled \in Int
        BY <1>1, <1>2
      <3> QED  BY <1>3, <3>1, Zenon
    <2> QED  BY <1>1, <1>2, <1>7, <2>1, <2>2 DEF Position
  <1>8. CASE l.kind \in {"enable", "disable"}
    <2> DEFINE on == (l.kind = "enable")
               u == [pos.used EXCEPT ![l.asset] = on]
    <2>1. HandledPosition = [pos EXCEPT !.used[l.asset] = on]
      BY <1>8 DEF HandledPosition
    <2>2. on \in BOOLEAN
      OBVIOUS
    <2> HIDE DEF on
    <2>3. u \in [Assets -> BOOLEAN]
      BY <1>1, <1>2, <2>2
    <2>4. HandledPosition = [pos EXCEPT !.used = u]
      BY <2>1, Zenon
    <2> HIDE DEF u
    <2>5. /\ HandledPosition \in Position /\ HandledPosition.used = u
          /\ HandledPosition.coll = pos.coll /\ HandledPosition.debt = pos.debt
          /\ HandledPosition.emode = pos.emode /\ HandledPosition.fetched = pos.fetched
      BY <2>3, <2>4 DEF Position
    <2> QED  BY <1>8, <2>5 DEF u, on
  <1>9. CASE l.kind = "liquidation"
    <2> DEFINE c == [pos.coll EXCEPT ![l.asset] = Clean(@ - Scaled)]
               d == [pos.debt EXCEPT ![l.debt] = Clean(@ - Covered)]
    <2>1. HandledPosition = [pos EXCEPT !.debt[l.debt] = Clean(@ - Covered),
                                        !.coll[l.asset] = Clean(@ - Scaled)]
      BY <1>9 DEF HandledPosition
    <2>2. Clean(pos.coll[l.asset] - Scaled) \in Nat /\ Clean(pos.debt[l.debt] - Covered) \in Nat
      <3>1. pos.coll[l.asset] - Scaled \in Int /\ pos.debt[l.debt] - Covered \in Int
        BY <1>1, <1>2, <1>9
      <3> QED  BY <1>3, <3>1, Zenon
    <2>3. c \in [Assets -> Nat] /\ d \in [Assets -> Nat]
      BY <1>1, <1>2, <1>9, <2>2
    <2>4. HandledPosition = [pos EXCEPT !.debt = d, !.coll = c]
      BY <1>2, <2>1 DEF Position
    <2> HIDE DEF c, d
    <2>5. /\ HandledPosition \in Position /\ HandledPosition.used = pos.used
          /\ HandledPosition.coll = c /\ HandledPosition.debt = d
          /\ HandledPosition.emode = pos.emode /\ HandledPosition.fetched = pos.fetched
      BY <2>3, <2>4 DEF Position
    <2> QED  BY <1>9, <2>5 DEF c, d
  <1> QED  BY <1>1, <1>4, <1>5, <1>6, <1>7, <1>8, <1>9 DEF AllKinds

\* A handler changes the position through pointers that are live, and the E-mode never.
LEMMA HandleEffect ==
    ASSUME Inv, pos \in Position, Handle, ~GetUserReserve, ~handleUserEModeSet, ~PassOver
    PROVE  /\ applied < Len(logs) /\ l.kind # "emode"
           /\ applied' = applied + 1 /\ held' = <<>>
           /\ UNCHANGED <<chainVars, live, current, subs, work, indices, sound, overtaken, replaced>>
           /\ pos' \in Position /\ pos'.emode = pos.emode /\ pos'.fetched = pos.fetched
           /\ (\A i \in 1 .. Len(held) : held[i] = "live") => pos' = HandledPosition
  <1>1. /\ applied < Len(logs) /\ l.kind # "emode" /\ Len(held) = Len(Reserves)
        /\ applied' = applied + 1 /\ held' = <<>>
        /\ UNCHANGED <<chainVars, live, current, subs, work, indices, sound, overtaken, replaced>>
    BY DEF Handle, handleSupply, handleWithdraw, handleBorrow, handleRepay, handleCollateral,
           handleLiquidationCall, Ready, Handled, Popped
  <1>2. /\ HandledPosition \in Position
        /\ HandledPosition.emode = pos.emode /\ HandledPosition.fetched = pos.fetched
    BY <1>1, HandledFacts
  <1>3. 1 \in 1 .. Len(held) /\ (l.kind = "liquidation" => 2 \in 1 .. Len(held))
    BY <1>1 DEF Reserves
  <1>4. CASE ~handleLiquidationCall
    <2>1. pos' = Through(1, HandledPosition)
      <3>1. CASE handleSupply
        BY <3>1 DEF handleSupply, HandledPosition, Ready, Scaled
      <3>2. CASE handleWithdraw
        BY <3>2 DEF handleWithdraw, HandledPosition, Ready, Scaled
      <3>3. CASE handleBorrow
        BY <3>3 DEF handleBorrow, HandledPosition, Ready, Scaled
      <3>4. CASE handleRepay
        BY <3>4 DEF handleRepay, HandledPosition, Ready, Scaled
      <3>5. CASE handleCollateral
        <4>1. l.kind \in {"enable", "disable"}
          BY <3>5 DEF handleCollateral, Ready
        <4>2. HandledPosition = [pos EXCEPT !.used[l.asset] = (l.kind = "enable")]
          BY <4>1 DEF HandledPosition
        <4>3. pos' = Through(1, [pos EXCEPT !.used[l.asset] = (l.kind = "enable")])
          BY <3>5 DEF handleCollateral
        <4> QED  BY <4>2, <4>3, Zenon
      <3> QED  BY <1>4, <3>1, <3>2, <3>3, <3>4, <3>5 DEF Handle
    <2> QED  BY <1>1, <1>2, <1>3, <2>1 DEF Through
  <1>5. CASE handleLiquidationCall
    <2> DEFINE c == IF held[2] = "live" THEN Clean(pos.coll[l.asset] - Scaled) ELSE pos.coll[l.asset]
               d == IF held[1] = "live" THEN Clean(pos.debt[l.debt] - Covered) ELSE pos.debt[l.debt]
    <2>1. l.kind = "liquidation"
      BY <1>5 DEF handleLiquidationCall, Ready
    <2>2. /\ l.asset \in Assets /\ l.debt \in Assets /\ Scaled \in Nat /\ Covered \in Nat
          /\ pos.coll \in [Assets -> Nat] /\ pos.debt \in [Assets -> Nat]
      BY <1>1, <2>1, LogFacts DEF Position
    <2>3. pos' = [pos EXCEPT !.debt[l.debt] = d, !.coll[l.asset] = c]
      BY <1>5 DEF handleLiquidationCall, Scaled, Covered
    <2>4. c \in Nat /\ d \in Nat
      <3>1. pos.coll[l.asset] - Scaled \in Int /\ pos.debt[l.debt] - Covered \in Int
        BY <2>2
      <3>2. Clean(pos.coll[l.asset] - Scaled) \in Nat /\ Clean(pos.debt[l.debt] - Covered) \in Nat
        BY <3>1, CleanFacts
      <3> QED  BY <2>2, <3>2
    <2>5. (\A i \in 1 .. Len(held) : held[i] = "live") => pos' = HandledPosition
      <3>1. HandledPosition = [pos EXCEPT !.debt[l.debt] = Clean(@ - Covered),
                                          !.coll[l.asset] = Clean(@ - Scaled)]
        BY <2>1 DEF HandledPosition
      <3>2. ASSUME \A i \in 1 .. Len(held) : held[i] = "live" PROVE pos' = HandledPosition
        <4>1. held[1] = "live" /\ held[2] = "live"
          BY <1>3, <2>1, <3>2
        <4> QED  BY <1>5, <3>1, <4>1 DEF handleLiquidationCall, Scaled, Covered
      <3> QED  BY <3>2
    <2> DEFINE cs == [pos.coll EXCEPT ![l.asset] = c]
               ds == [pos.debt EXCEPT ![l.debt] = d]
    <2>6. cs \in [Assets -> Nat] /\ ds \in [Assets -> Nat]
      BY <2>2, <2>4
    <2>7. pos' = [pos EXCEPT !.debt = ds, !.coll = cs]
      BY <2>3 DEF Position
    <2> HIDE DEF cs, ds, c, d
    <2>8. pos' \in Position /\ pos'.emode = pos.emode /\ pos'.fetched = pos.fetched
      BY <2>6, <2>7 DEF Position
    <2> QED  BY <1>1, <2>5, <2>8
  <1> QED  BY <1>4, <1>5

LEMMA InitTypes == Init => TypeOK
  <1> SUFFICES ASSUME Init PROVE TypeOK
    OBVIOUS
  <1>1. truth \in Seq(ChainPosition) /\ Len(truth) = 1
    <2>1. Len(logs) = 0
      BY DEF Init
    <2> QED  BY <2>1, InitChain DEF ChainOK
  <1>2. PICK coll \in [Assets -> Nat], debt \in [Assets -> Nat], cat \in Nat :
            Bootstrapped(coll, debt, cat)
    BY InitFacts
  <1> DEFINE loaded == \E a \in Assets : debt[a] > 0
             kept == {a \in Assets : loaded /\ (coll[a] > Dust \/ debt[a] > Dust)}
  <1>4. ASSUME NEW a \in Assets PROVE Clean(coll[a]) \in Nat /\ Clean(debt[a]) \in Nat
    <2>1. coll[a] \in Int /\ debt[a] \in Int
      OBVIOUS
    <2> QED  BY <2>1, CleanFacts
  <1>5. loaded \in BOOLEAN /\ kept \subseteq Assets
    OBVIOUS
  <1>6. /\ pos.known = loaded /\ pos.fetched = loaded /\ pos.has = kept /\ subs = kept
        /\ pos.emode = IF loaded THEN cat ELSE 0
        /\ pos = [known |-> pos.known, has |-> pos.has, coll |-> pos.coll, debt |-> pos.debt,
                  used |-> pos.used, emode |-> pos.emode, fetched |-> pos.fetched]
    BY <1>2 DEF Bootstrapped
  <1>7. pos.coll \in [Assets -> Nat] /\ pos.debt \in [Assets -> Nat]
    <2>1. /\ pos.coll = [a \in Assets |-> IF a \in kept THEN Clean(coll[a]) ELSE 0]
          /\ pos.debt = [a \in Assets |-> IF a \in kept THEN Clean(debt[a]) ELSE 0]
      BY <1>2 DEF Bootstrapped
    <2> HIDE DEF kept
    <2> QED  BY <1>4, <2>1
  <1>8. pos.used \in [Assets -> BOOLEAN]
    BY <1>2 DEF Bootstrapped
  <1>9. sound \in BOOLEAN
    BY <1>2 DEF Bootstrapped
  <1>10. pos \in Position /\ subs \subseteq Assets
    <2> HIDE DEF loaded, kept
    <2>1. pos.emode \in Nat
      BY <1>2, <1>6
    <2> QED  BY <1>5, <1>6, <1>7, <1>8, <2>1 DEF Position
  <1>11. work \in [Workers -> WorkType]
    BY DEF Init, Resting, WorkType
  <1>12. Anchor \in Nat
    BY SyncAssumption DEF SyncAssumption
  <1>13. /\ logs = <<>> /\ Len(logs) = 0 /\ head = Anchor /\ applied = 0 /\ live = FALSE
         /\ held = <<>> /\ Len(held) = 0 /\ current = Anchor /\ overtaken = FALSE /\ replaced = FALSE
         /\ indexed \subseteq Assets /\ passed = {}
    BY SyncAssumption DEF Init, SyncAssumption
  <1>14. logs \in Seq(Log) /\ held \in Seq({"live", "orphan"})
    BY <1>13
  <1>15. live \in BOOLEAN /\ overtaken \in BOOLEAN /\ replaced \in BOOLEAN
    BY <1>13, Zenon
  <1>16. /\ Len(truth) = Len(logs) + 1 /\ head \in Nat /\ applied \in 0 .. Len(logs)
         /\ Len(held) <= 2 /\ current \in Nat /\ indexed \subseteq Assets /\ passed \subseteq Assets
    <2> HIDE DEF loaded, kept
    <2> QED  BY <1>1, <1>12, <1>13
  <1> QED  BY <1>1, <1>9, <1>10, <1>11, <1>14, <1>15, <1>16, Zenon DEF TypeOK

\* The answer a worker holds covers logs there are, and what entered the store complete is
\* behind every pointer of the handler.
PointersOK ==
    /\ \A w \in Workers : work[w].seen \in 0 .. Len(logs)
    /\ sound => \A i \in 1 .. Len(held) : held[i] = "live"

\* What a step other than one of the chain does to the types of the store and the workers.
LEMMA WorkTypes ==
    ASSUME Inv, ChainOK, TypeOK, PointersOK, NEW w \in Workers, Work(w)
    PROVE  /\ UNCHANGED <<chainVars, applied, live, current, subs, indexed>>
           /\ passed' \in {passed, {}}
           /\ held' \in Seq({"live", "orphan"}) /\ Len(held') = Len(held)
           /\ pos' \in Position /\ work' \in [Workers -> WorkType]
           /\ sound' \in BOOLEAN /\ overtaken' \in BOOLEAN /\ replaced' \in BOOLEAN
  <1>1. /\ work \in [Workers -> WorkType] /\ work[w] \in WorkType /\ pos \in Position
        /\ current \in Nat /\ head \in Nat /\ held \in Seq({"live", "orphan"})
        /\ sound \in BOOLEAN /\ overtaken \in BOOLEAN /\ replaced \in BOOLEAN
        /\ applied \in 0 .. Len(logs) /\ logs \in Seq(Log)
    BY DEF TypeOK
  <1>2. \A b \in Nat : LogsUpTo(b) \in 0 .. Len(logs)
    BY LogsUpToType
  <1>3. \A k \in 0 .. Len(logs) : truth[k + 1] \in ChainPosition
    BY <1>1 DEF ChainOK
  <1>4. \A j, k : EModeSetBetween(j, k) \in BOOLEAN
    BY DEF EModeSetBetween
  <1>5. Resting \in WorkType
    BY DEF Resting, WorkType
  <1>6. CASE Calculate(w)
    <2>1. pos.fetched \in BOOLEAN
      BY <1>1 DEF Position
    <2> QED  BY <1>1, <1>6, <2>1 DEF Calculate, WorkType, indices
  <1>7. CASE FetchUserEMode(w)
    <2>1. LogsUpTo(head) \in Nat
      <3>1. head \in Nat /\ LogsUpTo(head) \in 0 .. Len(logs)
        BY <1>1, <1>2
      <3> QED  BY <3>1
    <2>2. work' = [work EXCEPT ![w].pc = "loaded", ![w].seen = LogsUpTo(head)]
      BY <1>7 DEF FetchUserEMode
    <2>3. work' \in [Workers -> WorkType]
      BY <1>1, <2>1, <2>2 DEF WorkType
    <2> QED  BY <1>1, <1>7, <2>3 DEF FetchUserEMode, indices
  <1>8. CASE WriteEMode(w)
    <2>1. work' = [work EXCEPT ![w].pc = "calculated", ![w].fetched = TRUE, ![w].seen = 0,
                               ![w].block = current]
      BY <1>8 DEF WriteEMode
    <2>2. work' \in [Workers -> WorkType]
      BY <1>1, <2>1 DEF WorkType
    <2>3. UNCHANGED <<pos, overtaken>>
          \/ /\ pos' = [pos EXCEPT !.emode = truth[work[w].seen + 1].emode, !.fetched = TRUE]
             /\ overtaken' = EModeSetBetween(work[w].seen, applied)
      BY <1>8 DEF WriteEMode
    <2>4. truth[work[w].seen + 1].emode \in Nat
      <3>1. truth[work[w].seen + 1] \in ChainPosition
        BY <1>3 DEF PointersOK
      <3> QED  BY <3>1 DEF ChainPosition
    <2>5. pos' \in Position /\ overtaken' \in BOOLEAN
      <3>1. CASE UNCHANGED <<pos, overtaken>>
        BY <1>1, <3>1
      <3>2. CASE ~UNCHANGED <<pos, overtaken>>
        BY <1>1, <1>4, <2>3, <2>4, <3>2 DEF Position
      <3> QED  BY <3>1, <3>2
    <2> QED  BY <1>1, <1>8, <2>2, <2>5 DEF WriteEMode, indices
  <1>9. CASE StorePosition(w)
    <2>1. work[w].block \in Nat
      BY <1>1 DEF WorkType
    <2>2. LogsUpTo(work[w].block) \in 0 .. Len(logs)
      BY <1>2, <2>1
    <2>3. pos' \in Position
      <3>1. truth[LogsUpTo(work[w].block) + 1] \in ChainPosition
        BY <1>3, <2>2
      <3>2. pos' = Fetched(work[w].block)
        BY <1>9 DEF StorePosition
      <3> QED  BY <3>1, <3>2 DEF Fetched, Position, ChainPosition
    <2>4. held' \in Seq({"live", "orphan"}) /\ Len(held') = Len(held)
      BY <1>1, <1>9 DEF StorePosition
    <2>5. work' \in [Workers -> WorkType]
      <3>1. \A x \in Workers : [work[x] EXCEPT !.ptr = Orphaned(@)] \in WorkType
        BY <1>1 DEF Orphaned, WorkType
      <3>2. work' = [x \in Workers |-> IF x = w THEN Resting
                                       ELSE [work[x] EXCEPT !.ptr = Orphaned(@)]]
        BY <1>9 DEF StorePosition
      <3> QED  BY <1>5, <3>1, <3>2
    <2> QED  BY <1>4, <1>9, <2>3, <2>4, <2>5 DEF StorePosition
  <1>10. CASE Abandon(w)
    BY <1>1, <1>5, <1>10 DEF Abandon, indices
  <1> QED  BY <1>6, <1>7, <1>8, <1>9, <1>10 DEF Work

LEMMA NextTypes == ASSUME Inv, Inv', ChainOK, ChainOK', TypeOK, PointersOK, [Next]_vars PROVE TypeOK'
  <1>1. /\ logs \in Seq(Log) /\ truth \in Seq(ChainPosition) /\ Len(truth) = Len(logs) + 1
        /\ head \in Nat /\ applied \in 0 .. Len(logs) /\ live \in BOOLEAN
        /\ held \in Seq({"live", "orphan"}) /\ Len(held) <= 2
        /\ current \in Nat /\ pos \in Position /\ subs \subseteq Assets
        /\ work \in [Workers -> WorkType] /\ sound \in BOOLEAN /\ overtaken \in BOOLEAN
        /\ replaced \in BOOLEAN /\ indexed \subseteq Assets /\ passed \subseteq Assets
    BY DEF TypeOK
  <1>2. /\ logs' \in Seq(Log) /\ truth' \in Seq(ChainPosition) /\ Len(truth') = Len(logs') + 1
        /\ head' \in Nat /\ held' \in Seq({"live", "orphan"})
    BY DEF Inv, LogsOK, HeldOK, ChainOK
  <1>3. CASE UNCHANGED <<applied, live, held, current, pos, subs, work, indices, sound, overtaken, replaced>>
             /\ Len(logs') >= Len(logs)
    <2>1. applied' \in 0 .. Len(logs')
      BY <1>1, <1>2, <1>3
    <2> QED  BY <1>1, <1>2, <1>3, <2>1 DEF TypeOK, indices
  <1>4. ASSUME NEW kind \in Kinds, NEW a, NEW d, NEW n, NEW m, NEW i0, NEW j0, Emit(kind, a, d, n, m, i0, j0)
        PROVE  TypeOK'
    <2>1. PICK x : logs' = Append(logs, x)
      BY <1>4 DEF Emit
    <2>2. Len(logs') >= Len(logs)
      BY <1>1, <2>1
    <2> QED  BY <1>3, <1>4, <2>2 DEF Emit
  <1>5. CASE Mine
    BY <1>1, <1>3, <1>5 DEF Mine
  <1>6. CASE GoLive
    <2>1. UNCHANGED <<chainVars, applied, held, current, pos, subs, work, indices, sound, overtaken, replaced>>
          /\ live' \in BOOLEAN
      BY <1>6 DEF GoLive
    <2> QED  BY <1>1, <1>2, <2>1 DEF TypeOK, chainVars, indices
  <1>7. ASSUME NEW b \in Anchor .. MaxBlock, SetCurrentBlock(b) PROVE TypeOK'
    <2>1. b \in Nat
      BY SyncAssumption DEF SyncAssumption
    <2>2. UNCHANGED <<chainVars, applied, live, held, pos, subs, work, indices, sound, overtaken, replaced>>
          /\ current' \in Nat
      BY <1>7, <2>1 DEF SetCurrentBlock
    <2> QED  BY <1>1, <1>2, <2>2 DEF TypeOK, chainVars, indices
  <1>8. CASE GetUserReserve
    <2> DEFINE a == Reserves[Len(held) + 1]
    <2>1. /\ applied < Len(logs) /\ l.kind # "emode" /\ Len(held) < Len(Reserves)
          /\ pos' = [pos EXCEPT !.known = TRUE, !.has = @ \cup {a}]
          /\ subs' = IF a \notin pos.has THEN subs \cup {a} ELSE subs
          /\ held' = Append(held, "live")
          /\ UNCHANGED <<chainVars, applied, live, current, work, indices, sound, overtaken, replaced>>
      BY <1>8 DEF GetUserReserve, Popped
    <2>2. a \in Assets /\ Len(Reserves) <= 2
      <3>1. Len(held) + 1 \in 1 .. Len(Reserves)
        BY <1>1, <2>1, ReservesAreAssets
      <3> QED  BY <2>1, <3>1, ReservesAreAssets DEF Reserves
    <2>3. pos' \in Position /\ subs' \subseteq Assets
      BY <1>1, <2>1, <2>2 DEF Position
    <2>4. Len(held') <= 2
      BY <1>1, <2>1, <2>2, ReservesAreAssets
    <2> QED  BY <1>1, <1>2, <2>1, <2>3, <2>4 DEF TypeOK, chainVars, indices
  <1>9. CASE handleUserEModeSet
    <2>1. /\ applied < Len(logs) /\ applied' = applied + 1 /\ overtaken' = FALSE
          /\ pos' = [pos EXCEPT !.known = TRUE, !.emode = l.amount, !.fetched = TRUE]
          /\ UNCHANGED <<chainVars, live, held, current, subs, work, indices, sound, replaced>>
      BY <1>9 DEF handleUserEModeSet, Popped
    <2>2. l.amount \in Nat
      BY <2>1, LogFacts
    <2>3. pos' \in Position
      BY <1>1, <2>1, <2>2 DEF Position
    <2>4. applied' \in 0 .. Len(logs)
      BY <1>1, <2>1
    <2> QED  BY <1>1, <1>2, <2>1, <2>3, <2>4 DEF TypeOK, chainVars, indices
  <1>10. CASE Handle /\ ~GetUserReserve /\ ~handleUserEModeSet /\ ~PassOver
    <2>1. /\ applied < Len(logs) /\ applied' = applied + 1 /\ held' = <<>> /\ pos' \in Position
          /\ UNCHANGED <<chainVars, live, current, subs, work, indices, sound, overtaken, replaced>>
      BY <1>1, <1>10, HandleEffect
    <2>2. applied' \in 0 .. Len(logs) /\ Len(held') <= 2
      BY <1>1, <2>1
    <2> QED  BY <1>1, <1>2, <2>1, <2>2 DEF TypeOK, chainVars, indices
  <1>11. ASSUME NEW w \in Workers, Work(w) PROVE TypeOK'
    <2>1. /\ UNCHANGED <<chainVars, applied, live, current, subs, indexed>>
          /\ passed' \in {passed, {}}
          /\ held' \in Seq({"live", "orphan"}) /\ Len(held') = Len(held)
          /\ pos' \in Position /\ work' \in [Workers -> WorkType]
          /\ sound' \in BOOLEAN /\ overtaken' \in BOOLEAN /\ replaced' \in BOOLEAN
      BY <1>11, WorkTypes
    <2> QED  BY <1>1, <1>2, <2>1 DEF TypeOK, chainVars, indices
  <1>12. CASE UNCHANGED vars
    BY <1>1, <1>3, <1>12 DEF vars
  <1>13. CASE PassOver
    <2>1. /\ applied < Len(logs) /\ applied' = applied + 1 /\ passed' = passed \cup {l.asset, l.debt}
          /\ l.kind # "emode"
          /\ UNCHANGED <<chainVars, live, held, current, pos, subs, work, indexed, sound, overtaken,
                         replaced>>
      BY <1>13 DEF PassOver, Popped, IndexMissing
    <2>2. l.asset \in Assets /\ l.debt \in Assets
      BY <2>1, LogFacts
    <2>3. applied' \in 0 .. Len(logs) /\ passed' \subseteq Assets
      BY <1>1, <2>1, <2>2
    <2> QED  BY <1>1, <1>2, <2>1, <2>3 DEF TypeOK, chainVars
  <1>14. ASSUME NEW a \in Assets, handleReserveDataUpdated(a) PROVE TypeOK'
    <2>1. /\ UNCHANGED <<chainVars, applied, live, held, current, pos, subs, work, passed, sound,
                         overtaken, replaced>>
          /\ indexed' \subseteq Assets
      BY <1>1, <1>14 DEF handleReserveDataUpdated
    <2> QED  BY <1>1, <1>2, <2>1 DEF TypeOK, chainVars
  <1> QED  BY <1>4, <1>5, <1>6, <1>7, <1>8, <1>9, <1>10, <1>11, <1>12, <1>13, <1>14
              DEF Next, Chain, Handle

LEMMA NextPointers ==
    ASSUME Inv, ChainOK, TypeOK, PointersOK, [Next]_vars PROVE PointersOK'
  <1>1. /\ \A w \in Workers : work[w].seen \in 0 .. Len(logs)
        /\ sound => \A i \in 1 .. Len(held) : held[i] = "live"
        /\ logs \in Seq(Log) /\ held \in Seq({"live", "orphan"}) /\ head \in Nat
        /\ work \in [Workers -> WorkType] /\ Len(logs) \in Nat
    BY DEF PointersOK, TypeOK
  <1>2. CASE UNCHANGED <<held, work, sound>> /\ Len(logs') >= Len(logs) /\ logs' \in Seq(Log)
    BY <1>1, <1>2 DEF PointersOK
  <1>3. ASSUME NEW kind \in Kinds, NEW a \in Assets \cup {NoAsset}, NEW d \in Assets \cup {NoAsset},
               NEW n \in Amounts \cup Categories \cup {0}, NEW m \in Amounts \cup Categories \cup {0},
               NEW i0 \in Indices, NEW j0 \in Indices, Emit(kind, a, d, n, m, i0, j0)
        PROVE  PointersOK'
    <2>1. PICK x : logs' = Append(logs, x)
      BY <1>3 DEF Emit
    <2>2. Inv'
      BY <1>3, EmitInv
    <2>3. Len(logs') >= Len(logs) /\ logs' \in Seq(Log)
      BY <1>1, <2>1, <2>2 DEF Inv, LogsOK
    <2> QED  BY <1>2, <1>3, <2>3 DEF Emit
  <1>4. CASE GetUserReserve
    <2>1. held' = Append(held, "live") /\ UNCHANGED <<logs, work, sound>>
      BY <1>4 DEF GetUserReserve, chainVars
    <2> QED  BY <1>1, <2>1 DEF PointersOK
  <1>5. CASE handleUserEModeSet
    BY <1>1, <1>2, <1>5 DEF handleUserEModeSet, chainVars
  <1>6. CASE Handle /\ ~GetUserReserve /\ ~handleUserEModeSet /\ ~PassOver
    <2>1. held' = <<>> /\ UNCHANGED <<logs, work, sound>>
      BY <1>6, HandleEffect DEF TypeOK, chainVars
    <2> QED  BY <1>1, <2>1 DEF PointersOK
  <1>7. ASSUME NEW w \in Workers, Work(w) PROVE PointersOK'
    <2>1. UNCHANGED logs /\ work' \in [Workers -> WorkType]
      BY <1>7, WorkTypes DEF chainVars
    <2>2. CASE StorePosition(w)
      <3>1. /\ held' = [i \in 1 .. Len(held) |-> "orphan"]
            /\ sound' = (held = <<>> /\ applied = LogsUpTo(work[w].block))
            /\ work' = [x \in Workers |-> IF x = w THEN Resting
                                          ELSE [work[x] EXCEPT !.ptr = Orphaned(@)]]
        BY <2>2 DEF StorePosition
      <3>2. \A x \in Workers : work'[x].seen \in 0 .. Len(logs)
        BY <1>1, <3>1 DEF Resting, WorkType
      <3>3. sound' => Len(held') = 0
        <4>1. Len(held') = Len(held)
          BY <1>1, <3>1
        <4>2. sound' => held = <<>>
          BY <3>1
        <4> QED  BY <4>1, <4>2
      <3> QED  BY <2>1, <3>2, <3>3 DEF PointersOK
    <2>3. CASE ~StorePosition(w)
      <3>1. UNCHANGED <<held, sound>>
        BY <1>7, <2>3 DEF Work, Calculate, FetchUserEMode, WriteEMode, Abandon
      <3>2. \A x \in Workers : x # w => work'[x] = work[x]
        BY <1>1, <1>7, <2>3 DEF Work, Calculate, FetchUserEMode, WriteEMode, Abandon
      <3>3. work'[w].seen \in 0 .. Len(logs)
        <4>1. LogsUpTo(head) \in 0 .. Len(logs)
          BY <1>1, LogsUpToType
        <4>2. CASE Calculate(w)
          BY <1>1, <4>2 DEF Calculate
        <4>3. CASE FetchUserEMode(w)
          BY <1>1, <4>1, <4>3 DEF FetchUserEMode, WorkType
        <4>4. CASE WriteEMode(w)
          BY <1>1, <4>4 DEF WriteEMode, WorkType
        <4>5. CASE Abandon(w)
          BY <1>1, <4>5 DEF Abandon, Resting
        <4> QED  BY <1>7, <2>3, <4>2, <4>3, <4>4, <4>5 DEF Work
      <3> QED  BY <1>1, <2>1, <3>1, <3>2, <3>3 DEF PointersOK
    <2> QED  BY <2>2, <2>3
  <1>8. CASE Mine \/ GoLive \/ UNCHANGED vars \/ \E b \in Anchor .. MaxBlock : SetCurrentBlock(b)
    BY <1>1, <1>2, <1>8 DEF Mine, GoLive, SetCurrentBlock, vars, chainVars
  <1>9. CASE PassOver \/ \E a \in Assets : handleReserveDataUpdated(a)
    BY <1>1, <1>2, <1>9 DEF PassOver, handleReserveDataUpdated, chainVars
  <1> QED  BY <1>3, <1>4, <1>5, <1>6, <1>7, <1>8, <1>9 DEF Next, Chain, Handle
-----------------------------------------------------------------------------
\* Without a UserEModeSet between them, two points of the history have the same category.
LEMMA SameEMode ==
    ASSUME Inv, ChainOK, NEW j \in 0 .. Len(logs), NEW k \in 0 .. Len(logs), ~EModeSetBetween(j, k)
    PROVE  truth[j + 1].emode = truth[k + 1].emode
  <1>1. logs \in Seq(Log) /\ Len(logs) \in Nat
    BY DEF Inv, LogsOK
  <1>2. \A i \in 1 .. Len(logs) : i \in (j + 1) .. k \/ i \in (k + 1) .. j => logs[i].kind # "emode"
    BY DEF EModeSetBetween
  <1>3. CASE j <= k
    <2>1. \A i \in (j + 1) .. k : logs[i].kind # "emode"
      BY <1>1, <1>2
    <2> QED  BY <1>3, <2>1 DEF ChainOK
  <1>4. CASE k <= j
    <2>1. \A i \in (k + 1) .. j : logs[i].kind # "emode"
      BY <1>1, <1>2
    <2> QED  BY <1>4, <2>1 DEF ChainOK
  <1> QED  BY <1>3, <1>4

\* The chain's position after the log a handler is at.
LEMMA NextTruth ==
    ASSUME Inv, ChainOK, TypeOK, applied < Len(logs)
    PROVE  /\ truth[applied + 1] \in ChainPosition
           /\ StepOf(truth[applied + 1], l, truth[(applied + 1) + 1])
  <1>1. applied \in Nat /\ Len(logs) \in Nat /\ applied + 1 \in 1 .. Len(logs)
    BY LogFacts DEF TypeOK
  <1>2. truth \in Seq(ChainPosition) /\ Len(truth) = Len(logs) + 1
    BY DEF ChainOK
  <1>3. truth[applied + 1] \in ChainPosition
    BY <1>1, <1>2
  <1> QED  BY <1>1, <1>3 DEF ChainOK, l

\* A new log leaves the positions before it.
LEMMA EmitTruth ==
    ASSUME Inv, ChainOK, TypeOK, NEW kind, NEW a, NEW d, NEW n, NEW m, NEW i0, NEW j0, Emit(kind, a, d, n, m, i0, j0)
    PROVE  \A k \in 1 .. Len(logs) + 1 : truth'[k] = truth[k]
  <1>1. PICK q : truth' = Append(truth, q)
    BY DEF Emit
  <1>2. truth \in Seq(ChainPosition) /\ Len(truth) = Len(logs) + 1
    BY DEF ChainOK
  <1> QED  BY <1>1, <1>2

\* Only a UserEModeSet changes the category.
LEMMA SameCategory ==
    ASSUME Inv, ChainOK, TypeOK, applied < Len(logs), l.kind # "emode"
    PROVE  truth[(applied + 1) + 1].emode = truth[applied + 1].emode
  <1> DEFINE p == truth[applied + 1]
             q == truth[(applied + 1) + 1]
  <1>1. p \in ChainPosition /\ StepOf(p, l, q)
    BY NextTruth
  <1> HIDE DEF p, q
  <1>2. PICK s \in Nat, t \in Nat : Allowed(p, l, s, t) /\ q = After(p, l, s, t)
    BY <1>1 DEF StepOf
  <1>3. q.emode = p.emode
    BY <1>1, <1>2, LogFacts, AfterType
  <1> QED  BY <1>3 DEF p, q

LEMMA NextEMode ==
    ASSUME Inv, ChainOK, TypeOK, PointersOK, EModeAgrees, [Next]_vars PROVE EModeAgrees'
  <1>1. /\ applied \in 0 .. Len(logs) /\ Len(logs) \in Nat /\ pos \in Position
        /\ work \in [Workers -> WorkType]
    BY DEF TypeOK
  <1>2. pos.fetched /\ ~overtaken => pos.emode = truth[applied + 1].emode
    BY DEF EModeAgrees
  <1>3. CASE UNCHANGED <<pos, applied, overtaken>> /\ truth'[applied + 1] = truth[applied + 1]
    BY <1>2, <1>3 DEF EModeAgrees
  <1>4. ASSUME NEW kind, NEW a, NEW d, NEW n, NEW m, NEW i0, NEW j0, Emit(kind, a, d, n, m, i0, j0) PROVE EModeAgrees'
    <2>1. applied + 1 \in 1 .. Len(logs) + 1
      BY <1>1
    <2>2. truth'[applied + 1] = truth[applied + 1]
      BY <1>4, <2>1, EmitTruth
    <2> QED  BY <1>3, <1>4, <2>2 DEF Emit
  <1>5. CASE GetUserReserve
    <2>1. UNCHANGED <<truth, applied, overtaken>> /\ pos'.fetched = pos.fetched /\ pos'.emode = pos.emode
      BY <1>1, <1>5 DEF GetUserReserve, chainVars, Position
    <2> QED  BY <1>2, <2>1 DEF EModeAgrees
  <1>6. CASE handleUserEModeSet
    <2>1. /\ applied < Len(logs) /\ applied' = applied + 1 /\ l.kind = "emode" /\ UNCHANGED truth
          /\ pos' = [pos EXCEPT !.known = TRUE, !.emode = l.amount, !.fetched = TRUE]
      BY <1>6 DEF handleUserEModeSet, Popped, chainVars
    <2>2. truth[(applied + 1) + 1].emode = l.amount
      BY <2>1, NextTruth DEF StepOf, After, ChainPosition
    <2>3. pos'.emode = l.amount
      BY <1>1, <2>1 DEF Position
    <2> QED  BY <2>1, <2>2, <2>3 DEF EModeAgrees
  <1>7. CASE Handle /\ ~GetUserReserve /\ ~handleUserEModeSet /\ ~PassOver
    <2>1. /\ applied < Len(logs) /\ applied' = applied + 1 /\ l.kind # "emode"
          /\ UNCHANGED <<truth, overtaken>> /\ pos'.fetched = pos.fetched /\ pos'.emode = pos.emode
      BY <1>1, <1>7, HandleEffect DEF chainVars
    <2>2. truth[(applied + 1) + 1].emode = truth[applied + 1].emode
      BY <2>1, SameCategory
    <2> QED  BY <1>2, <2>1, <2>2 DEF EModeAgrees
  <1>8. ASSUME NEW w \in Workers, Work(w) PROVE EModeAgrees'
    <2>1. UNCHANGED <<truth, applied>>
      BY <1>8, WorkTypes DEF chainVars
    <2>2. CASE WriteEMode(w) /\ work[w].ptr = "live"
      <3>1. /\ pos' = [pos EXCEPT !.emode = truth[work[w].seen + 1].emode, !.fetched = TRUE]
            /\ overtaken' = EModeSetBetween(work[w].seen, applied)
        BY <2>2 DEF WriteEMode
      <3>2. pos'.emode = truth[work[w].seen + 1].emode
        BY <1>1, <3>1 DEF Position
      <3>3. work[w].seen \in 0 .. Len(logs)
        BY DEF PointersOK
      <3>4. ~overtaken' => truth[work[w].seen + 1].emode = truth[applied + 1].emode
        BY <1>1, <3>1, <3>3, SameEMode
      <3> QED  BY <2>1, <3>2, <3>4 DEF EModeAgrees
    <2>3. CASE StorePosition(w)
      <3> DEFINE k == LogsUpTo(work[w].block)
      <3>1. pos' = Fetched(work[w].block) /\ overtaken' = EModeSetBetween(k, applied)
        BY <2>3 DEF StorePosition
      <3>2. pos'.emode = truth[k + 1].emode
        BY <3>1 DEF Fetched
      <3>3. k \in 0 .. Len(logs)
        <4>1. work[w].block \in Nat
          BY <1>1 DEF WorkType
        <4> QED  BY <4>1, LogsUpToType
      <3> HIDE DEF k
      <3>4. ~overtaken' => truth[k + 1].emode = truth[applied + 1].emode
        BY <1>1, <3>1, <3>3, SameEMode
      <3> QED  BY <2>1, <3>2, <3>4 DEF EModeAgrees
    <2>4. CASE UNCHANGED <<pos, overtaken>>
      BY <1>3, <2>1, <2>4
    <2> QED  BY <1>8, <2>2, <2>3, <2>4 DEF Work, Calculate, FetchUserEMode, WriteEMode, Abandon
  <1>9. CASE Mine \/ GoLive \/ UNCHANGED vars \/ \E b \in Anchor .. MaxBlock : SetCurrentBlock(b)
    BY <1>3, <1>9 DEF Mine, GoLive, SetCurrentBlock, vars, chainVars
  <1>10. CASE PassOver
    <2>1. /\ applied < Len(logs) /\ applied' = applied + 1 /\ l.kind # "emode"
          /\ UNCHANGED <<truth, overtaken, pos>>
      BY <1>10 DEF PassOver, Popped, IndexMissing, chainVars
    <2>2. truth[(applied + 1) + 1].emode = truth[applied + 1].emode
      BY <2>1, SameCategory
    <2> QED  BY <1>2, <2>1, <2>2 DEF EModeAgrees
  <1>11. CASE \E a \in Assets : handleReserveDataUpdated(a)
    BY <1>3, <1>11 DEF handleReserveDataUpdated, chainVars
  <1> QED  BY <1>4, <1>5, <1>6, <1>7, <1>8, <1>9, <1>10, <1>11 DEF Next, Chain, Handle

LEMMA InitEMode == Init => EModeAgrees
  <1> SUFFICES ASSUME Init, pos.fetched PROVE pos.emode = truth[applied + 1].emode
    BY DEF EModeAgrees
  <1>1. PICK coll, debt, cat : Bootstrapped(coll, debt, cat)
    BY InitFacts
  <1>2. truth[1].emode = cat /\ pos.emode = cat
    BY <1>1 DEF Bootstrapped
  <1>3. applied = 0
    BY DEF Init
  <1> QED  BY <1>2, <1>3
-----------------------------------------------------------------------------
\* x is y, at most m more and at most k less.
Close(x, y, k, m) == x - y <= m /\ y - x <= k

\* An amount that is one unit off at most, and the dust cut off, move a balance that far.
LEMMA CloseFacts ==
    ASSUME NEW x \in Nat, NEW y \in Nat, NEW k \in Nat, NEW m \in Nat, Close(x, y, k, m),
           NEW n \in Nat, NEW s \in Nat, n - s \in -1 .. 1
    PROVE  /\ Close(x, y, k + (Dust + 1), m + 1)
           /\ Close(x + n, y + s, k + (Dust + 1), m + 1)
           /\ s <= y => Close(Clean(x - n), y - s, k + (Dust + 1), m + 1)
  <1>1. Dust \in Nat
    BY SyncAssumption DEF SyncAssumption
  <1>2. x - n \in Int
    OBVIOUS
  <1>3. Clean(x - n) = IF x - n <= Dust THEN 0 ELSE x - n
    BY DEF Clean
  <1> QED  BY <1>1, <1>2, <1>3 DEF Close

\* What Near allows grows with every log.
LEMMA NearGrows ==
    ASSUME TypeOK
    PROVE  /\ applied \in Nat /\ Dust + applied * (Dust + 1) \in Nat
           /\ Dust + (applied + 1) * (Dust + 1) = (Dust + applied * (Dust + 1)) + (Dust + 1)
  <1>1. Dust \in Nat /\ applied \in Nat
    BY SyncAssumption DEF SyncAssumption, TypeOK
  <1>2. \A m, k \in Nat : k * (m + 1) \in Nat /\ (k + 1) * (m + 1) = k * (m + 1) + (m + 1)
    OBVIOUS
  <1> QED  BY <1>1, <1>2

\* The stored position p is the chain's position q, up to m more and k less, but for what
\* found no index.
Follows(p, q, k, m) ==
    \A a \in Assets : /\ a \notin passed => Close(p.coll[a], q.coll[a], k, m) /\ Close(p.debt[a], q.debt[a], k, m)
                      /\ p.used[a] = q.used[a] \/ SkippedAtAnchor(a)

LEMMA FollowsMeans ==
    FollowsChain <=> (sound => Follows(pos, truth[applied + 1], Dust + applied * (Dust + 1), applied))
  BY Zenon DEF FollowsChain, Near, Follows, Close

\* A handler whose pointers are live does to the position what its event did on the chain.
LEMMA HandledFollows ==
    ASSUME Inv, ChainOK, TypeOK, applied < Len(logs), l.kind # "emode", NEW k \in Nat,
           NEW m \in Nat, Follows(pos, truth[applied + 1], k, m)
    PROVE  Follows(HandledPosition, truth[(applied + 1) + 1], k + (Dust + 1), m + 1)
  <1> DEFINE p == truth[applied + 1]
             q == truth[(applied + 1) + 1]
             r == HandledPosition
  <1>01. p \in ChainPosition /\ StepOf(p, l, q)
    BY NextTruth
  <1>02. PICK s \in Nat, t \in Nat : Made(l, s, t) /\ Allowed(p, l, s, t) /\ q = After(p, l, s, t)
    <2> HIDE DEF p, q
    <2> QED  BY <1>01 DEF StepOf
  <1>1. /\ p \in ChainPosition /\ q = After(p, l, s, t) /\ Allowed(p, l, s, t)
        /\ Scaled - s \in -1 .. 1 /\ Covered - t \in -1 .. 1
    <2> HIDE DEF p, q
    <2> QED  BY <1>01, <1>02 DEF Made, Scaled, Covered
  <1>2. /\ l \in Log /\ l.kind \in AllKinds /\ Scaled \in Nat /\ Covered \in Nat /\ l.asset \in Assets
        /\ l.kind = "liquidation" => l.debt \in Assets
    BY LogFacts
  <1>3. /\ p.coll \in [Assets -> Nat] /\ p.debt \in [Assets -> Nat] /\ p.used \in [Assets -> BOOLEAN]
        /\ pos \in Position
        /\ pos.coll \in [Assets -> Nat] /\ pos.debt \in [Assets -> Nat] /\ pos.used \in [Assets -> BOOLEAN]
    BY <1>1 DEF ChainPosition, TypeOK, Position
  <1>4. /\ q.coll = CASE l.kind = "supply" -> [p.coll EXCEPT ![l.asset] = @ + s]
                      [] l.kind \in {"withdraw", "liquidation"} -> [p.coll EXCEPT ![l.asset] = @ - s]
                      [] OTHER -> p.coll
        /\ q.debt = CASE l.kind = "borrow" -> [p.debt EXCEPT ![l.asset] = @ + s]
                      [] l.kind = "repay" -> [p.debt EXCEPT ![l.asset] = @ - s]
                      [] l.kind = "liquidation" -> [p.debt EXCEPT ![l.debt] = @ - t]
                      [] OTHER -> p.debt
        /\ q.used = IF l.kind \in {"enable", "disable"}
                    THEN [p.used EXCEPT ![l.asset] = (l.kind = "enable")] ELSE p.used
    <2> HIDE DEF p, q
    <2>1. p \in ChainPosition /\ l \in Log /\ l.kind # "emode" /\ s \in Nat /\ t \in Nat
      BY <1>1, <1>2
    <2>2. q = After(p, l, s, t)
      BY <1>1
    <2> QED  BY <2>1, <2>2, AfterFields, ZenonT(60)
  <1>5. /\ r.coll = CASE l.kind = "supply" -> [pos.coll EXCEPT ![l.asset] = @ + Scaled]
                      [] l.kind \in {"withdraw", "liquidation"} ->
                            [pos.coll EXCEPT ![l.asset] = Clean(@ - Scaled)]
                      [] OTHER -> pos.coll
        /\ r.debt = CASE l.kind = "borrow" -> [pos.debt EXCEPT ![l.asset] = @ + Scaled]
                      [] l.kind = "repay" -> [pos.debt EXCEPT ![l.asset] = Clean(@ - Scaled)]
                      [] l.kind = "liquidation" -> [pos.debt EXCEPT ![l.debt] = Clean(@ - Covered)]
                      [] OTHER -> pos.debt
        /\ r.used = IF l.kind \in {"enable", "disable"}
                    THEN [pos.used EXCEPT ![l.asset] = (l.kind = "enable")] ELSE pos.used
    BY <1>3, HandledFacts
  <1>6. /\ l.kind \in {"withdraw", "liquidation"} => s <= p.coll[l.asset]
        /\ l.kind = "repay" => s <= p.debt[l.asset]
        /\ l.kind = "liquidation" => t <= p.debt[l.debt]
    BY <1>1 DEF Allowed
  <1> HIDE DEF p, q, r
  <1>7. SUFFICES ASSUME NEW a \in Assets
                 PROVE  /\ a \notin passed => /\ Close(r.coll[a], q.coll[a], k + (Dust + 1), m + 1)
                                           /\ Close(r.debt[a], q.debt[a], k + (Dust + 1), m + 1)
                        /\ r.used[a] = q.used[a] \/ SkippedAtAnchor(a)
    BY DEF Follows, q, r
  <1>8. /\ a \notin passed => Close(pos.coll[a], p.coll[a], k, m) /\ Close(pos.debt[a], p.debt[a], k, m)
        /\ pos.used[a] = p.used[a] \/ SkippedAtAnchor(a)
    BY DEF Follows, p
  <1>9. ASSUME a \notin passed
         PROVE  \A n, o \in Nat :
                   n - o \in -1 .. 1 =>
                   /\ Close(pos.coll[a], p.coll[a], k + (Dust + 1), m + 1)
                   /\ Close(pos.coll[a] + n, p.coll[a] + o, k + (Dust + 1), m + 1)
                   /\ o <= p.coll[a] => Close(Clean(pos.coll[a] - n), p.coll[a] - o, k + (Dust + 1), m + 1)
    <2>1. pos.coll[a] \in Nat /\ p.coll[a] \in Nat
      BY <1>3
    <2> QED  BY <1>8, <1>9, <2>1, CloseFacts
  <1>10. ASSUME a \notin passed
         PROVE  \A n, o \in Nat :
                   n - o \in -1 .. 1 =>
                   /\ Close(pos.debt[a], p.debt[a], k + (Dust + 1), m + 1)
                   /\ Close(pos.debt[a] + n, p.debt[a] + o, k + (Dust + 1), m + 1)
                   /\ o <= p.debt[a] => Close(Clean(pos.debt[a] - n), p.debt[a] - o, k + (Dust + 1), m + 1)
    <2>1. pos.debt[a] \in Nat /\ p.debt[a] \in Nat
      BY <1>3
    <2> QED  BY <1>8, <1>10, <2>1, CloseFacts
  <1>11. ASSUME a \notin passed PROVE Close(r.coll[a], q.coll[a], k + (Dust + 1), m + 1)
    <2>1. CASE l.kind \notin {"supply", "withdraw", "liquidation"}
      BY <1>1, <1>2, <1>02, <1>4, <1>5, <1>11, <1>9, <2>1
    <2>2. CASE l.kind = "supply"
      <3>1. /\ r.coll = [pos.coll EXCEPT ![l.asset] = @ + Scaled]
            /\ q.coll = [p.coll EXCEPT ![l.asset] = @ + s]
        BY <1>4, <1>5, <2>2
      <3>2. CASE a = l.asset
        <4>1. r.coll[a] = pos.coll[a] + Scaled /\ q.coll[a] = p.coll[a] + s
          BY <1>3, <3>1, <3>2
        <4> QED  BY <1>1, <1>2, <1>11, <1>9, <4>1, Zenon
      <3>3. CASE a # l.asset
        BY <1>1, <1>2, <1>3, <1>11, <1>9, <3>1, <3>3
      <3> QED  BY <3>2, <3>3
    <2>3. CASE l.kind \in {"withdraw", "liquidation"}
      <3>1. /\ r.coll = [pos.coll EXCEPT ![l.asset] = Clean(@ - Scaled)]
            /\ q.coll = [p.coll EXCEPT ![l.asset] = @ - s]
        BY <1>4, <1>5, <2>3
      <3>2. s <= p.coll[l.asset]
        BY <1>6, <2>3
      <3>3. CASE a = l.asset
        <4>1. r.coll[a] = Clean(pos.coll[a] - Scaled) /\ q.coll[a] = p.coll[a] - s
          BY <1>3, <3>1, <3>3
        <4> QED  BY <1>1, <1>2, <1>11, <1>9, <3>2, <3>3, <4>1, Zenon
      <3>4. CASE a # l.asset
        BY <1>1, <1>2, <1>3, <1>11, <1>9, <3>1, <3>4
      <3> QED  BY <3>3, <3>4
    <2> QED  BY <2>1, <2>2, <2>3
  <1>12. ASSUME a \notin passed PROVE Close(r.debt[a], q.debt[a], k + (Dust + 1), m + 1)
    <2>1. CASE l.kind \notin {"borrow", "repay", "liquidation"}
      BY <1>1, <1>2, <1>02, <1>4, <1>5, <1>12, <1>10, <2>1
    <2>2. CASE l.kind = "borrow"
      <3>1. /\ r.debt = [pos.debt EXCEPT ![l.asset] = @ + Scaled]
            /\ q.debt = [p.debt EXCEPT ![l.asset] = @ + s]
        BY <1>4, <1>5, <2>2
      <3>2. CASE a = l.asset
        <4>1. r.debt[a] = pos.debt[a] + Scaled /\ q.debt[a] = p.debt[a] + s
          BY <1>3, <3>1, <3>2
        <4> QED  BY <1>1, <1>2, <1>12, <1>10, <4>1, Zenon
      <3>3. CASE a # l.asset
        BY <1>1, <1>2, <1>3, <1>12, <1>10, <3>1, <3>3
      <3> QED  BY <3>2, <3>3
    <2>3. CASE l.kind = "repay"
      <3>1. /\ r.debt = [pos.debt EXCEPT ![l.asset] = Clean(@ - Scaled)]
            /\ q.debt = [p.debt EXCEPT ![l.asset] = @ - s]
        BY <1>4, <1>5, <2>3
      <3>2. s <= p.debt[l.asset]
        BY <1>6, <2>3
      <3>3. CASE a = l.asset
        <4>1. r.debt[a] = Clean(pos.debt[a] - Scaled) /\ q.debt[a] = p.debt[a] - s
          BY <1>3, <3>1, <3>3
        <4> QED  BY <1>1, <1>2, <1>12, <1>10, <3>2, <3>3, <4>1, Zenon
      <3>4. CASE a # l.asset
        BY <1>1, <1>2, <1>3, <1>12, <1>10, <3>1, <3>4
      <3> QED  BY <3>3, <3>4
    <2>4. CASE l.kind = "liquidation"
      <3>1. /\ r.debt = [pos.debt EXCEPT ![l.debt] = Clean(@ - Covered)]
            /\ q.debt = [p.debt EXCEPT ![l.debt] = @ - t]
        BY <1>4, <1>5, <2>4
      <3>2. t <= p.debt[l.debt]
        BY <1>6, <2>4
      <3>3. CASE a = l.debt
        <4>1. r.debt[a] = Clean(pos.debt[a] - Covered) /\ q.debt[a] = p.debt[a] - t
          BY <1>3, <3>1, <3>3
        <4> QED  BY <1>1, <1>2, <1>12, <1>10, <3>2, <3>3, <4>1, Zenon
      <3>4. CASE a # l.debt
        BY <1>1, <1>2, <1>3, <1>12, <1>10, <2>4, <3>1, <3>4
      <3> QED  BY <3>3, <3>4
    <2> QED  BY <2>1, <2>2, <2>3, <2>4
  <1>13. r.used[a] = q.used[a] \/ SkippedAtAnchor(a)
    <2>1. CASE l.kind \notin {"enable", "disable"}
      BY <1>4, <1>5, <1>8, <2>1
    <2>2. CASE l.kind \in {"enable", "disable"}
      <3> DEFINE on == (l.kind = "enable")
      <3>1. r.used = [pos.used EXCEPT ![l.asset] = on] /\ q.used = [p.used EXCEPT ![l.asset] = on]
        BY <1>4, <1>5, <2>2, Zenon
      <3> HIDE DEF on
      <3>2. CASE a = l.asset
        BY <1>2, <1>3, <3>1, <3>2
      <3>3. CASE a # l.asset
        BY <1>3, <1>8, <3>1, <3>3
      <3> QED  BY <3>2, <3>3
    <2> QED  BY <2>1, <2>2
  <1> QED  BY <1>11, <1>12, <1>13

LEMMA InitFollows == Init => FollowsChain
  <1> SUFFICES ASSUME Init, sound PROVE FollowsChain
    BY DEF FollowsChain
  <1>1. PICK coll \in [Assets -> Nat], debt \in [Assets -> Nat], cat \in Nat :
            Bootstrapped(coll, debt, cat)
    BY InitFacts
  <1> DEFINE loaded == \E a \in Assets : debt[a] > 0
             kept == {a \in Assets : loaded /\ (coll[a] > Dust \/ debt[a] > Dust)}
             used == [a \in Assets |-> coll[a] > 0]
  <1>2. applied = 0 /\ replaced = FALSE /\ Dust \in Nat /\ passed = {}
    BY SyncAssumption DEF Init, SyncAssumption
  <1>3. /\ truth[1].coll = coll /\ truth[1].debt = debt /\ truth[1].used = used
        /\ pos.coll = [a \in Assets |-> IF a \in kept THEN Clean(coll[a]) ELSE 0]
        /\ pos.debt = [a \in Assets |-> IF a \in kept THEN Clean(debt[a]) ELSE 0]
        /\ pos.used = [a \in Assets |-> a \in kept /\ used[a]]
        /\ loaded \/ coll = Zero
    BY <1>1 DEF Bootstrapped
  <1>4. SUFFICES ASSUME NEW a \in Assets
                 PROVE  /\ Close(pos.coll[a], coll[a], Dust, 0) /\ Close(pos.debt[a], debt[a], Dust, 0)
                        /\ pos.used[a] = used[a] \/ SkippedAtAnchor(a)
    <2>1. Dust + applied * (Dust + 1) = Dust /\ applied = 0 /\ applied + 1 = 1
      BY <1>2
    <2> HIDE DEF used, kept, loaded
    <2>2. Follows(pos, truth[applied + 1], Dust, 0)
      BY <1>2, <1>3, <1>4, <2>1 DEF Follows
    <2> QED  BY <2>1, <2>2, FollowsMeans
  <1>5. coll[a] \in Nat /\ debt[a] \in Nat
    OBVIOUS
  <1>6. \A x \in Nat : Clean(x) \in Nat /\ Clean(x) <= x /\ x - Clean(x) <= Dust
    BY CleanFacts
  <1>7. CASE a \in kept
    <2> HIDE DEF kept, loaded
    <2>1. pos.coll[a] = Clean(coll[a]) /\ pos.debt[a] = Clean(debt[a])
      BY <1>3, <1>7
    <2>2. pos.used[a] = (a \in kept /\ used[a])
      <3> HIDE DEF used
      <3> QED  BY <1>3, Zenon
    <2>3. used[a] \in BOOLEAN
      OBVIOUS
    <2>4. pos.used[a] = used[a]
      <3> HIDE DEF used
      <3> QED  BY <1>7, <2>2, <2>3, Zenon
    <2> HIDE DEF used
    <2> QED  BY <1>5, <1>6, <2>1, <2>4 DEF Close
  <1>8. CASE a \notin kept
    <2>1. coll[a] <= Dust /\ debt[a] <= Dust
      <3>1. CASE loaded
        BY <1>5, <1>8, <1>2, <3>1
      <3>2. CASE ~loaded
        <4>1. coll[a] = 0 /\ ~(debt[a] > 0)
          BY <1>3, <3>2 DEF Zero
        <4> QED  BY <1>2, <1>5, <4>1
      <3> QED  BY <3>1, <3>2
    <2>2. pos.coll[a] = 0 /\ pos.debt[a] = 0 /\ ~pos.used[a]
      <3> HIDE DEF kept, loaded, used
      <3> QED  BY <1>3, <1>8
    <2>3. pos.used[a] = (a \in kept /\ used[a])
      <3> HIDE DEF kept, used
      <3> QED  BY <1>3, Zenon
    <2>4. pos.used[a] = used[a] \/ SkippedAtAnchor(a)
      <3>1. CASE coll[a] > 0
        BY <1>2, <1>3, <1>5, <2>1, <3>1 DEF SkippedAtAnchor
      <3>2. CASE ~(coll[a] > 0)
        <4>1. ~used[a]
          BY <3>2
        <4>2. used[a] \in BOOLEAN
          OBVIOUS
        <4> HIDE DEF kept, used
        <4> QED  BY <1>8, <2>3, <4>1, <4>2, Zenon
      <3> QED  BY <3>1, <3>2
    <2> HIDE DEF kept, loaded, used
    <2> QED  BY <1>2, <1>5, <2>1, <2>2, <2>4 DEF Close
  <1> QED  BY <1>7, <1>8

\* A step that leaves the position, what was handled and the chain's position for it.
LEMMA FollowsUnchanged ==
    ASSUME FollowsChain, UNCHANGED <<sound, applied, replaced, passed>>,
           pos'.coll = pos.coll, pos'.debt = pos.debt, pos'.used = pos.used,
           truth'[1] = truth[1], truth'[applied + 1] = truth[applied + 1]
    PROVE  FollowsChain'
  BY DEF FollowsChain, Near, SkippedAtAnchor

LEMMA NextFollows ==
    ASSUME Inv, ChainOK, TypeOK, PointersOK, FollowsChain, [Next]_vars PROVE FollowsChain'
  <1>1. /\ applied \in 0 .. Len(logs) /\ Len(logs) \in Nat /\ pos \in Position
        /\ work \in [Workers -> WorkType]
    BY DEF TypeOK
  <1>2. ASSUME NEW kind, NEW a, NEW d, NEW n, NEW m, NEW i0, NEW j0, Emit(kind, a, d, n, m, i0, j0) PROVE FollowsChain'
    <2>1. applied + 1 \in 1 .. Len(logs) + 1 /\ 1 \in 1 .. Len(logs) + 1
      BY <1>1
    <2>2. truth'[applied + 1] = truth[applied + 1] /\ truth'[1] = truth[1]
      BY <1>2, <2>1, EmitTruth
    <2> QED  BY <1>2, <2>2, FollowsUnchanged DEF Emit, indices
  <1>3. CASE GetUserReserve
    <2>1. /\ UNCHANGED <<truth, applied, sound, replaced, passed>>
          /\ pos'.coll = pos.coll /\ pos'.debt = pos.debt /\ pos'.used = pos.used
      BY <1>1, <1>3 DEF GetUserReserve, chainVars, Position, indices
    <2> QED  BY <2>1, FollowsUnchanged
  <1> DEFINE k == Dust + applied * (Dust + 1)
             q == truth[(applied + 1) + 1]
  <1>4. ASSUME applied < Len(logs), applied' = applied + 1, UNCHANGED <<truth, sound, replaced>>,
               passed' = passed, sound => Follows(pos', q, k + (Dust + 1), applied + 1)
        PROVE  FollowsChain'
    <2>1. Dust + applied' * (Dust + 1) = k + (Dust + 1)
      BY <1>4, NearGrows
    <2>2. \A a : SkippedAtAnchor(a)' <=> SkippedAtAnchor(a)
      BY <1>4 DEF SkippedAtAnchor
    <2>3. truth'[applied' + 1] = q
      BY <1>4
    <2> HIDE DEF k, q
    <2>4. sound => Follows(pos, truth[applied + 1], Dust + applied * (Dust + 1), applied)'
      BY <1>4, <2>1, <2>2, <2>3 DEF Follows, Close
    <2>5. FollowsChain'
          <=> (sound' => Follows(pos, truth[applied + 1], Dust + applied * (Dust + 1), applied)')
      BY FollowsMeans, PTL
    <2> QED  BY <1>4, <2>4, <2>5
  <1>5. /\ sound => Follows(pos, truth[applied + 1], k, applied)
        /\ k \in Nat /\ applied \in Nat
    BY FollowsMeans, NearGrows
  <1>6. ASSUME applied < Len(logs), NEW a \in Assets, a \notin passed, sound
        PROVE  /\ Close(pos.coll[a], truth[applied + 1].coll[a], k + (Dust + 1), applied + 1)
               /\ Close(pos.debt[a], truth[applied + 1].debt[a], k + (Dust + 1), applied + 1)
    <2> DEFINE p == truth[applied + 1]
    <2>1. p \in ChainPosition
      BY <1>6, NextTruth
    <2> HIDE DEF k, p
    <2>2. /\ pos.coll[a] \in Nat /\ pos.debt[a] \in Nat
          /\ p.coll[a] \in Nat /\ p.debt[a] \in Nat
      BY <1>1, <1>6, <2>1 DEF Position, ChainPosition
    <2>3. Close(pos.coll[a], p.coll[a], k, applied) /\ Close(pos.debt[a], p.debt[a], k, applied)
      BY <1>5, <1>6 DEF Follows, p
    <2>4. 0 \in Nat /\ 0 - 0 \in -1 .. 1
      OBVIOUS
    <2>5. /\ Close(pos.coll[a], p.coll[a], k + (Dust + 1), applied + 1)
          /\ Close(pos.debt[a], p.debt[a], k + (Dust + 1), applied + 1)
      BY <1>5, <2>2, <2>3, <2>4, CloseFacts
    <2> QED  BY <2>5 DEF p
  <1>7. CASE handleUserEModeSet
    <2>1. /\ applied < Len(logs) /\ applied' = applied + 1 /\ l.kind = "emode"
          /\ UNCHANGED <<truth, sound, replaced, passed>>
          /\ pos'.coll = pos.coll /\ pos'.debt = pos.debt /\ pos'.used = pos.used
      BY <1>1, <1>7 DEF handleUserEModeSet, Popped, chainVars, Position, indices
    <2>2. LET p == truth[applied + 1]
          IN  q.coll = p.coll /\ q.debt = p.debt /\ q.used = p.used
      BY <2>1, NextTruth DEF StepOf, After, ChainPosition
    <2> HIDE DEF k, q
    <2>3. sound => Follows(pos', q, k + (Dust + 1), applied + 1)
      BY <1>5, <1>6, <2>1, <2>2 DEF Follows
    <2> QED  BY <1>4, <2>1, <2>3
  <1>11. CASE Handle /\ ~GetUserReserve /\ ~handleUserEModeSet /\ ~PassOver
    <2>1. /\ applied < Len(logs) /\ applied' = applied + 1 /\ l.kind # "emode"
          /\ UNCHANGED <<truth, sound, replaced, passed>>
          /\ (\A i \in 1 .. Len(held) : held[i] = "live") => pos' = HandledPosition
      BY <1>1, <1>11, HandleEffect DEF chainVars, indices
    <2>2. sound => pos' = HandledPosition
      BY <2>1 DEF PointersOK
    <2> HIDE DEF k
    <2>3. sound => Follows(HandledPosition, q, k + (Dust + 1), applied + 1)
      BY <1>5, <2>1, HandledFollows
    <2> HIDE DEF q
    <2>4. sound => Follows(pos', q, k + (Dust + 1), applied + 1)
      BY <2>2, <2>3
    <2> QED  BY <1>4, <2>1, <2>4
  <1>12. CASE PassOver
    <2> DEFINE p == truth[applied + 1]
    <2>1. /\ applied < Len(logs) /\ applied' = applied + 1
          /\ l.kind \in {"supply", "withdraw", "borrow", "repay", "liquidation"}
          /\ UNCHANGED <<truth, sound, replaced, pos>> /\ passed' = passed \cup {l.asset, l.debt}
      BY <1>12 DEF PassOver, Popped, IndexMissing, chainVars
    <2>2. p \in ChainPosition /\ StepOf(p, l, q)
      BY <2>1, NextTruth
    <2> HIDE DEF k, p, q
    <2>3. PICK s \in Nat, t \in Nat : q = After(p, l, s, t)
      BY <2>2 DEF StepOf
    <2>4. l \in Log /\ l.asset \in Assets /\ l.debt \in Assets
      BY <2>1, LogFacts
    <2>5. /\ q.coll = CASE l.kind = "supply" -> [p.coll EXCEPT ![l.asset] = @ + s]
                        [] l.kind \in {"withdraw", "liquidation"} -> [p.coll EXCEPT ![l.asset] = @ - s]
                        [] OTHER -> p.coll
          /\ q.debt = CASE l.kind = "borrow" -> [p.debt EXCEPT ![l.asset] = @ + s]
                        [] l.kind = "repay" -> [p.debt EXCEPT ![l.asset] = @ - s]
                        [] l.kind = "liquidation" -> [p.debt EXCEPT ![l.debt] = @ - t]
                        [] OTHER -> p.debt
          /\ q.used = IF l.kind \in {"enable", "disable"}
                      THEN [p.used EXCEPT ![l.asset] = (l.kind = "enable")] ELSE p.used
      <3>1. p \in ChainPosition /\ l \in Log /\ l.kind # "emode" /\ s \in Nat /\ t \in Nat
        BY <2>1, <2>2, <2>4
      <3> QED  BY <2>3, <3>1, AfterFields, Zenon
    <2>6. /\ q.used = p.used
          /\ \A a \in Assets \ {l.asset, l.debt} : q.coll[a] = p.coll[a] /\ q.debt[a] = p.debt[a]
      <3>1. p.coll \in [Assets -> Nat] /\ p.debt \in [Assets -> Nat]
        BY <2>2 DEF ChainPosition
      <3> QED  BY <2>1, <2>4, <2>5, <3>1
    <2>7. ASSUME sound, NEW a \in Assets
          PROVE  /\ a \notin passed' => /\ Close(pos.coll[a], q.coll[a], k + (Dust + 1), applied + 1)
                                        /\ Close(pos.debt[a], q.debt[a], k + (Dust + 1), applied + 1)
                 /\ pos.used[a] = q.used[a] \/ SkippedAtAnchor(a)
      <3>1. pos.used[a] = p.used[a] \/ SkippedAtAnchor(a)
        BY <1>5, <2>7 DEF Follows, p
      <3>2. ASSUME a \notin passed'
            PROVE  /\ Close(pos.coll[a], p.coll[a], k + (Dust + 1), applied + 1)
                   /\ Close(pos.debt[a], p.debt[a], k + (Dust + 1), applied + 1)
                   /\ a \in Assets \ {l.asset, l.debt}
        BY <1>6, <2>1, <2>7, <3>2 DEF p
      <3> QED  BY <2>6, <3>1, <3>2
    <2>8. \A a : SkippedAtAnchor(a)' <=> SkippedAtAnchor(a)
      BY <2>1 DEF SkippedAtAnchor
    <2>9. Dust + applied' * (Dust + 1) = k + (Dust + 1) /\ truth'[applied' + 1] = q
      BY <2>1, NearGrows DEF k, q
    <2>10. sound => Follows(pos, truth[applied + 1], Dust + applied * (Dust + 1), applied)'
      BY <2>1, <2>7, <2>8, <2>9 DEF Follows, Close
    <2>11. FollowsChain'
           <=> (sound' => Follows(pos, truth[applied + 1], Dust + applied * (Dust + 1), applied)')
      BY FollowsMeans, PTL
    <2> QED  BY <2>1, <2>10, <2>11
  <1>8. ASSUME NEW w \in Workers, Work(w) PROVE FollowsChain'
    <2>1. UNCHANGED <<truth, applied>>
      BY <1>8, WorkTypes DEF chainVars
    <2>2. CASE StorePosition(w)
      <3> DEFINE j == LogsUpTo(work[w].block)
      <3>1. pos' = Fetched(work[w].block) /\ (sound' => applied = j)
        BY <2>2 DEF StorePosition
      <3>2. pos'.coll = truth[j + 1].coll /\ pos'.debt = truth[j + 1].debt /\ pos'.used = truth[j + 1].used
        BY <3>1 DEF Fetched
      <3> HIDE DEF j
      <3>3. ASSUME sound', NEW a \in Assets
            PROVE  /\ Near(pos.coll[a], truth[applied + 1].coll[a])'
                   /\ Near(pos.debt[a], truth[applied + 1].debt[a])'
                   /\ pos'.used[a] = truth'[applied' + 1].used[a]
        <4>1. j = applied /\ Len(truth) = Len(logs) + 1 /\ truth \in Seq(ChainPosition)
          BY <3>1, <3>3 DEF ChainOK
        <4>2. truth[applied + 1] \in ChainPosition
          BY <1>1, <4>1
        <4>3. truth[applied + 1].coll[a] \in Nat /\ truth[applied + 1].debt[a] \in Nat
          BY <4>2 DEF ChainPosition
        <4>4. applied \in Nat /\ Dust + applied * (Dust + 1) \in Nat
          BY NearGrows
        <4>5. \A x \in Nat : Near(x, x)'
          BY <2>1, <4>4 DEF Near
        <4>6. /\ pos'.coll[a] = truth'[applied' + 1].coll[a]
              /\ pos'.debt[a] = truth'[applied' + 1].debt[a]
              /\ pos'.used[a] = truth'[applied' + 1].used[a]
          BY <2>1, <3>2, <4>1
        <4> QED  BY <2>1, <4>3, <4>5, <4>6
      <3> QED  BY <3>3 DEF FollowsChain
    <2>3. CASE ~StorePosition(w)
      <3>1. /\ UNCHANGED <<sound, replaced, passed>>
            /\ pos'.coll = pos.coll /\ pos'.debt = pos.debt /\ pos'.used = pos.used
        BY <1>1, <1>8, <2>3 DEF Work, Calculate, FetchUserEMode, WriteEMode, Abandon, Position, indices
      <3> QED  BY <2>1, <3>1, FollowsUnchanged
    <2> QED  BY <2>2, <2>3
  <1>9. CASE Mine \/ GoLive \/ UNCHANGED vars \/ \E b \in Anchor .. MaxBlock : SetCurrentBlock(b)
    BY <1>9, FollowsUnchanged DEF Mine, GoLive, SetCurrentBlock, vars, chainVars, indices
  <1>10. CASE \E a \in Assets : handleReserveDataUpdated(a)
    BY <1>10, FollowsUnchanged DEF handleReserveDataUpdated, chainVars
  <1> QED  BY <1>2, <1>3, <1>7, <1>11, <1>12, <1>8, <1>9, <1>10 DEF Next, Chain, Handle

\* Everything that is inductive together.
IInv == Inv /\ ChainOK /\ TypeOK /\ PointersOK /\ EModeAgrees /\ FollowsChain

LEMMA Invariance == Spec => []IInv
  <1>1. Init => PointersOK
    <2> SUFFICES ASSUME Init PROVE PointersOK
      OBVIOUS
    <2>1. Len(logs) = 0 /\ held = <<>> /\ work = [w \in Workers |-> Resting]
      BY DEF Init
    <2> QED  BY <2>1 DEF PointersOK, Resting
  <1>2. Init => IInv
    BY <1>1, InitInv, InitChain, InitTypes, InitEMode, InitFollows DEF IInv
  <1>3. IInv /\ [Next]_vars => IInv'
    BY NextInv, NextChain, NextTypes, NextPointers, NextEMode, NextFollows DEF IInv
  <1> QED  BY <1>2, <1>3, PTL DEF Spec

\* Types; no event, lost write or replaced position makes a stored balance negative: the handlers
\* cut at zero (log_replay_engine.go:285, 364, 425-430).
THEOREM Types == Spec => []TypeOK
  BY Invariance, PTL DEF IInv

\* The handlers (log_replay_engine.go:228-432) change the stored position as the events change the
\* chain's, however their two locks and the requests of the workers are interleaved: RayDiv and
\* the pool's own rounding, and the dust cut off, put the balances a unit and the dust apart for
\* each log, whatever the index.
THEOREM Following == Spec => []FollowsChain
  BY Invariance, PTL DEF IInv

\* The E-mode the engine judges a user by is that of the logs handled, unless SetUserEMode and an
\* answer about another block (risk_engine.go:253-283, 159-161) crossed.
THEOREM EModeFollows == Spec => []EModeAgrees
  BY Invariance, PTL DEF IInv
=============================================================================
