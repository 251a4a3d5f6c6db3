---- MODULE RPCClient_proofs ----
(***************************************************************************)
(* Theorems about RPCClient, for every number of callers, nodes and        *)
(* retries, and whatever the nodes answer.                                 *)
(***************************************************************************)
EXTENDS RPCClient, TLAPS

\* The node that was taken i nodes before the last one.
Back(i) == IF i <= currentIndex THEN currentIndex - i ELSE currentIndex + N - i

\* How many nodes a call has taken.
Taken(c) == IF pc[c] = "asking" THEN attempt[c] + 1 ELSE attempt[c]

\* What an undisturbed call has taken are the nodes last taken.
TriedInv ==
  \A c \in Callers : pc[c] # "idle" /\ ~disturbed[c] =>
    \A i \in Nodes : i < Taken(c) => Back(i) \in tried[c]

RotationInv == TypeOK /\ TriedInv /\ AllNodesTried

\* A result a call has not returned was spoiled by an error still in the record.
RecordInv ==
  \A c \in Callers :
    /\ pc[c] # "idle" => outcome[c] = "none"
    /\ answered[c] = resultSet[c]
    /\ resultError[c] => errored[c]
    /\ answered[c] /\ outcome[c] # "answer" => resultError[c]
----
LEMMA TypeInitial == Init => TypeOK
  BY RPCClientAssumption DEF Init, TypeOK, Nodes

\* What "continue" does to the variables it decides on.
LEMMA RetryType ==
  ASSUME TypeOK, NEW c \in Callers, Retry(c)
  PROVE  /\ pc' \in [Callers -> {"idle", "next", "asking"}]
         /\ attempt' \in [Callers -> 0 .. MaxRetries]
         /\ outcome' \in [Callers -> {"none", "answer", "empty", "failed"}]
<1>1. CASE attempt[c] < MaxRetries
  <2>1. attempt[c] + 1 \in 0 .. MaxRetries
    BY <1>1, RPCClientAssumption DEF TypeOK
  <2> QED
    BY <1>1, <2>1 DEF Retry, TypeOK
<1>2. CASE ~(attempt[c] < MaxRetries)
  BY <1>2 DEF Retry, TypeOK
<1> QED
  BY <1>1, <1>2

LEMMA TypeNext == TypeOK /\ [Next]_vars => TypeOK'
<1> SUFFICES ASSUME TypeOK, [Next]_vars PROVE TypeOK'
  OBVIOUS
<1>1. ASSUME NEW c \in Callers, Call(c) PROVE TypeOK'
  BY <1>1, RPCClientAssumption DEF Call, TypeOK
<1>2. ASSUME NEW c \in Callers, GetNextURL(c) PROVE TypeOK'
  <2>1. NextIndex \in Nodes
    BY RPCClientAssumption DEF NextIndex, Nodes, TypeOK
  <2> QED
    BY <1>2, <2>1 DEF GetNextURL, TypeOK, decoded, history
<1>3. ASSUME NEW c \in Callers, Fail(c) PROVE TypeOK'
  BY <1>3, RetryType DEF Fail, TypeOK, decoded, history
<1>4. ASSUME NEW c \in Callers, NEW body \in Bodies, Answer(c, body) PROVE TypeOK'
  <2>1. ErrorAfter(body, resultError[c]) \in BOOLEAN /\ HasResult(body) \in BOOLEAN
    BY DEF ErrorAfter, HasResult
  <2>2. /\ resultError' \in [Callers -> BOOLEAN] /\ resultSet' \in [Callers -> BOOLEAN]
        /\ answered' \in [Callers -> BOOLEAN] /\ errored' \in [Callers -> BOOLEAN]
    BY <1>4, <2>1, Zenon DEF Answer, TypeOK
  <2>3. /\ pc' \in [Callers -> {"idle", "next", "asking"}]
        /\ attempt' \in [Callers -> 0 .. MaxRetries]
        /\ outcome' \in [Callers -> {"none", "answer", "empty", "failed"}]
    <3>1. CASE resultError'[c]
      BY <1>4, <3>1, RetryType DEF Answer
    <3>2. CASE ~resultError'[c]
      BY <1>4, <3>2 DEF Answer, TypeOK
    <3> QED
      BY <3>1, <3>2
  <2>4. UNCHANGED <<currentIndex, cancelled, tried, disturbed>>
    BY <1>4 DEF Answer
  <2> QED
    BY <2>2, <2>3, <2>4 DEF TypeOK
<1>5. ASSUME NEW c \in Callers, Expire(c) PROVE TypeOK'
  BY <1>5 DEF Expire, TypeOK, decoded, history
<1>6. CASE UNCHANGED vars
  BY <1>6 DEF vars, TypeOK, decoded, history
<1> QED
  BY <1>1, <1>2, <1>3, <1>4, <1>5, <1>6 DEF Next, Reply

\* rpc.go:19-26, 67-95.  The index stays inside the list of nodes and no call makes
\* more than MaxRetries + 1 attempts.
THEOREM TypeCorrect == Spec => []TypeOK
<1>1. Init => TypeOK
  BY TypeInitial
<1>2. TypeOK /\ [Next]_vars => TypeOK'
  BY TypeNext
<1> QED
  BY <1>1, <1>2, PTL DEF Spec
----
\* Going back N nodes reaches each of them.
LEMMA BackReaches ==
  ASSUME TypeOK, NEW n \in Nodes
  PROVE  \E i \in Nodes : Back(i) = n
<1>1. N \in Nat /\ currentIndex \in Nat /\ currentIndex < N /\ n \in Nat /\ n < N
  BY RPCClientAssumption DEF TypeOK, Nodes
<1>2. CASE n <= currentIndex
  <2>1. currentIndex - n \in Nodes /\ Back(currentIndex - n) = n
    BY <1>1, <1>2 DEF Back, Nodes
  <2> QED
    BY <2>1
<1>3. CASE ~(n <= currentIndex)
  <2>1. currentIndex + N - n \in Nodes /\ Back(currentIndex + N - n) = n
    BY <1>1, <1>3 DEF Back, Nodes
  <2> QED
    BY <2>1
<1> QED
  BY <1>2, <1>3

\* One more node taken: what was i back is i + 1 back.
LEMMA BackShifts ==
  ASSUME TypeOK, currentIndex' = NextIndex, NEW i \in Nodes
  PROVE  IF i = 0 THEN Back(i)' = NextIndex ELSE i - 1 \in Nodes /\ Back(i)' = Back(i - 1)
<1>1. /\ N \in Nat /\ currentIndex \in Nat /\ currentIndex < N /\ i \in Nat /\ i < N
  BY RPCClientAssumption DEF TypeOK, Nodes
<1>2. CASE currentIndex = N - 1
  BY <1>1, <1>2 DEF Back, NextIndex, Nodes
<1>3. CASE currentIndex # N - 1
  BY <1>1, <1>3 DEF Back, NextIndex, Nodes
<1> QED
  BY <1>2, <1>3

\* "continue" of an undisturbed call: it has tried all nodes if that was its last
\* attempt and it had enough of them.
LEMMA RetryTried ==
  ASSUME RotationInv, NEW c \in Callers, pc[c] = "asking", Retry(c),
         UNCHANGED <<currentIndex, tried, disturbed>>
  PROVE  TriedInv' /\ AllNodesTried'
<1>1. \A d \in Callers \ {c} : pc'[d] = pc[d] /\ attempt'[d] = attempt[d] /\ outcome'[d] = outcome[d]
  BY DEF Retry, RotationInv, TypeOK
<1>2. attempt[c] \in Nat /\ MaxRetries \in Nat /\ attempt[c] <= MaxRetries /\ N \in Nat
  BY RPCClientAssumption DEF RotationInv, TypeOK
<1>3. ASSUME NEW d \in Callers \ {c}
      PROVE  Taken(d)' = Taken(d)
  BY <1>1, <1>3 DEF Taken
<1>4. \A i : Back(i)' = Back(i)
  BY DEF Back
<1>5. CASE attempt[c] < MaxRetries
  <2>1. /\ pc'[c] = "next" /\ attempt'[c] = attempt[c] + 1 /\ outcome' = outcome
    BY <1>5 DEF Retry, RotationInv, TypeOK
  <2>2. Taken(c)' = Taken(c)
    BY <2>1 DEF Taken
  <2>3. TriedInv'
    BY <1>1, <1>3, <1>4, <2>2 DEF RotationInv, TriedInv
  <2> QED
    BY <2>1, <2>3 DEF RotationInv, AllNodesTried, Failed
<1>6. CASE ~(attempt[c] < MaxRetries)
  <2>1. pc'[c] = "idle" /\ Taken(c) = MaxRetries + 1
    BY <1>2, <1>6 DEF Retry, RotationInv, TypeOK, Taken
  <2>2. TriedInv'
    BY <1>1, <1>3, <1>4, <2>1 DEF RotationInv, TriedInv
  <2>3. ASSUME ~disturbed[c], N <= MaxRetries + 1
        PROVE  tried[c] = Nodes
    <3>1. \A i \in Nodes : i < Taken(c)
      BY <1>2, <2>1, <2>3 DEF Nodes
    <3>2. \A i \in Nodes : Back(i) \in tried[c]
      BY <2>3, <3>1 DEF RotationInv, TriedInv
    <3>3. Nodes \subseteq tried[c]
      BY <3>2, BackReaches DEF RotationInv
    <3>4. tried[c] \subseteq Nodes
      BY DEF RotationInv, TypeOK
    <3> QED
      BY <3>3, <3>4
  <2> QED
    BY <1>1, <2>2, <2>3 DEF RotationInv, AllNodesTried, Failed
<1> QED
  BY <1>5, <1>6

LEMMA RotationNext == RotationInv /\ [Next]_vars => RotationInv'
<1> SUFFICES ASSUME RotationInv, TypeOK, [Next]_vars PROVE TriedInv' /\ AllNodesTried'
  BY TypeNext DEF RotationInv
<1>1. ASSUME NEW c \in Callers, Call(c) PROVE TriedInv' /\ AllNodesTried'
  <2>1. /\ pc'[c] = "next" /\ attempt'[c] = 0 /\ outcome'[c] = "none"
        /\ \A d \in Callers \ {c} :
             /\ pc'[d] = pc[d] /\ attempt'[d] = attempt[d] /\ outcome'[d] = outcome[d]
             /\ tried'[d] = tried[d] /\ disturbed'[d] = disturbed[d]
    BY <1>1 DEF Call, TypeOK
  <2>2. \A i : Back(i)' = Back(i)
    BY <1>1 DEF Call, Back
  <2>3. Taken(c)' = 0 /\ \A d \in Callers \ {c} : Taken(d)' = Taken(d)
    BY <2>1 DEF Taken
  <2>4. \A i \in Nodes : ~(i < 0)
    BY DEF Nodes
  <2>5. TriedInv'
    BY <2>1, <2>2, <2>3, <2>4 DEF RotationInv, TriedInv
  <2> QED
    BY <2>1, <2>5 DEF RotationInv, AllNodesTried, Failed
<1>2. ASSUME NEW c \in Callers, GetNextURL(c) PROVE TriedInv' /\ AllNodesTried'
  <2>1. /\ pc[c] = "next" /\ pc'[c] = "asking" /\ attempt' = attempt /\ outcome' = outcome
        /\ tried'[c] = tried[c] \cup {NextIndex} /\ disturbed'[c] = disturbed[c]
        /\ \A d \in Callers \ {c} :
             /\ pc'[d] = pc[d] /\ tried'[d] = tried[d]
             /\ disturbed'[d] = (disturbed[d] \/ pc[d] # "idle")
    BY <1>2 DEF GetNextURL, TypeOK
  <2>2. Taken(c) = attempt[c] /\ Taken(c)' = attempt[c] + 1 /\ attempt[c] \in Nat
    BY <2>1 DEF Taken, TypeOK
  <2>3. ASSUME ~disturbed[c], NEW i \in Nodes, i < Taken(c)'
        PROVE  Back(i)' \in tried'[c]
    <3>1. currentIndex' = NextIndex
      BY <1>2 DEF GetNextURL
    <3>2. CASE i = 0
      BY <2>1, <3>1, <3>2, BackShifts
    <3>3. CASE i # 0
      <4>1. i - 1 \in Nodes /\ Back(i)' = Back(i - 1)
        BY <3>1, <3>3, BackShifts
      <4>2. i - 1 < Taken(c)
        BY <2>2, <2>3 DEF Nodes
      <4>3. Back(i - 1) \in tried[c]
        BY <2>1, <2>3, <4>1, <4>2 DEF RotationInv, TriedInv
      <4> QED
        BY <2>1, <4>1, <4>3
    <3> QED
      BY <3>2, <3>3
  <2>4. TriedInv'
    BY <2>1, <2>3 DEF TriedInv
  <2>5. AllNodesTried'
    <3>1. outcome[c] # "failed" \/ disturbed[c] \/ ~(N <= MaxRetries + 1) \/ tried[c] = Nodes
      BY DEF RotationInv, AllNodesTried, Failed
    <3>2. NextIndex \in Nodes
      BY RPCClientAssumption DEF NextIndex, Nodes, TypeOK
    <3> QED
      BY <2>1, <3>1, <3>2 DEF RotationInv, AllNodesTried, Failed
  <2> QED
    BY <2>4, <2>5
<1>3. ASSUME NEW c \in Callers, Fail(c) PROVE TriedInv' /\ AllNodesTried'
  BY <1>3, RetryTried DEF Fail
<1>4. ASSUME NEW c \in Callers, NEW body \in Bodies, Answer(c, body)
      PROVE  TriedInv' /\ AllNodesTried'
  <2>1. pc[c] = "asking" /\ UNCHANGED <<currentIndex, tried, disturbed>>
    BY <1>4 DEF Answer
  <2>2. CASE resultError'[c]
    BY <1>4, <2>1, <2>2, RetryTried DEF Answer
  <2>3. CASE ~resultError'[c]
    <3>1. /\ pc'[c] = "idle" /\ outcome'[c] # "failed" /\ attempt' = attempt
          /\ \A d \in Callers \ {c} : pc'[d] = pc[d] /\ outcome'[d] = outcome[d]
      BY <1>4, <2>3 DEF Answer, TypeOK
    <3>2. \A i : Back(i)' = Back(i)
      BY <2>1 DEF Back
    <3>3. \A d \in Callers \ {c} : Taken(d)' = Taken(d)
      BY <3>1 DEF Taken
    <3>4. TriedInv'
      BY <2>1, <3>1, <3>2, <3>3 DEF RotationInv, TriedInv
    <3> QED
      BY <2>1, <3>1, <3>4 DEF RotationInv, AllNodesTried, Failed
  <2> QED
    BY <2>2, <2>3
<1>5. CASE UNCHANGED vars \/ \E c \in Callers : Expire(c)
  <2>1. UNCHANGED <<currentIndex, pc, attempt, outcome, tried, disturbed>>
    BY <1>5 DEF vars, Expire
  <2> QED
    BY <2>1 DEF RotationInv, TriedInv, AllNodesTried, Failed, Taken, Back
<1> QED
  BY <1>1, <1>2, <1>3, <1>4, <1>5 DEF Next, Reply

\* rpc.go:56-60, 89-94.  A call that fails, with as many attempts as there are nodes
\* and no other call in between, has tried them all, wherever the counter stood.
THEOREM EveryNodeTried == Spec => []AllNodesTried
<1>1. Init => RotationInv
  BY TypeInitial DEF Init, RotationInv, TriedInv, AllNodesTried, Failed
<1>2. RotationInv /\ [Next]_vars => RotationInv'
  BY RotationNext
<1>3. RotationInv => AllNodesTried
  BY DEF RotationInv
<1> QED
  BY <1>1, <1>2, <1>3, PTL DEF Spec
----
LEMMA RecordNext == TypeOK /\ RecordInv /\ [Next]_vars => RecordInv'
<1> SUFFICES ASSUME TypeOK, RecordInv, [Next]_vars PROVE RecordInv'
  OBVIOUS
<1>1. ASSUME NEW c \in Callers, Call(c) PROVE RecordInv'
  BY <1>1 DEF Call, TypeOK, RecordInv
<1>2. ASSUME NEW c \in Callers, GetNextURL(c) \/ Expire(c) PROVE RecordInv'
  BY <1>2 DEF GetNextURL, Expire, decoded, history, TypeOK, RecordInv
<1>3. ASSUME NEW c \in Callers, Fail(c) PROVE RecordInv'
  <2>1. UNCHANGED <<resultError, resultSet, answered, errored>>
    BY <1>3 DEF Fail, decoded, history
  <2>2. outcome[c] # "answer"
    BY <1>3 DEF Fail, RecordInv
  <2> QED
    BY <1>3, <2>1, <2>2 DEF Fail, Retry, TypeOK, RecordInv
<1>4. ASSUME NEW c \in Callers, NEW body \in Bodies, Answer(c, body) PROVE RecordInv'
  BY <1>4 DEF Answer, Retry, ErrorAfter, HasResult, Bodies, TypeOK, RecordInv
<1>5. CASE UNCHANGED vars
  BY <1>5 DEF vars, decoded, history, RecordInv
<1> QED
  BY <1>1, <1>2, <1>3, <1>4, <1>5 DEF Next, Reply

\* rpc.go:82-135.  Only an error a node gave before keeps a call from returning a
\* result a node gives it.
THEOREM ResultKept == Spec => []AnswerKept
<1>1. Init => RecordInv
  BY DEF Init, RecordInv
<1>2. TypeOK /\ RecordInv /\ [Next]_vars => RecordInv'
  BY RecordNext
<1>3. RecordInv => AnswerKept
  BY DEF RecordInv, AnswerKept, Failed
<1> QED
  BY TypeCorrect, <1>1, <1>2, <1>3, PTL DEF Spec
====
