---- MODULE RPCClient ----
(***************************************************************************)
(* internal/rpc/rpc.go.  One client serves every goroutine of the bot.     *)
(* CallWithRetry asks one node after the other, taken from an atomic       *)
(* counter all calls share, until one of them answers without an error.    *)
(* The record the answers are decoded into is declared outside the loop:   *)
(* a field the next answer does not have keeps its value.                  *)
(***************************************************************************)
EXTENDS Naturals

CONSTANTS
  Callers,    \* goroutines, each with one call at a time
  N,          \* len(rpcURLs)
  MaxRetries  \* maxRetries, 5 in the code

ASSUME RPCClientAssumption ==
  /\ N \in Nat \ {0}       \* NewRPCClient panics on an empty list
  /\ MaxRetries \in Nat

VARIABLES
  currentIndex, \* modulo N, all that is ever used of it
  \* each call
  pc,           \* "idle", "next" about to take a node, "asking" waiting for its answer
  attempt,
  cancelled,    \* the context is cancelled or past its deadline
  resultError,  \* result.Error is not nil
  resultSet,    \* result.Result is not nil
  outcome,      \* of the caller's last call
  \* history of the call: nodes it took, whether one of its answers had a result or
  \* an error, and whether another call took a node in between
  tried, answered, errored, disturbed

decoded == <<resultError, resultSet>>
history == <<answered, errored>>
vars == <<currentIndex, pc, attempt, cancelled, decoded, outcome, tried, history, disturbed>>

Nodes == 0 .. N - 1

\* A body that is valid JSON: a result without an error field, as JSON-RPC 2.0
\* demands, a result with a null one, an error, or neither field.
Bodies == {"result", "resultNull", "error", "other"}

TypeOK ==
  /\ currentIndex \in Nodes
  /\ pc \in [Callers -> {"idle", "next", "asking"}]
  /\ attempt \in [Callers -> 0 .. MaxRetries]
  /\ cancelled \in [Callers -> BOOLEAN]
  /\ resultError \in [Callers -> BOOLEAN] /\ resultSet \in [Callers -> BOOLEAN]
  /\ outcome \in [Callers -> {"none", "answer", "empty", "failed"}]
  /\ tried \in [Callers -> SUBSET Nodes]
  /\ answered \in [Callers -> BOOLEAN] /\ errored \in [Callers -> BOOLEAN]
  /\ disturbed \in [Callers -> BOOLEAN]

Init ==
  /\ currentIndex = 0
  /\ pc = [c \in Callers |-> "idle"]
  /\ attempt = [c \in Callers |-> 0]
  /\ cancelled = [c \in Callers |-> FALSE]
  /\ resultError = [c \in Callers |-> FALSE] /\ resultSet = [c \in Callers |-> FALSE]
  /\ outcome = [c \in Callers |-> "none"]
  /\ tried = [c \in Callers |-> {}]
  /\ answered = [c \in Callers |-> FALSE] /\ errored = [c \in Callers |-> FALSE]
  /\ disturbed = [c \in Callers |-> FALSE]
----
\* CallWithRetry begins: its locals are fresh.
Call(c) ==
  /\ pc[c] = "idle"
  /\ pc' = [pc EXCEPT ![c] = "next"]
  /\ attempt' = [attempt EXCEPT ![c] = 0]
  /\ cancelled' = [cancelled EXCEPT ![c] = FALSE]
  /\ resultError' = [resultError EXCEPT ![c] = FALSE]
  /\ resultSet' = [resultSet EXCEPT ![c] = FALSE]
  /\ outcome' = [outcome EXCEPT ![c] = "none"]
  /\ tried' = [tried EXCEPT ![c] = {}]
  /\ answered' = [answered EXCEPT ![c] = FALSE]
  /\ errored' = [errored EXCEPT ![c] = FALSE]
  /\ disturbed' = [disturbed EXCEPT ![c] = FALSE]
  /\ UNCHANGED currentIndex

\* The index the atomic addition returns, modulo the number of nodes.
NextIndex == IF currentIndex = N - 1 THEN 0 ELSE currentIndex + 1

\* After the pause between attempts, which does not watch the context.
GetNextURL(c) ==
  /\ pc[c] = "next"
  /\ currentIndex' = NextIndex
  /\ pc' = [pc EXCEPT ![c] = "asking"]
  /\ tried' = [tried EXCEPT ![c] = @ \cup {NextIndex}]
  /\ disturbed' = [d \in Callers |-> disturbed[d] \/ (d # c /\ pc[d] # "idle")]
  /\ UNCHANGED <<attempt, cancelled, decoded, outcome, history>>

\* Slips: one attempt more, one less, and an attempt that is not counted.
Retry_OneMore(c) ==
  IF attempt[c] <= MaxRetries
    THEN /\ attempt' = [attempt EXCEPT ![c] = @ + 1]
         /\ pc' = [pc EXCEPT ![c] = "next"] /\ UNCHANGED outcome
    ELSE /\ pc' = [pc EXCEPT ![c] = "idle"]
         /\ outcome' = [outcome EXCEPT ![c] = "failed"] /\ UNCHANGED attempt

Retry_OneLess(c) ==
  IF attempt[c] + 1 < MaxRetries
    THEN /\ attempt' = [attempt EXCEPT ![c] = @ + 1]
         /\ pc' = [pc EXCEPT ![c] = "next"] /\ UNCHANGED outcome
    ELSE /\ pc' = [pc EXCEPT ![c] = "idle"]
         /\ outcome' = [outcome EXCEPT ![c] = "failed"] /\ UNCHANGED attempt

Retry_Uncounted(c) ==
  /\ pc' = [pc EXCEPT ![c] = "next"]
  /\ UNCHANGED <<attempt, outcome>>

\* "continue": the next attempt, or the error after the last.
Retry(c) ==
  IF attempt[c] < MaxRetries
    THEN /\ attempt' = [attempt EXCEPT ![c] = @ + 1]
         /\ pc' = [pc EXCEPT ![c] = "next"]
         /\ UNCHANGED outcome
    ELSE /\ pc' = [pc EXCEPT ![c] = "idle"]
         /\ outcome' = [outcome EXCEPT ![c] = "failed"]
         /\ UNCHANGED attempt

\* No body to decode: the request fails or times out, as it does at once when the
\* context has ended, or the status is 429 or at least 500, or the body is no JSON.
Fail(c) ==
  /\ pc[c] = "asking"
  /\ Retry(c)
  /\ UNCHANGED <<currentIndex, cancelled, decoded, tried, history, disturbed>>

\* A slip: an absent error field counts as an error.
ErrorAfter_AbsentIsError(body, old) == old \/ body # "resultNull"

\* result.Error after json.Unmarshal: only a body with the field touches it.
ErrorAfter(body, old) == body = "error" \/ (old /\ body # "resultNull")

HasResult(body) == body \in {"result", "resultNull"}

\* A body arrives, with a status below 500 other than 429.
Answer(c, body) ==
  /\ pc[c] = "asking" /\ ~cancelled[c]
  /\ resultError' = [resultError EXCEPT ![c] = ErrorAfter(body, @)]
  /\ resultSet' = [resultSet EXCEPT ![c] = @ \/ HasResult(body)]
  /\ answered' = [answered EXCEPT ![c] = @ \/ HasResult(body)]
  /\ errored' = [errored EXCEPT ![c] = @ \/ body = "error"]
  /\ IF resultError'[c]
       THEN Retry(c)
       ELSE /\ pc' = [pc EXCEPT ![c] = "idle"]
            /\ outcome' = [outcome EXCEPT ![c] = IF resultSet'[c] THEN "answer" ELSE "empty"]
            /\ UNCHANGED attempt
  /\ UNCHANGED <<currentIndex, cancelled, tried, disturbed>>

\* The caller cancels the context, or its deadline passes.
Expire(c) ==
  /\ pc[c] # "idle" /\ ~cancelled[c]
  /\ cancelled' = [cancelled EXCEPT ![c] = TRUE]
  /\ UNCHANGED <<currentIndex, pc, attempt, decoded, outcome, tried, history, disturbed>>
----
Reply(c) == Fail(c) \/ \E body \in Bodies : Answer(c, body)

Next == \E c \in Callers : Call(c) \/ GetNextURL(c) \/ Reply(c) \/ Expire(c)

Spec == Init /\ [][Next]_vars

\* The pauses end, and http.Client.Timeout ends every request.
Fairness == \A c \in Callers : WF_vars(GetNextURL(c)) /\ WF_vars(Reply(c))

FairSpec == Spec /\ Fairness
----
(* Properties. *)

Failed(c) == outcome[c] = "failed"

\* rpc.go:56-60, 89-94.  A call that fails has tried every node, if it may take as
\* many and no other call took one in between.
AllNodesTried ==
  \A c \in Callers : Failed(c) /\ ~disturbed[c] /\ N <= MaxRetries + 1 => tried[c] = Nodes

\* rpc.go:82-135.  A call that fails although a node gave it a result had an error
\* from a node before: no other kind of failure spoils a later result.
AnswerKept == \A c \in Callers : Failed(c) /\ answered[c] => errored[c]

\* rpc.go:45-47, 89-139.  Every call returns, whatever the nodes do and whether or
\* not its context ends.
CallReturns == \A c \in Callers : pc[c] # "idle" ~> pc[c] = "idle"

\* rpc.go:138: the call failed "after the retries", so no attempt had a result.
\* The record reused by the attempts breaks it.
AnswerReturned == \A c \in Callers : Failed(c) => ~answered[c]
====
