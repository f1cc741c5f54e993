------------------------------ MODULE RemoteCalls ------------------------------
(***************************************************************************)
(* What an IChannel promises its caller ("A `call` always returns a        *)
(* promise with at most one single return value"): a call is executed at   *)
(* most once, its promise is settled at most once, and a promise that is   *)
(* settled by an answer is settled by the answer of that execution.  A     *)
(* promise may also be given up: cancelled, never sent, or sent to a       *)
(* channel nobody registered in time; the execution is then not prevented. *)
(* An execution whose result cannot be serialized gives no answer.         *)
(***************************************************************************)
CONSTANT Calls

VARIABLES outcome,  \* outcome[c]: what the caller sees of the promise of call c
          ran       \* ran[c]: what has happened of the call on the server

rcVars == <<outcome, ran>>

Answers == {"ok", "error"}
GivenUp == {"cancelled", "unsent", "unknown"}

RcInit ==
    /\ outcome = [c \in Calls |-> "none"]
    /\ ran = [c \in Calls |-> "none"]

Ask(c) ==
    /\ outcome[c] = "none"
    /\ \E s \in {"open", "cancelled", "unsent"} : outcome' = [outcome EXCEPT ![c] = s]
    /\ UNCHANGED ran

Execute(C) ==
    /\ C # {}
    /\ \A c \in C : outcome[c] \notin {"none", "unsent"} /\ ran[c] = "none"
    /\ ran' = [c \in Calls |-> IF c \in C THEN "running" ELSE ran[c]]
    /\ UNCHANGED outcome

Finish(c) ==
    /\ ran[c] = "running"
    /\ \E a \in Answers \cup {"unserializable"} : ran' = [ran EXCEPT ![c] = a]
    /\ UNCHANGED outcome

Return(c) ==
    /\ outcome[c] = "open" /\ ran[c] \in Answers
    /\ outcome' = [outcome EXCEPT ![c] = ran[c]]
    /\ UNCHANGED ran

GiveUp(C) ==
    /\ C # {}
    /\ \A c \in C : outcome[c] = "open"
    /\ \E s \in GivenUp : outcome' = [c \in Calls |-> IF c \in C THEN s ELSE outcome[c]]
    /\ UNCHANGED ran

RcNext ==
    \/ \E c \in Calls : Ask(c) \/ Finish(c) \/ Return(c)
    \/ \E C \in SUBSET Calls : Execute(C) \/ GiveUp(C)

RcSafety == RcInit /\ [][RcNext]_rcVars
=============================================================================
