------------------------------ MODULE Journey ------------------------------
(***************************************************************************)
(* What the executor promises to those who deposit a task: the deposit is   *)
(* in one piece and in one place at any time, it goes along the steps of    *)
(* the task in their order and takes each of them once, and the task is     *)
(* declared completed when the deposit has come to the end, not before.     *)
(*                                                                         *)
(* Nonces, documents, queries and indexers do not exist here: they are how  *)
(* TaskEngine keeps the promise.                                            *)
(***************************************************************************)
EXTENDS Naturals

CONSTANTS
    Tasks,
    Length,    \* Length[t]: the number of steps of t
    Bridges,   \* Bridges[t]: those that lead to another chain
    Merged     \* tasks whose first step is taken in one transaction with the claim

VARIABLES
    deposit,   \* deposit[t]: how many steps the deposit of t has taken and where it is:
               \* with the "handler", on an "account" or on a "bridge"
    completed  \* the tasks that are declared completed

vars == <<deposit, completed>>

Init ==
    /\ deposit = [t \in Tasks |-> [taken |-> 0, where |-> "handler"]]
    /\ completed = {}

\* Where the deposit of t is after step i; no step is a bridge before the claim.
After(t, i) == [taken |-> i, where |-> IF i \in Bridges[t] THEN "bridge" ELSE "account"]

\* The places a deposit can go to from place d.
Onward(t, d) ==
    CASE d.where = "handler" -> {After(t, IF t \in Merged THEN 1 ELSE 0)}
      [] d.where = "account" -> {After(t, i) : i \in {d.taken + 1} \cap 1..Length[t]}
      [] d.where = "bridge"  -> {[d EXCEPT !.where = "account"]}

Move(t) ==
    /\ UNCHANGED completed
    /\ \E d \in Onward(t, deposit[t]) : deposit' = [deposit EXCEPT ![t] = d]

Complete(t) ==
    /\ deposit[t] = [taken |-> Length[t], where |-> "account"]
    /\ completed' = completed \cup {t}
    /\ UNCHANGED deposit

\* A query that still has an old copy of the task may take the declaration back.
Forget(t) ==
    /\ completed' = completed \ {t}
    /\ UNCHANGED deposit

Next == \E t \in Tasks : Forget(t) \/ Complete(t) \/ Move(t)

Spec == Init /\ [][Next]_vars
=============================================================================
