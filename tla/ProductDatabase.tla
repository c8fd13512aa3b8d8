-------------------------- MODULE ProductDatabase --------------------------
(***************************************************************************)
(* What the product database promises the front ends that call it: it is   *)
(* one database.  A write takes effect once, at a moment after it was      *)
(* asked for, which may come after the caller was told that it failed; a   *)
(* read shows a state that is at least as late as every state an earlier   *)
(* answer has shown.                                                       *)
(*                                                                         *)
(* A state of the database is a prefix of `order`, the writes that took    *)
(* effect; entries that no caller asked for (Internal) may be among them.  *)
(***************************************************************************)
EXTENDS Integers, Sequences

CONSTANTS
    Call,      \* the RPCs made
    Write,     \* those that write; the others read
    Internal   \* not a Call: an entry of the database's own

VARIABLES
    order,     \* the writes that took effect
    state,     \* [Call -> "idle", "running", "ok", "error"]
    from,      \* [Call -> how much of order had been shown when the call was made]
    shown      \* [Call -> how much of order its answer showed]

vars == <<order, state, from, shown>>

Init ==
    /\ order = <<>>
    /\ state = [c \in Call |-> "idle"]
    /\ from = [c \in Call |-> 0]
    /\ shown = [c \in Call |-> 0]

TookEffect(w) == \E k \in 1 .. Len(order) : order[k] = w

\* no answer has shown more than this
IsKnown(k) ==
    /\ \A c \in Call : shown[c] <= k
    /\ k = 0 \/ \E c \in Call : shown[c] = k

Invoke(c) ==
    /\ state[c] = "idle"
    /\ state' = [state EXCEPT ![c] = "running"]
    /\ \E k \in 0 .. Len(order) : IsKnown(k) /\ from' = [from EXCEPT ![c] = k]
    /\ UNCHANGED <<order, shown>>

Execute(w) ==
    /\ w = Internal \/ (w \in Write /\ state[w] # "idle" /\ ~ TookEffect(w))
    /\ order' = Append(order, w)
    /\ UNCHANGED <<state, from, shown>>

Answer(c) == \E k \in from[c] .. Len(order) :
    /\ state[c] = "running"
    /\ c \in Write => k > 0 /\ order[k] = c
    /\ state' = [state EXCEPT ![c] = "ok"]
    /\ shown' = [shown EXCEPT ![c] = k]
    /\ UNCHANGED <<order, from>>

\* calls may fail together, when a node ends that was serving them
Fail(failing) ==
    /\ \A c \in failing : state[c] = "running"
    /\ state' = [c \in Call |-> IF c \in failing THEN "error" ELSE state[c]]
    /\ UNCHANGED <<order, from, shown>>

Next ==
    \/ Execute(Internal)
    \/ \E c \in Call : Invoke(c) \/ Execute(c) \/ Answer(c)
    \/ \E failing \in SUBSET Call : Fail(failing)

Spec == Init /\ [][Next]_vars
==============================================================================
