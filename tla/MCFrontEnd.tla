----------------------------- MODULE MCFrontEnd -----------------------------
(***************************************************************************)
(* Instances of FrontEnd for TLC: one client creates its buyer's account,  *)
(* logs in, uses the session at either front end and logs out: four of     *)
(* these five calls, in any order and at the same time.                    *)
(***************************************************************************)
EXTENDS FrontEnd

Alice == "alice"
Tasks == [h \in Handler |-> IF h = "check_as_seller" THEN "check" ELSE h]
Sides == [h \in Handler |-> IF h = "check_as_seller" THEN "seller" ELSE "buyer"]

\* the front ends begin with replica 0
MostAtFirst == [i \in Node |-> IF i = 0 THEN 3 ELSE 1]
\* what the client may ask for
Wishes == [r \in RequestId |->
    {[op |-> "create_account", kind |-> "buyer", name |-> "alice"],
     [op |-> "create_session", kind |-> "buyer"]}
    \cup {[op |-> "delete_session", session |-> s] : s \in RequestId}]
==============================================================================
