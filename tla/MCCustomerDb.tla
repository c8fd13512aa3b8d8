---------------------------- MODULE MCCustomerDb ----------------------------
(***************************************************************************)
(* Instances of CustomerDb for TLC.                                        *)
(***************************************************************************)
EXTENDS CustomerDb

OneEach == [i \in Node |-> IF i < 2 THEN 1 ELSE 0]

CreateAlice == [op |-> "create_account", kind |-> "seller", name |-> "alice"]
UpdateFirst == [op |-> "update_account", kind |-> "seller", id |-> <<0, 1>>, counters |-> 1]
Login == [op |-> "create_session", kind |-> "seller"]
LogoutFirst == [op |-> "delete_session", session |-> <<0, 1>>]
Reset == [op |-> "reset_all"]

\* requests of different nodes compete for one name, and a second one meets
\* what the first of node 0 may have created
Contended == [r \in RequestId |->
    IF r = <<0, 1>> THEN {CreateAlice, Login}
    ELSE {CreateAlice, UpdateFirst, LogoutFirst, Reset}]
==============================================================================
