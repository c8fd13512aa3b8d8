--------------------------- MODULE CustomerServer ---------------------------
(***************************************************************************)
(* The customer database as one process: customer_db/src/main.rs, the      *)
(* server that the replicated one took the place of.  Every RPC holds the  *)
(* connection's lock while it runs one statement, so it is one step; what  *)
(* it draws (an id, the time) is drawn at some moment before.              *)
(*                                                                         *)
(* The replicas of CustomerDb promise the same tables, each with a clock   *)
(* of its own.                                                             *)
(***************************************************************************)
EXTENDS Integers, FiniteSets

CONSTANTS
    Id,           \* ids of accounts and sessions
    Name,         \* names of accounts
    Counters,     \* what the counters of an account may be, 0 among them
    SESSION_TTL   \* lifetime of a session, in seconds

VARIABLES
    accounts,  \* the tables sellers and buyers
    sessions,  \* the table sessions
    clock      \* the clock of the machine, in seconds

vars == <<accounts, sessions, clock>>

Kind == {"seller", "buyer"}

\* get_seller_by_name and get_buyer_by_name, get_seller and get_buyer
AccountsNamed(kind, name) == {a \in accounts : a.kind = kind /\ a.name = name}
AccountsWithId(kind, id) == {a \in accounts : a.kind = kind /\ a.id = id}

Init ==
    /\ accounts = {}
    /\ sessions = {}
    /\ clock = 0

\* create_seller and create_buyer: the name is UNIQUE, or the RPC fails
CreateAccount(kind, id, name) ==
    /\ AccountsWithId(kind, id) = {}
    /\ AccountsNamed(kind, name) = {}
    /\ accounts' = accounts \cup {[kind |-> kind, id |-> id, name |-> name, counters |-> 0]}
    /\ UNCHANGED <<sessions, clock>>

\* update_seller and update_buyer: the counters of a row that is there
UpdateAccount(kind, id, counters) ==
    /\ accounts' = (accounts \ AccountsWithId(kind, id))
                   \cup {[a EXCEPT !.counters = counters] : a \in AccountsWithId(kind, id)}
    /\ UNCHANGED <<sessions, clock>>

\* create_session: the account is not looked up
CreateSession(kind, id) ==
    /\ \A s \in sessions : s.id # id
    /\ sessions' = sessions \cup {[id |-> id, kind |-> kind, expiration |-> clock + SESSION_TTL]}
    /\ UNCHANGED <<accounts, clock>>

Expired(s) == s.expiration < clock

\* get_session lets the lock go between the check and the deletion; a row that was
\* past its time stays so
DeleteExpired(s) ==
    /\ s \in sessions
    /\ Expired(s)
    /\ sessions' = sessions \ {s}
    /\ UNCHANGED <<accounts, clock>>

DeleteSession(id) ==
    /\ sessions' = {s \in sessions : s.id # id}
    /\ UNCHANGED <<accounts, clock>>

ResetAll ==
    /\ accounts' = {}
    /\ sessions' = {}
    /\ UNCHANGED clock

Tick ==
    /\ clock' = clock + 1
    /\ UNCHANGED <<accounts, sessions>>

Next ==
    \/ \E kind \in Kind, id \in Id :
          \/ \E name \in Name : CreateAccount(kind, id, name)
          \/ \E counters \in Counters : UpdateAccount(kind, id, counters)
          \/ CreateSession(kind, id)
    \/ \E id \in Id : DeleteSession(id)
    \/ \E s \in sessions : DeleteExpired(s)
    \/ ResetAll
    \/ Tick

Spec == Init /\ [][Next]_vars
==============================================================================
