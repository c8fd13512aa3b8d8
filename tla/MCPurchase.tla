----------------------------- MODULE MCPurchase -----------------------------
(***************************************************************************)
(* Instances of Purchase for TLC: two buyers and one that may register,    *)
(* two sellers, one item on sale and one that may be registered, three     *)
(* calls at once.                                                          *)
(***************************************************************************)
EXTENDS Purchase, TLC

\* one item on sale with two units
OnSale == "i1" :> [seller |-> "s1", price |-> 1, quantity |-> 2, thumbs |-> 0]

\* the two carts together ask for more units than there are
Carts == [b \in Buyer |-> IF b = "b1" THEN ("i1" :> 2) ELSE IF b = "b2" THEN ("i1" :> 1) @@ ("i2" :> 1) ELSE NoCart]
TwoUnitsEach == [b \in Buyer |-> "i1" :> 2]

Purchases(b) == [kind |-> "purchase", user |-> b]
Seller1 == {[kind |-> "update_units", user |-> "s1", item |-> "i1", quantity |-> 3],
            [kind |-> "update_units", user |-> "s1", item |-> "i1", quantity |-> -1],
            [kind |-> "change_item_price", user |-> "s1", item |-> "i1", price |-> 2],
            [kind |-> "register_item", user |-> "s1", quantity |-> 1],
            [kind |-> "logout", user |-> "b1"],
            [kind |-> "create_account", user |-> "b3"],
            [kind |-> "reset_all"]}
Buyer1 == {Purchases("b1"),
           [kind |-> "provide_feedback", user |-> "b1", item |-> "i1"],
           [kind |-> "save_cart", user |-> "b1"],
           [kind |-> "clear_cart", user |-> "b1"],
           [kind |-> "remove_from_cart", user |-> "b1", item |-> "i1", quantity |-> 2],
           [kind |-> "remove_from_cart", user |-> "b1", item |-> "i1", quantity |-> -1]}
\* a second purchase of the first buyer is one sent twice, or again after an error
Buyer2 == {Purchases("b2"),
           Purchases("b1"),
           [kind |-> "provide_feedback", user |-> "b2", item |-> "i1"],
           [kind |-> "login", user |-> "b1"],
           [kind |-> "create_account", user |-> "b1"],
           [kind |-> "login", user |-> "b3"],
           [kind |-> "add_to_cart", user |-> "b1", item |-> "i1", quantity |-> 1],
           [kind |-> "add_to_cart", user |-> "b1", item |-> "i1", quantity |-> -3]}
Seller2 == {[kind |-> "update_units", user |-> "s2", item |-> "i1", quantity |-> 1]}

\* anyone may call at the same time as anyone else
Busy == [c \in Call |-> IF c = 1 THEN Buyer1 ELSE IF c = 2 THEN Buyer2 ELSE Seller1 \cup Seller2]

\* the id of the item that call 3 may register
Drawn == [c \in Call \ {1, 2} |-> "i2"]

\* nothing but purchases
Shoppers == [c \in Call |-> IF c = 1 THEN {Purchases("b1")} ELSE {Purchases("b2")}]
==============================================================================
