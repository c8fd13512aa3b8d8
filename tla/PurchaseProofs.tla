--------------------------- MODULE PurchaseProofs ---------------------------
(***************************************************************************)
(* Purchase for any number of buyers, sellers, items, calls and faults: an *)
(* item is left with a negative number of units, and a cart with an empty  *)
(* row, only if someone has asked for it.  A handler writes back a row it  *)
(* read long before, and a write may take effect long after its handler is *)
(* gone, so the invariants speak of what handlers hold and of what is      *)
(* still on its way.                                                       *)
(***************************************************************************)
EXTENDS Purchase, TLAPS, FiniteSetTheorems

ItemKinds == {"provide_feedback", "update_units", "change_item_price"}
Purchasing == {"pay", "next_item", "add_history", "get_seller", "update_seller", "update_buyer", "clear"}

\* The product database.
ProductSafe(p) ==
    /\ DOMAIN p = {"items", "carts", "history"}
    /\ \A i \in DOMAIN p.items : p.items[i] \in Row
    /\ DOMAIN p.carts = Buyer
    /\ \A b \in Buyer : IsCart(p.carts[b])

\* A write of the product service that keeps it so.
RequestSafe(r) ==
    /\ r.kind \in {"create_item", "update_item", "add_to_cart", "remove_from_cart", "clear_cart",
                   "save_cart", "add_purchase_history", "reset"}
    /\ r.kind \in {"create_item", "update_item"} => r.row \in Row
    /\ r.kind \in {"add_to_cart", "remove_from_cart"} => r.item \in Item /\ r.quantity \in Int
    /\ r.kind = "save_cart" => IsCart(r.cart)

LateSafe(ws) == \A w \in ws : w.db = "product" => RequestSafe(w.request)

\* What a handler holds at the step it is at.
HandlerSafe(c, k) ==
    /\ DOMAIN k = DOMAIN Idle
    /\ k.pc # "idle" => k.op \in Script[c]
    /\ IsCart(k.cart) /\ k.todo \subseteq DOMAIN k.cart
    /\ k.pc \in {"add_to_cart", "remove_from_cart", "clear_cart", "register_item"} => k.op.kind = k.pc
    /\ k.pc = "get_cart" => k.op.kind \in {"purchase", "save_cart"}
    /\ k.pc = "save" => k.op.kind = "save_cart"
    /\ k.pc = "get_item" => k.op.kind \in ItemKinds
    /\ k.pc \in Purchasing => k.op.kind = "purchase"
    /\ k.pc = "update_item" =>
          /\ k.op.kind \in ItemKinds \cup {"purchase"}
          /\ k.row \in Row
          /\ k.op.kind = "purchase" => k.item \in DOMAIN k.cart /\ k.cart[k.item] <= k.row.quantity

Handlers(ks) == DOMAIN ks = Call /\ \A c \in Call : HandlerSafe(c, ks[c])

ShopInv == ProductSafe(product) /\ LateSafe(late) /\ Handlers(calls)

(***************************************************************************)
(* The product database.                                                   *)
(***************************************************************************)
LEMMA CartFacts ==
    ASSUME NEW cart, IsCart(cart), NEW i \in Item, NEW q \in Int
    PROVE  IsCart(AddTo(cart, i, q)) /\ IsCart(RemoveFrom(cart, i, q)) /\ IsCart(NoCart)
<1>1. IsCart(AddTo(cart, i, q))
  BY DEF IsCart, AddTo, Put
<1>2. IsCart(RemoveFrom(cart, i, q))
  BY DEF IsCart, RemoveFrom, Restrict
<1>3. IsCart(NoCart)
  BY DEF IsCart, NoCart
<1> QED BY <1>1, <1>2, <1>3

LEMMA ApplyKeepsSafe ==
    ASSUME NEW p, ProductSafe(p), NEW r, RequestSafe(r)
    PROVE  ProductSafe(ApplyRequest(p, r))
<1>0. IsCart(NoCart)
  BY DEF IsCart, NoCart
<1>1. CASE r.kind = "create_item"
  BY <1>1 DEF ApplyRequest, ProductSafe, RequestSafe, Put
<1>2. CASE r.kind = "update_item"
  BY <1>2 DEF ApplyRequest, ProductSafe, RequestSafe
<1>3. CASE r.kind = "add_to_cart"
  <2>1. \A b \in Buyer : IsCart(AddTo(p.carts[b], r.item, r.quantity))
    BY <1>3, CartFacts DEF ProductSafe, RequestSafe
  <2> QED BY <1>3, <2>1 DEF ApplyRequest, ProductSafe
<1>4. CASE r.kind = "remove_from_cart"
  <2>1. \A b \in Buyer : IsCart(RemoveFrom(p.carts[b], r.item, r.quantity))
    BY <1>4, CartFacts DEF ProductSafe, RequestSafe
  <2> QED BY <1>4, <2>1 DEF ApplyRequest, ProductSafe
<1>5. CASE r.kind = "clear_cart"
  BY <1>0, <1>5 DEF ApplyRequest, ProductSafe
<1>6. CASE r.kind = "save_cart"
  BY <1>6 DEF ApplyRequest, ProductSafe, RequestSafe
<1>7. CASE r.kind = "add_purchase_history"
  BY <1>7 DEF ApplyRequest, ProductSafe
<1>8. CASE r.kind = "reset"
  BY <1>0, <1>8 DEF ApplyRequest, ProductSafe
<1> QED BY <1>1, <1>2, <1>3, <1>4, <1>5, <1>6, <1>7, <1>8 DEF RequestSafe

LEMMA ProductWriteSafe ==
    ASSUME ShopInv, NEW r, RequestSafe(r), NEW o, ProductWrite(r, o)
    PROVE  ProductSafe(product') /\ LateSafe(late')
BY ApplyKeepsSafe DEF ShopInv, ProductWrite, Postpone, LateSafe

LEMMA CustomerWriteSafe ==
    ASSUME ShopInv, NEW r, NEW o, CustomerWrite(r, o)
    PROVE  LateSafe(late')
BY DEF ShopInv, CustomerWrite, Postpone, LateSafe

\* A handler that returns holds nothing but a cart that was paid.
LEMMA EndSafe ==
    ASSUME ShopInv, NEW c \in Call, NEW result, calls[c].pc # "idle", End(c, result)
    PROVE  Handlers(calls')
<1>1. IsCart(NoCart)
  BY DEF IsCart, NoCart
<1>2. HandlerSafe(c, calls'[c])
  BY <1>1 DEF End, Idle, ShopInv, Handlers, HandlerSafe, Purchasing
<1> QED BY <1>2 DEF End, ShopInv, Handlers

\* Only the handler of c moves, to a step it may be at.
Moves(c) ==
    /\ DOMAIN calls' = Call
    /\ \A d \in Call \ {c} : calls'[d] = calls[d]
    /\ HandlerSafe(c, calls'[c])

LEMMA MovesSafe ==
    ASSUME ShopInv, NEW c \in Call, Moves(c)
    PROVE  Handlers(calls')
BY DEF ShopInv, Handlers, Moves

\* The facts about the handler at hand.
LEMMA Held ==
    ASSUME ShopInv, NEW c \in Call
    PROVE  HandlerSafe(c, calls[c]) /\ c \in DOMAIN calls /\ DOMAIN calls = Call
BY DEF ShopInv, Handlers

(***************************************************************************)
(* The handlers, action by action.                                         *)
(***************************************************************************)
LEMMA StartSafe ==
    ASSUME ShopInv, NEW c \in Call, Start(c)
    PROVE  ShopInv'
<1>1. PICK op \in Script[c] :
         /\ At(c, "idle")
         /\ calls' = [calls EXCEPT ![c].op = op, ![c].pc = First(op.kind)]
  BY DEF Start
<1>2. Moves(c)
  <2>1. /\ calls'[c].pc = First(op.kind) /\ calls'[c].op = op
        /\ calls'[c].cart = calls[c].cart /\ calls'[c].todo = calls[c].todo
        /\ DOMAIN calls'[c] = DOMAIN Idle
    BY <1>1, Held DEF HandlerSafe, Idle
  <2>2. HandlerSafe(c, calls'[c])
    BY <2>1, Held, ScriptAssumption DEF HandlerSafe, First, Purchasing, ItemKinds
  <2> QED BY <1>1, <2>2, Held DEF Moves
<1> QED BY <1>2, MovesSafe DEF Start, ShopInv

LEMMA ExpiredSafe ==
    ASSUME ShopInv, NEW c \in Call, Expired(c)
    PROVE  ShopInv'
<1>1. PICK op \in Script[c], o \in Outcome, s \in sessions :
         /\ CustomerWrite([kind |-> "delete_session", user |-> op.user, id |-> s[2]], o)
         /\ calls' = [calls EXCEPT ![c].op = op, ![c].pc = "done", ![c].result = "expired"]
         /\ UNCHANGED product
  BY DEF Expired, SessionsOf
<1>2. Moves(c)
  <2>1. /\ calls'[c].pc = "done" /\ calls'[c].op = op
        /\ calls'[c].cart = calls[c].cart /\ calls'[c].todo = calls[c].todo
        /\ DOMAIN calls'[c] = DOMAIN Idle
    BY <1>1, Held DEF HandlerSafe, Idle
  <2>2. HandlerSafe(c, calls'[c])
    BY <2>1, Held DEF HandlerSafe, Purchasing
  <2> QED BY <1>1, <2>2, Held DEF Moves
<1> QED BY <1>1, <1>2, MovesSafe, CustomerWriteSafe DEF ShopInv

LEMMA CutOffSafe ==
    ASSUME ShopInv, NEW c \in Call, CutOff(c)
    PROVE  ShopInv'
BY EndSafe DEF CutOff, ShopInv

LEMMA LandSafe ==
    ASSUME ShopInv, Land
    PROVE  ShopInv'
<1>1. PICK w \in late :
         /\ late' = late \ {w}
         /\ product' = IF w.db = "product" THEN ApplyRequest(product, w.request) ELSE product
         /\ UNCHANGED calls
  BY DEF Land
<1>2. LateSafe(late')
  BY <1>1 DEF ShopInv, LateSafe
<1>3. ProductSafe(product')
  BY <1>1, ApplyKeepsSafe DEF ShopInv, LateSafe
<1> QED BY <1>1, <1>2, <1>3 DEF ShopInv

\* Accounts and sessions: the product database is not touched.
LEMMA AccountsSafe ==
    ASSUME ShopInv, NEW c \in Call, CreateAccount(c) \/ CreateSession(c) \/ Logout(c) \/ ResetCustomers(c)
    PROVE  ShopInv'
<1>1. PICK r, o : CustomerWrite(r, o) /\ UNCHANGED product
  BY DEF CreateAccount, CreateSession, Logout, ResetCustomers
<1>2. calls[c].pc # "idle"
  BY DEF CreateAccount, CreateSession, Logout, ResetCustomers, At
<1>3. CASE \E result : End(c, result)
  BY <1>1, <1>2, <1>3, EndSafe, CustomerWriteSafe DEF ShopInv
<1>4. CASE calls' = [calls EXCEPT ![c].pc = "reset_products"]
  <2>1. /\ calls'[c].pc = "reset_products" /\ calls'[c].op = calls[c].op
        /\ calls'[c].cart = calls[c].cart /\ calls'[c].todo = calls[c].todo
        /\ DOMAIN calls'[c] = DOMAIN Idle
    BY <1>4, Held DEF HandlerSafe, Idle
  <2>2. HandlerSafe(c, calls'[c])
    BY <1>2, <2>1, Held DEF HandlerSafe, Purchasing
  <2>3. Moves(c)
    BY <1>4, <2>2, Held DEF Moves
  <2> QED BY <1>1, <2>3, MovesSafe, CustomerWriteSafe DEF ShopInv
<1> QED BY <1>3, <1>4 DEF CreateAccount, CreateSession, Logout, ResetCustomers

LEMMA LoginSafe ==
    ASSUME ShopInv, NEW c \in Call, Login(c)
    PROVE  ShopInv'
<1>1. UNCHANGED <<product, late>> /\ calls[c].pc # "idle"
  BY DEF Login, Read, At
<1>2. CASE \E result : End(c, result)
  BY <1>1, <1>2, EndSafe DEF ShopInv
<1>3. CASE calls' = [calls EXCEPT ![c].pc = "create_session"]
  <2>1. /\ calls'[c].pc = "create_session" /\ calls'[c].op = calls[c].op
        /\ calls'[c].cart = calls[c].cart /\ calls'[c].todo = calls[c].todo
        /\ DOMAIN calls'[c] = DOMAIN Idle
    BY <1>3, Held DEF HandlerSafe, Idle
  <2>2. HandlerSafe(c, calls'[c])
    BY <1>1, <2>1, Held DEF HandlerSafe, Purchasing
  <2>3. Moves(c)
    BY <1>3, <2>2, Held DEF Moves
  <2> QED BY <1>1, <2>3, MovesSafe DEF ShopInv
<1> QED BY <1>2, <1>3 DEF Login

WritesAndEnds(c) ==
    /\ \E r, o : ProductWrite(r, o) /\ RequestSafe(r) /\ r.kind # "add_purchase_history"
    /\ \E result : End(c, result)
    /\ calls[c].pc # "idle"

\* Handlers that end with a single write of the product service.
LEMMA OneWrite ==
    ASSUME ShopInv, NEW c \in Call,
           \/ AddToCart(c) \/ RemoveFromCart(c) \/ ClearCart(c) \/ SaveCart(c)
           \/ RegisterItem(c) \/ EndPurchase(c) \/ ResetProducts(c)
    PROVE  WritesAndEnds(c)
<1> USE DEF WritesAndEnds
<1>1. ASSUME NEW kind \in {"add_to_cart", "remove_from_cart", "clear_cart"}, CartCall(c, kind)
      PROVE  WritesAndEnds(c)
  <2>1. calls[c].op \in Script[c] /\ calls[c].op.kind = kind
    BY <1>1, Held DEF CartCall, At, HandlerSafe, Kind
  <2>2. RequestSafe(calls[c].op) /\ calls[c].op.kind # "add_purchase_history"
    BY <2>1, ScriptAssumption DEF RequestSafe
  <2>3. \E o : ProductWrite(calls[c].op, o)
    BY <1>1 DEF CartCall
  <2>4. (\E result : End(c, result)) /\ calls[c].pc # "idle"
    BY <1>1 DEF CartCall, At
  <2> QED BY <2>2, <2>3, <2>4
<1>2. CASE SaveCart(c)
  <2>1. RequestSafe([kind |-> "save_cart", user |-> User(c), cart |-> calls[c].cart])
    BY Held DEF RequestSafe, HandlerSafe
  <2> QED BY <1>2, <2>1 DEF SaveCart, At
<1>3. CASE RegisterItem(c)
  <2> DEFINE i == DrawnId[c]
  <2>1. PICK o \in Outcome :
           ProductWrite([kind |-> "create_item", item |-> i,
                         row |-> [seller |-> User(c), price |-> 1,
                                  quantity |-> calls[c].op.quantity, thumbs |-> 0]], o)
    BY <1>3 DEF RegisterItem
  <2>2. User(c) \in Seller /\ calls[c].op.quantity \in Int
    BY <1>3, Held, ScriptAssumption DEF RegisterItem, At, HandlerSafe, User
  <2>3. RequestSafe([kind |-> "create_item", item |-> i,
                     row |-> [seller |-> User(c), price |-> 1,
                              quantity |-> calls[c].op.quantity, thumbs |-> 0]])
    BY <2>2 DEF RequestSafe, Row
  <2> QED BY <1>3, <2>1, <2>3 DEF RegisterItem, At
<1>4. CASE EndPurchase(c)
  <2>1. RequestSafe([kind |-> "clear_cart", user |-> User(c)])
    BY DEF RequestSafe
  <2> QED BY <1>4, <2>1 DEF EndPurchase, At
<1>5. CASE ResetProducts(c)
  <2>1. RequestSafe([kind |-> "reset"])
    BY DEF RequestSafe
  <2> QED BY <1>5, <2>1 DEF ResetProducts, At
<1> QED BY <1>1, <1>2, <1>3, <1>4, <1>5 DEF AddToCart, RemoveFromCart, ClearCart

LEMMA OneWriteSafe ==
    ASSUME ShopInv, NEW c \in Call,
           \/ AddToCart(c) \/ RemoveFromCart(c) \/ ClearCart(c) \/ SaveCart(c)
           \/ RegisterItem(c) \/ EndPurchase(c) \/ ResetProducts(c)
    PROVE  ShopInv'
BY OneWrite, ProductWriteSafe, EndSafe DEF ShopInv, WritesAndEnds

LEMMA GetCartSafe ==
    ASSUME ShopInv, NEW c \in Call, GetCart(c)
    PROVE  ShopInv'
<1>1. UNCHANGED <<product, late>> /\ calls[c].pc = "get_cart"
  BY DEF GetCart, Read, At
<1>2. CASE \E result : End(c, result)
  BY <1>1, <1>2, EndSafe DEF ShopInv
<1>3. ASSUME calls' = [calls EXCEPT ![c].cart = product.carts[User(c)],
                                    ![c].todo = DOMAIN product.carts[User(c)],
                                    ![c].pc = IF Kind(c) = "purchase" THEN "pay" ELSE "save"]
      PROVE  ShopInv'
  <2>1. /\ calls'[c].pc = IF calls[c].op.kind = "purchase" THEN "pay" ELSE "save"
        /\ calls'[c].op = calls[c].op
        /\ calls'[c].cart = product.carts[calls[c].op.user]
        /\ calls'[c].todo = DOMAIN product.carts[calls[c].op.user]
        /\ DOMAIN calls'[c] = DOMAIN Idle
    BY <1>3, Held DEF HandlerSafe, Idle, Kind, User
  <2>2. /\ calls[c].op \in Script[c]
        /\ calls[c].op.kind \in {"purchase", "save_cart"}
    BY <1>1, Held DEF HandlerSafe
  <2>3. calls[c].op.user \in Buyer
    BY <2>2, ScriptAssumption
  <2>4. IsCart(product.carts[calls[c].op.user])
    BY <2>3 DEF ShopInv, ProductSafe
  <2>5. HandlerSafe(c, calls'[c])
    BY <2>1, <2>2, <2>4 DEF HandlerSafe, Purchasing
  <2>6. Moves(c)
    BY <1>3, <2>5, Held DEF Moves
  <2> QED BY <1>1, <2>6, MovesSafe DEF ShopInv
<1> QED BY <1>2, <1>3 DEF GetCart

LEMMA GetItemSafe ==
    ASSUME ShopInv, NEW c \in Call, GetItem(c)
    PROVE  ShopInv'
<1>1. UNCHANGED <<product, late>> /\ calls[c].pc = "get_item"
  BY DEF GetItem, Read, At
<1>2. CASE \E result : End(c, result)
  BY <1>1, <1>2, EndSafe DEF ShopInv
<1>3. ASSUME NEW i, i \in DOMAIN product.items,
             calls' = [calls EXCEPT ![c].item = i, ![c].row = product.items[i], ![c].pc = "update_item"]
      PROVE  ShopInv'
  <2>1. /\ calls'[c].pc = "update_item" /\ calls'[c].op = calls[c].op
        /\ calls'[c].cart = calls[c].cart /\ calls'[c].todo = calls[c].todo
        /\ calls'[c].row = product.items[i]
        /\ DOMAIN calls'[c] = DOMAIN Idle
    BY <1>3, Held DEF HandlerSafe, Idle
  <2>2. calls[c].op \in Script[c] /\ calls[c].op.kind \in ItemKinds
    BY <1>1, Held DEF HandlerSafe
  <2>3. product.items[i] \in Row
    BY <1>3 DEF ShopInv, ProductSafe
  <2>4. HandlerSafe(c, calls'[c])
    BY <2>1, <2>2, <2>3, Held DEF HandlerSafe, Purchasing, ItemKinds
  <2>5. Moves(c)
    BY <1>3, <2>4, Held DEF Moves
  <2> QED BY <1>1, <2>5, MovesSafe DEF ShopInv
<1> QED BY <1>2, <1>3 DEF GetItem

\* What is written back is a row.
LEMMA NewRowFact ==
    ASSUME ShopInv, NEW c \in Call, calls[c].pc = "update_item"
    PROVE  NewRow(c) \in Row
<1> DEFINE k == calls[c]
           row == k.row
<1>1. /\ k.op \in Script[c] /\ k.op.kind \in ItemKinds \cup {"purchase"}
      /\ row \in Row /\ IsCart(k.cart)
      /\ k.op.kind = "purchase" => k.item \in DOMAIN k.cart /\ k.cart[k.item] <= row.quantity
  BY Held DEF HandlerSafe
<1>2. /\ row.seller \in Seller /\ row.price \in Int /\ row.quantity \in Int /\ row.thumbs \in Nat
      /\ row = [seller |-> row.seller, price |-> row.price, quantity |-> row.quantity, thumbs |-> row.thumbs]
  BY <1>1 DEF Row
<1> HIDE DEF k, row
<1>3. CASE k.op.kind = "provide_feedback"
  <2>1. [row EXCEPT !.thumbs = @ + 1] \in Row
    BY <1>1, <1>2 DEF Row
  <2> QED BY <1>3, <2>1 DEF NewRow, Kind, Feedback, k, row
<1>4. CASE k.op.kind = "update_units"
  <2>1. k.op.quantity \in Int
    BY <1>1, <1>4, ScriptAssumption
  <2>2. [row EXCEPT !.quantity = k.op.quantity] \in Row
    BY <1>1, <1>2, <2>1 DEF Row
  <2> QED BY <1>4, <2>2 DEF NewRow, Kind, Units, k, row
<1>5. CASE k.op.kind = "change_item_price"
  <2>1. k.op.price \in Int
    BY <1>1, <1>5, ScriptAssumption
  <2>2. [row EXCEPT !.price = k.op.price] \in Row
    BY <1>1, <1>2, <2>1 DEF Row
  <2> QED BY <1>5, <2>2 DEF NewRow, Kind, Price, k, row
<1>6. CASE k.op.kind = "purchase"
  <2>1. k.cart[k.item] \in Int
    BY <1>1, <1>6 DEF IsCart
  <2>2. row.quantity - k.cart[k.item] \in Int
    BY <1>2, <2>1
  <2>3. [row EXCEPT !.quantity = row.quantity - k.cart[k.item]] \in Row
    BY <1>1, <1>2, <2>2 DEF Row
  <2> QED BY <1>6, <2>3 DEF NewRow, Kind, Deducted, k, row
<1> QED BY <1>1, <1>3, <1>4, <1>5, <1>6 DEF ItemKinds

\* The steps of make_purchase that only move on: what the handler holds stays.
Advance(c, pc) ==
    /\ calls'[c].pc = pc
    /\ calls'[c].op = calls[c].op /\ calls'[c].cart = calls[c].cart
    /\ calls'[c].todo \subseteq calls[c].todo
    /\ DOMAIN calls'[c] = DOMAIN Idle
    /\ DOMAIN calls' = Call /\ \A d \in Call \ {c} : calls'[d] = calls[d]

LEMMA AdvanceMoves ==
    ASSUME ShopInv, NEW c \in Call, NEW pc \in Purchasing, Advance(c, pc),
           calls[c].op.kind = "purchase", calls[c].pc # "idle"
    PROVE  Handlers(calls')
<1>1. HandlerSafe(c, calls'[c])
  BY Held DEF HandlerSafe, Advance, Purchasing
<1> QED BY <1>1, MovesSafe DEF Moves, Advance

LEMMA UpdateItemSafe ==
    ASSUME ShopInv, NEW c \in Call, UpdateItem(c)
    PROVE  ShopInv'
<1>1. PICK o \in Outcome :
         ProductWrite([kind |-> "update_item", item |-> calls[c].item, row |-> NewRow(c)], o)
  BY DEF UpdateItem
<1>2. calls[c].pc = "update_item"
  BY DEF UpdateItem, At
<1>3. RequestSafe([kind |-> "update_item", item |-> calls[c].item, row |-> NewRow(c)])
  BY <1>2, NewRowFact DEF RequestSafe
<1>4. ProductSafe(product') /\ LateSafe(late')
  BY <1>1, <1>3, ProductWriteSafe
<1>5. CASE Kind(c) = "purchase"
  <2>1. calls' = [calls EXCEPT ![c].pc = "add_history"]
    BY <1>5 DEF UpdateItem
  <2>2. Advance(c, "add_history")
    BY <2>1, Held DEF Advance, HandlerSafe, Idle
  <2> QED BY <1>2, <1>4, <1>5, <2>2, AdvanceMoves DEF ShopInv, Purchasing, Kind
<1>6. CASE Kind(c) # "purchase"
  BY <1>2, <1>4, <1>6, EndSafe DEF UpdateItem, ShopInv
<1> QED BY <1>5, <1>6

LEMMA PaySafe ==
    ASSUME ShopInv, NEW c \in Call, Pay(c)
    PROVE  ShopInv'
<1>1. UNCHANGED <<product, late>> /\ calls[c].pc = "pay"
  BY DEF Pay, At
<1>2. CASE \E result : End(c, result)
  BY <1>1, <1>2, EndSafe DEF ShopInv
<1>3. ASSUME NEW paid, calls' = [calls EXCEPT ![c].pc = "next_item", ![c].paid = paid]
      PROVE  ShopInv'
  <2>1. Advance(c, "next_item")
    BY <1>3, Held DEF Advance, HandlerSafe, Idle
  <2>2. calls[c].op.kind = "purchase"
    BY <1>1, Held DEF HandlerSafe, Purchasing
  <2> QED BY <1>1, <2>1, <2>2, AdvanceMoves DEF ShopInv, Purchasing
<1> QED BY <1>2, <1>3 DEF Pay

LEMMA NextItemSafe ==
    ASSUME ShopInv, NEW c \in Call, NextItem(c)
    PROVE  ShopInv'
<1>1. UNCHANGED <<product, late>> /\ calls[c].pc = "next_item"
  BY DEF NextItem, Read, At
<1>2. calls[c].op \in Script[c] /\ calls[c].op.kind = "purchase"
  BY <1>1, Held DEF HandlerSafe, Purchasing
<1>3. CASE \E result : End(c, result)
  BY <1>1, <1>3, EndSafe DEF ShopInv
<1>4. ASSUME NEW i \in calls[c].todo, calls' = [calls EXCEPT ![c].todo = @ \ {i}]
      PROVE  ShopInv'
  <2>1. Advance(c, "next_item")
    BY <1>1, <1>4, Held DEF Advance, HandlerSafe, Idle
  <2> QED BY <1>1, <1>2, <2>1, AdvanceMoves DEF ShopInv, Purchasing
<1>5. ASSUME NEW i \in calls[c].todo, i \in DOMAIN product.items,
             Enough(product.items[i], calls[c].cart[i]),
             calls' = [calls EXCEPT ![c].todo = @ \ {i}, ![c].item = i,
                                    ![c].row = product.items[i], ![c].pc = "update_item"]
      PROVE  ShopInv'
  <2>1. /\ calls'[c].pc = "update_item" /\ calls'[c].op = calls[c].op
        /\ calls'[c].cart = calls[c].cart /\ calls'[c].todo \subseteq calls[c].todo
        /\ calls'[c].item = i /\ calls'[c].row = product.items[i]
        /\ DOMAIN calls'[c] = DOMAIN Idle
    BY <1>5, Held DEF HandlerSafe, Idle
  <2>2. product.items[i] \in Row
    BY <1>5 DEF ShopInv, ProductSafe
  <2>3. i \in DOMAIN calls[c].cart /\ calls[c].cart[i] <= product.items[i].quantity
    <3>1. i \in DOMAIN calls[c].cart /\ IsCart(calls[c].cart)
      BY <1>5, Held DEF HandlerSafe
    <3> QED BY <1>5, <2>2, <3>1 DEF Enough, Row, IsCart
  <2>4. HandlerSafe(c, calls'[c])
    BY <1>2, <2>1, <2>2, <2>3, Held DEF HandlerSafe, Purchasing, ItemKinds
  <2>5. Moves(c)
    BY <1>5, <2>4, Held DEF Moves
  <2> QED BY <1>1, <2>5, MovesSafe DEF ShopInv
<1> QED BY <1>3, <1>4, <1>5 DEF NextItem

LEMMA AddHistorySafe ==
    ASSUME ShopInv, NEW c \in Call, AddHistory(c)
    PROVE  ShopInv'
<1>1. PICK o \in Outcome :
         ProductWrite([kind |-> "add_purchase_history", user |-> User(c), item |-> calls[c].item], o)
  BY DEF AddHistory
<1>2. RequestSafe([kind |-> "add_purchase_history", user |-> User(c), item |-> calls[c].item])
  BY DEF RequestSafe
<1>3. Advance(c, "get_seller")
  BY Held DEF AddHistory, Advance, HandlerSafe, Idle
<1>4. calls[c].pc = "add_history" /\ calls[c].op.kind = "purchase"
  BY Held DEF AddHistory, At, HandlerSafe, Purchasing
<1> QED BY <1>1, <1>2, <1>3, <1>4, ProductWriteSafe, AdvanceMoves DEF ShopInv, Purchasing

\* The sellers' and the buyers' counts: the product database is not touched.
LEMMA CountsSafe ==
    ASSUME ShopInv, NEW c \in Call, GetSeller(c) \/ UpdateSeller(c) \/ GetBuyer(c) \/ UpdateBuyer(c)
    PROVE  ShopInv'
<1>1. product' = product /\ LateSafe(late')
  <2>1. CASE GetSeller(c) \/ GetBuyer(c)
    BY <2>1 DEF GetSeller, GetBuyer, Read, ShopInv
  <2>2. CASE UpdateSeller(c) \/ UpdateBuyer(c)
    <3>1. PICK r, o : CustomerWrite(r, o) /\ UNCHANGED product
      BY <2>2 DEF UpdateSeller, UpdateBuyer
    <3> QED BY <3>1, CustomerWriteSafe
  <2> QED BY <2>1, <2>2
<1>2. calls[c].pc \in {"get_seller", "update_seller", "next_item", "update_buyer"}
  BY DEF GetSeller, UpdateSeller, GetBuyer, UpdateBuyer, At
<1>3. calls[c].op.kind = "purchase"
  BY <1>2, Held DEF HandlerSafe, Purchasing
<1>4. CASE \E result : End(c, result)
  BY <1>1, <1>2, <1>4, EndSafe DEF ShopInv
<1>5. ASSUME NEW pc \in Purchasing,
             \/ calls' = [calls EXCEPT ![c].pc = pc]
             \/ \E n : calls' = [calls EXCEPT ![c].count = n, ![c].pc = pc]
      PROVE  ShopInv'
  <2>1. DOMAIN calls[c] = DOMAIN Idle /\ c \in DOMAIN calls /\ DOMAIN calls = Call
    BY Held DEF HandlerSafe
  <2>2. ASSUME calls' = [calls EXCEPT ![c].pc = pc]
        PROVE  Advance(c, pc)
    BY <2>1, <2>2 DEF Advance, Idle
  <2>3. ASSUME NEW n, calls' = [calls EXCEPT ![c].count = n, ![c].pc = pc]
        PROVE  Advance(c, pc)
    BY <2>1, <2>3 DEF Advance, Idle
  <2>4. Advance(c, pc)
    BY <1>5, <2>2, <2>3
  <2> QED BY <1>1, <1>2, <1>3, <2>4, AdvanceMoves DEF ShopInv
<1> QED BY <1>4, <1>5 DEF GetSeller, UpdateSeller, GetBuyer, UpdateBuyer, Purchasing

(***************************************************************************)
(* The invariant and the theorems.                                         *)
(***************************************************************************)
LEMMA InitSafe == Init => ShopInv
<1> SUFFICES ASSUME Init PROVE ShopInv
  OBVIOUS
<1>1. ProductSafe(product)
  BY PurchaseAssumption DEF Init, ProductSafe
<1>2. LateSafe(late)
  BY DEF Init, LateSafe
<1>3. Handlers(calls)
  BY DEF Init, Handlers, HandlerSafe, Idle, NoCart, IsCart, Purchasing
<1> QED BY <1>1, <1>2, <1>3 DEF ShopInv

LEMMA ShopStep == ShopInv /\ [Next]_vars => ShopInv'
<1> SUFFICES ASSUME ShopInv, [Next]_vars PROVE ShopInv'
  OBVIOUS
<1>1. CASE Land
  BY <1>1, LandSafe
<1>2. ASSUME NEW c \in Call, Start(c) \/ Expired(c) \/ CutOff(c)
      PROVE  ShopInv'
  BY <1>2, StartSafe, ExpiredSafe, CutOffSafe
<1>3. ASSUME NEW c \in Call,
             CreateAccount(c) \/ Login(c) \/ CreateSession(c) \/ Logout(c) \/ ResetCustomers(c)
      PROVE  ShopInv'
  BY <1>3, AccountsSafe, LoginSafe
<1>4. ASSUME NEW c \in Call,
             \/ AddToCart(c) \/ RemoveFromCart(c) \/ ClearCart(c) \/ SaveCart(c)
             \/ RegisterItem(c) \/ EndPurchase(c) \/ ResetProducts(c)
      PROVE  ShopInv'
  BY <1>4, OneWriteSafe
<1>5. ASSUME NEW c \in Call, GetCart(c) \/ GetItem(c) \/ UpdateItem(c) \/ Pay(c) \/ NextItem(c)
      PROVE  ShopInv'
  BY <1>5, GetCartSafe, GetItemSafe, UpdateItemSafe, PaySafe, NextItemSafe
<1>6. ASSUME NEW c \in Call,
             \/ AddHistory(c) \/ GetSeller(c) \/ UpdateSeller(c) \/ GetBuyer(c) \/ UpdateBuyer(c)
      PROVE  ShopInv'
  BY <1>6, AddHistorySafe, CountsSafe
<1>7. CASE UNCHANGED vars
  BY <1>7 DEF vars, ShopInv
<1> QED BY <1>1, <1>2, <1>3, <1>4, <1>5, <1>6, <1>7 DEF Next

\* In every state of the front ends the product database holds rows and carts, and
\* so does every write that is still to take effect.
LEMMA ShopInvariant == Spec => []ShopInv
BY InitSafe, ShopStep, PTL DEF Spec

(***************************************************************************)
(* Histories: an item is in a buyer's history at most once for each        *)
(* approved payment of a cart that held it.  A purchase that has paid for  *)
(* an item and is past it may have been credited; one that still has the   *)
(* item before it has not.  A late write counts as credited from the       *)
(* moment it is sent.                                                      *)
(***************************************************************************)

\* the steps of a purchase after its payment
Buying == {"next_item", "add_history", "get_seller", "update_seller", "update_buyer", "clear"}

\* k has paid for i on behalf of b and is past the write of its history
Past(k, b, i) ==
    /\ k.paid /\ k.op.user = b /\ i \in DOMAIN k.cart
    /\ i \notin k.todo
    /\ ~(k.pc \in {"update_item", "add_history"} /\ k.item = i)

Credits(b, i) == {c \in Call : Past(calls[c], b, i)}

HistoryWrite(b, i) ==
    [db |-> "product", request |-> [kind |-> "add_purchase_history", user |-> b, item |-> i]]
Pending(b, i) == IF HistoryWrite(b, i) \in late THEN 1 ELSE 0

PaidHandler(k) ==
    /\ k.paid \in BOOLEAN
    /\ k.paid => k.op.kind = "purchase" /\ k.pc \in Buying \cup {"update_item", "done"}
    /\ k.pc \in Buying => k.paid
    /\ k.pc = "add_history" \/ (k.pc = "update_item" /\ k.op.kind = "purchase") =>
          k.paid /\ k.item \in DOMAIN k.cart /\ k.item \notin k.todo

Histories == [Buyer -> [Item -> Nat]]

LateHistory(ws) ==
    \A w \in ws : w.db = "product" /\ w.request.kind = "add_purchase_history" =>
        \E b \in Buyer, i \in Item : w = HistoryWrite(b, i)

BoughtInv ==
    /\ ShopInv
    /\ product.history \in Histories
    /\ LateHistory(late)
    /\ \A c \in Call : PaidHandler(calls[c])
    /\ \A b \in Buyer, i \in Item :
          product.history[b][i] + Pending(b, i) <= Cardinality(Credits(b, i))

(***************************************************************************)
(* The handlers: what a step does to credits.                              *)
(***************************************************************************)
\* the handler of c moves, and loses no credit
Pays(c) ==
    /\ \A d \in Call \ {c} : calls'[d] = calls[d]
    /\ PaidHandler(calls'[c])
    /\ \A b, i : Past(calls[c], b, i) => Past(calls'[c], b, i)

LEMMA EndPays ==
    ASSUME BoughtInv, NEW c \in Call, NEW result, End(c, result)
    PROVE  Pays(c)
<1>1. /\ calls'[c].pc = "done" /\ calls'[c].op = calls[c].op
      /\ calls'[c].paid = calls[c].paid /\ calls'[c].todo = {}
      /\ calls[c].paid => calls'[c].cart = calls[c].cart
      /\ \A d \in Call \ {c} : calls'[d] = calls[d]
  BY Held DEF BoughtInv, End, Idle
<1>2. PaidHandler(calls[c])
  BY DEF BoughtInv
<1> QED BY <1>1, <1>2 DEF Pays, PaidHandler, Past, Buying

\* A handler that has not paid has no credit to lose.
LEMMA UnpaidPays ==
    ASSUME BoughtInv, NEW c \in Call,
           \/ Start(c) \/ Expired(c) \/ Login(c) \/ GetCart(c) \/ GetItem(c) \/ ResetCustomers(c)
    PROVE  Pays(c)
<1>1. CASE \E result : End(c, result)
  BY <1>1, EndPays
<1>2. CASE \A result : ~End(c, result)
  <2>1. PaidHandler(calls[c]) /\ HandlerSafe(c, calls[c]) /\ c \in DOMAIN calls /\ DOMAIN calls = Call
    BY Held DEF BoughtInv
  <2>2. calls[c].pc \in {"idle", "login", "get_cart", "get_item", "reset_all"} /\ ~calls[c].paid
    BY <2>1 DEF Start, Expired, Login, GetCart, GetItem, ResetCustomers, At, PaidHandler, Buying
  <2>3. /\ calls'[c].paid = calls[c].paid
        /\ \A d \in Call \ {c} : calls'[d] = calls[d]
    <3>1. CASE Start(c)
      BY <2>1, <3>1 DEF Start, HandlerSafe, Idle
    <3>2. CASE Expired(c)
      <4>1. PICK op : calls' = [calls EXCEPT ![c].op = op, ![c].pc = "done", ![c].result = "expired"]
        BY <3>2 DEF Expired
      <4> QED BY <2>1, <4>1 DEF HandlerSafe, Idle
    <3>3. CASE Login(c) \/ ResetCustomers(c)
      <4>1. PICK pc \in {"create_session", "reset_products"} : calls' = [calls EXCEPT ![c].pc = pc]
        <5>1. CASE Login(c)
          BY <1>2, <5>1 DEF Login
        <5>2. CASE ResetCustomers(c)
          BY <1>2, <5>2 DEF ResetCustomers
        <5> QED BY <3>3, <5>1, <5>2
      <4> QED BY <2>1, <4>1 DEF HandlerSafe, Idle
    <3>4. CASE GetCart(c)
      <4> DEFINE cart == product.carts[User(c)]
                 pc == IF Kind(c) = "purchase" THEN "pay" ELSE "save"
                 todo == DOMAIN cart
      <4>1. calls' = [calls EXCEPT ![c].cart = cart, ![c].todo = todo, ![c].pc = pc]
        BY <1>2, <3>4 DEF GetCart
      <4>2. pc \in {"pay", "save"}
        OBVIOUS
      <4> HIDE DEF cart, pc, todo
      <4> QED BY <2>1, <4>1, <4>2 DEF HandlerSafe, Idle
    <3>5. CASE GetItem(c)
      BY <1>2, <2>1, <3>5 DEF GetItem, HandlerSafe, Idle
    <3> QED BY <3>1, <3>2, <3>3, <3>4, <3>5
  <2>4. /\ calls'[c].pc \notin Buying
        /\ calls'[c].pc = "update_item" => calls'[c].op.kind # "purchase"
    <3>1. CASE Start(c)
      <4>1. PICK op \in Script[c] : calls' = [calls EXCEPT ![c].op = op, ![c].pc = First(op.kind)]
        BY <3>1 DEF Start
      <4>2. calls'[c].pc = First(op.kind)
        BY <2>1, <4>1 DEF HandlerSafe, Idle
      <4> QED BY <4>2, ScriptAssumption DEF First, Buying
    <3>2. CASE Expired(c)
      <4>1. PICK op : calls' = [calls EXCEPT ![c].op = op, ![c].pc = "done", ![c].result = "expired"]
        BY <3>2 DEF Expired
      <4> QED BY <2>1, <4>1 DEF HandlerSafe, Idle, Buying
    <3>3. CASE Login(c) \/ ResetCustomers(c)
      <4>1. PICK pc \in {"create_session", "reset_products"} : calls' = [calls EXCEPT ![c].pc = pc]
        <5>1. CASE Login(c)
          BY <1>2, <5>1 DEF Login
        <5>2. CASE ResetCustomers(c)
          BY <1>2, <5>2 DEF ResetCustomers
        <5> QED BY <3>3, <5>1, <5>2
      <4> QED BY <2>1, <4>1 DEF HandlerSafe, Idle, Buying
    <3>4. CASE GetCart(c)
      <4> DEFINE cart == product.carts[User(c)]
                 pc == IF Kind(c) = "purchase" THEN "pay" ELSE "save"
                 todo == DOMAIN cart
      <4>1. calls' = [calls EXCEPT ![c].cart = cart, ![c].todo = todo, ![c].pc = pc]
        BY <1>2, <3>4 DEF GetCart
      <4>2. pc \in {"pay", "save"}
        OBVIOUS
      <4> HIDE DEF cart, pc, todo
      <4> QED BY <2>1, <4>1, <4>2 DEF HandlerSafe, Idle, Buying
    <3>5. CASE GetItem(c)
      <4>1. calls[c].op.kind \in ItemKinds
        BY <2>1, <3>5 DEF GetItem, At, HandlerSafe
      <4> QED BY <1>2, <2>1, <3>5, <4>1 DEF GetItem, HandlerSafe, Idle, Buying, ItemKinds
    <3> QED BY <3>1, <3>2, <3>3, <3>4, <3>5
  <2> QED BY <2>1, <2>2, <2>3, <2>4 DEF Pays, PaidHandler, Past, Buying
<1> QED BY <1>1, <1>2

LEMMA PayPays ==
    ASSUME BoughtInv, NEW c \in Call, Pay(c)
    PROVE  Pays(c)
<1>1. CASE \E result : End(c, result)
  BY <1>1, EndPays
<1>2. CASE \A result : ~End(c, result)
  <2>1. PaidHandler(calls[c]) /\ HandlerSafe(c, calls[c]) /\ c \in DOMAIN calls /\ DOMAIN calls = Call
    BY Held DEF BoughtInv
  <2>2. PICK answer \in PaymentAnswer :
           /\ answer = "approved"
           /\ calls' = [calls EXCEPT ![c].pc = "next_item", ![c].paid = answer = "approved"]
    BY <1>2 DEF Pay, Approved
  <2>3. calls[c].pc = "pay" /\ calls[c].op.kind = "purchase" /\ ~calls[c].paid
    BY <2>1 DEF Pay, At, HandlerSafe, Purchasing, PaidHandler, Buying
  <2>4. /\ calls'[c].pc = "next_item" /\ calls'[c].op = calls[c].op /\ calls'[c].paid = TRUE
        /\ \A d \in Call \ {c} : calls'[d] = calls[d]
    BY <2>1, <2>2 DEF HandlerSafe, Idle
  <2> QED BY <2>3, <2>4 DEF Pays, PaidHandler, Past, Buying
<1> QED BY <1>1, <1>2

\* A purchase after its payment keeps its cart; the item it takes up was still
\* before it.
LEMMA BuyingPays ==
    ASSUME BoughtInv, NEW c \in Call,
           \/ NextItem(c) \/ UpdateItem(c) \/ AddHistory(c) \/ GetSeller(c)
           \/ UpdateSeller(c) \/ GetBuyer(c) \/ UpdateBuyer(c)
    PROVE  Pays(c)
<1>1. CASE \E result : End(c, result)
  BY <1>1, EndPays
<1>2. CASE \A result : ~End(c, result)
  <2>1. PaidHandler(calls[c]) /\ HandlerSafe(c, calls[c]) /\ c \in DOMAIN calls /\ DOMAIN calls = Call
    BY Held DEF BoughtInv
  <2>2. calls[c].pc \in Buying \cup {"update_item"} /\ calls[c].op.kind = "purchase" /\ calls[c].paid
    BY <1>2, <2>1 DEF NextItem, UpdateItem, AddHistory, GetSeller, UpdateSeller, GetBuyer, UpdateBuyer,
                      At, Kind, PaidHandler, HandlerSafe, Purchasing, Buying
  <2> DEFINE Same == /\ calls'[c].op = calls[c].op /\ calls'[c].cart = calls[c].cart
                     /\ calls'[c].paid = calls[c].paid
                     /\ \A d \in Call \ {c} : calls'[d] = calls[d]
  <2>3. CASE NextItem(c)
    <3>1. PICK i \in calls[c].todo :
             \/ calls' = [calls EXCEPT ![c].todo = @ \ {i}]
             \/ calls' = [calls EXCEPT ![c].todo = @ \ {i}, ![c].item = i,
                                       ![c].row = product.items[i], ![c].pc = "update_item"]
      BY <1>2, <2>3 DEF NextItem
    <3>2. CASE calls' = [calls EXCEPT ![c].todo = @ \ {i}]
      <4>1. /\ Same /\ calls'[c].todo = calls[c].todo \ {i}
            /\ calls'[c].pc = "next_item"
        BY <2>1, <2>3, <3>2 DEF NextItem, At, HandlerSafe, Idle
      <4> QED BY <2>2, <4>1 DEF Pays, PaidHandler, Past, Buying
    <3>3. CASE calls' = [calls EXCEPT ![c].todo = @ \ {i}, ![c].item = i,
                                      ![c].row = product.items[i], ![c].pc = "update_item"]
      <4>1. /\ Same /\ calls'[c].todo = calls[c].todo \ {i}
            /\ calls'[c].pc = "update_item" /\ calls'[c].item = i
        BY <2>1, <3>3 DEF HandlerSafe, Idle
      <4>2. i \in DOMAIN calls[c].cart
        BY <2>1 DEF HandlerSafe
      <4> QED BY <2>2, <4>1, <4>2 DEF Pays, PaidHandler, Past, Buying
    <3> QED BY <3>1, <3>2, <3>3
  <2>4. CASE UpdateItem(c) \/ AddHistory(c)
    <3>1. PICK pc \in {"add_history", "get_seller"} :
             /\ calls' = [calls EXCEPT ![c].pc = pc]
             /\ calls[c].pc = IF pc = "add_history" THEN "update_item" ELSE "add_history"
      BY <1>2, <2>2, <2>4 DEF UpdateItem, AddHistory, At, Kind
    <3>2. /\ Same /\ calls'[c].todo = calls[c].todo /\ calls'[c].item = calls[c].item
          /\ calls'[c].pc = pc
      BY <2>1, <3>1 DEF HandlerSafe, Idle
    <3> QED BY <2>1, <2>2, <3>1, <3>2 DEF Pays, PaidHandler, Past, Buying
  <2>5. CASE GetSeller(c) \/ UpdateSeller(c) \/ GetBuyer(c) \/ UpdateBuyer(c)
    <3>1. \E pc \in {"next_item", "update_seller", "update_buyer", "clear"} :
             \/ calls' = [calls EXCEPT ![c].pc = pc]
             \/ \E n : calls' = [calls EXCEPT ![c].count = n, ![c].pc = pc]
      <4>1. CASE GetSeller(c)
        BY <4>1 DEF GetSeller
      <4>2. CASE GetBuyer(c)
        BY <1>2, <4>2 DEF GetBuyer
      <4>3. CASE UpdateSeller(c) \/ UpdateBuyer(c)
        BY <4>3 DEF UpdateSeller, UpdateBuyer
      <4> QED BY <2>5, <4>1, <4>2, <4>3
    <3>2. PICK pc \in {"next_item", "update_seller", "update_buyer", "clear"} :
             Same /\ calls'[c].todo = calls[c].todo /\ calls'[c].pc = pc
      <4>1. ASSUME NEW pc, calls' = [calls EXCEPT ![c].pc = pc]
            PROVE  Same /\ calls'[c].todo = calls[c].todo /\ calls'[c].pc = pc
        BY <2>1, <4>1 DEF HandlerSafe, Idle
      <4>2. ASSUME NEW pc, NEW n, calls' = [calls EXCEPT ![c].count = n, ![c].pc = pc]
            PROVE  Same /\ calls'[c].todo = calls[c].todo /\ calls'[c].pc = pc
        BY <2>1, <4>2 DEF HandlerSafe, Idle
      <4> QED BY <3>1, <4>1, <4>2
    <3>3. calls[c].pc \notin {"update_item", "add_history"}
      BY <2>5 DEF GetSeller, UpdateSeller, GetBuyer, UpdateBuyer, At
    <3> QED BY <2>1, <2>2, <3>2, <3>3 DEF Pays, PaidHandler, Past, Buying
  <2> QED BY <2>3, <2>4, <2>5
<1> QED BY <1>1, <1>2

(***************************************************************************)
(* The databases: what a write does to a history.                          *)
(***************************************************************************)
\* No history grows, counting the writes that are still on their way.
NotMore ==
    /\ product'.history \in Histories
    /\ LateHistory(late')
    /\ \A b \in Buyer, i \in Item :
          product'.history[b][i] + Pending(b, i)' <= product.history[b][i] + Pending(b, i)

LEMMA HistoryKept ==
    ASSUME NEW p, ProductSafe(p), p.history \in Histories, NEW r, RequestSafe(r),
           r.kind # "add_purchase_history"
    PROVE  /\ ApplyRequest(p, r).history \in Histories
           /\ \A b \in Buyer, i \in Item : ApplyRequest(p, r).history[b][i] <= p.history[b][i]
<1>1. CASE r.kind = "reset"
  <2>1. ApplyRequest(p, r).history = [b \in Buyer |-> [i \in Item |-> 0]]
    BY <1>1 DEF ApplyRequest
  <2> QED BY <2>1 DEF Histories
<1>2. CASE r.kind # "reset"
  <2>1. ApplyRequest(p, r).history = p.history
    BY <1>2 DEF ApplyRequest, RequestSafe, ProductSafe
  <2> QED BY <2>1 DEF Histories
<1> QED BY <1>1, <1>2

LEMMA HistoryAdded ==
    ASSUME NEW p, ProductSafe(p), p.history \in Histories, NEW b \in Buyer, NEW i \in Item
    PROVE  ApplyRequest(p, HistoryWrite(b, i).request).history
               = [p.history EXCEPT ![b][i] = @ + 1]
BY DEF ApplyRequest, HistoryWrite, ProductSafe

LEMMA WriteNotMore ==
    ASSUME BoughtInv, NEW r, RequestSafe(r), NEW o, ProductWrite(r, o),
           r.kind # "add_purchase_history"
    PROVE  NotMore
<1>1. /\ product'.history \in Histories
      /\ \A b \in Buyer, i \in Item : product'.history[b][i] <= product.history[b][i]
  BY HistoryKept DEF ProductWrite, BoughtInv, ShopInv, Histories
<1>2. \A b, i : HistoryWrite(b, i) \in late' => HistoryWrite(b, i) \in late
  BY DEF ProductWrite, Postpone, HistoryWrite
<1>3. LateHistory(late')
  BY DEF ProductWrite, Postpone, LateHistory, BoughtInv
<1> QED BY <1>1, <1>2, <1>3 DEF NotMore, Pending, Histories, BoughtInv

LEMMA CustomerNotMore ==
    ASSUME BoughtInv, NEW r, NEW o, CustomerWrite(r, o), UNCHANGED product
    PROVE  NotMore
<1>1. \A b, i : HistoryWrite(b, i) \in late' => HistoryWrite(b, i) \in late
  BY DEF CustomerWrite, Postpone, HistoryWrite
<1>2. LateHistory(late')
  BY DEF CustomerWrite, Postpone, LateHistory, BoughtInv
<1> QED BY <1>1, <1>2 DEF NotMore, Pending, Histories, BoughtInv

LEMMA StillNotMore ==
    ASSUME BoughtInv, UNCHANGED <<product, late>>
    PROVE  NotMore
BY DEF NotMore, Pending, BoughtInv, Histories

LEMMA LandNotMore ==
    ASSUME BoughtInv, Land
    PROVE  NotMore
<1>1. PICK w \in late :
         /\ late' = late \ {w}
         /\ product' = IF w.db = "product" THEN ApplyRequest(product, w.request) ELSE product
  BY DEF Land
<1>2. LateHistory(late') /\ \A b, i : HistoryWrite(b, i) \in late' => HistoryWrite(b, i) \in late
  BY <1>1 DEF LateHistory, BoughtInv
<1>3. CASE w.db # "product"
  BY <1>1, <1>2, <1>3 DEF NotMore, Pending, Histories, BoughtInv
<1>4. CASE w.db = "product" /\ w.request.kind # "add_purchase_history"
  <2>1. RequestSafe(w.request)
    BY <1>4 DEF BoughtInv, ShopInv, LateSafe
  <2>2. /\ product'.history \in Histories
        /\ \A b \in Buyer, i \in Item : product'.history[b][i] <= product.history[b][i]
    BY <1>1, <1>4, <2>1, HistoryKept DEF BoughtInv, ShopInv
  <2> QED BY <1>2, <2>2 DEF NotMore, Pending, Histories, BoughtInv
<1>5. CASE w.db = "product" /\ w.request.kind = "add_purchase_history"
  <2>1. PICK b \in Buyer, i \in Item : w = HistoryWrite(b, i)
    BY <1>5 DEF BoughtInv, LateHistory
  <2>2. product'.history = [product.history EXCEPT ![b][i] = @ + 1]
    BY <1>1, <1>5, <2>1, HistoryAdded DEF BoughtInv, ShopInv
  <2>3. product'.history \in Histories
    BY <2>2 DEF BoughtInv, Histories
  <2>4. Pending(b, i) = 1 /\ Pending(b, i)' = 0
    BY <1>1, <2>1 DEF Pending
  <2>5. ASSUME NEW d \in Buyer, NEW j \in Item
        PROVE  product'.history[d][j] + Pending(d, j)' <= product.history[d][j] + Pending(d, j)
    <3>1. Pending(d, j) \in {0, 1} /\ Pending(d, j)' \in {0, 1} /\ Pending(d, j)' <= Pending(d, j)
      BY <1>2 DEF Pending
    <3>2. product.history[d][j] \in Nat
      BY DEF BoughtInv, Histories
    <3>3. product'.history[d][j] = IF d = b /\ j = i THEN product.history[d][j] + 1
                                                    ELSE product.history[d][j]
      BY <2>2 DEF BoughtInv, Histories
    <3> QED BY <2>4, <3>1, <3>2, <3>3
  <2> QED BY <1>2, <2>3, <2>5 DEF NotMore
<1> QED BY <1>3, <1>4, <1>5

(***************************************************************************)
(* The invariant and the theorem.                                          *)
(***************************************************************************)
LEMMA CreditsGrow ==
    ASSUME BoughtInv, NEW c \in Call, Pays(c), NEW b, NEW i
    PROVE  /\ Credits(b, i) \subseteq Credits(b, i)'
           /\ Cardinality(Credits(b, i)) \in Nat /\ Cardinality(Credits(b, i)') \in Nat
           /\ Cardinality(Credits(b, i)) <= Cardinality(Credits(b, i)')
           /\ c \notin Credits(b, i) /\ c \in Credits(b, i)' =>
                 Cardinality(Credits(b, i)) + 1 <= Cardinality(Credits(b, i)')
<1>1. Credits(b, i) \subseteq Credits(b, i)'
  BY DEF Credits, Pays
<1>2. IsFiniteSet(Credits(b, i)) /\ IsFiniteSet(Credits(b, i)')
  <2>1. Credits(b, i) \subseteq Call /\ Credits(b, i)' \subseteq Call
    BY DEF Credits
  <2> QED BY <2>1, PurchaseAssumption, FS_Subset
<1>3. /\ Cardinality(Credits(b, i)) \in Nat /\ Cardinality(Credits(b, i)') \in Nat
      /\ Cardinality(Credits(b, i)) <= Cardinality(Credits(b, i)')
  BY <1>1, <1>2, FS_Subset, FS_CardinalityType
<1>4. ASSUME c \notin Credits(b, i), c \in Credits(b, i)'
      PROVE  Cardinality(Credits(b, i)) + 1 <= Cardinality(Credits(b, i)')
  <2>1. Cardinality(Credits(b, i) \cup {c}) = Cardinality(Credits(b, i)) + 1
    BY <1>2, <1>4, FS_AddElement
  <2>2. Credits(b, i) \cup {c} \subseteq Credits(b, i)'
    BY <1>1, <1>4
  <2> QED BY <1>2, <2>1, <2>2, FS_Subset
<1> QED BY <1>1, <1>3, <1>4

LEMMA HandlersPay ==
    ASSUME BoughtInv, NEW c \in Call, Pays(c)
    PROVE  \A d \in Call : PaidHandler(calls'[d])
BY DEF BoughtInv, Pays

LEMMA QuietStep ==
    ASSUME BoughtInv, ShopInv', NEW c \in Call, Pays(c), NotMore
    PROVE  BoughtInv'
<1>1. ASSUME NEW b \in Buyer, NEW i \in Item
      PROVE  product'.history[b][i] + Pending(b, i)' <= Cardinality(Credits(b, i)')
  <2>1. /\ product'.history[b][i] \in Nat /\ product.history[b][i] \in Nat
        /\ Pending(b, i) \in Nat /\ Pending(b, i)' \in Nat
    BY DEF NotMore, BoughtInv, Histories, Pending
  <2>2. /\ product.history[b][i] + Pending(b, i) <= Cardinality(Credits(b, i))
        /\ product'.history[b][i] + Pending(b, i)' <= product.history[b][i] + Pending(b, i)
    BY DEF BoughtInv, NotMore
  <2> QED BY <2>1, <2>2, CreditsGrow
<1> QED BY <1>1, HandlersPay DEF BoughtInv, NotMore

\* The one step that adds to a history: the purchase that takes it is credited.
LEMMA AddHistoryStep ==
    ASSUME BoughtInv, ShopInv', NEW c \in Call, AddHistory(c)
    PROVE  BoughtInv'
<1>0. PICK b, i : b = calls[c].op.user /\ i = calls[c].item
  OBVIOUS
<1>1. Pays(c)
  BY BuyingPays
<1>2. /\ b \in Buyer /\ i \in Item
      /\ calls[c].pc = "add_history" /\ calls[c].paid /\ i \in DOMAIN calls[c].cart /\ i \notin calls[c].todo
  <2>1. calls[c].pc = "add_history" /\ PaidHandler(calls[c]) /\ HandlerSafe(c, calls[c])
    BY Held DEF AddHistory, At, BoughtInv
  <2>2. calls[c].op \in Script[c] /\ calls[c].op.kind = "purchase" /\ IsCart(calls[c].cart)
    BY <2>1 DEF HandlerSafe, Purchasing
  <2>3. b \in Buyer
    BY <1>0, <2>2, ScriptAssumption
  <2> QED BY <1>0, <2>1, <2>2, <2>3 DEF PaidHandler, IsCart
<1>3. c \notin Credits(b, i) /\ c \in Credits(b, i)'
  <2>1. calls' = [calls EXCEPT ![c].pc = "get_seller"]
    BY DEF AddHistory
  <2>2. /\ calls'[c].pc = "get_seller" /\ calls'[c].op = calls[c].op /\ calls'[c].cart = calls[c].cart
        /\ calls'[c].paid = calls[c].paid /\ calls'[c].todo = calls[c].todo
    BY <2>1, Held DEF BoughtInv, HandlerSafe, Idle
  <2> QED BY <1>0, <1>2, <2>2 DEF Credits, Past
<1>4. PICK o \in Outcome :
         ProductWrite([kind |-> "add_purchase_history", user |-> b, item |-> i], o)
  BY <1>0 DEF AddHistory, User
<1>5. CASE Executed(o)
  <2>1. late' = late /\ product' = ApplyRequest(product, HistoryWrite(b, i).request)
    BY <1>4, <1>5 DEF ProductWrite, Postpone, Executed, HistoryWrite
  <2>2. product'.history = [product.history EXCEPT ![b][i] = @ + 1]
    BY <1>2, <2>1, HistoryAdded DEF BoughtInv, ShopInv
  <2>3. product'.history \in Histories /\ LateHistory(late')
    BY <1>2, <2>1, <2>2 DEF BoughtInv, Histories
  <2>4. ASSUME NEW d \in Buyer, NEW j \in Item
        PROVE  product'.history[d][j] + Pending(d, j)' <= Cardinality(Credits(d, j)')
    <3>1. /\ product.history[d][j] \in Nat /\ Pending(d, j) \in Nat /\ Pending(d, j)' = Pending(d, j)
          /\ product.history[d][j] + Pending(d, j) <= Cardinality(Credits(d, j))
          /\ product'.history[d][j] = IF d = b /\ j = i THEN product.history[d][j] + 1
                                                        ELSE product.history[d][j]
      BY <2>1, <2>2 DEF BoughtInv, Histories, Pending
    <3> QED BY <1>1, <1>3, <3>1, CreditsGrow
  <2> QED BY <1>1, <2>3, <2>4, HandlersPay DEF BoughtInv
<1>6. CASE ~Executed(o)
  <2>1. product' = product /\ late' \subseteq late \cup {HistoryWrite(b, i)}
    BY <1>4, <1>6 DEF ProductWrite, Postpone, HistoryWrite
  <2>2. product'.history \in Histories /\ LateHistory(late')
    BY <1>2, <2>1 DEF BoughtInv, LateHistory
  <2>3. ASSUME NEW d \in Buyer, NEW j \in Item
        PROVE  product'.history[d][j] + Pending(d, j)' <= Cardinality(Credits(d, j)')
    <3>1. /\ product.history[d][j] \in Nat /\ Pending(d, j) \in {0, 1} /\ Pending(d, j)' \in {0, 1}
          /\ product.history[d][j] + Pending(d, j) <= Cardinality(Credits(d, j))
          /\ product'.history[d][j] = product.history[d][j]
      BY <2>1 DEF BoughtInv, Histories, Pending
    <3>2. CASE d = b /\ j = i
      BY <1>1, <1>3, <3>1, <3>2, CreditsGrow
    <3>3. CASE ~(d = b /\ j = i)
      <4>1. HistoryWrite(d, j) # HistoryWrite(b, i)
        BY <3>3 DEF HistoryWrite
      <4>2. Pending(d, j)' <= Pending(d, j)
        BY <2>1, <4>1 DEF Pending
      <4> QED BY <1>1, <3>1, <4>2, CreditsGrow
    <3> QED BY <3>2, <3>3
  <2> QED BY <1>1, <2>2, <2>3, HandlersPay DEF BoughtInv
<1> QED BY <1>5, <1>6

LEMMA BoughtInit == Init => BoughtInv
<1> SUFFICES ASSUME Init PROVE BoughtInv
  OBVIOUS
<1>1. ShopInv
  BY InitSafe
<1>2. product.history \in Histories /\ LateHistory(late)
  BY DEF Init, Histories, LateHistory
<1>3. \A c \in Call : PaidHandler(calls[c])
  BY DEF Init, PaidHandler, Idle, Buying
<1>4. ASSUME NEW b \in Buyer, NEW i \in Item
      PROVE  product.history[b][i] + Pending(b, i) <= Cardinality(Credits(b, i))
  <2>1. Credits(b, i) = {}
    BY DEF Init, Credits, Past, Idle
  <2>2. Cardinality(Credits(b, i)) = 0
    BY <2>1, FS_EmptySet
  <2> QED BY <2>2 DEF Init, Pending
<1> QED BY <1>1, <1>2, <1>3, <1>4 DEF BoughtInv

LEMMA BoughtStep == BoughtInv /\ [Next]_vars => BoughtInv'
<1> SUFFICES ASSUME BoughtInv, [Next]_vars PROVE BoughtInv'
  OBVIOUS
<1>0. ShopInv'
  BY ShopStep DEF BoughtInv
<1>1. CASE UNCHANGED calls /\ NotMore
  <2>1. \A b, i : Credits(b, i)' = Credits(b, i)
    BY <1>1 DEF Credits
  <2>2. ASSUME NEW b \in Buyer, NEW i \in Item
        PROVE  product'.history[b][i] + Pending(b, i)' <= Cardinality(Credits(b, i)')
    <3>1. /\ product'.history[b][i] \in Nat /\ product.history[b][i] \in Nat
          /\ Pending(b, i) \in Nat /\ Pending(b, i)' \in Nat
      BY <1>1 DEF NotMore, BoughtInv, Histories, Pending
    <3>2. Cardinality(Credits(b, i)) \in Nat
      <4>1. Credits(b, i) \subseteq Call
        BY DEF Credits
      <4> QED BY <4>1, PurchaseAssumption, FS_Subset, FS_CardinalityType
    <3> QED BY <1>1, <2>1, <3>1, <3>2 DEF BoughtInv, NotMore
  <2> QED BY <1>0, <1>1, <2>2 DEF BoughtInv, NotMore
<1>2. CASE Land
  BY <1>1, <1>2, LandNotMore DEF Land
<1>3. CASE UNCHANGED vars
  BY <1>1, <1>3, StillNotMore DEF vars
<1>4. ASSUME NEW c \in Call, CutOff(c) \/ Login(c) \/ Start(c) \/ Pay(c)
      PROVE  BoughtInv'
  <2>1. NotMore
    BY <1>4, StillNotMore DEF CutOff, Login, Start, Pay, Read
  <2>2. Pays(c)
    BY <1>4, EndPays, UnpaidPays, PayPays DEF CutOff
  <2> QED BY <1>0, <2>1, <2>2, QuietStep
<1>5. ASSUME NEW c \in Call,
             GetCart(c) \/ GetItem(c) \/ NextItem(c) \/ GetSeller(c) \/ GetBuyer(c)
      PROVE  BoughtInv'
  <2>1. NotMore
    BY <1>5, StillNotMore DEF GetCart, GetItem, NextItem, GetSeller, GetBuyer, Read
  <2>2. Pays(c)
    BY <1>5, UnpaidPays, BuyingPays
  <2> QED BY <1>0, <2>1, <2>2, QuietStep
<1>6. ASSUME NEW c \in Call,
             \/ Expired(c) \/ CreateAccount(c) \/ CreateSession(c) \/ Logout(c)
             \/ UpdateSeller(c) \/ UpdateBuyer(c) \/ ResetCustomers(c)
      PROVE  BoughtInv'
  <2>1. PICK r, o : CustomerWrite(r, o) /\ UNCHANGED product
    BY <1>6 DEF Expired, CreateAccount, CreateSession, Logout, UpdateSeller, UpdateBuyer, ResetCustomers
  <2>2. Pays(c)
    BY <1>6, EndPays, UnpaidPays, BuyingPays DEF CreateAccount, CreateSession, Logout
  <2> QED BY <1>0, <2>1, <2>2, CustomerNotMore, QuietStep
<1>7. ASSUME NEW c \in Call,
             \/ AddToCart(c) \/ RemoveFromCart(c) \/ ClearCart(c) \/ SaveCart(c)
             \/ RegisterItem(c) \/ EndPurchase(c) \/ ResetProducts(c)
      PROVE  BoughtInv'
  <2>1. WritesAndEnds(c)
    BY <1>7, OneWrite DEF BoughtInv
  <2>2. Pays(c)
    BY <2>1, EndPays DEF WritesAndEnds
  <2>3. NotMore
    BY <2>1, WriteNotMore DEF WritesAndEnds
  <2> QED BY <1>0, <2>2, <2>3, QuietStep
<1>8. ASSUME NEW c \in Call, UpdateItem(c)
      PROVE  BoughtInv'
  <2>1. PICK o : ProductWrite([kind |-> "update_item", item |-> calls[c].item, row |-> NewRow(c)], o)
    BY <1>8 DEF UpdateItem
  <2>2. RequestSafe([kind |-> "update_item", item |-> calls[c].item, row |-> NewRow(c)])
    BY <1>8, NewRowFact DEF RequestSafe, UpdateItem, At, BoughtInv
  <2>3. NotMore
    BY <2>1, <2>2, WriteNotMore
  <2> QED BY <1>0, <1>8, <2>3, BuyingPays, QuietStep
<1>9. ASSUME NEW c \in Call, AddHistory(c)
      PROVE  BoughtInv'
  BY <1>0, <1>9, AddHistoryStep
<1> QED BY <1>2, <1>3, <1>4, <1>5, <1>6, <1>7, <1>8, <1>9 DEF Next

\* No failure, late write or cut-off call puts an item into a buyer's history more
\* often than the buyer had a payment approved for a cart with that item.
THEOREM PaidFor == Spec => []BoughtIsPaid
<1>1. BoughtInv => BoughtIsPaid
  <2> SUFFICES ASSUME BoughtInv, NEW b \in Buyer, NEW i \in Item
               PROVE  product.history[b][i] <= Cardinality({c \in Call : Paid(c, b, i)})
    BY DEF BoughtIsPaid
  <2> DEFINE P == {c \in Call : Paid(c, b, i)}
  <2>1. Credits(b, i) \subseteq P /\ P \subseteq Call
    BY DEF Credits, Past, Paid, User
  <2> HIDE DEF P
  <2>2. /\ Cardinality(Credits(b, i)) <= Cardinality(P)
        /\ Cardinality(Credits(b, i)) \in Nat /\ Cardinality(P) \in Nat
    BY <2>1, PurchaseAssumption, FS_Subset, FS_CardinalityType
  <2>3. /\ product.history[b][i] \in Nat /\ Pending(b, i) \in Nat
        /\ product.history[b][i] + Pending(b, i) <= Cardinality(Credits(b, i))
    BY DEF BoughtInv, Histories, Pending
  <2> QED BY <2>2, <2>3 DEF P
<1> QED BY <1>1, BoughtInit, BoughtStep, PTL DEF Spec

(***************************************************************************)
(* Signs: a number of units below zero, and a cart's row of none, is what  *)
(* someone has asked for.  Requests are never forgotten, so what has been  *)
(* asked for only grows, and what was fine when it was read or sent is     *)
(* fine when it is written.                                                *)
(***************************************************************************)
UnitsFine(i, n) == n < 0 => n \in AskedUnits(i)
RowFine(b, i, n) == n <= 0 => AskedForNone(b, i)
CartFine(b, cart) == \A i \in DOMAIN cart : RowFine(b, i, cart[i])

ProductFine(p) ==
    /\ \A i \in DOMAIN p.items : UnitsFine(i, p.items[i].quantity)
    /\ \A b \in Buyer : CartFine(b, p.carts[b])

RequestFine(r) ==
    /\ r.kind \in {"create_item", "update_item"} => UnitsFine(r.item, r.row.quantity)
    /\ r.kind = "add_to_cart" => RowFine(r.user, r.item, r.quantity)
    /\ r.kind = "save_cart" => CartFine(r.user, r.cart)

LateFine(ws) == \A w \in ws : w.db = "product" => RequestFine(w.request)

\* the cart that save_cart writes back, and the row that any handler does
HandlerFine(k) ==
    /\ k.pc = "save" => CartFine(k.op.user, k.cart)
    /\ k.pc = "update_item" => /\ UnitsFine(k.item, k.row.quantity)
                               /\ k.op.kind \in ItemKinds => k.item = k.op.item

SignInv == /\ ShopInv
           /\ ProductFine(product) /\ LateFine(late)
           /\ \A c \in Call : HandlerFine(calls[c])

\* The handler of c moves; its request, once taken, stays.
Follows(c) ==
    /\ \A d \in Call \ {c} : calls'[d] = calls[d]
    /\ calls[c].pc # "idle" => calls'[c].pc # "idle" /\ calls'[c].op = calls[c].op
    /\ HandlerFine(calls'[c])

\* What it held goes nowhere.
Drops(c) ==
    /\ \A d \in Call \ {c} : calls'[d] = calls[d]
    /\ calls'[c].op = calls[c].op
    /\ calls'[c].pc \notin {"idle", "save", "update_item"}

LEMMA DropsFollows ==
    ASSUME NEW c \in Call, Drops(c)
    PROVE  Follows(c)
BY DEF Drops, Follows, HandlerFine

LEMMA AskedGrows ==
    ASSUME NEW c \in Call, Follows(c)
    PROVE  /\ \A i, n : UnitsFine(i, n) => (n < 0 => n \in AskedUnits(i)')
           /\ \A b, i, n : RowFine(b, i, n) => (n <= 0 => AskedForNone(b, i)')
<1>1. \A d \in Call : calls[d].pc # "idle" => calls'[d].pc # "idle" /\ calls'[d].op = calls[d].op
  BY DEF Follows
<1>2. \A i : AskedUnits(i) \subseteq AskedUnits(i)'
  BY <1>1 DEF AskedUnits, At, Kind
<1>3. \A b, i : AskedForNone(b, i) => AskedForNone(b, i)'
  BY <1>1 DEF AskedForNone, At, Kind, User
<1> QED BY <1>2, <1>3 DEF UnitsFine, RowFine

\* A step keeps the signs when, by what was asked before it, they are right after it.
LEMMA SignsFollow ==
    ASSUME SignInv, ShopInv', NEW c \in Call, Follows(c), ProductFine(product'), LateFine(late')
    PROVE  SignInv'
<1>1. \A d \in Call : HandlerFine(calls'[d])
  BY DEF SignInv, Follows
<1>2. ProductFine(product)'
  BY AskedGrows DEF ProductFine, CartFine, UnitsFine, RowFine
<1>3. LateFine(late)'
  BY AskedGrows DEF LateFine, RequestFine, CartFine, UnitsFine, RowFine
<1>4. \A d \in Call : HandlerFine(calls[d])'
  BY <1>1, AskedGrows DEF HandlerFine, CartFine, UnitsFine, RowFine
<1> QED BY <1>2, <1>3, <1>4 DEF SignInv

\* The handler of a call that is cut short, refused or answered.
LEMMA EndFollows ==
    ASSUME ShopInv, NEW c \in Call, NEW result, End(c, result)
    PROVE  Follows(c)
BY DropsFollows, Held DEF End, Idle, Drops

LEMMA AddToFine ==
    ASSUME NEW cart, IsCart(cart), NEW b, CartFine(b, cart), NEW i \in Item, NEW q \in Int, RowFine(b, i, q)
    PROVE  CartFine(b, AddTo(cart, i, q))
<1> SUFFICES ASSUME NEW j \in DOMAIN AddTo(cart, i, q), AddTo(cart, i, q)[j] <= 0
             PROVE  AskedForNone(b, j)
  BY DEF CartFine, RowFine
<1>1. CASE j # i
  BY <1>1 DEF AddTo, Put, CartFine, RowFine
<1>2. CASE j = i /\ i \notin DOMAIN cart
  BY <1>2 DEF AddTo, Put, RowFine
<1>3. CASE j = i /\ i \in DOMAIN cart
  <2>1. cart[i] \in Int /\ q + cart[i] <= 0
    BY <1>3 DEF AddTo, Put, IsCart
  <2>2. q <= 0 \/ cart[i] <= 0
    BY <2>1
  <2> QED BY <1>3, <2>2 DEF CartFine, RowFine
<1> QED BY <1>1, <1>2, <1>3

\* What a removal leaves of a row is above zero.
LEMMA RemoveFromFine ==
    ASSUME NEW cart, IsCart(cart), NEW b, CartFine(b, cart), NEW i \in Item, NEW q \in Int
    PROVE  CartFine(b, RemoveFrom(cart, i, q))
<1>1. CASE i \notin DOMAIN cart
  BY <1>1 DEF RemoveFrom
<1>2. CASE i \in DOMAIN cart /\ cart[i] <= q
  BY <1>2 DEF RemoveFrom, Restrict, CartFine
<1>3. CASE i \in DOMAIN cart /\ ~(cart[i] <= q)
  <2>1. RemoveFrom(cart, i, q) = [cart EXCEPT ![i] = @ - q]
    BY <1>3 DEF RemoveFrom
  <2>2. cart[i] \in Int /\ ~(cart[i] - q <= 0)
    BY <1>3 DEF IsCart
  <2> QED BY <1>3, <2>1, <2>2 DEF CartFine, RowFine
<1> QED BY <1>1, <1>2, <1>3

LEMMA ApplyFine ==
    ASSUME NEW p, ProductSafe(p), ProductFine(p), NEW r, RequestSafe(r), RequestFine(r)
    PROVE  ProductFine(ApplyRequest(p, r))
<1>0. \A b : CartFine(b, NoCart)
  BY DEF CartFine, NoCart
<1>1. CASE r.kind = "create_item"
  BY <1>1 DEF ApplyRequest, ProductSafe, ProductFine, RequestFine, Put
<1>2. CASE r.kind = "update_item"
  BY <1>2 DEF ApplyRequest, ProductSafe, ProductFine, RequestFine
<1>3. CASE r.kind = "add_to_cart"
  <2>1. r.user \in Buyer => CartFine(r.user, AddTo(p.carts[r.user], r.item, r.quantity))
    BY <1>3, AddToFine DEF ProductSafe, ProductFine, RequestSafe, RequestFine
  <2> QED BY <1>3, <2>1 DEF ApplyRequest, ProductSafe, ProductFine
<1>4. CASE r.kind = "remove_from_cart"
  <2>1. r.user \in Buyer => CartFine(r.user, RemoveFrom(p.carts[r.user], r.item, r.quantity))
    BY <1>4, RemoveFromFine DEF ProductSafe, ProductFine, RequestSafe
  <2> QED BY <1>4, <2>1 DEF ApplyRequest, ProductSafe, ProductFine
<1>5. CASE r.kind = "clear_cart"
  BY <1>0, <1>5 DEF ApplyRequest, ProductSafe, ProductFine
<1>6. CASE r.kind = "save_cart"
  BY <1>6 DEF ApplyRequest, ProductSafe, ProductFine, RequestFine
<1>7. CASE r.kind = "add_purchase_history"
  BY <1>7 DEF ApplyRequest, ProductSafe, ProductFine
<1>8. CASE r.kind = "reset"
  BY <1>0, <1>8 DEF ApplyRequest, ProductFine
<1> QED BY <1>1, <1>2, <1>3, <1>4, <1>5, <1>6, <1>7, <1>8 DEF RequestSafe

LEMMA ProductWriteFine ==
    ASSUME SignInv, NEW r, RequestSafe(r), RequestFine(r), NEW o, ProductWrite(r, o)
    PROVE  ProductFine(product') /\ LateFine(late')
BY ApplyFine DEF SignInv, ShopInv, ProductWrite, Postpone, LateFine

LEMMA CustomerWriteFine ==
    ASSUME SignInv, NEW r, NEW o, CustomerWrite(r, o), UNCHANGED product
    PROVE  ProductFine(product') /\ LateFine(late')
BY DEF SignInv, CustomerWrite, Postpone, LateFine

LEMMA StartFollows ==
    ASSUME SignInv, NEW c \in Call, Start(c) \/ Expired(c)
    PROVE  Follows(c)
<1>1. PICK op \in Script[c] :
         /\ calls[c].pc = "idle"
         /\ calls'[c].pc \in {First(op.kind), "done"}
         /\ \A d \in Call \ {c} : calls'[d] = calls[d]
  <2>1. c \in Call /\ DOMAIN calls = Call /\ DOMAIN calls[c] = DOMAIN Idle
    BY Held DEF SignInv, HandlerSafe
  <2>2. CASE Start(c)
    <3>1. PICK op \in Script[c] : calls' = [calls EXCEPT ![c].op = op, ![c].pc = First(op.kind)]
      BY <2>2 DEF Start
    <3>2. calls'[c].pc = First(op.kind) /\ \A d \in Call \ {c} : calls'[d] = calls[d]
      BY <2>1, <3>1 DEF Idle
    <3> QED BY <2>2, <3>2 DEF Start, At
  <2>3. CASE Expired(c)
    <3>1. PICK op \in Script[c] : calls' = [calls EXCEPT ![c].op = op, ![c].pc = "done", ![c].result = "expired"]
      BY <2>3 DEF Expired
    <3>2. calls'[c].pc = "done" /\ \A d \in Call \ {c} : calls'[d] = calls[d]
      BY <2>1, <3>1 DEF Idle
    <3> QED BY <2>3, <3>1, <3>2 DEF Expired, At
  <2> QED BY <2>2, <2>3
<1>2. calls'[c].pc \notin {"save", "update_item"}
  BY <1>1, ScriptAssumption DEF First
<1> QED BY <1>1, <1>2 DEF Follows, HandlerFine

\* Steps that only move on.
LEMMA DropSteps ==
    ASSUME SignInv, NEW c \in Call, \A result : ~End(c, result),
           \/ Login(c) \/ ResetCustomers(c) \/ Pay(c) \/ AddHistory(c) \/ GetSeller(c)
           \/ UpdateSeller(c) \/ GetBuyer(c) \/ UpdateBuyer(c)
           \/ UpdateItem(c) /\ Kind(c) = "purchase"
    PROVE  Drops(c)
<1>1. c \in Call /\ DOMAIN calls = Call /\ DOMAIN calls[c] = DOMAIN Idle
  BY Held DEF SignInv, HandlerSafe
<1> DEFINE Later == {"create_session", "reset_products", "next_item", "add_history", "get_seller",
                     "update_seller", "update_buyer", "clear"}
<1>2. ASSUME NEW pc \in Later, calls' = [calls EXCEPT ![c].pc = pc]
      PROVE  Drops(c)
  BY <1>1, <1>2 DEF Drops, Idle
<1>3. ASSUME NEW pc \in Later, NEW n, calls' = [calls EXCEPT ![c].count = n, ![c].pc = pc]
      PROVE  Drops(c)
  BY <1>1, <1>3 DEF Drops, Idle
<1>4. ASSUME NEW pc \in Later, NEW paid, calls' = [calls EXCEPT ![c].pc = pc, ![c].paid = paid]
      PROVE  Drops(c)
  BY <1>1, <1>4 DEF Drops, Idle
<1>5. \E pc \in Later :
         \/ calls' = [calls EXCEPT ![c].pc = pc]
         \/ \E n : calls' = [calls EXCEPT ![c].count = n, ![c].pc = pc]
         \/ \E paid : calls' = [calls EXCEPT ![c].pc = pc, ![c].paid = paid]
  <2>1. CASE Login(c)
    BY <2>1 DEF Login
  <2>2. CASE ResetCustomers(c)
    BY <2>2 DEF ResetCustomers
  <2>3. CASE Pay(c)
    BY <2>3 DEF Pay
  <2>4. CASE AddHistory(c)
    BY <2>4 DEF AddHistory
  <2>5. CASE GetSeller(c)
    BY <2>5 DEF GetSeller
  <2>6. CASE UpdateSeller(c) \/ UpdateBuyer(c)
    BY <2>6 DEF UpdateSeller, UpdateBuyer
  <2>7. CASE GetBuyer(c)
    BY <2>7 DEF GetBuyer
  <2>8. CASE UpdateItem(c) /\ Kind(c) = "purchase"
    BY <2>8 DEF UpdateItem
  <2> QED BY <2>1, <2>2, <2>3, <2>4, <2>5, <2>6, <2>7, <2>8
<1> HIDE DEF Later
<1> QED BY <1>2, <1>3, <1>4, <1>5

\* What is read of the product database is fine to hold.
LEMMA ReadFollows ==
    ASSUME SignInv, NEW c \in Call, GetCart(c) \/ GetItem(c) \/ NextItem(c)
    PROVE  Follows(c)
<1>1. CASE \E result : End(c, result)
  BY <1>1, EndFollows DEF SignInv
<1>2. CASE \A result : ~End(c, result)
  <2>1. /\ c \in Call /\ DOMAIN calls = Call /\ DOMAIN calls[c] = DOMAIN Idle
        /\ HandlerSafe(c, calls[c])
    BY Held DEF SignInv, HandlerSafe
  <2>2. CASE GetCart(c)
    <3> DEFINE cart == product.carts[User(c)]
               pc == IF Kind(c) = "purchase" THEN "pay" ELSE "save"
               todo == DOMAIN cart
    <3>1. calls' = [calls EXCEPT ![c].cart = cart, ![c].todo = todo, ![c].pc = pc]
      BY <1>2, <2>2 DEF GetCart
    <3>2. calls[c].op \in Script[c] /\ calls[c].op.kind \in {"purchase", "save_cart"}
      BY <2>1, <2>2 DEF GetCart, At, HandlerSafe
    <3>3. User(c) \in Buyer
      BY <3>2, ScriptAssumption DEF User
    <3>4. CartFine(calls[c].op.user, cart) /\ pc \in {"pay", "save"}
      BY <3>3 DEF SignInv, ProductFine, User
    <3> HIDE DEF cart, pc, todo
    <3>5. /\ calls'[c].op = calls[c].op /\ calls'[c].cart = cart /\ calls'[c].pc = pc
          /\ \A d \in Call \ {c} : calls'[d] = calls[d]
      BY <2>1, <3>1 DEF Idle
    <3> QED BY <3>4, <3>5 DEF Follows, HandlerFine
  <2>3. CASE GetItem(c)
    <3>1. PICK i : /\ i \in DOMAIN product.items /\ i = calls[c].op.item
                   /\ calls' = [calls EXCEPT ![c].item = i, ![c].row = product.items[i],
                                             ![c].pc = "update_item"]
      BY <1>2, <2>3 DEF GetItem
    <3>2. /\ calls'[c].op = calls[c].op /\ calls'[c].item = i /\ calls'[c].row = product.items[i]
          /\ calls'[c].pc = "update_item"
          /\ \A d \in Call \ {c} : calls'[d] = calls[d]
      BY <2>1, <3>1 DEF Idle
    <3>3. UnitsFine(i, product.items[i].quantity)
      BY <3>1 DEF SignInv, ProductFine
    <3> QED BY <3>1, <3>2, <3>3 DEF Follows, HandlerFine
  <2>4. CASE NextItem(c)
    <3>1. calls[c].pc = "next_item" /\ calls[c].op.kind = "purchase"
      BY <2>1, <2>4 DEF NextItem, At, HandlerSafe, Purchasing
    <3>2. PICK i \in calls[c].todo :
             \/ calls' = [calls EXCEPT ![c].todo = @ \ {i}]
             \/ /\ i \in DOMAIN product.items
                /\ calls' = [calls EXCEPT ![c].todo = @ \ {i}, ![c].item = i,
                                          ![c].row = product.items[i], ![c].pc = "update_item"]
      BY <1>2, <2>4 DEF NextItem
    <3>3. CASE calls' = [calls EXCEPT ![c].todo = @ \ {i}]
      <4>1. Drops(c)
        BY <2>1, <3>1, <3>3 DEF Drops, Idle
      <4> QED BY <4>1, DropsFollows
    <3>4. CASE /\ i \in DOMAIN product.items
               /\ calls' = [calls EXCEPT ![c].todo = @ \ {i}, ![c].item = i,
                                         ![c].row = product.items[i], ![c].pc = "update_item"]
      <4>1. /\ calls'[c].op = calls[c].op /\ calls'[c].item = i /\ calls'[c].row = product.items[i]
            /\ calls'[c].pc = "update_item"
            /\ \A d \in Call \ {c} : calls'[d] = calls[d]
        BY <2>1, <3>4 DEF Idle
      <4>2. UnitsFine(i, product.items[i].quantity)
        BY <3>4 DEF SignInv, ProductFine
      <4> QED BY <3>1, <4>1, <4>2 DEF Follows, HandlerFine, ItemKinds
    <3> QED BY <3>2, <3>3, <3>4
  <2> QED BY <2>2, <2>3, <2>4
<1> QED BY <1>1, <1>2

\* What is written back: make_purchase deducts from the row it has checked, not from
\* the row it replaces, and it never deducts more than that row has.
LEMMA NewRowFine ==
    ASSUME SignInv, NEW c \in Call, calls[c].pc = "update_item"
    PROVE  UnitsFine(calls[c].item, NewRow(c).quantity)
<1> DEFINE k == calls[c]
           row == k.row
<1>1. /\ k.op \in Script[c] /\ k.op.kind \in ItemKinds \cup {"purchase"}
      /\ row \in Row /\ IsCart(k.cart)
      /\ k.op.kind = "purchase" => k.item \in DOMAIN k.cart /\ k.cart[k.item] <= row.quantity
      /\ UnitsFine(k.item, row.quantity)
      /\ k.op.kind \in ItemKinds => k.item = k.op.item
  BY Held DEF SignInv, HandlerSafe, HandlerFine
<1>2. k.pc = "update_item"
  OBVIOUS
<1> HIDE DEF k, row
<1>3. CASE k.op.kind \in {"provide_feedback", "change_item_price"}
  <2>1. NewRow(c).quantity = row.quantity
    BY <1>1, <1>3 DEF NewRow, Kind, Feedback, Price, Row, k, row
  <2> QED BY <1>1, <2>1 DEF k
<1>4. CASE k.op.kind = "update_units"
  <2>1. NewRow(c).quantity = k.op.quantity
    BY <1>1, <1>4 DEF NewRow, Kind, Units, Row, k, row
  <2>2. k.op.quantity \in AskedUnits(k.item)
    BY <1>1, <1>2, <1>4 DEF AskedUnits, At, Kind, ItemKinds, k
  <2> QED BY <2>1, <2>2 DEF UnitsFine, k
<1>5. CASE k.op.kind = "purchase"
  <2>1. NewRow(c).quantity = row.quantity - k.cart[k.item]
    BY <1>1, <1>5 DEF NewRow, Kind, Deducted, Row, k, row
  <2>2. row.quantity \in Int /\ k.cart[k.item] \in Int /\ k.cart[k.item] <= row.quantity
    BY <1>1, <1>5 DEF Row, IsCart
  <2> QED BY <2>1, <2>2 DEF UnitsFine
<1> QED BY <1>1, <1>3, <1>4, <1>5 DEF ItemKinds

\* The writes of the handlers that end with one.
LEMMA OneWriteFine ==
    ASSUME SignInv, NEW c \in Call,
           \/ AddToCart(c) \/ RemoveFromCart(c) \/ ClearCart(c) \/ SaveCart(c)
           \/ RegisterItem(c) \/ EndPurchase(c) \/ ResetProducts(c)
    PROVE  ProductFine(product') /\ LateFine(late') /\ Follows(c)
<1>1. ASSUME NEW kind \in {"add_to_cart", "remove_from_cart", "clear_cart"}, CartCall(c, kind)
      PROVE  \E r, o : ProductWrite(r, o) /\ RequestSafe(r) /\ RequestFine(r)
  <2>1. /\ calls[c].op \in Script[c] /\ calls[c].op.kind = kind /\ calls[c].pc = kind
    BY <1>1, Held DEF SignInv, CartCall, At, HandlerSafe, Kind
  <2>2. RequestSafe(calls[c].op)
    BY <2>1, ScriptAssumption DEF RequestSafe
  <2>3. RequestFine(calls[c].op)
    BY <2>1 DEF RequestFine, RowFine, AskedForNone, At, Kind, User
  <2>4. \E o : ProductWrite(calls[c].op, o)
    BY <1>1 DEF CartCall
  <2> QED BY <2>2, <2>3, <2>4
<1>2. ASSUME SaveCart(c)
      PROVE  \E r, o : ProductWrite(r, o) /\ RequestSafe(r) /\ RequestFine(r)
  <2>1. RequestSafe([kind |-> "save_cart", user |-> User(c), cart |-> calls[c].cart])
    BY Held DEF SignInv, RequestSafe, HandlerSafe
  <2>2. RequestFine([kind |-> "save_cart", user |-> User(c), cart |-> calls[c].cart])
    BY <1>2 DEF SignInv, SaveCart, At, RequestFine, HandlerFine, User
  <2> QED BY <1>2, <2>1, <2>2 DEF SaveCart
<1>3. ASSUME RegisterItem(c)
      PROVE  \E r, o : ProductWrite(r, o) /\ RequestSafe(r) /\ RequestFine(r)
  <2>1. PICK r, o :
           /\ r = [kind |-> "create_item", item |-> DrawnId[c],
                   row |-> [seller |-> User(c), price |-> 1,
                            quantity |-> calls[c].op.quantity, thumbs |-> 0]]
           /\ ProductWrite(r, o)
    BY <1>3 DEF RegisterItem
  <2>2. /\ calls[c].pc = "register_item" /\ calls[c].op \in Script[c]
        /\ calls[c].op.kind = "register_item"
    BY <1>3, Held DEF SignInv, RegisterItem, At, HandlerSafe
  <2>3. User(c) \in Seller /\ calls[c].op.quantity \in Int
    BY <2>2, ScriptAssumption DEF User
  <2>4. RequestSafe(r)
    BY <2>1, <2>3 DEF RequestSafe, Row
  <2>5. calls[c].op.quantity \in AskedUnits(DrawnId[c])
    BY <2>2 DEF AskedUnits, At, Kind
  <2>6. RequestFine(r)
    BY <2>1, <2>5 DEF RequestFine, UnitsFine
  <2> QED BY <2>1, <2>4, <2>6
<1>4. ASSUME EndPurchase(c)
      PROVE  \E r, o : ProductWrite(r, o) /\ RequestSafe(r) /\ RequestFine(r)
  BY <1>4 DEF EndPurchase, RequestSafe, RequestFine
<1>5. ASSUME ResetProducts(c)
      PROVE  \E r, o : ProductWrite(r, o) /\ RequestSafe(r) /\ RequestFine(r)
  BY <1>5 DEF ResetProducts, RequestSafe, RequestFine
<1>6. \E r, o : ProductWrite(r, o) /\ RequestSafe(r) /\ RequestFine(r)
  BY <1>1, <1>2, <1>3, <1>4, <1>5 DEF AddToCart, RemoveFromCart, ClearCart
<1>7. Follows(c)
  BY OneWrite, EndFollows DEF SignInv, WritesAndEnds
<1> QED BY <1>6, <1>7, ProductWriteFine

LEMMA SignInit == Init => SignInv
<1> SUFFICES ASSUME Init PROVE SignInv
  OBVIOUS
<1>1. ShopInv
  BY InitSafe
<1>2. \A i \in DOMAIN InitialItem : InitialItem[i].quantity \in AskedUnits(i)
  BY DEF AskedUnits
<1>3. ProductFine(product)
  BY <1>2, PurchaseAssumption DEF Init, ProductFine, UnitsFine, CartFine, RowFine, AskedForNone
<1>4. LateFine(late) /\ \A c \in Call : HandlerFine(calls[c])
  BY DEF Init, Idle, LateFine, HandlerFine
<1> QED BY <1>1, <1>3, <1>4 DEF SignInv

LEMMA SignStep == SignInv /\ [Next]_vars => SignInv'
<1> SUFFICES ASSUME SignInv, [Next]_vars PROVE SignInv'
  OBVIOUS
<1>0. ShopInv'
  BY ShopStep DEF SignInv
<1>1. ASSUME UNCHANGED calls, ProductFine(product'), LateFine(late')
      PROVE  SignInv'
  BY <1>0, <1>1 DEF SignInv, ProductFine, LateFine, RequestFine, HandlerFine, CartFine,
                    UnitsFine, RowFine, AskedUnits, AskedForNone, At, Kind, User
<1>2. CASE Land
  <2>1. PICK w \in late :
           /\ late' = late \ {w}
           /\ product' = IF w.db = "product" THEN ApplyRequest(product, w.request) ELSE product
           /\ UNCHANGED calls
    BY <1>2 DEF Land
  <2>2. ProductFine(product')
    BY <2>1, ApplyFine DEF SignInv, ShopInv, LateSafe, LateFine
  <2>3. LateFine(late')
    BY <2>1 DEF SignInv, LateFine
  <2> QED BY <1>1, <2>1, <2>2, <2>3
<1>3. CASE UNCHANGED vars
  BY <1>1, <1>3 DEF vars, SignInv
<1>4. ASSUME NEW c \in Call, UNCHANGED <<product, late>>, Follows(c)
      PROVE  SignInv'
  BY <1>0, <1>4, SignsFollow DEF SignInv
<1>5. ASSUME NEW c \in Call, CutOff(c) \/ Start(c) \/ GetCart(c) \/ GetItem(c) \/ NextItem(c)
      PROVE  SignInv'
  <2>1. Follows(c)
    BY <1>5, EndFollows, StartFollows, ReadFollows DEF CutOff, SignInv
  <2> QED BY <1>4, <1>5, <2>1 DEF CutOff, Start, GetCart, GetItem, NextItem, Read
<1>6. ASSUME NEW c \in Call, Login(c) \/ Pay(c) \/ GetSeller(c) \/ GetBuyer(c)
      PROVE  SignInv'
  <2>1. Follows(c)
    BY <1>6, EndFollows, DropSteps, DropsFollows DEF SignInv
  <2> QED BY <1>4, <1>6, <2>1 DEF Login, Pay, GetSeller, GetBuyer, Read
<1>7. ASSUME NEW c \in Call,
             \/ Expired(c) \/ CreateAccount(c) \/ CreateSession(c) \/ Logout(c)
             \/ UpdateSeller(c) \/ UpdateBuyer(c) \/ ResetCustomers(c)
      PROVE  SignInv'
  <2>1. PICK r, o : CustomerWrite(r, o) /\ UNCHANGED product
    BY <1>7 DEF Expired, CreateAccount, CreateSession, Logout, UpdateSeller, UpdateBuyer, ResetCustomers
  <2>2. Follows(c)
    BY <1>7, EndFollows, StartFollows, DropSteps, DropsFollows
       DEF CreateAccount, CreateSession, Logout, SignInv
  <2> QED BY <1>0, <2>1, <2>2, CustomerWriteFine, SignsFollow
<1>8. ASSUME NEW c \in Call,
             \/ AddToCart(c) \/ RemoveFromCart(c) \/ ClearCart(c) \/ SaveCart(c)
             \/ RegisterItem(c) \/ EndPurchase(c) \/ ResetProducts(c)
      PROVE  SignInv'
  BY <1>0, <1>8, OneWriteFine, SignsFollow
<1>9. ASSUME NEW c \in Call, UpdateItem(c)
      PROVE  SignInv'
  <2>1. PICK r, o : /\ r = [kind |-> "update_item", item |-> calls[c].item, row |-> NewRow(c)]
                    /\ ProductWrite(r, o)
    BY <1>9 DEF UpdateItem
  <2>2. calls[c].pc = "update_item"
    BY <1>9 DEF UpdateItem, At
  <2>3. RequestSafe(r) /\ RequestFine(r)
    BY <2>1, <2>2, NewRowFact, NewRowFine DEF SignInv, RequestSafe, RequestFine
  <2>4. Follows(c)
    <3>1. CASE Kind(c) = "purchase" /\ \A result : ~End(c, result)
      BY <1>9, <3>1, DropSteps, DropsFollows
    <3>2. CASE \E result : End(c, result)
      BY <3>2, EndFollows DEF SignInv
    <3> QED BY <1>9, <3>1, <3>2 DEF UpdateItem
  <2> QED BY <1>0, <2>1, <2>3, <2>4, ProductWriteFine, SignsFollow
<1>10. ASSUME NEW c \in Call, AddHistory(c)
       PROVE  SignInv'
  <2>1. PICK r, o :
           /\ r = [kind |-> "add_purchase_history", user |-> User(c), item |-> calls[c].item]
           /\ ProductWrite(r, o)
    BY <1>10 DEF AddHistory
  <2>2. RequestSafe(r) /\ RequestFine(r)
    BY <2>1 DEF RequestSafe, RequestFine
  <2>3. Follows(c)
    BY <1>10, EndFollows, DropSteps, DropsFollows DEF SignInv
  <2> QED BY <1>0, <2>1, <2>2, <2>3, ProductWriteFine, SignsFollow
<1> QED BY <1>2, <1>3, <1>5, <1>6, <1>7, <1>8, <1>9, <1>10 DEF Next

LEMMA SignInvariant == Spec => []SignInv
BY SignInit, SignStep, PTL DEF Spec

\* Whatever numbers sellers and buyers send, no interleaving of purchases, updates,
\* feedback, resets, failed, late and cut-off calls leaves an item with a negative
\* number of units that no seller has asked for.
THEOREM UnitsAsked == Spec => []NegativeUnitsAsked
<1>1. SignInv => NegativeUnitsAsked
  BY DEF SignInv, ProductFine, UnitsFine, NegativeUnitsAsked
<1> QED BY <1>1, SignInvariant, PTL

\* And none leaves a cart with a row of no units, or fewer, whose buyer has never
\* added as little.
THEOREM RowsAsked == Spec => []EmptyRowsAsked
<1>1. SignInv => EmptyRowsAsked
  BY DEF SignInv, ProductFine, CartFine, RowFine, EmptyRowsAsked
<1> QED BY <1>1, SignInvariant, PTL
=============================================================================
