------------------------------ MODULE Purchase ------------------------------
(***************************************************************************)
(* The REST handlers of buyer_server and seller_server over the two        *)
(* databases.  A handler is a sequence of RPCs with nothing that holds     *)
(* them together: other handlers run between any two of them, each may     *)
(* fail, before, after or long before the database executes it, and the    *)
(* handler itself may be cut off between two of them.                      *)
(*                                                                         *)
(* Both databases are single copies here that execute an RPC at once: the  *)
(* product database reads and writes through its Raft leader; the customer *)
(* database is the module CustomerDb when its reads are fresh.             *)
(***************************************************************************)
EXTENDS Integers, FiniteSets, FiniteSetsExt, Functions

CONSTANTS
    Buyer,
    Seller,
    Item,        \* item ids
    Call,        \* the calls made
    Script,      \* [Call -> the requests the call may be]
    DrawnId,     \* [calls that may register an item -> the id drawn for it]
    InitialItem, \* the items on sale, each with its row
    InitialCart, \* [Buyer -> cart]
    InitialUser, \* the accounts there are, each with a session, 0
    MaxFaults    \* bound: RPCs that fail and handlers that are cut off

\* nobody checks the sign of a price or of a number of units
Row == [seller : Seller, price : Int, quantity : Int, thumbs : Nat]
NoCart == [i \in {} |-> 0]
IsCart(cart) == \A i \in DOMAIN cart : i \in Item /\ cart[i] \in Int

ASSUME PurchaseAssumption ==
    /\ IsFiniteSet(Item) /\ IsFiniteSet(Buyer) /\ IsFiniteSet(Seller) /\ IsFiniteSet(Call)
    /\ Buyer \cap Seller = {} \* two tables of accounts
    /\ DOMAIN InitialItem \subseteq Item
    /\ \A i \in DOMAIN InitialItem : InitialItem[i] \in Row /\ InitialItem[i].thumbs = 0
    /\ DOMAIN InitialCart = Buyer /\ \A b \in Buyer : IsCart(InitialCart[b])
    /\ InitialUser \subseteq Buyer \cup Seller
    /\ MaxFaults \in Nat
\* what a request carries: any number, short of those whose sums leave an i32
ASSUME ScriptAssumption ==
    \A c \in Call : \A op \in Script[c] :
        \/ op.kind \in {"purchase", "save_cart", "clear_cart"} /\ op.user \in Buyer
        \/ op.kind = "provide_feedback" /\ op.user \in Buyer /\ op.item \in Item
        \/ /\ op.kind \in {"add_to_cart", "remove_from_cart"}
           /\ op.user \in Buyer /\ op.item \in Item /\ op.quantity \in Int
        \/ op.kind = "register_item" /\ op.user \in Seller /\ op.quantity \in Int
        \/ op.kind = "update_units" /\ op.user \in Seller /\ op.item \in Item /\ op.quantity \in Int
        \/ op.kind = "change_item_price" /\ op.user \in Seller /\ op.item \in Item /\ op.price \in Int
        \/ op.kind \in {"create_account", "login", "logout"} /\ op.user \in Buyer \cup Seller
        \/ op.kind = "reset_all"
\* Uuid::new_v4 draws no id twice
ASSUME FreshIdAssumption ==
    /\ DrawnId \in [{c \in Call : \E op \in Script[c] : op.kind = "register_item"}
                     -> Item \ DOMAIN InitialItem]
    /\ IsInjective(DrawnId)

VARIABLES
    product,     \* the product database: tables items, carts, purchase_history
    customers,   \* the customer database: items_sold or items_purchased of each account
    sessions,    \* and its sessions: <<account, id>>, the id being the login that made it
    calls,       \* [Call -> the handler: its request, the step it is at, what it has read]
    late,        \* writes whose callers saw an error while they were still on their way
    faults,      \* RPCs that failed, handlers that were cut off
    stocked,     \* history, until something fails: units put on sale, less those withdrawn
    disturbed    \* history: what happened that the books do not survive

vars == <<product, customers, sessions, calls, late, faults, stocked, disturbed>>

Idle == [pc |-> "idle", op |-> "none", cart |-> NoCart, paid |-> FALSE, todo |-> {},
         item |-> "none", row |-> "none", count |-> 0, result |-> "none"]

TypeOK ==
    /\ DOMAIN product.items \subseteq Item
    /\ \A i \in DOMAIN product.items :
          product.items[i] \in Row /\ product.items[i].thumbs <= Cardinality(Call)
    /\ \A b \in Buyer : DOMAIN product.carts[b] \subseteq Item
    /\ product.history \in [Buyer -> [Item -> Nat]]
    /\ DOMAIN customers \subseteq Buyer \cup Seller
    /\ \A u \in DOMAIN customers : customers[u] \in Int
    /\ sessions \subseteq (Buyer \cup Seller) \X ({0} \cup Call)
    /\ \A c \in Call :
          /\ calls[c].pc = "idle" \/ calls[c].op \in Script[c]
          /\ calls[c].todo \subseteq DOMAIN calls[c].cart
          /\ calls[c].paid => calls[c].op.kind = "purchase"
    /\ Cardinality(late) <= faults
    /\ faults \in 0 .. MaxFaults
    /\ disturbed \subseteq {"stale", "skipped", "refused", "reset"}

\* the units of a table of items
Stock(items) == SumFunction([i \in DOMAIN items |-> items[i].quantity])

Init ==
    /\ product = [items |-> InitialItem, carts |-> InitialCart,
                  history |-> [b \in Buyer |-> [i \in Item |-> 0]]]
    /\ customers = [u \in InitialUser |-> 0]
    /\ sessions = InitialUser \X {0}
    /\ calls = [c \in Call |-> Idle]
    /\ late = {}
    /\ faults = 0
    /\ stocked = Stock(InitialItem)
    /\ disturbed = {}

------------------------------------------------------------------------------
(* The product database.                                                       *)

\* a table with a row inserted or replaced
Put(t, x, row) == [y \in DOMAIN t \cup {x} |-> IF y = x THEN row ELSE t[y]]

AddTo(cart, i, q) == Put(cart, i, q + (IF i \in DOMAIN cart THEN cart[i] ELSE 0))

\* mutant: a row that comes to nothing is kept
RemoveLess(cart, i, q) ==
    IF i \notin DOMAIN cart THEN cart
    ELSE IF cart[i] < q THEN Restrict(cart, DOMAIN cart \ {i})
    ELSE [cart EXCEPT ![i] = @ - q]

RemoveFrom(cart, i, q) ==
    IF i \notin DOMAIN cart THEN cart
    ELSE IF cart[i] <= q THEN Restrict(cart, DOMAIN cart \ {i})
    ELSE [cart EXCEPT ![i] = @ - q]

ApplyRequest(p, r) ==
    CASE r.kind = "create_item" -> [p EXCEPT !.items = Put(@, r.item, r.row)]
      [] r.kind = "update_item" ->
            IF r.item \in DOMAIN p.items THEN [p EXCEPT !.items[r.item] = r.row] ELSE p
      [] r.kind = "add_to_cart" -> [p EXCEPT !.carts[r.user] = AddTo(@, r.item, r.quantity)]
      [] r.kind = "remove_from_cart" -> [p EXCEPT !.carts[r.user] = RemoveFrom(@, r.item, r.quantity)]
      [] r.kind = "clear_cart" -> [p EXCEPT !.carts[r.user] = NoCart]
      [] r.kind = "save_cart" -> [p EXCEPT !.carts[r.user] = r.cart]
      [] r.kind = "add_purchase_history" -> [p EXCEPT !.history[r.user][r.item] = @ + 1]
      [] r.kind = "reset" ->
            [items |-> [i \in {} |-> 0], carts |-> [b \in Buyer |-> NoCart],
             history |-> [b \in Buyer |-> [i \in Item |-> 0]]]

------------------------------------------------------------------------------
(* The customer database, and the RPCs.                                        *)

\* update_seller and update_buyer set the count of an account that exists
AccountsAfter(r) ==
    CASE r.kind = "create" /\ r.user \notin DOMAIN customers -> Put(customers, r.user, 0)
      [] r.kind = "update" /\ r.user \in DOMAIN customers -> [customers EXCEPT ![r.user] = r.count]
      [] r.kind = "reset" -> [u \in {} |-> 0]
      [] OTHER -> customers

SessionsAfter(r) ==
    CASE r.kind = "create_session" -> sessions \cup {<<r.user, r.id>>}
      [] r.kind = "delete_session" -> sessions \ {<<r.user, r.id>>}
      [] r.kind = "reset" -> {}
      [] OTHER -> sessions

\* How an RPC ends: answered, or with an error when the database has not executed
\* it and never will, has executed it, or will do so later: a request that Raft or
\* the broadcast holds is not taken back when its caller gives up.
Outcome == {"ok", "lost", "unanswered", "late"}
Executed(o) == o \in {"ok", "unanswered"}
Count(o) ==
    /\ o # "ok" => faults < MaxFaults
    /\ faults' = IF o = "ok" THEN faults ELSE faults + 1
Postpone(o, db, r) == late' = IF o = "late" THEN late \cup {[db |-> db, request |-> r]} ELSE late

Read(o) == Count(o) /\ UNCHANGED late

\* a write of the product service, sent through Raft
ProductWrite(r, o) ==
    /\ Count(o)
    /\ Postpone(o, "product", r)
    /\ product' = IF Executed(o) THEN ApplyRequest(product, r) ELSE product

\* a write of the customer service, sent through the broadcast
CustomerWrite(r, o) ==
    /\ Count(o)
    /\ Postpone(o, "customer", r)
    /\ customers' = IF Executed(o) THEN AccountsAfter(r) ELSE customers
    /\ sessions' = IF Executed(o) THEN SessionsAfter(r) ELSE sessions

Land == \E w \in late :
    /\ late' = late \ {w}
    /\ IF w.db = "product"
       THEN product' = ApplyRequest(product, w.request) /\ UNCHANGED <<customers, sessions>>
       ELSE /\ customers' = AccountsAfter(w.request)
            /\ sessions' = SessionsAfter(w.request)
            /\ UNCHANGED product
    /\ UNCHANGED <<calls, faults, stocked, disturbed>>

Disturb(what, happened) == disturbed' = IF happened THEN disturbed \cup {what} ELSE disturbed

------------------------------------------------------------------------------
(* The handlers.                                                               *)

At(c, pc) == calls[c].pc = pc
Kind(c) == calls[c].op.kind
User(c) == calls[c].op.user
\* the handler returns; what it has read is gone, but for the cart that was paid
End(c, result) ==
    calls' = [calls EXCEPT ![c] = [Idle EXCEPT !.pc = "done", !.op = calls[c].op, !.result = result,
                                               !.paid = calls[c].paid,
                                               !.cart = IF calls[c].paid THEN calls[c].cart ELSE NoCart]]
Answer(o) == IF o = "ok" THEN "ok" ELSE "error"

\* what a handler does first, once validate_session let its caller in
First(kind) ==
    CASE kind \in {"purchase", "save_cart"} -> "get_cart"
      [] kind \in {"provide_feedback", "update_units", "change_item_price"} -> "get_item"
      [] OTHER -> kind

\* these handlers do not ask for a session
Open == {"create_account", "login", "logout", "reset_all"}

SessionsOf(u) == {s \in sessions : s[1] = u}

Start(c) == \E op \in Script[c] :
    /\ At(c, "idle")
    /\ op.kind \notin Open => SessionsOf(op.user) # {}
    /\ calls' = [calls EXCEPT ![c].op = op, ![c].pc = First(op.kind)]
    /\ UNCHANGED <<product, customers, sessions, late, faults, stocked, disturbed>>

\* the front end ends, or its client hangs up and the server drops the handler;
\* nothing the handler did is undone
CutOff(c) ==
    /\ calls[c].pc \notin {"idle", "done"}
    /\ faults < MaxFaults
    /\ faults' = faults + 1
    /\ End(c, "none")
    /\ UNCHANGED <<product, customers, sessions, late, stocked, disturbed>>

\* a session that is past its time is deleted and the handler goes no further;
\* what became of the deletion is ignored
Expired(c) == \E op \in Script[c], o \in Outcome :
    /\ At(c, "idle")
    /\ op.kind \notin Open
    /\ \E s \in SessionsOf(op.user) :
          CustomerWrite([kind |-> "delete_session", user |-> op.user, id |-> s[2]], o)
    /\ calls' = [calls EXCEPT ![c].op = op, ![c].pc = "done", ![c].result = "expired"]
    /\ UNCHANGED <<product, stocked, disturbed>>

------------------------------------------------------------------------------
(* Accounts and sessions: a user of the model is an account, so a new account  *)
(* is a new user.                                                              *)

CreateAccount(c) == \E o \in Outcome :
    /\ At(c, "create_account")
    /\ CustomerWrite([kind |-> "create", user |-> User(c)], o)
    /\ End(c, Answer(o))
    /\ UNCHANGED <<product, stocked, disturbed>>

\* the account is read by its name
Login(c) == \E o \in {"ok", "lost"} :
    /\ At(c, "login")
    /\ Read(o)
    /\ IF o = "lost" THEN End(c, "error")
       ELSE IF User(c) \notin DOMAIN customers THEN End(c, "not_found")
       ELSE calls' = [calls EXCEPT ![c].pc = "create_session"]
    /\ UNCHANGED <<product, customers, sessions, stocked, disturbed>>

\* no key ties a session to its account, which may be gone by now
CreateSession(c) == \E o \in Outcome :
    /\ At(c, "create_session")
    /\ CustomerWrite([kind |-> "create_session", user |-> User(c), id |-> c], o)
    /\ End(c, Answer(o))
    /\ UNCHANGED <<product, stocked, disturbed>>

\* the session may be gone already
Logout(c) == \E o \in Outcome, id \in {0} \cup Call :
    /\ At(c, "logout")
    /\ CustomerWrite([kind |-> "delete_session", user |-> User(c), id |-> id], o)
    /\ End(c, Answer(o))
    /\ UNCHANGED <<product, stocked, disturbed>>

------------------------------------------------------------------------------
(* Carts and items.                                                            *)

\* add_to_cart, remove_from_cart and clear_cart: one write
CartCall(c, kind) == \E o \in Outcome :
    /\ At(c, kind)
    /\ Kind(c) = kind
    /\ ProductWrite(calls[c].op, o)
    /\ End(c, Answer(o))
    /\ UNCHANGED <<customers, sessions, stocked, disturbed>>
AddToCart(c) == CartCall(c, "add_to_cart")
RemoveFromCart(c) == CartCall(c, "remove_from_cart")
ClearCart(c) == CartCall(c, "clear_cart")

\* create_item answers a fresh id
RegisterItem(c) == \E o \in Outcome :
    LET i == DrawnId[c]
        row == [seller |-> User(c), price |-> 1, quantity |-> calls[c].op.quantity, thumbs |-> 0]
    IN  /\ At(c, "register_item")
        /\ ProductWrite([kind |-> "create_item", item |-> i, row |-> row], o)
        /\ stocked' = IF Executed(o) THEN stocked + row.quantity ELSE stocked
        /\ End(c, Answer(o))
        /\ UNCHANGED <<customers, sessions, disturbed>>

\* the cart that save_cart or make_purchase starts from
GetCart(c) == \E o \in {"ok", "lost"} :
    LET cart == product.carts[User(c)]
    IN  /\ At(c, "get_cart")
        /\ Read(o)
        /\ IF o = "lost" THEN End(c, "error")
           ELSE IF Kind(c) = "purchase" /\ DOMAIN cart = {} THEN End(c, "empty")
           ELSE calls' = [calls EXCEPT ![c].cart = cart, ![c].todo = DOMAIN cart,
                                       ![c].pc = IF Kind(c) = "purchase" THEN "pay" ELSE "save"]
        /\ UNCHANGED <<product, customers, sessions, stocked, disturbed>>

SaveCart(c) == \E o \in Outcome :
    /\ At(c, "save")
    /\ ProductWrite([kind |-> "save_cart", user |-> User(c), cart |-> calls[c].cart], o)
    /\ End(c, Answer(o))
    /\ UNCHANGED <<customers, sessions, stocked, disturbed>>

\* the item that feedback, units or price starts from; a seller's item must be its own
GetItem(c) == \E o \in {"ok", "lost"} :
    LET i == calls[c].op.item
    IN  /\ At(c, "get_item")
        /\ Read(o)
        /\ IF o = "lost" THEN End(c, "error")
           ELSE IF i \notin DOMAIN product.items THEN End(c, "not_found")
           ELSE IF User(c) \in Seller /\ product.items[i].seller # User(c) THEN End(c, "forbidden")
           ELSE calls' = [calls EXCEPT ![c].item = i, ![c].row = product.items[i], ![c].pc = "update_item"]
        /\ UNCHANGED <<product, customers, sessions, stocked, disturbed>>

\* mutants: a second thumb on the way back; the thumb is set and not added
TwoThumbs(row) == [row EXCEPT !.thumbs = @ + 2]
FirstThumb(row) == [row EXCEPT !.thumbs = 1]
Feedback(row) == [row EXCEPT !.thumbs = @ + 1]
Units(row, q) == [row EXCEPT !.quantity = q]
Price(row, p) == [row EXCEPT !.price = p]
Deducted(row, q) == [row EXCEPT !.quantity = @ - q]
NewRow(c) ==
    LET row == calls[c].row
    IN  CASE Kind(c) = "provide_feedback" -> Feedback(row)
          [] Kind(c) = "update_units" -> Units(row, calls[c].op.quantity)
          [] Kind(c) = "change_item_price" -> Price(row, calls[c].op.price)
          [] Kind(c) = "purchase" -> Deducted(row, calls[c].cart[calls[c].item])

\* the row that was read is written back whole; make_purchase ignores the answer
UpdateItem(c) == \E o \in Outcome :
    LET i == calls[c].item
        here == i \in DOMAIN product.items
    IN  /\ At(c, "update_item")
        /\ ProductWrite([kind |-> "update_item", item |-> i, row |-> NewRow(c)], o)
        /\ IF Kind(c) = "purchase" THEN calls' = [calls EXCEPT ![c].pc = "add_history"]
           ELSE End(c, Answer(o))
        /\ stocked' = IF Kind(c) = "update_units" /\ Executed(o) /\ here
                      THEN stocked + calls[c].op.quantity - product.items[i].quantity
                      ELSE stocked
        /\ Disturb("stale", IF here THEN product.items[i] # calls[c].row ELSE TRUE)
        /\ UNCHANGED <<customers, sessions>>

------------------------------------------------------------------------------
(* make_purchase after it has read the cart.                                   *)

\* mutants: only a failed service stops a purchase; the check is dropped
NotFailed(answer) == answer # "failed"
Always(row, q) == TRUE
Approved(answer) == answer = "approved"
Enough(row, q) == row.quantity >= q

\* the payment service approves or declines at random, or cannot be reached
PaymentAnswer == {"approved", "declined", "failed"}

Pay(c) == \E answer \in PaymentAnswer :
    /\ At(c, "pay")
    /\ IF Approved(answer)
       THEN calls' = [calls EXCEPT ![c].pc = "next_item", ![c].paid = answer = "approved"]
       ELSE End(c, answer)
    /\ UNCHANGED <<product, customers, sessions, late, faults, stocked, disturbed>>

\* an item that cannot be read or is not on sale is passed over; one that is
\* short ends the purchase, and what was taken before stays taken
NextItem(c) == \E i \in calls[c].todo, o \in {"ok", "lost"} :
    LET q == calls[c].cart[i]
    IN  /\ At(c, "next_item")
        /\ Read(o)
        /\ IF o = "lost" \/ i \notin DOMAIN product.items
           THEN /\ calls' = [calls EXCEPT ![c].todo = @ \ {i}]
                /\ Disturb("skipped", TRUE)
           ELSE IF Enough(product.items[i], q)
           THEN /\ calls' = [calls EXCEPT ![c].todo = @ \ {i}, ![c].item = i,
                                          ![c].row = product.items[i], ![c].pc = "update_item"]
                /\ UNCHANGED disturbed
           ELSE /\ End(c, "insufficient")
                /\ Disturb("refused", calls[c].todo # DOMAIN calls[c].cart)
        /\ UNCHANGED <<product, customers, sessions, stocked>>

AddHistory(c) == \E o \in Outcome :
    /\ At(c, "add_history")
    /\ ProductWrite([kind |-> "add_purchase_history", user |-> User(c), item |-> calls[c].item], o)
    /\ calls' = [calls EXCEPT ![c].pc = "get_seller"]
    /\ UNCHANGED <<customers, sessions, stocked, disturbed>>

GetSeller(c) == \E o \in {"ok", "lost"} :
    LET s == calls[c].row.seller
        found == o = "ok" /\ s \in DOMAIN customers
    IN  /\ At(c, "get_seller")
        /\ Read(o)
        /\ calls' = IF found THEN [calls EXCEPT ![c].count = customers[s], ![c].pc = "update_seller"]
                    ELSE [calls EXCEPT ![c].pc = "next_item"]
        /\ Disturb("skipped", ~found)
        /\ UNCHANGED <<product, customers, sessions, stocked>>

\* mutant: every sale counts as one unit
OneUnit(count, q) == count + 1
Sold(count, q) == count + q

UpdateSeller(c) == \E o \in Outcome :
    LET s == calls[c].row.seller
    IN  /\ At(c, "update_seller")
        /\ CustomerWrite([kind |-> "update", user |-> s,
                          count |-> Sold(calls[c].count, calls[c].cart[calls[c].item])], o)
        /\ calls' = [calls EXCEPT ![c].pc = "next_item"]
        /\ Disturb("stale", IF s \in DOMAIN customers THEN customers[s] # calls[c].count ELSE TRUE)
        /\ UNCHANGED <<product, stocked>>

TotalItems(cart) == SumFunction(cart)

\* the loop is over; without a connection the handler stops here, without an
\* account or an answer it goes on to clear the cart
GetBuyer(c) == \E o \in {"ok", "lost"} :
    LET found == o = "ok" /\ User(c) \in DOMAIN customers
    IN  /\ At(c, "next_item")
        /\ calls[c].todo = {}
        /\ Read(o)
        /\ IF found THEN calls' = [calls EXCEPT ![c].count = customers[User(c)], ![c].pc = "update_buyer"]
           ELSE \/ calls' = [calls EXCEPT ![c].pc = "clear"]
                \/ o = "lost" /\ End(c, "error")
        /\ Disturb("skipped", ~found)
        /\ UNCHANGED <<product, customers, sessions, stocked>>

UpdateBuyer(c) == \E o \in Outcome :
    LET b == User(c)
    IN  /\ At(c, "update_buyer")
        /\ CustomerWrite([kind |-> "update", user |-> b,
                          count |-> calls[c].count + TotalItems(calls[c].cart)], o)
        /\ calls' = [calls EXCEPT ![c].pc = "clear"]
        /\ Disturb("stale", IF b \in DOMAIN customers THEN customers[b] # calls[c].count ELSE TRUE)
        /\ UNCHANGED <<product, stocked>>

EndPurchase(c) == \E o \in Outcome :
    /\ At(c, "clear")
    /\ ProductWrite([kind |-> "clear_cart", user |-> User(c)], o)
    /\ End(c, "ok")
    /\ UNCHANGED <<customers, sessions, stocked, disturbed>>

------------------------------------------------------------------------------
(* reset_all: one database, then the other.                                    *)

\* what a purchase under way has taken from the stock and has yet to add to its
\* buyer's count
Taken(k) ==
    {i \in DOMAIN k.cart \ k.todo : /\ k.paid /\ k.pc \notin {"clear", "done"}
                                    /\ ~(k.pc = "update_item" /\ k.item = i)}

\* what was bought and booked while the customers were reset, or is yet to be booked,
\* would be left in the books of one database only
HalfReset ==
    \/ \E c \in Call : Taken(calls[c]) # {}
    \/ \E u \in DOMAIN customers : customers[u] # 0

ResetCustomers(c) == \E o \in Outcome :
    /\ At(c, "reset_all")
    /\ CustomerWrite([kind |-> "reset"], o)
    /\ IF o = "ok" THEN calls' = [calls EXCEPT ![c].pc = "reset_products"] ELSE End(c, "error")
    /\ UNCHANGED <<product, stocked, disturbed>>

ResetProducts(c) == \E o \in Outcome :
    /\ At(c, "reset_products")
    /\ ProductWrite([kind |-> "reset"], o)
    /\ stocked' = IF Executed(o) THEN 0 ELSE stocked
    /\ End(c, Answer(o))
    /\ Disturb("reset", HalfReset)
    /\ UNCHANGED <<customers, sessions>>

Next ==
    \/ Land
    \/ \E c \in Call :
          \/ Start(c) \/ Expired(c) \/ CutOff(c)
          \/ CreateAccount(c) \/ Login(c) \/ CreateSession(c) \/ Logout(c)
          \/ AddToCart(c) \/ RemoveFromCart(c) \/ ClearCart(c) \/ GetCart(c) \/ SaveCart(c)
          \/ RegisterItem(c) \/ GetItem(c) \/ UpdateItem(c)
          \/ Pay(c) \/ NextItem(c) \/ AddHistory(c) \/ GetSeller(c) \/ UpdateSeller(c)
          \/ GetBuyer(c) \/ UpdateBuyer(c) \/ EndPurchase(c)
          \/ ResetCustomers(c) \/ ResetProducts(c)

Spec == Init /\ [][Next]_vars

------------------------------------------------------------------------------
(* Properties.                                                                 *)

Ended == \A c \in Call : calls[c].pc \in {"idle", "done"}
Total(u) == SumFunctionOnSet(customers, u \cap DOMAIN customers)
UnitsLeft == Stock(product.items)
Paid(c, b, i) == calls[c].paid /\ User(c) = b /\ i \in DOMAIN calls[c].cart

\* the numbers of units that sellers have asked for, for an item
AskedUnits(i) ==
    {InitialItem[j].quantity : j \in {i} \cap DOMAIN InitialItem}
    \cup {calls[c].op.quantity : c \in {c \in Call : ~ At(c, "idle") /\
                                          \/ Kind(c) = "register_item" /\ DrawnId[c] = i
                                          \/ Kind(c) = "update_units" /\ calls[c].op.item = i}}

\* However purchases, unit updates, feedback, failures and a reset interleave, and
\* whatever is in a cart, an item is left with a negative number of units only if a
\* seller has asked for that very number: no purchase leaves one.
NegativeUnitsAsked ==
    \A i \in DOMAIN product.items :
        product.items[i].quantity < 0 => product.items[i].quantity \in AskedUnits(i)

\* The books of the two databases agree when nothing is under way: the units the
\* sellers have sold are the units the buyers have bought and those that are gone
\* from the stock.  Five things break them: a failed RPC, a row written back after
\* it changed, a cart item passed over, a purchase refused after it took something,
\* and a reset that finds a purchase half in the books.
BooksBalance ==
    (Ended /\ faults = 0 /\ disturbed = {}) =>
        /\ Total(Seller) = Total(Buyer)
        /\ Total(Seller) = stocked - UnitsLeft

\* Every feedback that was answered is counted once, whatever else wrote the item,
\* as long as no write-back was stale and no RPC failed.
FeedbackCounted ==
    (faults = 0 /\ disturbed = {}) =>
        \A i \in DOMAIN product.items :
            product.items[i].thumbs =
                Cardinality({c \in Call : /\ calls[c].pc = "done" /\ calls[c].result = "ok"
                                          /\ Kind(c) = "provide_feedback" /\ calls[c].op.item = i})

\* An item enters a buyer's history at most once for each approved payment of a
\* cart that held it, also when RPCs fail half-way.
BoughtIsPaid ==
    \A b \in Buyer, i \in Item :
        product.history[b][i] <= Cardinality({c \in Call : Paid(c, b, i)})

\* buyer b has asked to add no unit of i, or less, or had it so from the start
AskedForNone(b, i) ==
    \/ i \in DOMAIN InitialCart[b] /\ InitialCart[b][i] <= 0
    \/ \E c \in Call : /\ ~ At(c, "idle") /\ Kind(c) = "add_to_cart" /\ User(c) = b
                       /\ calls[c].op.item = i /\ calls[c].op.quantity <= 0

\* A cart holds at least one unit of every item in it, unless its buyer has added less
\* than one, whatever order additions, removals, saves and late ones take effect in: a
\* row that comes to nothing is gone, and no removal leaves one that is negative.
EmptyRowsAsked ==
    \A b \in Buyer : \A i \in DOMAIN product.carts[b] :
        product.carts[b][i] <= 0 => AskedForNone(b, i)

\* buyer_server/src/main.rs: "Process the purchase: deduct quantities, record
\* purchase history, update seller stats".  With no failed RPC, the buyers have not
\* bought more units than there were.
NoOversell ==
    (Ended /\ faults = 0) => Total(Buyer) <= stocked
==============================================================================
