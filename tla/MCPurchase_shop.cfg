CONSTANTS
    Buyer = {"b1", "b2", "b3"}
    Seller = {"s1", "s2"}
    Item = {"i1", "i2"}
    Call = {1, 2, 3}
    Script <- Busy
    DrawnId <- Drawn
    InitialItem <- OnSale
    InitialUser = {"b1", "b2", "s1", "s2"}
    InitialCart <- Carts
    MaxFaults = 1
SPECIFICATION Spec
INVARIANTS
    TypeOK
    NegativeUnitsAsked
    BooksBalance
    FeedbackCounted
    BoughtIsPaid
    EmptyRowsAsked
\* every call is made once, then nothing is left to do
CHECK_DEADLOCK FALSE
