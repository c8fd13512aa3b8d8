CONSTANTS
    Buyer = {"b1", "b2", "b3"}
    Seller = {"s1", "s2"}
    Item = {"i1", "i2"}
    Call = {1, 2}
    Script <- Shoppers
    DrawnId <- Drawn
    InitialItem <- OnSale
    InitialUser = {"b1", "b2", "s1", "s2"}
    InitialCart <- TwoUnitsEach
    MaxFaults = 0
SPECIFICATION Spec
INVARIANT NoOversell
\* every call is made once, then nothing is left to do
CHECK_DEADLOCK FALSE
