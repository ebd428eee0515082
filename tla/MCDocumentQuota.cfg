SPECIFICATION FairSpec
CHECK_DEADLOCK FALSE
CONSTANTS
    d1 = d1
    d2 = d2
    d3 = d3
    a = a
    b = b
    r1 = r1
    r2 = r2
    Docs = {d1, d2}
    NameOf <- MCNameOf
    Requests = {r1, r2}
    NoOne = NoOne
    Limits = {1, 2}
    CollectionLimit = 2
INVARIANT TypeOK
INVARIANT AddedIsCharged
PROPERTY ImplementsLedger
PROPERTY RequestsEnd
