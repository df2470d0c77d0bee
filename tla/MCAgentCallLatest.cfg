CONSTANTS
    password = password
    address = address
    a = a
    b = b
    Unset = Unset
    Unsettable = Unsettable
    Order <- MCOrder
    Vars = {password, address}
    Values = {a, b}
    StartEnv <- MCStartEnv
    Required = {password}
    Messages <- MCTwo
    Requests = 3
    Rivals = 1
    Kills = 1
    NestedRetrieved = TRUE
SPECIFICATION Spec
CHECK_DEADLOCK FALSE
INVARIANTS LatestIsSession
