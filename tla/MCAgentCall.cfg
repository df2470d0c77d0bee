CONSTANTS
    password = password
    address = address
    a = a
    b = b
    Unset = Unset
    Unsettable = Unsettable
    Order <- MCOrder
    Vars = {password, address}
    Values = {a, b}
    StartEnv <- MCStartEnv
    Required = {password}
    Messages <- MCMessages
    Requests = 2
    Rivals = 1
    Kills = 1
    NestedRetrieved = FALSE
SPECIFICATION Spec
CHECK_DEADLOCK FALSE
INVARIANTS EnvironmentIsOwn AnsweredInOrder NamesOwnSession ChainsCount
PROPERTIES EveryRequestAnswered
