\* Seven keys, put and erased in every order.
SPECIFICATION Spec
CONSTANTS
    NumKeys = 7
    Keys <- MCKeys
    NIL = NIL
INVARIANTS SearchTree RedBlack Traversal
PROPERTIES ImplementsKeySet EveryRoundAdvances OperationsEnd
