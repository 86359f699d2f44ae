CONSTANTS
    a = a
    b = b
    max_items <- MCMaxItems
    Values <- MCValues
SPECIFICATION Spec
INVARIANTS
    RemoveMakesRoom
