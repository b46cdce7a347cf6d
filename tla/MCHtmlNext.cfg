SPECIFICATION Spec
CONSTANTS
    Pages <- MCPages
    Fragments <- MCFragments
    Queries <- MCQueries
    Reached <- QueryReaches
    AttrNames = {"href"}
    MaxDocs = 1
    MaxDesc = 3
    MaxEdits = 1
INVARIANT NextIsNextElement
CHECK_DEADLOCK FALSE
