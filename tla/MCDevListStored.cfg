\* Three hosts, and four records in all.
CONSTANTS
    Addrs = {a1, a2, a3}
    MaxUID = 4
SPECIFICATION Spec
SYMMETRY Symmetry
INVARIANTS ListStored HeldInList
PROPERTY SelectionFollows
