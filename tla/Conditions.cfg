SPECIFICATION Spec
CONSTANTS
    Types <- MCTypes
    Copies = {rc, meta}
    MaxClock = 5
INVARIANTS
    OneEntryPerType
PROPERTIES
    ListedByRecency
