SPECIFICATION Spec
CONSTANTS
    Rows = {"x", "y"}
    Filters = {"all", "live"}
    MaxActs = 4
    MaxReqs = 2
INVARIANTS DialogInv
PROPERTIES OneSubmit NewestFiltered
CHECK_DEADLOCK FALSE
