SPECIFICATION FairSpec
CONSTANTS
    Dags = {"A", "B"}
    MaxEdits = 2
    MaxActs = 5
    MaxNavs = 2
    Faults = {"fetch", "save", "delete"}
INVARIANTS EditorInv
PROPERTIES TriggerFresh EditLands
CHECK_DEADLOCK FALSE
