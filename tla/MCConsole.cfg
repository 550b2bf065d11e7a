SPECIFICATION FairSpec
CONSTANTS
    Runs = {"r1"}
    Live = {"r1"}
    Screens = {"dags", "audit", "pools", "workers", "dag"}
    MaxActs = 2
    MaxLoads = 2
    MaxAsks <- MCAsks
    Faults = {"error", "expire", "back"}
INVARIANTS ConsoleInv
PROPERTIES ExpiryNoticed NoStaleDraw PollsEnd EndDrawn
CHECK_DEADLOCK FALSE
