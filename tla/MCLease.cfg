SPECIFICATION FairSpec
CONSTANTS
    Inst = {"a", "b", "c"}
    Standby = {"b", "c"}
    TTL = 6
    Period = 2
    MaxStartup = 2
    Skew = 1
    Ahead <- MCAhead
    NoOne = "no one"
    Ghost = "ghost"
INVARIANTS OneScheduler
PROPERTIES LoserStops Takeover
CHECK_DEADLOCK FALSE
