SPECIFICATION FairSpec
CONSTANT MaxTries = 3
INVARIANTS
    ToolsReady
    PartsOfOneTry
    RedisConfigured
PROPERTIES
    RunAdvances
    RunEnds
