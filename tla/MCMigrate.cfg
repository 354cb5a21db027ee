SPECIFICATION Spec
CONSTANTS
    Replica = {r1, r2}
    Row = {a}
    NoReplica = NoReplica
    MaxTries = 1
    MaxFaults = 1
CHECK_DEADLOCK FALSE
INVARIANTS
    SchemaIsTheRevisions
    LatestFitsTheModels
    QueuedMigratorsSucceed
PROPERTIES
    ConversionsKeepTheOutcome
    MigratorsEnd
