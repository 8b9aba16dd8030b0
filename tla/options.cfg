SPECIFICATION Spec
CONSTANTS
    Settings = {"higher", "lower", "duration", "cooldown", "dry_run"}
INVARIANTS TypeOK
PROPERTIES StartFollowsPriority ReloadFollowsFile
