CONSTANTS
    Threads = {1, 2, 3}
    Upgraders = {1, 2, 3}
    Droppers = {1, 2, 3}
SPECIFICATION Spec
INVARIANTS TypeOK Exclusion NoSelfWait FreeWhenUnused StuckOnlyByUpgradeOrDrop
PROPERTIES Progress RefinesReadersWriters
CHECK_DEADLOCK FALSE
