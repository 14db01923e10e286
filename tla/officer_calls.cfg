SPECIFICATION Spec
CONSTANTS
    Procs = {"p"}
    Tables <- AllTables
    MaxCalls = 2
    NoRecord = NoRecord
INVARIANTS
    AnswersTellTheStore
    RuledColumns
PROPERTIES
    PatchStaysInItsColumns
CHECK_DEADLOCK FALSE
