SPECIFICATION Spec
CONSTANTS
    Tables <- MCTables
    Schemas <- MCSchemas
    Intents <- MCIntents
    IdKeyed = {1, 2}
    Keyed = {1, 2, 3}
    Labelled = {2, 4}
INVARIANTS
    JoinsStartInScope
    NoTableTwice
    JoinsAreNeeded
    JoinsAreShortest
    RelatedIsAnswered
CHECK_DEADLOCK FALSE
