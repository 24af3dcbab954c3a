SPECIFICATION DocumentsSpec
CONSTANTS
    Inputs = {}
    MaxRounds = 1
    Compositions <- MCOverrides
    Value <- MCValue
    KeyOf <- MCKeyOf
    Omitted = {"q"}
    SchemaSecrets = {"o"}
INVARIANTS FirstOverriderNamed
CHECK_DEADLOCK FALSE
