CONSTANTS
    Lines <- MCLines
    Codes <- MCCodes
    Structured = {2}
    Stray = {"prompt"}
    MaxPokes = 1
    MaxOthers = 1
    MaxNoises = 1
    MaxBoots = 1
    NoCode = NoCode
SPECIFICATION ShellSpec
CHECK_DEADLOCK FALSE
INVARIANTS ShellTypeOK ResultIsOwn OutputIsOwn OutputComplete
PROPERTIES CallsReturn
