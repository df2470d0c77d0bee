CONSTANTS
    r1 = r1
    Recorders = {r1}
    Kinds = {"run", "stage-sd", "bootstrap-network", "health", "observe", "exec", "fetch-file", "fetch-path", "collect-evidence"}
    MaxCrashes = 1
SPECIFICATION Spec
CHECK_DEADLOCK FALSE
INVARIANTS TypeOK SuccessIsEarned OversizeNeverSent FileTellsOutcome RecordsCounted
PROPERTIES CallsReturn
