CONSTANTS
    Keys = {k1, k2}
    Raws <- MCRaws
    JsonValues <- MCJsonValues
    MaxExponent = 1
    NULL = NULL
    MaxItems = 2
    MaxFiles = 2
    RetryMaxAttempts = 4
    RetryInitialDelay = 1
    RetryMaxDelay = 2
    MaxDuration = 3
SPECIFICATION Spec
SYMMETRY Symmetry
INVARIANTS
    TypeOK
    HashDecidesValue
    RootIsOfData
    FailsOnlyOnReported
PROPERTIES
    ValidFileIndexesItsRoot
    BackoffGrows
