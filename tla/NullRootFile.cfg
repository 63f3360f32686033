CONSTANTS
    Keys = {k1}
    Raws <- MCRaws
    JsonValues <- MCJsonValues
    MaxExponent = 1
    NULL = NULL
    MaxItems = 1
    MaxFiles = 2
    RetryMaxAttempts = 4
    RetryInitialDelay = 1
    RetryMaxDelay = 2
    MaxDuration = 3
SPECIFICATION Spec
INVARIANT OwnFilesAreIndexed
