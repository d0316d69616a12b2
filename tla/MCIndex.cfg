SPECIFICATION PublishSpec
CONSTANTS
    u1 = u1
    u2 = u2
    d = d
    v1 = v1
    v2 = v2
    blank = blank
    None = None
    Uploads = {u1, u2}
    Directories = {d}
    Versions = {v1, v2, blank}
    Chunks <- MCChunks
    MaxTroubles = 2
INVARIANTS IndexesAgree ReadyIsIndexed ReadyVersionKept StaleOnlyWhileIndexed
SYMMETRY UploadSymmetry
