SPECIFICATION TransferSpec
CONSTANTS
    Item = {"a", "t"}
    Inside <- MCInside
    FromFolders = {"f", "g"}
    ToFolders = {"g"}
    Original <- MCOriginal
    Kinds = {"local", "upload"}
    Batches = {1}
    Attentive = TRUE
    MaxCalls = 1
INVARIANT NothingLost
CHECK_DEADLOCK FALSE
