SPECIFICATION MCSpec
CONSTANTS
    StrLen <- MCStrLen
    StrRev <- MCStrRev
    Others <- MCOthers
    StrHash <- MCStrHash
    DoubleExact = 4
    Digits17 = {5}
    MaxIncr = 4
    Hash64 <- MCHash64
    NoValue = NoValue
    SymKey <- MCSymKey
    Constants <- MCConstants
    IdentLen <- MCIdentLen
    Within <- MCWithin
    Calls <- MCCalls
    Names = {1, 2}
    Lexemes <- MCLexemes
    Grants = {1, 100}
    MaxTokens = 4
    MaxDepth = 2
    Starts <- MCStarts
    Keys = {1, 2, 3, 6}
    Elems = {1, 2, 3, 4}
    Pieces <- MCPieces
    OperTypes = 2
    MaxAdds = 5
    MaxText = 5
INVARIANTS IntersectsAsSets BuiltAsAsked FoundAsAsked ReadsBack InFindsAll CopiesFreed LoadedAsWritten ContainersAsSpecified
CHECK_DEADLOCK FALSE
