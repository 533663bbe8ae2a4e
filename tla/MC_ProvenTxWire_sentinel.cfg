CONSTANTS
    None = None
    ZeroDigest = ZeroDigest
    aOn = aOn
    aOff = aOff
    h1 = h1
    h2 = h2
    n1 = n1
    o1 = o1
    d1 = d1
    r1 = r1
    AccountIds <- MCAccountIds
    OnChainIds <- MCOnChainIds
    AccountHashes <- MCAccountHashes
    Nullifiers <- MCNullifiers
    NoteIds <- MCNoteIds
    Deltas <- MCDeltas
    ScriptRoots <- MCScriptRoots
    MaxInputNotes = 1
    MaxOutputNotes = 1
    MaxBatch = 1
    DebugAssertions = FALSE

SPECIFICATION WireSpec

INVARIANT IdBindsContent


\* One build, one delivery: the builder is consumed and the receiver decodes once.
CHECK_DEADLOCK FALSE
