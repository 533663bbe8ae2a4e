CONSTANTS
    None = None
    ZeroDigest = ZeroDigest
    aOn = aOn
    aOff = aOff
    h1 = h1
    h2 = h2
    n1 = n1
    n2 = n2
    o1 = o1
    o2 = o2
    d1 = d1
    r1 = r1
    AccountIds <- MCAccountIds
    OnChainIds <- MCOnChainIds
    AccountHashes <- MCAccountHashes
    Nullifiers <- MCNullifiers
    NoteIds <- MCNoteIds
    Deltas <- MCDeltas
    ScriptRoots <- MCScriptRoots
    MaxInputNotes = 2
    MaxOutputNotes = 2
    MaxBatch = 2

SPECIFICATION Spec

INVARIANT DisclosedNotesMatchKeys


\* build consumes the builder (build(mut self)): nothing can follow it.
CHECK_DEADLOCK FALSE
