CONSTANTS
    None = None
    ZeroDigest = ZeroDigest
    aOn = aOn
    aOff = aOff
    h1 = h1
    h2 = h2
    n1 = n1
    n2 = n2
    o1 = o1
    o2 = o2
    d1 = d1
    r1 = r1
    g1 = g1
    g2 = g2
    b1 = b1
    b2 = b2
    AccountIds <- MCAccountIds
    OnChainIds <- MCOnChainIds
    AccountHashes <- MCAccountHashes
    Nullifiers <- MCNullifiers
    NoteIds <- MCNoteIds
    Deltas <- MCDeltas
    ScriptRoots <- MCScriptRoots
    Origins <- MCOrigins
    Blocks <- MCBlocks
    MaxInputNotes = 2
    MaxOutputNotes = 2
    MaxBatch = 2
    MaxStoredNotes = 2
    MaxRequest = 2

SPECIFICATION Spec

INVARIANT TypeOK
INVARIANT IdLinkageExact

\* The test returns once the transaction is proven, or the execution failed
\* or the data store panicked: those states have no successor.
CHECK_DEADLOCK FALSE
