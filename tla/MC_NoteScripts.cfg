CONSTANTS
    f1 = f1
    nft1 = nft1
    s1 = s1
    s2 = s2
    alice = alice
    bob = bob
    None = None
    ZeroWord = ZeroWord
    Faucets <- MCFaucets
    Amounts <- MCAmounts
    NonFungibleIds <- MCNonFungibleIds
    AccountIds <- MCAccountIds
    Seeds <- MCSeeds
    RecallHeights <- MCRecallHeights
    MaxNumAssets = 3
    ByteModulus = 4
    MaxBufferAssets = 1
    OverflowChecks = FALSE
    RngModes = {"move"}
    FreshSeeds = TRUE
    MaxNotes = 3

SPECIFICATION Spec
INVARIANT TypeOK
INVARIANT TemplateInputs
INVARIANT SerialNumbersFresh
INVARIANT NoteIdsUnique
CHECK_DEADLOCK FALSE
