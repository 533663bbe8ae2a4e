CONSTANTS
    f1 = f1
    f2 = f2
    nft1 = nft1
    ZeroWord = ZeroWord
    None = None
    Faucets <- MCFaucets
    Amounts <- MCAmounts
    NonFungibleIds <- MCNonFungibleIds
    MaxNumAssets = 3
    ByteModulus = 4
    MaxBufferAssets = 3
    OverflowChecks = TRUE

SPECIFICATION Spec

INVARIANT ReadNeverPanics
