CONSTANTS
    f1 = f1
    f2 = f2
    nft1 = nft1
    ZeroWord = ZeroWord
    None = None
    Faucets <- MCFaucets
    Amounts <- MCAmounts
    NonFungibleIds <- MCNonFungibleIds
    MaxNumAssets = 3
    ByteModulus = 4
    MaxBufferAssets = 2
    OverflowChecks = FALSE

SPECIFICATION Spec

INVARIANT TypeOK
INVARIANT LiveAssetsValid
INVARIANT CommitmentCacheCoherent
INVARIANT PaddedAgreesWithCommitment
INVARIANT WireRoundTrip
PROPERTY ImplementsAssetsContract
