--------------------------- MODULE MC_NoteAssets ---------------------------
(* Two faucets with two amounts each and one non-fungible asset; the       *)
(* count byte is scaled to a 2-bit field (ByteModulus 4) with at most 3    *)
(* assets per note, keeping MAX_NUM_ASSETS = byte maximum as in the code.  *)
EXTENDS NoteAssets

CONSTANTS f1, f2, nft1

MCFaucets == {f1, f2}
MCAmounts == {1, 2}
MCNonFungibleIds == {nft1}
=============================================================================
