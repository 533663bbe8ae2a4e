--------------------------- MODULE MC_NoteScripts ---------------------------
EXTENDS NoteScripts

CONSTANTS f1, nft1, s1, s2, alice, bob

MCFaucets == {f1}
MCAmounts == {1}
MCNonFungibleIds == {nft1}
MCAccountIds == {alice, bob}
MCSeeds == {s1, s2}
MCRecallHeights == {5}
=============================================================================
