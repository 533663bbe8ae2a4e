------------------------ MODULE MC_TransactionFlow --------------------------
(* Small instance of TransactionFlow: an on-chain and an off-chain account *)
(* that may each be new or existing, two blocks, a store of up to two      *)
(* notes over two nullifiers and two origins (a note may lack its proof),  *)
(* and requests of up to two origins, so that a request of the right       *)
(* length naming a note the store does not hold, or one note twice, is    *)
(* reached.  Caps of two notes as in MC_ProvenTxBuilder.                   *)
EXTENDS TransactionFlow

CONSTANTS aOn, aOff, h1, h2, n1, n2, o1, o2, d1, r1, g1, g2, b1, b2

MCAccountIds == {aOn, aOff}
MCOnChainIds == {aOn}
MCAccountHashes == {h1, h2}
MCNullifiers == {n1, n2}
MCNoteIds == {o1, o2}
MCDeltas == {d1}
MCScriptRoots == {r1}
MCOrigins == {g1, g2}
MCBlocks == {b1, b2}
=============================================================================
