------------------------- MODULE MC_ProvenTxBuilder -------------------------
(* Small instance of ProvenTxBuilder: one on-chain and one off-chain       *)
(* account, two account hashes, two nullifiers, two note ids.  The caps of *)
(* 1023 and 4096 notes are lowered to 2 so that a repeated element within  *)
(* the cap and a collection over the cap are both reached.                 *)
EXTENDS ProvenTxBuilder

CONSTANTS aOn, aOff, h1, h2, n1, n2, o1, o2, d1, r1

MCAccountIds == {aOn, aOff}
MCOnChainIds == {aOn}
MCAccountHashes == {h1, h2}
MCNullifiers == {n1, n2}
MCNoteIds == {o1, o2}
MCDeltas == {d1}
MCScriptRoots == {r1}
=============================================================================
