-------------------------- MODULE MC_ProvenTxWire --------------------------
(* One on-chain and one off-chain account, two account hashes, one           *)
(* nullifier, one note id, caps of one note: the builder still reaches     *)
(* every verdict, and the adversary can write every field.                 *)
EXTENDS ProvenTxWire

CONSTANTS aOn, aOff, h1, h2, n1, o1, d1, r1

MCAccountIds == {aOn, aOff}
MCOnChainIds == {aOn}
MCAccountHashes == {h1, h2}
MCNullifiers == {n1}
MCNoteIds == {o1}
MCDeltas == {d1}
MCScriptRoots == {r1}
=============================================================================
