--------------------------- MODULE TransactionId ---------------------------
(***************************************************************************)
(* Transaction identity (src/objects/src/transaction/transaction_id.rs).   *)
(*                                                                         *)
(* A digest is either an account state hash (a model value of              *)
(* AccountHashes), the all-zero default digest ZeroDigest, or the output   *)
(* of the RPO hasher.  The hasher is collision resistant, so it is         *)
(* modelled as a free constructor: HashElements(e) is a record that        *)
(* remembers its input and equals HashElements(f) only when e = f.  What   *)
(* is kept of the code is what happens BEFORE hashing: an absent initial   *)
(* hash is replaced by the zero digest (unwrap_or_default).                *)
(***************************************************************************)
EXTENDS Naturals, Sequences

CONSTANTS
    None,           \* Option::None
    ZeroDigest,     \* Digest::default(), the all-zero word
    AccountHashes   \* hashes that an account state can have

(* The zero digest is not the hash of any account state: the code relies   *)
(* on it to tell "no prior state" apart (debug_assert_ne! in new).          *)
ASSUME SentinelAssumption ==
    /\ ZeroDigest \notin AccountHashes
    /\ None \notin AccountHashes
    /\ None # ZeroDigest

(* Rpo256::hash_elements over a sequence of words.                          *)
HashElements(elements) == [rpo |-> elements]

(* Option<Digest>::unwrap_or_default.                                       *)
UnwrapOrDefault(h) == IF h = None THEN ZeroDigest ELSE h

(* The precondition of TransactionId::new, checked by debug_assert_ne! in   *)
(* debug builds only.                                                       *)
TransactionIdPrecondition(initHash) == initHash # ZeroDigest

(* TransactionId::new: one hash over the four words                         *)
(* init-or-zero, final, input-notes commitment, output-notes commitment.    *)
TransactionIdNew(initHash, finalHash, inputNotesHash, outputNotesHash) ==
    HashElements(<<UnwrapOrDefault(initHash), finalHash,
                   inputNotesHash, outputNotesHash>>)

=============================================================================
