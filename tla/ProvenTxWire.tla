---------------------------- MODULE ProvenTxWire ----------------------------
(***************************************************************************)
(* A ProvenTransaction leaving the prover and arriving at a receiver       *)
(* (src/objects/src/transaction/proven_tx.rs, Serializable and             *)
(* Deserializable for ProvenTransaction and AccountDetails).  The builder  *)
(* of ProvenTxBuilder produces the transaction; write_into puts it on the  *)
(* network; the network may deliver those bytes or bytes an adversary      *)
(* chose; read_from decodes them and recomputes the id.                    *)
(*                                                                         *)
(* The byte stream is abstracted to the sequence of fields it carries, in  *)
(* the code's order.  The id is not on the wire.  The note-details map is  *)
(* carried as the map BTreeMap::from_iter builds from the pairs, whatever *)
(* their number and order.  InputNotes/OutputNotes::read_from (not under  *)
(* src/) are modelled from the spec: they re-run their constructor checks. *)
(***************************************************************************)
EXTENDS ProvenTxBuilder

CONSTANT DebugAssertions   \* TRUE in debug builds: debug_assert! is checked


VARIABLES
    net,        \* the bytes in flight, or None
    forged,     \* whether the bytes in flight were written by the adversary
    received    \* None, or the outcome of the last read_from

wireVars == <<net, forged, received>>
allVars == <<vars, wireVars>>

-----------------------------------------------------------------------------
(* AccountDetails on the wire: None, or the discriminant byte and its      *)
(* payload (0 = Full, 1 = Delta, anything else is invalid).                *)
WireAccountDetails ==
    [disc : {0}, id : AccountIds, hash : AccountHashes]
        \cup [disc : {1}, delta : Deltas] \cup [disc : {2}]

WireDetails == {None} \cup WireAccountDetails

(* Option::None is no encoded AccountDetails.                              *)
ASSUME WireAssumption ==
    /\ DebugAssertions \in BOOLEAN
    /\ None \notin WireAccountDetails

(* Fault model: the discriminants of Full and Delta swapped.               *)
WriteDetailsSwapped(d) ==
    IF d = None THEN None
    ELSE IF d.kind = "Full" THEN [disc |-> 1, id |-> d.id, hash |-> d.hash]
    ELSE [disc |-> 0, delta |-> d.delta]

(* AccountDetails::write_into                                              *)
WriteDetails(d) ==
    IF d = None THEN None
    ELSE IF d.kind = "Full" THEN [disc |-> 0, id |-> d.id, hash |-> d.hash]
    ELSE [disc |-> 1, delta |-> d.delta]

(* Fault model: the initial hash written in-band, zero for a new account.  *)
WriteIntoSentinel(tx) ==
    [account_id |-> tx.account_id,
     initial_account_hash |-> UnwrapOrDefault(tx.initial_account_hash),
     final_account_hash |-> tx.final_account_hash,
     account_details |-> WriteDetails(tx.account_details),
     input_notes |-> tx.input_notes,
     output_notes |-> tx.output_notes,
     output_note_details |-> tx.output_note_details,
     tx_script_root |-> tx.tx_script_root]

(* ProvenTransaction::write_into: every field but the id, in order.        *)
WriteInto(tx) ==
    [account_id |-> tx.account_id,
     initial_account_hash |-> tx.initial_account_hash,
     final_account_hash |-> tx.final_account_hash,
     account_details |-> WriteDetails(tx.account_details),
     input_notes |-> tx.input_notes,
     output_notes |-> tx.output_notes,
     output_note_details |-> tx.output_note_details,
     tx_script_root |-> tx.tx_script_root]

(* The values an adversary can give each field of the bytes it rewrites,   *)
(* including the all-zero digest as an initial account hash.              *)
WireFieldValues ==
    [account_id |-> AccountIds,
     initial_account_hash |-> {None, ZeroDigest} \cup AccountHashes,
     final_account_hash |-> AccountHashes,
     account_details |-> WireDetails,
     input_notes |-> UNION {[1..k -> Nullifiers] : k \in 0..InputNotesBound},
     output_notes |-> UNION {[1..k -> NoteIds] : k \in 0..OutputNotesBound},
     output_note_details |-> DetailsMaps,
     tx_script_root |-> {None} \cup ScriptRoots]

(* AccountDetails::read_from                                               *)
ReadDetails(w) ==
    IF w.disc = 0 THEN [kind |-> "Full", id |-> w.id, hash |-> w.hash]
    ELSE [kind |-> "Delta", delta |-> w.delta]

(* ProvenTransaction::read_from: the fields in order, then                  *)
(* TransactionId::new on the decoded hashes, whose debug_assert_ne! panics *)
(* on a zero initial hash in debug builds.                                 *)
ReadFrom(buf) ==
    IF buf.account_details # None /\ buf.account_details.disc \notin {0, 1}
    THEN [kind |-> "InvalidValue"]
    ELSE IF ~NoteCollectionValid(buf.input_notes, MaxInputNotes)
    THEN [kind |-> "InputNotesError"]
    ELSE IF ~NoteCollectionValid(buf.output_notes, MaxOutputNotes)
    THEN [kind |-> "OutputNotesError"]
    ELSE IF DebugAssertions /\ ~TransactionIdPrecondition(buf.initial_account_hash)
    THEN [kind |-> "panic"]
    ELSE [kind |-> "ok",
          tx |-> [id |-> TransactionIdNew(buf.initial_account_hash,
                                          buf.final_account_hash,
                                          NotesCommitment(buf.input_notes),
                                          NotesCommitment(buf.output_notes)),
                  account_id |-> buf.account_id,
                  initial_account_hash |-> buf.initial_account_hash,
                  final_account_hash |-> buf.final_account_hash,
                  account_details |-> IF buf.account_details = None THEN None
                                      ELSE ReadDetails(buf.account_details),
                  input_notes |-> buf.input_notes,
                  output_notes |-> buf.output_notes,
                  output_note_details |-> buf.output_note_details,
                  tx_script_root |-> buf.tx_script_root]]

-----------------------------------------------------------------------------
WireInit ==
    /\ Init
    /\ net = None
    /\ forged = FALSE
    /\ received = None

(* A builder step of the prover.                                           *)
ProverStep == Next /\ UNCHANGED wireVars

(* The prover sends the transaction build returned.  The scenario is one   *)
(* delivery: nothing is sent once the receiver has decoded.                *)
Send ==
    /\ result # None /\ result.ok
    /\ net = None /\ received = None
    /\ net' = WriteInto(result.tx)
    /\ forged' = FALSE
    /\ UNCHANGED <<vars, received>>

(* The adversary rewrites one field of the bytes in flight.               *)
Forge(f, v) ==
    /\ net # None /\ ~forged
    /\ net' = [net EXCEPT ![f] = v]
    /\ forged' = TRUE
    /\ UNCHANGED <<vars, received>>

(* The receiver decodes the bytes in flight.                               *)
Receive ==
    /\ net # None /\ received = None
    /\ received' = ReadFrom(net)
    /\ net' = None
    /\ UNCHANGED <<vars, forged>>

WireNext ==
    \/ ProverStep
    \/ Send
    \/ \E f \in DOMAIN WireFieldValues : \E v \in WireFieldValues[f] : Forge(f, v)
    \/ Receive

WireSpec == WireInit /\ [][WireNext]_allVars

-----------------------------------------------------------------------------
(***************************************************************************)
(* Properties.                                                             *)
(***************************************************************************)
(* The wire variables are typed.                                          *)
WireTypeOK ==
    /\ TypeOK
    /\ net = None
       \/ /\ DOMAIN net = DOMAIN WireFieldValues
          /\ \A f \in DOMAIN WireFieldValues : net[f] \in WireFieldValues[f]
    /\ forged \in BOOLEAN
    /\ received = None
       \/ received.kind \in {"ok", "InvalidValue", "InputNotesError",
                             "OutputNotesError", "panic"}

(* A transaction that reached the receiver untampered decodes to exactly   *)
(* the transaction build returned, id included (the integration test's    *)
(* serialise/deserialise step before verification).                       *)
DecodeRoundTrip ==
    received # None /\ ~forged => received = [kind |-> "ok", tx |-> result.tx]

(* Every transaction the receiver accepts satisfies the structural        *)
(* invariants build enforces (spec 3; spec 7: decoding re-runs the         *)
(* construction-time checks).                                              *)
ReceivedWellFormed ==
    received # None /\ received.kind = "ok" => WellFormed(received.tx)

(* "Transactions are identical if and only if they have the same ID"      *)
(* (TransactionId doc comment): a decoded transaction with the id of the   *)
(* one the prover built has its initial and final hashes and note          *)
(* commitments.                                                            *)
IdBindsContent ==
    received # None /\ received.kind = "ok" /\ result # None /\ result.ok
    /\ received.tx.id = result.tx.id =>
        /\ received.tx.initial_account_hash = result.tx.initial_account_hash
        /\ received.tx.final_account_hash = result.tx.final_account_hash
        /\ received.tx.input_notes = result.tx.input_notes
        /\ received.tx.output_notes = result.tx.output_notes

(* Decoding bytes from the network yields a value or an error, never a     *)
(* panic (spec 7).                                                         *)
DecodeNeverPanics == received = None \/ received.kind # "panic"

=============================================================================
