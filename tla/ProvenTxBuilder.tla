-------------------------- MODULE ProvenTxBuilder --------------------------
(***************************************************************************)
(* ProvenTransactionBuilder (src/objects/src/transaction/proven_tx.rs):    *)
(* a single-owner accumulator that is created by new, receives any         *)
(* sequence of the chained setters, and is consumed by build, which runs   *)
(* the fail-fast validation and either returns an error or the immutable   *)
(* ProvenTransaction stamped with its TransactionId.                       *)
(*                                                                         *)
(* Abstractions: a NoteEnvelope is represented by its note id (metadata is *)
(* not looked at by any check); a full Note in output_note_details by the  *)
(* id of the note it is; block_ref and proof are passed through untouched  *)
(* and left out.  InputNotes/OutputNotes (not under src/) are modelled     *)
(* from the spec: they reject a repeated element and more elements than   *)
(* their cap, and commit to the sequence with one hash.                    *)
(***************************************************************************)
EXTENDS Naturals, Sequences, FiniteSets, TransactionId

CONSTANTS
    AccountIds,      \* account ids
    OnChainIds,      \* the ids for which AccountId::is_on_chain holds
    Nullifiers,      \* nullifiers of consumed notes
    NoteIds,         \* ids of produced notes
    Deltas,          \* AccountDelta values
    ScriptRoots,     \* transaction script roots
    MaxInputNotes,   \* MAX_INPUT_NOTES_PER_TX (1023)
    MaxOutputNotes,  \* MAX_OUTPUT_NOTES_PER_TX (4096)
    MaxBatch         \* longest iterator passed to one add_* call

ASSUME BuilderAssumption ==
    /\ OnChainIds \subseteq AccountIds
    /\ MaxInputNotes \in Nat /\ MaxOutputNotes \in Nat
    /\ MaxBatch \in Nat \ {0}
    /\ None \notin AccountIds \cup ScriptRoots

(* A sequence one longer than its cap is enough to reach the cap error:    *)
(* these bounds cap the accumulated vectors, which the code leaves         *)
(* unbounded.                                                              *)
InputNotesBound == MaxInputNotes + 1
OutputNotesBound == MaxOutputNotes + 1

VARIABLES
    account_id,            \* ProvenTransactionBuilder fields
    initial_account_hash,
    final_account_hash,
    account_details,
    input_notes,
    output_notes,
    output_note_details,
    tx_script_root,
    result                 \* None while the builder is alive, then build's Result

vars == <<account_id, initial_account_hash, final_account_hash, account_details,
          input_notes, output_notes, output_note_details, tx_script_root, result>>

-----------------------------------------------------------------------------
(* enum AccountDetails { Full(Account), Delta(AccountDelta) }; an Account  *)
(* is seen through id() and hash().                                         *)
FullDetails == [kind : {"Full"}, id : AccountIds, hash : AccountHashes]
DeltaDetails == [kind : {"Delta"}, delta : Deltas]
AccountDetailsValues == FullDetails \cup DeltaDetails

(* Option::None is no AccountDetails value.                                *)
ASSUME DetailsAssumption == None \notin AccountDetailsValues

ProvenTxErrors == {"NoteDetailsForUnknownNotes", "InputNotesError",
                   "OutputNotesError", "OffChainAccountWithDetails",
                   "OnChainAccountMissingDetails",
                   "NewOnChainAccountRequiresFullDetails", "AccountIdMismatch",
                   "AccountFinalHashMismatch",
                   "ExistingOnChainAccountRequiresDeltaDetails"}

Err(e) == [ok |-> FALSE, err |-> e]
Ok(tx) == [ok |-> TRUE, tx |-> tx]

ElemsOf(s) == {s[i] : i \in 1..Len(s)}
NoRepeats(s) == \A i, j \in 1..Len(s) : s[i] = s[j] => i = j
Batches(S) == UNION {[1..k -> S] : k \in 1..MaxBatch}

(* BTreeMap::extend: entries of the new map replace entries of the old.    *)
ExtendMap(old, new) ==
    [k \in DOMAIN old \cup DOMAIN new |-> IF k \in DOMAIN new THEN new[k] ELSE old[k]]

(* InputNotes::new / OutputNotes::new (spec_modelled): the collection is    *)
(* accepted when no element repeats and the cap is respected.              *)
NoteCollectionValid(s, cap) == NoRepeats(s) /\ Len(s) <= cap

(* InputNotes::commitment / OutputNotes::commitment: one sequential hash.  *)
NotesCommitment(s) == HashElements(s)

(* From<&ProvenTransaction> for TransactionId: the id recomputed from the  *)
(* transaction's own fields.                                               *)
TransactionIdOf(tx) ==
    TransactionIdNew(tx.initial_account_hash, tx.final_account_hash,
                     NotesCommitment(tx.input_notes),
                     NotesCommitment(tx.output_notes))

-----------------------------------------------------------------------------
(* ProvenTransactionBuilder::new                                           *)
Init ==
    /\ account_id \in AccountIds
    /\ initial_account_hash \in {None} \cup AccountHashes
    /\ final_account_hash \in AccountHashes
    /\ account_details = None
    /\ input_notes = <<>>
    /\ output_notes = <<>>
    /\ output_note_details = [k \in {} |-> None]
    /\ tx_script_root = None
    /\ result = None

(* ProvenTransactionBuilder::account_details                               *)
SetAccountDetails(d) ==
    /\ result = None
    /\ account_details' = d
    /\ UNCHANGED <<account_id, initial_account_hash, final_account_hash,
                   input_notes, output_notes, output_note_details,
                   tx_script_root, result>>

(* Fault model: the batch replaces the nullifiers added before.          *)
AddInputNotesReplacing(ns) ==
    /\ result = None
    /\ Len(ns) <= InputNotesBound
    /\ input_notes' = ns
    /\ UNCHANGED <<account_id, initial_account_hash, final_account_hash,
                   account_details, output_notes, output_note_details,
                   tx_script_root, result>>

(* ProvenTransactionBuilder::add_input_notes                               *)
AddInputNotes(ns) ==
    /\ result = None
    /\ Len(input_notes) + Len(ns) <= InputNotesBound
    /\ input_notes' = input_notes \o ns
    /\ UNCHANGED <<account_id, initial_account_hash, final_account_hash,
                   account_details, output_notes, output_note_details,
                   tx_script_root, result>>

(* ProvenTransactionBuilder::add_output_notes                              *)
AddOutputNotes(es) ==
    /\ result = None
    /\ Len(output_notes) + Len(es) <= OutputNotesBound
    /\ output_notes' = output_notes \o es
    /\ UNCHANGED <<account_id, initial_account_hash, final_account_hash,
                   account_details, input_notes, output_note_details,
                   tx_script_root, result>>

(* ProvenTransactionBuilder::add_output_note_details: the iterator of      *)
(* (NoteId, Note) pairs is given as the map it denotes.                    *)
AddOutputNoteDetails(m) ==
    /\ result = None
    /\ output_note_details' = ExtendMap(output_note_details, m)
    /\ UNCHANGED <<account_id, initial_account_hash, final_account_hash,
                   account_details, input_notes, output_notes,
                   tx_script_root, result>>

(* ProvenTransactionBuilder::tx_script_root                                *)
SetTxScriptRoot(r) ==
    /\ result = None
    /\ tx_script_root' = r
    /\ UNCHANGED <<account_id, initial_account_hash, final_account_hash,
                   account_details, input_notes, output_notes,
                   output_note_details, result>>

(* Fault model: the in-band sentinel leaks into the transaction, which     *)
(* then stores the zero digest instead of "no initial hash".               *)
BuiltTransactionSentinel ==
    [id |-> TransactionIdNew(initial_account_hash, final_account_hash,
                             NotesCommitment(input_notes),
                             NotesCommitment(output_notes)),
     account_id |-> account_id,
     initial_account_hash |-> UnwrapOrDefault(initial_account_hash),
     final_account_hash |-> final_account_hash,
     account_details |-> account_details,
     input_notes |-> input_notes,
     output_notes |-> output_notes,
     output_note_details |-> output_note_details,
     tx_script_root |-> tx_script_root]

(* The ProvenTransaction that build assembles once every check passed.      *)
BuiltTransaction ==
    [id |-> TransactionIdNew(initial_account_hash, final_account_hash,
                             NotesCommitment(input_notes),
                             NotesCommitment(output_notes)),
     account_id |-> account_id,
     initial_account_hash |-> initial_account_hash,
     final_account_hash |-> final_account_hash,
     account_details |-> account_details,
     input_notes |-> input_notes,
     output_notes |-> output_notes,
     output_note_details |-> output_note_details,
     tx_script_root |-> tx_script_root]

(* Fault model: the final-hash check placed before the account-id check.   *)
OnChainCheckHashFirst ==
    IF account_details = None THEN Err("OnChainAccountMissingDetails")
    ELSE IF initial_account_hash = None
         THEN IF account_details.kind = "Delta"
              THEN Err("NewOnChainAccountRequiresFullDetails")
              ELSE IF account_details.hash # final_account_hash
                   THEN Err("AccountFinalHashMismatch")
                   ELSE IF account_details.id # account_id
                        THEN Err("AccountIdMismatch")
                        ELSE Ok(BuiltTransaction)
         ELSE IF account_details.kind = "Full"
              THEN Err("ExistingOnChainAccountRequiresDeltaDetails")
              ELSE Ok(BuiltTransaction)

(* The on-chain branch of build: the (is_new_account, details) match.       *)
OnChainCheck ==
    IF account_details = None THEN Err("OnChainAccountMissingDetails")
    ELSE IF initial_account_hash = None
         THEN IF account_details.kind = "Delta"
              THEN Err("NewOnChainAccountRequiresFullDetails")
              ELSE IF account_details.id # account_id
                   THEN Err("AccountIdMismatch")
                   ELSE IF account_details.hash # final_account_hash
                        THEN Err("AccountFinalHashMismatch")
                        ELSE Ok(BuiltTransaction)
         ELSE IF account_details.kind = "Full"
              THEN Err("ExistingOnChainAccountRequiresDeltaDetails")
              ELSE Ok(BuiltTransaction)

(* Fault model: the off-chain-account-with-details check left out.         *)
BuildResultNoOffChainCheck ==
    IF DOMAIN output_note_details \ ElemsOf(output_notes) # {}
    THEN Err("NoteDetailsForUnknownNotes")
    ELSE IF ~NoteCollectionValid(input_notes, MaxInputNotes)
    THEN Err("InputNotesError")
    ELSE IF ~NoteCollectionValid(output_notes, MaxOutputNotes)
    THEN Err("OutputNotesError")
    ELSE IF account_id \in OnChainIds
    THEN OnChainCheck
    ELSE Ok(BuiltTransaction)

(* ProvenTransactionBuilder::build: the checks in the order of the code,   *)
(* the first failing one is returned.                                      *)
BuildResult ==
    IF DOMAIN output_note_details \ ElemsOf(output_notes) # {}
    THEN Err("NoteDetailsForUnknownNotes")
    ELSE IF ~NoteCollectionValid(input_notes, MaxInputNotes)
    THEN Err("InputNotesError")
    ELSE IF ~NoteCollectionValid(output_notes, MaxOutputNotes)
    THEN Err("OutputNotesError")
    ELSE IF account_id \notin OnChainIds /\ account_details # None
    THEN Err("OffChainAccountWithDetails")
    ELSE IF account_id \in OnChainIds
    THEN OnChainCheck
    ELSE Ok(BuiltTransaction)

Build ==
    /\ result = None
    /\ result' = BuildResult
    /\ UNCHANGED <<account_id, initial_account_hash, final_account_hash,
                   account_details, input_notes, output_notes,
                   output_note_details, tx_script_root>>

Next ==
    \/ \E d \in AccountDetailsValues : SetAccountDetails(d)
    \/ \E ns \in Batches(Nullifiers) : AddInputNotes(ns)
    \/ \E es \in Batches(NoteIds) : AddOutputNotes(es)
    \/ \E D \in SUBSET NoteIds \ {{}} : \E m \in [D -> NoteIds] :
            AddOutputNoteDetails(m)
    \/ \E r \in ScriptRoots : SetTxScriptRoot(r)
    \/ Build

Spec == Init /\ [][Next]_vars

-----------------------------------------------------------------------------
(***************************************************************************)
(* Properties.                                                             *)
(***************************************************************************)
DetailsMaps == UNION {[D -> NoteIds] : D \in SUBSET NoteIds}

(* The values a commitment or a transaction id can take.                  *)
NotesCommitments == [rpo : Seq(Nullifiers)] \cup [rpo : Seq(NoteIds)]
TransactionIds == [rpo : Seq({ZeroDigest} \cup AccountHashes \cup NotesCommitments)]

ProvenTransactions ==
    [id : TransactionIds,
     account_id : AccountIds,
     initial_account_hash : {None} \cup AccountHashes,
     final_account_hash : AccountHashes,
     account_details : {None} \cup AccountDetailsValues,
     input_notes : Seq(Nullifiers),
     output_notes : Seq(NoteIds),
     output_note_details : DetailsMaps,
     tx_script_root : {None} \cup ScriptRoots]

(* Every builder field and the result of build have their types.          *)
TypeOK ==
    /\ account_id \in AccountIds
    /\ initial_account_hash \in {None} \cup AccountHashes
    /\ final_account_hash \in AccountHashes
    /\ account_details \in {None} \cup AccountDetailsValues
    /\ input_notes \in Seq(Nullifiers) /\ Len(input_notes) <= InputNotesBound
    /\ output_notes \in Seq(NoteIds) /\ Len(output_notes) <= OutputNotesBound
    /\ output_note_details \in DetailsMaps
    /\ tx_script_root \in {None} \cup ScriptRoots
    /\ result \in {None} \cup [ok : {FALSE}, err : ProvenTxErrors]
                         \cup [ok : {TRUE}, tx : ProvenTransactions]

(* The structural invariants of the data model (spec section 3) that a     *)
(* ledger relies on when it accepts a ProvenTransaction: disclosed details *)
(* only for produced notes; no note consumed or produced twice and the     *)
(* caps respected; an off-chain account discloses nothing; an on-chain     *)
(* account discloses a Full snapshot (of this account, at its final hash)  *)
(* exactly when it is new and a Delta otherwise; and the id is the one     *)
(* From<&ProvenTransaction> recomputes from the transaction's own fields.  *)
WellFormed(tx) ==
    /\ DOMAIN tx.output_note_details \subseteq ElemsOf(tx.output_notes)
    /\ NoteCollectionValid(tx.input_notes, MaxInputNotes)
    /\ NoteCollectionValid(tx.output_notes, MaxOutputNotes)
    /\ tx.account_id \notin OnChainIds => tx.account_details = None
    /\ tx.account_id \in OnChainIds =>
          /\ tx.account_details # None
          /\ (tx.initial_account_hash = None) = (tx.account_details.kind = "Full")
          /\ tx.account_details.kind = "Full" =>
                /\ tx.account_details.id = tx.account_id
                /\ tx.account_details.hash = tx.final_account_hash
    /\ tx.id = TransactionIdOf(tx)

(* build, the sole gate between a proof and the ledger, only ever returns  *)
(* a ProvenTransaction that is well formed, whatever sequence of setter    *)
(* calls preceded it.                                                      *)
BuiltTxWellFormed == result # None /\ result.ok => WellFormed(result.tx)

(* The validation rules of spec section 4.3, in the order the spec fixes   *)
(* for them; the rules the builder's fields break are the contract's.     *)
SpecRuleOrder ==
    <<"NoteDetailsForUnknownNotes", "InputNotesError", "OutputNotesError",
      "OffChainAccountWithDetails", "OnChainAccountMissingDetails",
      "NewOnChainAccountRequiresFullDetails", "AccountIdMismatch",
      "AccountFinalHashMismatch", "ExistingOnChainAccountRequiresDeltaDetails">>

(* The builder's fields as the draft of the abstract contract.            *)
Draft ==
    [account_id |-> account_id, initial_account_hash |-> initial_account_hash,
     final_account_hash |-> final_account_hash, account_details |-> account_details,
     input_notes |-> input_notes, output_notes |-> output_notes,
     output_note_details |-> output_note_details, tx_script_root |-> tx_script_root]

Contract == INSTANCE ProvenTxContract WITH draft <- Draft, verdict <- result

ViolatedRules == Contract!Broken(Draft)

FirstViolatedRule ==
    SpecRuleOrder[CHOOSE i \in 1..Len(SpecRuleOrder) :
                    /\ SpecRuleOrder[i] \in ViolatedRules
                    /\ \A j \in 1..(i - 1) : SpecRuleOrder[j] \notin ViolatedRules]

(* build fails exactly when one of the rules of spec 4.3 is broken, and    *)
(* then with the first broken rule in the spec's order (fail fast, P5-P7); *)
(* when it succeeds, the transaction carries the accumulated data          *)
(* unchanged, disclosed note details included.                             *)
BuildVerdictMatchesSpec ==
    result # None =>
        IF ViolatedRules = {} THEN result = Ok(BuiltTransaction)
        ELSE result = Err(FirstViolatedRule)

(* Spec section 3 describes output_note_details as a map from a note id to *)
(* the full Note with that id; build checks only that the key is a        *)
(* produced note, never that the Note stored under it is that note.        *)
DisclosedNotesMatchKeys ==
    result # None /\ result.ok =>
        \A k \in DOMAIN result.tx.output_note_details :
            result.tx.output_note_details[k] = k

(* The builder implements its contract: the id and hash transition never  *)
(* change, nullifiers, envelopes and disclosed notes are only added, build *)
(* decides once, on the data as accumulated, with an error naming a rule   *)
(* the data breaks or with the transaction that carries the data, and     *)
(* nothing changes after it.                                               *)
ImplementsContract == Contract!Spec

=============================================================================
