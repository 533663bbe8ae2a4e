-------------------------- MODULE TransactionFlow ---------------------------
(***************************************************************************)
(* One transaction from request to proof, driven against the crate's       *)
(* MockDataStore (src/miden-tx/src/mock.rs): the executor asks it for the  *)
(* account, block and notes, executes, and the prover turns the            *)
(* ExecutedTransaction into a ProvenTransaction through the builder        *)
(* (ProvenTxBuilder, instantiated on the prover's inputs); the test then   *)
(* asserts that both carry the same TransactionId (spec 4.4).              *)
(*                                                                         *)
(* The executor and prover live outside src/ and are modelled from the     *)
(* spec; the data store, the two id conversions and the test's check are   *)
(* modelled from the code.  The optional initial hash the prover hands the *)
(* builder is the prover's own choice, None or Some(initial hash): nothing *)
(* under src/ ties it to the executed account's is_new.                    *)
(***************************************************************************)
EXTENDS TransactionId, FiniteSets

CONSTANTS
    AccountIds, OnChainIds, Nullifiers, NoteIds, Deltas, ScriptRoots,
    MaxInputNotes, MaxOutputNotes, MaxBatch,   \* as in ProvenTxBuilder
    Origins,          \* NoteOrigin values (block and index of inclusion)
    Blocks,           \* block numbers
    MaxStoredNotes,   \* most notes the store holds
    MaxRequest        \* longest list of origins the executor requests

ASSUME FlowAssumption ==
    /\ MaxStoredNotes \in Nat /\ MaxRequest \in Nat
    /\ None \notin Origins

VARIABLES
    store,     \* the MockDataStore: account, block header, notes
    phase,     \* where the test driver is
    request,   \* the arguments of get_transaction_data
    answer,    \* its Ok value, None before or after a panic
    executed,  \* the ExecutedTransaction
    proven,    \* the prover's build Result
    claimed    \* the initial-hash Option the prover handed the builder

vars == <<store, phase, request, answer, executed, proven, claimed>>

Terminal == {"proven", "panicked", "failed"}

(* A stored Note: its nullifier and, through note.proof(), the origin of   *)
(* its inclusion proof; None when the note carries no proof.               *)
StoredNotes == [nullifier : Nullifiers, origin : Origins \cup {None}]

ElemsOf(s) == {s[i] : i \in 1..Len(s)}
SeqsUpTo(S, n) == UNION {[1..k -> S] : k \in 0..n}
Distinct(s) == \A i, j \in 1..Len(s) : s[i] = s[j] => i = j
Column(s, f) == [i \in 1..Len(s) |-> s[i][f]]

(* The note lists mock_inputs can produce: distinct notes, hence distinct  *)
(* nullifiers, and distinct origins among the notes that have a proof.     *)
NoteLists ==
    {s \in SeqsUpTo(StoredNotes, MaxStoredNotes) :
        /\ Distinct(Column(s, "nullifier"))
        /\ \A i, j \in 1..Len(s) :
              s[i].origin = s[j].origin /\ s[i].origin # None => i = j}

Accounts == [id : AccountIds, is_new : BOOLEAN, hash : AccountHashes]

(* MockDataStore::new: the fields of mock_inputs().                        *)
MockDataStoreNew ==
    store \in [account : Accounts, block : Blocks, notes : NoteLists]

(* Fault model: unproven notes filtered out (filter_map) instead of the    *)
(* unwrap, so the answer is no longer the store's content.                 *)
GetTransactionDataSkippingUnproven(acc, blk, req) ==
    /\ phase = "idle"
    /\ request' = [account_id |-> acc, block_num |-> blk, notes |-> req]
    /\ IF acc = store.account.id /\ blk = store.block /\ Len(req) = Len(store.notes)
       THEN /\ phase' = "loaded"
            /\ answer' = [store EXCEPT !.notes =
                              SelectSeq(@, LAMBDA n : n.origin # None)]
       ELSE /\ phase' = "panicked"
            /\ answer' = None
    /\ UNCHANGED <<store, executed, proven, claimed>>

(* MockDataStore::get_transaction_data: three assert_eq! and an unwrap on  *)
(* every stored note's proof, any of which panics; the `all` over the      *)
(* requested origins is evaluated and its value dropped; Ok returns clones *)
(* of everything stored.                                                   *)
GetTransactionData(acc, blk, req) ==
    LET passes == /\ acc = store.account.id
                  /\ blk = store.block
                  /\ Len(req) = Len(store.notes)
                  /\ \A i \in 1..Len(store.notes) : store.notes[i].origin # None
    IN /\ phase = "idle"
       /\ request' = [account_id |-> acc, block_num |-> blk, notes |-> req]
       /\ phase' = IF passes THEN "loaded" ELSE "panicked"
       /\ answer' = IF passes THEN store ELSE None
       /\ UNCHANGED <<store, executed, proven, claimed>>

(* TransactionExecutor::execute_transaction on the data it was given: the  *)
(* final account hash, the account delta and the created notes are what    *)
(* the run produced.                                                       *)
ExecuteTransaction(finalHash, delta, outs) ==
    /\ phase = "loaded"
    /\ executed' = [account_id   |-> answer.account.id,
                    is_new       |-> answer.account.is_new,
                    initial_hash |-> answer.account.hash,
                    final_hash   |-> finalHash,
                    delta        |-> delta,
                    input_notes  |-> Column(answer.notes, "nullifier"),
                    output_notes |-> outs]
    /\ phase' = "executed"
    /\ UNCHANGED <<store, request, answer, proven, claimed>>

(* The program failed in the VM: execute_transaction returns an error.     *)
ExecutionFails ==
    /\ phase = "loaded"
    /\ phase' = "failed"
    /\ UNCHANGED <<store, request, answer, executed, proven, claimed>>

(* From<&ExecutedTransaction> for TransactionId.                           *)
ExecutedTransactionIdNegated(e) ==
    TransactionIdNew(IF e.is_new THEN e.initial_hash ELSE None, e.final_hash,
                     HashElements(e.input_notes), HashElements(e.output_notes))

ExecutedTransactionId(e) ==
    TransactionIdNew(IF ~e.is_new THEN e.initial_hash ELSE None, e.final_hash,
                     HashElements(e.input_notes), HashElements(e.output_notes))

(* The details the prover hands the builder (spec 4.3): a Full snapshot of *)
(* a new on-chain account, a Delta for an existing one, none off-chain.    *)
ProverDetails(e) ==
    IF e.account_id \notin OnChainIds THEN None
    ELSE IF e.is_new THEN [kind |-> "Full", id |-> e.account_id, hash |-> e.final_hash]
    ELSE [kind |-> "Delta", delta |-> e.delta]

(* The builder the prover drives, on the execution at hand and the         *)
(* initial-hash Option it chose.                                           *)
Builder == INSTANCE ProvenTxBuilder WITH
    account_id <- executed.account_id,
    initial_account_hash <- claimed,
    final_account_hash <- executed.final_hash,
    account_details <- ProverDetails(executed),
    input_notes <- executed.input_notes,
    output_notes <- executed.output_notes,
    output_note_details <- [k \in {} |-> None],
    tx_script_root <- None,
    result <- None

(* The values an ExecutedTransaction can take.                             *)
ExecutedTransactions ==
    [account_id : AccountIds, is_new : BOOLEAN, initial_hash : AccountHashes,
     final_hash : AccountHashes, delta : Deltas,
     input_notes : Seq(Nullifiers), output_notes : Seq(NoteIds)]

(* Option::None is no data-store content, no ExecutedTransaction and no     *)
(* Result of build.                                                        *)
ASSUME FlowNoneAssumption ==
    /\ None \notin [account : Accounts, block : Blocks, notes : NoteLists]
    /\ None \notin ExecutedTransactions
    /\ None \notin [ok : {FALSE}, err : Builder!ProvenTxErrors]
                  \cup [ok : {TRUE}, tx : Builder!ProvenTransactions]

(* TransactionProver::prove_transaction: it hands the builder None or the  *)
(* executed account's initial hash, and ends in the builder's build.       *)
ProveTransaction ==
    /\ phase = "executed"
    /\ UNCHANGED <<store, request, answer, executed>>
    /\ \E opt \in {None, executed.initial_hash} : claimed' = opt
    /\ proven' = (Builder!BuildResult)'
    /\ phase' = "proven"

Init ==
    /\ MockDataStoreNew
    /\ phase = "idle"
    /\ request = None
    /\ answer = None
    /\ executed = None
    /\ proven = None
    /\ claimed = None

Next ==
    \/ \E acc \in AccountIds, blk \in Blocks, req \in SeqsUpTo(Origins, MaxRequest) :
          GetTransactionData(acc, blk, req)
    \/ \E h \in AccountHashes, d \in Deltas,
          outs \in {s \in SeqsUpTo(NoteIds, MaxOutputNotes) : Distinct(s)} :
          ExecuteTransaction(h, d, outs)
    \/ ExecutionFails
    \/ ProveTransaction

Spec == Init /\ [][Next]_vars

-----------------------------------------------------------------------------
TypeOK ==
    /\ store \in [account : Accounts, block : Blocks, notes : NoteLists]
    /\ phase \in {"idle", "loaded", "executed"} \cup Terminal
    /\ request \in {None} \cup [account_id : AccountIds, block_num : Blocks,
                                notes : SeqsUpTo(Origins, MaxRequest)]
    /\ answer \in {None, store}
    /\ phase \in {"loaded", "executed", "proven", "failed"} <=> answer # None
    /\ phase \in {"executed", "proven"} <=> executed # None
    /\ phase = "proven" <=> proven # None
    /\ claimed \in {None} \cup AccountHashes

(* The prover followed the convention of From<&ExecutedTransaction>: no   *)
(* initial hash exactly for a new account.                                 *)
ClaimFollowsIsNew == (claimed = None) = executed.is_new

(* The assertion of prove_and_verify_transaction (assert_eq! of the two    *)
(* ids) is exact: a ProvenTransaction that build returns carries the id    *)
(* From<&ExecutedTransaction> gives its execution if and only if the       *)
(* prover's Option followed is_new, because unwrap_or_default maps None to *)
(* a zero digest no account hash equals.  For an on-chain account build    *)
(* itself refuses a mislabelled claim: its (is_new, details) matrix reads  *)
(* "new" off the absent hash.                                              *)
IdLinkageExact ==
    phase = "proven" /\ proven.ok =>
        /\ proven.tx.id = ExecutedTransactionId(executed) <=> ClaimFollowsIsNew
        /\ executed.account_id \in OnChainIds => ClaimFollowsIsNew

(* The DataStore contract (spec 6): the notes handed to the executor are   *)
(* the ones it requested by origin, no more and no fewer.                  *)
ConsumedNotesAreRequested ==
    answer # None => ElemsOf(Column(answer.notes, "origin")) = ElemsOf(request.notes)

=============================================================================
