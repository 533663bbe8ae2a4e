----------------------- MODULE TransactionFlow_proofs -----------------------
(***************************************************************************)
(* Proofs about TransactionFlow, for every value of the constants: every   *)
(* state is well typed, with each Option Some exactly in the phases that   *)
(* produced it, and the test's id assertion holds exactly when the         *)
(* prover's initial-hash Option follows the executed account's is_new.     *)
(***************************************************************************)
EXTENDS TransactionFlow, SequenceTheorems, TLAPS

(* Once proven, the result is what build returned on the execution still  *)
(* held and the Option the prover chose, None or the execution's initial   *)
(* hash; the is_new flag is a Boolean because it was copied from the       *)
(* store's account.                                                        *)
FlowInv ==
    /\ store.account.is_new \in BOOLEAN
    /\ phase \in {"loaded", "executed", "proven"} => answer = store
    /\ phase \in {"executed", "proven"} => executed.is_new \in BOOLEAN
    /\ phase = "proven" => /\ proven = Builder!BuildResult
                          /\ claimed \in {None, executed.initial_hash}

(* Every Ok that build returns on the prover's inputs carries the          *)
(* transaction assembled from them: all other branches are Errs.           *)
LEMMA BuildOkIsBuilt ==
    ASSUME Builder!BuildResult.ok
    PROVE  Builder!BuildResult = Builder!Ok(Builder!BuiltTransaction)
BY DEF Builder!BuildResult, Builder!OnChainCheck, Builder!Err, Builder!Ok

(* build is a function of the execution and the prover's Option alone.    *)
LEMMA BuildStable ==
    ASSUME executed' = executed, claimed' = claimed
    PROVE  Builder!BuildResult' = Builder!BuildResult
BY DEF Builder!BuildResult, Builder!OnChainCheck, Builder!BuiltTransaction,
       Builder!ElemsOf, Builder!NoteCollectionValid, Builder!NoRepeats,
       Builder!Err, Builder!Ok, Builder!NotesCommitment, Builder!TransactionIdNew,
       Builder!HashElements, Builder!UnwrapOrDefault, ProverDetails

LEMMA FlowInvInit == Init => FlowInv
BY DEF Init, MockDataStoreNew, Accounts, FlowInv

LEMMA FlowInvStep == FlowInv /\ [Next]_vars => FlowInv'
<1> SUFFICES ASSUME FlowInv, [Next]_vars PROVE FlowInv'
  OBVIOUS
<1>1. ASSUME NEW acc \in AccountIds, NEW blk \in Blocks,
             NEW req \in SeqsUpTo(Origins, MaxRequest),
             GetTransactionData(acc, blk, req)
      PROVE  FlowInv'
  BY <1>1, BuildStable DEF GetTransactionData, FlowInv
<1>2. ASSUME NEW h \in AccountHashes, NEW d \in Deltas,
             NEW outs \in {s \in SeqsUpTo(NoteIds, MaxOutputNotes) : Distinct(s)},
             ExecuteTransaction(h, d, outs)
      PROVE  FlowInv'
  BY <1>2 DEF ExecuteTransaction, FlowInv
<1>3. CASE ExecutionFails
  BY <1>3, BuildStable DEF ExecutionFails, FlowInv
<1>4. CASE ProveTransaction
  BY <1>4 DEF ProveTransaction, FlowInv
<1>5. CASE UNCHANGED vars
  BY <1>5, BuildStable DEF vars, FlowInv
<1>6. QED
  BY <1>1, <1>2, <1>3, <1>4, <1>5 DEF Next

-----------------------------------------------------------------------------
(* The inductive strengthening of TypeOK: over FlowInv, an execution that  *)
(* exists has the type of an ExecutedTransaction, so that the prover's     *)
(* build returns a Result, never Option::None.                             *)
FlowTypeInv ==
    /\ TypeOK
    /\ FlowInv
    /\ executed # None => executed \in ExecutedTransactions

(* A sequence of at most n elements of S is a sequence over S.             *)
LEMMA SeqsUpToSeq ==
    ASSUME NEW S, NEW n, NEW s \in SeqsUpTo(S, n)
    PROVE  s \in Seq(S)
<1>1. PICK k \in 0..n : s \in [1..k -> S]
  BY DEF SeqsUpTo
<1>2. QED
  BY <1>1

(* The nullifier column of a stored note list is a sequence of nullifiers. *)
LEMMA NullifierColumn ==
    ASSUME NEW s \in NoteLists
    PROVE  Column(s, "nullifier") \in Seq(Nullifiers)
<1>1. s \in Seq(StoredNotes)
  BY SeqsUpToSeq DEF NoteLists
<1>2. ASSUME NEW i \in 1..Len(s) PROVE s[i].nullifier \in Nullifiers
  <2>1. s[i] \in StoredNotes
    BY <1>1, ElementOfSeq
  <2>2. QED
    BY <2>1 DEF StoredNotes
<1>3. QED
  BY <1>1, <1>2 DEF Column

(* On a typed execution and an Option the prover may choose, build         *)
(* returns an Err with one of its errors or an Ok with a typed             *)
(* ProvenTransaction; stated of the state after the prover's step.         *)
LEMMA BuildResultTyped ==
    ASSUME executed' \in ExecutedTransactions,
           claimed' \in {None} \cup AccountHashes
    PROVE  Builder!BuildResult' \in
              [ok : {FALSE}, err : Builder!ProvenTxErrors]
              \cup [ok : {TRUE}, tx : Builder!ProvenTransactions]
<1> DEFINE W == {ZeroDigest} \cup AccountHashes \cup Builder!NotesCommitments
<1>1. /\ HashElements(executed'.input_notes) \in Builder!NotesCommitments
      /\ HashElements(executed'.output_notes) \in Builder!NotesCommitments
  BY DEF ExecutedTransactions, HashElements, Builder!NotesCommitments
<1>2. UnwrapOrDefault(claimed') \in W /\ executed'.final_hash \in W
  BY DEF ExecutedTransactions, UnwrapOrDefault, W
<1>3. Builder!BuiltTransaction'.id \in Builder!TransactionIds
  BY <1>1, <1>2 DEF Builder!BuiltTransaction, Builder!NotesCommitment,
     Builder!TransactionIdNew, Builder!HashElements, Builder!UnwrapOrDefault,
     HashElements, UnwrapOrDefault, Builder!TransactionIds, W
<1>4. ProverDetails(executed') \in {None} \cup Builder!AccountDetailsValues
  BY DEF ExecutedTransactions, ProverDetails, Builder!AccountDetailsValues,
     Builder!FullDetails, Builder!DeltaDetails
<1>5. [k \in {} |-> None] \in Builder!DetailsMaps
  BY DEF Builder!DetailsMaps
<1>6. Builder!BuiltTransaction' \in Builder!ProvenTransactions
  BY <1>3, <1>4, <1>5 DEF ExecutedTransactions, Builder!BuiltTransaction,
     Builder!ProvenTransactions
<1>7. Builder!BuildResult' \in {Builder!Err(e) : e \in Builder!ProvenTxErrors}
                               \cup {Builder!Ok(Builder!BuiltTransaction')}
  BY DEF Builder!BuildResult, Builder!OnChainCheck, Builder!ProvenTxErrors
<1>8. ASSUME NEW e \in Builder!ProvenTxErrors
      PROVE  Builder!Err(e) \in [ok : {FALSE}, err : Builder!ProvenTxErrors]
  BY DEF Builder!Err
<1>9. Builder!Ok(Builder!BuiltTransaction')
        \in [ok : {TRUE}, tx : Builder!ProvenTransactions]
  BY <1>6 DEF Builder!Ok
<1>10. QED
  BY <1>7, <1>8, <1>9

(* FlowTypeInv holds in every reachable state.                             *)
LEMMA FlowTypeInvHolds == Spec => []FlowTypeInv
<1>1. Init => FlowTypeInv
  BY FlowInvInit, FlowNoneAssumption, SentinelAssumption
     DEF Init, MockDataStoreNew, FlowTypeInv, TypeOK, Terminal
<1>2. FlowTypeInv /\ [Next]_vars => FlowTypeInv'
  <2> SUFFICES ASSUME FlowTypeInv, [Next]_vars PROVE FlowTypeInv'
    OBVIOUS
  <2>0. FlowInv'
    BY FlowInvStep DEF FlowTypeInv
  <2>1. ASSUME NEW acc \in AccountIds, NEW blk \in Blocks,
               NEW req \in SeqsUpTo(Origins, MaxRequest),
               GetTransactionData(acc, blk, req)
        PROVE  FlowTypeInv'
    <3>1. store # None
      BY FlowNoneAssumption DEF FlowTypeInv, TypeOK, Terminal
    <3>2. executed = None /\ proven = None
      BY <2>1 DEF GetTransactionData, FlowTypeInv, TypeOK, Terminal
    <3>3. QED
      BY <2>0, <2>1, <3>1, <3>2 DEF GetTransactionData, FlowTypeInv, TypeOK, Terminal
  <2>2. ASSUME NEW h \in AccountHashes, NEW d \in Deltas,
               NEW outs \in {s \in SeqsUpTo(NoteIds, MaxOutputNotes) : Distinct(s)},
               ExecuteTransaction(h, d, outs)
        PROVE  FlowTypeInv'
    <3>1. answer = store /\ answer # None /\ proven = None
      BY <2>2 DEF ExecuteTransaction, FlowTypeInv, FlowInv, TypeOK, Terminal
    <3>2. /\ answer.account \in Accounts
          /\ Column(answer.notes, "nullifier") \in Seq(Nullifiers)
          /\ outs \in Seq(NoteIds)
      BY <3>1, NullifierColumn, SeqsUpToSeq DEF FlowTypeInv, TypeOK, Terminal
    <3>3. executed' \in ExecutedTransactions
      BY <2>2, <3>2 DEF ExecuteTransaction, ExecutedTransactions, Accounts
    <3>4. executed' # None
      BY <3>3, FlowNoneAssumption
    <3>5. QED
      BY <2>0, <2>2, <3>1, <3>3, <3>4 DEF ExecuteTransaction, FlowTypeInv, TypeOK, Terminal
  <2>3. CASE ExecutionFails
    BY <2>0, <2>3 DEF ExecutionFails, FlowTypeInv, TypeOK, Terminal
  <2>4. CASE ProveTransaction
    <3>1. executed # None /\ executed \in ExecutedTransactions
      BY <2>4 DEF ProveTransaction, FlowTypeInv, TypeOK, Terminal
    <3>2. claimed' \in {None} \cup AccountHashes
      BY <2>4, <3>1 DEF ProveTransaction, ExecutedTransactions
    <3>3. proven' # None
      BY <2>4, <3>1, <3>2, BuildResultTyped, FlowNoneAssumption DEF ProveTransaction
    <3>4. QED
      BY <2>0, <2>4, <3>1, <3>2, <3>3 DEF ProveTransaction, FlowTypeInv, TypeOK, Terminal
  <2>5. CASE UNCHANGED vars
    BY <2>0, <2>5 DEF vars, FlowTypeInv, TypeOK, Terminal
  <2>6. QED
    BY <2>1, <2>2, <2>3, <2>4, <2>5 DEF Next
<1>3. QED
  BY <1>1, <1>2, PTL DEF Spec

(* Every reachable state of the test driver is well typed, and each of its *)
(* Options is Some exactly in the phases that produced it: the data store  *)
(* answer from loading on, the execution from executing on, the build      *)
(* result once proven.                                                     *)
THEOREM FlowTypeCorrect == Spec => []TypeOK
BY FlowTypeInvHolds, PTL DEF FlowTypeInv

-----------------------------------------------------------------------------
(* The first word of both ids: the prover's Option and                     *)
(* is_new().not().then(..) become the same digest after unwrap_or_default  *)
(* exactly when the Option follows is_new, because neither an account hash *)
(* nor None is the zero digest.                                            *)
LEMMA FirstWordAgrees ==
    ASSUME NEW isNew \in BOOLEAN, NEW init \in AccountHashes,
           NEW c \in {None, init}
    PROVE  UnwrapOrDefault(c) = UnwrapOrDefault(IF ~isNew THEN init ELSE None)
               <=> ((c = None) = isNew)
BY SentinelAssumption DEF UnwrapOrDefault

(* The id of the transaction build assembles, against the executed id:     *)
(* two free-constructor hashes of four words that differ at most in the    *)
(* first.                                                                  *)
LEMMA BuiltIdAgainstExecutedId ==
    ASSUME executed \in ExecutedTransactions,
           claimed \in {None, executed.initial_hash}
    PROVE  Builder!BuiltTransaction.id = ExecutedTransactionId(executed)
               <=> ClaimFollowsIsNew
<1> DEFINE ex == IF ~executed.is_new THEN executed.initial_hash ELSE None
           tail == <<executed.final_hash, HashElements(executed.input_notes),
                     HashElements(executed.output_notes)>>
<1>1. Builder!BuiltTransaction.id
        = HashElements(<<UnwrapOrDefault(claimed)>> \o tail)
  BY DEF Builder!BuiltTransaction, Builder!NotesCommitment, Builder!TransactionIdNew,
     Builder!HashElements, Builder!UnwrapOrDefault, HashElements, UnwrapOrDefault
<1>2. ExecutedTransactionId(executed)
        = HashElements(<<UnwrapOrDefault(ex)>> \o tail)
  BY DEF ExecutedTransactionId, TransactionIdNew, HashElements
<1>3. HashElements(<<UnwrapOrDefault(claimed)>> \o tail)
        = HashElements(<<UnwrapOrDefault(ex)>> \o tail)
      <=> UnwrapOrDefault(claimed) = UnwrapOrDefault(ex)
  BY DEF HashElements
<1>4. executed.is_new \in BOOLEAN /\ executed.initial_hash \in AccountHashes
  BY DEF ExecutedTransactions
<1>5. QED
  BY <1>1, <1>2, <1>3, <1>4, FirstWordAgrees DEF ClaimFollowsIsNew

(* For an on-chain account build succeeds only on a claim that follows     *)
(* is_new: an absent hash demands Full details, which the prover sends     *)
(* only for a new account, and a present one demands Delta details.        *)
LEMMA OnChainOkFollowsIsNew ==
    ASSUME executed \in ExecutedTransactions,
           executed.account_id \in OnChainIds, Builder!BuildResult.ok
    PROVE  ClaimFollowsIsNew
<1>1. Builder!OnChainCheck.ok
  BY DEF Builder!BuildResult, Builder!Err, Builder!Ok
<1>2. ProverDetails(executed)
        = IF executed.is_new
          THEN [kind |-> "Full", id |-> executed.account_id, hash |-> executed.final_hash]
          ELSE [kind |-> "Delta", delta |-> executed.delta]
  BY DEF ProverDetails
<1>3. CASE claimed = None
  <2>1. ProverDetails(executed).kind # "Delta"
    BY <1>1, <1>3 DEF Builder!OnChainCheck, Builder!Err, Builder!Ok
  <2>2. QED
    BY <1>2, <1>3, <2>1 DEF ClaimFollowsIsNew, ExecutedTransactions
<1>4. CASE claimed # None
  <2>1. ProverDetails(executed).kind # "Full"
    BY <1>1, <1>4 DEF Builder!OnChainCheck, Builder!Err, Builder!Ok
  <2>2. QED
    BY <1>2, <1>4, <2>1 DEF ClaimFollowsIsNew, ExecutedTransactions
<1>5. QED
  BY <1>3, <1>4

(* The assertion assert_eq!(proven_transaction.id(), executed_transaction_id) *)
(* of prove_and_verify_transaction is exact, for every value of the         *)
(* constants: a transaction build returns passes it if and only if the      *)
(* prover's initial-hash Option followed is_new, and for an on-chain         *)
(* account build never returns a transaction on a mislabelled claim.        *)
THEOREM IdLinkageIsExact == Spec => []IdLinkageExact
<1>1. FlowTypeInv => IdLinkageExact
  <2> SUFFICES ASSUME FlowTypeInv, phase = "proven", proven.ok
               PROVE  /\ proven.tx.id = ExecutedTransactionId(executed)
                           <=> ClaimFollowsIsNew
                      /\ executed.account_id \in OnChainIds => ClaimFollowsIsNew
    BY DEF IdLinkageExact
  <2>1. /\ proven = Builder!BuildResult
        /\ claimed \in {None, executed.initial_hash}
        /\ executed \in ExecutedTransactions
    BY DEF FlowTypeInv, FlowInv, TypeOK
  <2>2. proven = Builder!Ok(Builder!BuiltTransaction)
    BY <2>1, BuildOkIsBuilt
  <2>3. proven.tx.id = Builder!BuiltTransaction.id
    BY <2>2 DEF Builder!Ok
  <2>4. QED
    BY <2>1, <2>3, BuiltIdAgainstExecutedId, OnChainOkFollowsIsNew
<1>2. QED
  BY <1>1, FlowTypeInvHolds, PTL

=============================================================================
