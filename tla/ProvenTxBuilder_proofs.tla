----------------------- MODULE ProvenTxBuilder_proofs -----------------------
(***************************************************************************)
(* Proofs about ProvenTxBuilder, for every value of the constants that     *)
(* satisfies SentinelAssumption and BuilderAssumption.                     *)
(***************************************************************************)
EXTENDS ProvenTxBuilder, SequenceTheorems, TLAPS

-----------------------------------------------------------------------------
(* Every iterator handed to add_input_notes / add_output_notes is a        *)
(* sequence.                                                               *)
LEMMA BatchesAreSeqs ==
    ASSUME NEW S, BuilderAssumption
    PROVE  Batches(S) \subseteq Seq(S)
<1>1. \A k \in 1..MaxBatch : [1..k -> S] \subseteq Seq(S)
  BY SeqDef
<1>2. QED
  BY <1>1 DEF Batches

(* Extending a details map keeps it a map from note ids to notes.         *)
LEMMA ExtendMapType ==
    ASSUME NEW old \in DetailsMaps, NEW new \in DetailsMaps
    PROVE  ExtendMap(old, new) \in DetailsMaps
<1>1. PICK D1 \in SUBSET NoteIds : old \in [D1 -> NoteIds]
  BY DEF DetailsMaps
<1>2. PICK D2 \in SUBSET NoteIds : new \in [D2 -> NoteIds]
  BY DEF DetailsMaps
<1>3. ExtendMap(old, new) \in [D1 \cup D2 -> NoteIds]
  BY <1>1, <1>2 DEF ExtendMap
<1>4. QED
  BY <1>3 DEF DetailsMaps

(* A commitment to a note sequence is a commitment value.                 *)
LEMMA CommitmentType ==
    ASSUME NEW s \in Seq(Nullifiers) \cup Seq(NoteIds)
    PROVE  NotesCommitment(s) \in NotesCommitments
BY DEF NotesCommitment, HashElements, NotesCommitments

(* The transaction id of well-typed inputs is a transaction id value.     *)
LEMMA TransactionIdType ==
    ASSUME SentinelAssumption,
           NEW i \in {None} \cup AccountHashes, NEW f \in AccountHashes,
           NEW ci \in NotesCommitments, NEW co \in NotesCommitments
    PROVE  TransactionIdNew(i, f, ci, co) \in TransactionIds
<1> DEFINE W == {ZeroDigest} \cup AccountHashes \cup NotesCommitments
<1>1. UnwrapOrDefault(i) \in W
  BY DEF UnwrapOrDefault
<1>2. <<UnwrapOrDefault(i), f, ci, co>> \in Seq(W)
  BY <1>1
<1>3. QED
  BY <1>2 DEF TransactionIdNew, HashElements, TransactionIds

-----------------------------------------------------------------------------
(* build returns either one of the documented errors or the transaction    *)
(* assembled from the builder's fields.                                    *)
LEMMA BuildResultCases ==
    BuildResult \in {Err(e) : e \in ProvenTxErrors} \cup {Ok(BuiltTransaction)}
BY DEF BuildResult, OnChainCheck, ProvenTxErrors

LEMMA BuiltTransactionType ==
    ASSUME TypeOK, SentinelAssumption
    PROVE  BuiltTransaction \in ProvenTransactions
<1>1. NotesCommitment(input_notes) \in NotesCommitments
  BY CommitmentType DEF TypeOK
<1>2. NotesCommitment(output_notes) \in NotesCommitments
  BY CommitmentType DEF TypeOK
<1>3. BuiltTransaction.id \in TransactionIds
  BY <1>1, <1>2, TransactionIdType DEF TypeOK, BuiltTransaction
<1>4. QED
  BY <1>3 DEF TypeOK, BuiltTransaction, ProvenTransactions

(* TypeOK is an invariant of the specification.                          *)
THEOREM TypeCorrect == Spec => []TypeOK
<1>1. Init => TypeOK
  <2>1. [k \in {} |-> None] \in DetailsMaps
    BY DEF DetailsMaps
  <2>2. QED
    BY <2>1, BuilderAssumption DEF Init, TypeOK, InputNotesBound, OutputNotesBound
<1>2. TypeOK /\ [Next]_vars => TypeOK'
  <2> SUFFICES ASSUME TypeOK, [Next]_vars PROVE TypeOK'
    OBVIOUS
  <2> USE SentinelAssumption, BuilderAssumption
  <2>1. ASSUME NEW d \in AccountDetailsValues, SetAccountDetails(d)
        PROVE  TypeOK'
    BY <2>1 DEF SetAccountDetails, TypeOK
  <2>2. ASSUME NEW ns \in Batches(Nullifiers), AddInputNotes(ns)
        PROVE  TypeOK'
    <3>1. ns \in Seq(Nullifiers)
      BY BatchesAreSeqs
    <3>2. input_notes' \in Seq(Nullifiers)
          /\ Len(input_notes') = Len(input_notes) + Len(ns)
      BY <3>1, <2>2, ConcatProperties DEF AddInputNotes, TypeOK
    <3>3. QED
      BY <3>2, <2>2 DEF AddInputNotes, TypeOK
  <2>3. ASSUME NEW es \in Batches(NoteIds), AddOutputNotes(es)
        PROVE  TypeOK'
    <3>1. es \in Seq(NoteIds)
      BY BatchesAreSeqs
    <3>2. output_notes' \in Seq(NoteIds)
          /\ Len(output_notes') = Len(output_notes) + Len(es)
      BY <3>1, <2>3, ConcatProperties DEF AddOutputNotes, TypeOK
    <3>3. QED
      BY <3>2, <2>3 DEF AddOutputNotes, TypeOK
  <2>4. ASSUME NEW D \in SUBSET NoteIds \ {{}}, NEW m \in [D -> NoteIds],
               AddOutputNoteDetails(m)
        PROVE  TypeOK'
    <3>1. m \in DetailsMaps
      BY DEF DetailsMaps
    <3>2. QED
      BY <3>1, <2>4, ExtendMapType DEF AddOutputNoteDetails, TypeOK
  <2>5. ASSUME NEW r \in ScriptRoots, SetTxScriptRoot(r)
        PROVE  TypeOK'
    BY <2>5 DEF SetTxScriptRoot, TypeOK
  <2>6. ASSUME Build PROVE TypeOK'
    <3>1. BuiltTransaction \in ProvenTransactions
      BY BuiltTransactionType
    <3>2. result' \in {Err(e) : e \in ProvenTxErrors} \cup {Ok(BuiltTransaction)}
      BY <2>6, BuildResultCases DEF Build
    <3>3. result' \in [ok : {FALSE}, err : ProvenTxErrors]
                      \cup [ok : {TRUE}, tx : ProvenTransactions]
      <4>1. CASE result' = Ok(BuiltTransaction)
        BY <3>1, <4>1 DEF Ok
      <4>2. CASE \E e \in ProvenTxErrors : result' = Err(e)
        BY <4>2 DEF Err
      <4>3. QED
        BY <3>2, <4>1, <4>2
    <3>4. QED
      BY <3>3, <2>6 DEF Build, TypeOK
  <2>7. CASE UNCHANGED vars
    BY <2>7 DEF vars, TypeOK
  <2>8. QED
    BY <2>1, <2>2, <2>3, <2>4, <2>5, <2>6, <2>7 DEF Next
<1>3. QED
  BY <1>1, <1>2, PTL DEF Spec

-----------------------------------------------------------------------------
(* When build succeeds, every check of the code passed, and so the         *)
(* transaction it returns is well formed.                                  *)
LEMMA BuildOkWellFormed ==
    ASSUME TypeOK, BuildResult.ok
    PROVE  /\ BuildResult = Ok(BuiltTransaction)
           /\ WellFormed(BuiltTransaction)
<1>1. BuildResult = Ok(BuiltTransaction)
  BY BuildResultCases DEF Err, Ok
<1>2. DOMAIN output_note_details \subseteq ElemsOf(output_notes)
  BY DEF BuildResult, Err
<1>3. NoteCollectionValid(input_notes, MaxInputNotes)
      /\ NoteCollectionValid(output_notes, MaxOutputNotes)
  BY <1>2 DEF BuildResult, Err
<1>4. account_id \notin OnChainIds => account_details = None
  BY <1>2, <1>3 DEF BuildResult, Err
<1>5. ASSUME account_id \in OnChainIds
      PROVE  /\ account_details # None
             /\ (initial_account_hash = None) = (account_details.kind = "Full")
             /\ account_details.kind = "Full" =>
                   /\ account_details.id = account_id
                   /\ account_details.hash = final_account_hash
  <2>1. OnChainCheck.ok
    BY <1>2, <1>3, <1>5 DEF BuildResult, Err
  <2>2. account_details # None
    BY <2>1 DEF OnChainCheck, Err
  <2>3. account_details.kind \in {"Full", "Delta"}
    BY <2>2 DEF TypeOK, AccountDetailsValues, FullDetails, DeltaDetails
  <2>4. (initial_account_hash = None) = (account_details.kind = "Full")
    BY <2>1, <2>2, <2>3 DEF OnChainCheck, Err
  <2>5. account_details.kind = "Full" =>
           /\ account_details.id = account_id
           /\ account_details.hash = final_account_hash
    BY <2>1, <2>2 DEF OnChainCheck, Err
  <2>6. QED
    BY <2>2, <2>4, <2>5
<1>6. WellFormed(BuiltTransaction)
  BY <1>2, <1>3, <1>4, <1>5 DEF WellFormed, BuiltTransaction, TransactionIdOf
<1>7. QED
  BY <1>1, <1>6

(* BuiltTxWellFormed is an invariant of the specification: no sequence of  *)
(* setter calls leads build to return an ill-formed ProvenTransaction.     *)
THEOREM BuildOnlyWellFormed == Spec => []BuiltTxWellFormed
<1>1. Init => BuiltTxWellFormed
  BY DEF Init, BuiltTxWellFormed
<1>2. TypeOK /\ BuiltTxWellFormed /\ [Next]_vars => BuiltTxWellFormed'
  <2> SUFFICES ASSUME TypeOK, BuiltTxWellFormed, [Next]_vars
               PROVE  BuiltTxWellFormed'
    OBVIOUS
  <2>1. CASE Build
    <3>1. SUFFICES ASSUME BuildResult.ok PROVE WellFormed(BuildResult.tx)
      BY <2>1 DEF Build, BuiltTxWellFormed
    <3>2. QED
      BY <3>1, BuildOkWellFormed DEF Ok
  <2>2. CASE ~Build /\ result' = result
    BY <2>2 DEF BuiltTxWellFormed
  <2>3. QED
    BY <2>1, <2>2 DEF Next, vars, SetAccountDetails, AddInputNotes,
       AddOutputNotes, AddOutputNoteDetails, SetTxScriptRoot
<1>3. QED
  BY <1>1, <1>2, TypeCorrect, PTL DEF Spec


-----------------------------------------------------------------------------
(***************************************************************************)
(* Refinement: the builder implements ProvenTxContract under the mapping   *)
(* draft <- Draft, verdict <- result.                                       *)
(***************************************************************************)

(* A sequence is a prefix of itself extended by another: Vec::extend only  *)
(* appends.                                                                *)
LEMMA PrefixOfConcat ==
    ASSUME NEW S, NEW s \in Seq(S), NEW t \in Seq(S)
    PROVE  Contract!IsPrefix(s, s \o t)
<1>1. /\ s \o t \in Seq(S)
      /\ Len(s \o t) = Len(s) + Len(t)
      /\ \A i \in 1..Len(s) : (s \o t)[i] = s[i]
  BY ConcatProperties
<1>2. /\ SubSeq(s, 1, Len(s)) \in Seq(S)
      /\ Len(SubSeq(s, 1, Len(s))) = Len(s)
      /\ \A i \in 1..Len(s) : SubSeq(s, 1, Len(s))[i] = s[i]
  BY SubSeqProperties, ElementOfSeq
<1>3. /\ SubSeq(s \o t, 1, Len(s)) \in Seq(S)
      /\ Len(SubSeq(s \o t, 1, Len(s))) = Len(s)
      /\ \A i \in 1..Len(s) : SubSeq(s \o t, 1, Len(s))[i] = s[i]
  <2>1. \A i \in 1..Len(s) : (s \o t)[i] \in S
    BY <1>1, ElementOfSeq
  <2>2. QED
    BY <1>1, <2>1, SubSeqProperties
<1>4. SubSeq(s, 1, Len(s)) = SubSeq(s \o t, 1, Len(s))
  BY <1>2, <1>3, SeqEqual
<1>5. QED
  BY <1>1, <1>4 DEF Contract!IsPrefix

(* The rules the builder's fields break, one by one.                      *)
LEMMA RuleBrokenDraft ==
    ASSUME TypeOK
    PROVE  LET R == Contract!RuleBroken(Draft) IN
           /\ R["NoteDetailsForUnknownNotes"] =
                 (DOMAIN output_note_details \ ElemsOf(output_notes) # {})
           /\ R["InputNotesError"] = ~NoteCollectionValid(input_notes, MaxInputNotes)
           /\ R["OutputNotesError"] = ~NoteCollectionValid(output_notes, MaxOutputNotes)
           /\ R["OffChainAccountWithDetails"] =
                 (account_id \notin OnChainIds /\ account_details # None)
           /\ R["OnChainAccountMissingDetails"] =
                 (account_id \in OnChainIds /\ account_details = None)
           /\ R["NewOnChainAccountRequiresFullDetails"] =
                 (account_id \in OnChainIds /\ initial_account_hash = None
                  /\ account_details # None /\ account_details.kind = "Delta")
           /\ R["AccountIdMismatch"] =
                 (account_id \in OnChainIds /\ initial_account_hash = None
                  /\ account_details # None /\ account_details.kind = "Full"
                  /\ account_details.id # account_id)
           /\ R["AccountFinalHashMismatch"] =
                 (account_id \in OnChainIds /\ initial_account_hash = None
                  /\ account_details # None /\ account_details.kind = "Full"
                  /\ account_details.hash # final_account_hash)
           /\ R["ExistingOnChainAccountRequiresDeltaDetails"] =
                 (account_id \in OnChainIds /\ initial_account_hash # None
                  /\ account_details # None /\ account_details.kind = "Full")
           /\ DOMAIN R = ProvenTxErrors
<1>1. Contract!ToSet(output_notes) = ElemsOf(output_notes)
  BY DEF TypeOK, Contract!ToSet, ElemsOf
<1>2. QED
  BY <1>1 DEF Contract!RuleBroken, Draft, Contract!CollectionValid,
     NoteCollectionValid, NoRepeats, ProvenTxErrors

(* build returns one of the verdicts the contract allows on the draft.    *)
LEMMA BuildResultInVerdicts ==
    ASSUME TypeOK
    PROVE  BuildResult \in Contract!Verdicts(Draft)
<1> DEFINE B == Contract!Broken(Draft)
           R == Contract!RuleBroken(Draft)
<1>1. \A r \in ProvenTxErrors : r \in B <=> R[r]
  BY RuleBrokenDraft DEF Contract!Broken
<1>2. ASSUME NEW r \in ProvenTxErrors, R[r], BuildResult = Err(r)
      PROVE  BuildResult \in Contract!Verdicts(Draft)
  BY <1>1, <1>2 DEF Contract!Verdicts, Err, Contract!Err
<1>3. CASE DOMAIN output_note_details \ ElemsOf(output_notes) # {}
  BY <1>3, <1>2, RuleBrokenDraft DEF BuildResult, ProvenTxErrors
<1>4. CASE ~NoteCollectionValid(input_notes, MaxInputNotes)
  BY <1>4, <1>2, RuleBrokenDraft DEF BuildResult, ProvenTxErrors
<1>5. CASE ~NoteCollectionValid(output_notes, MaxOutputNotes)
  BY <1>5, <1>2, RuleBrokenDraft DEF BuildResult, ProvenTxErrors
<1>6. CASE account_id \notin OnChainIds /\ account_details # None
  BY <1>6, <1>2, RuleBrokenDraft DEF BuildResult, ProvenTxErrors
<1>7. CASE /\ DOMAIN output_note_details \ ElemsOf(output_notes) = {}
           /\ NoteCollectionValid(input_notes, MaxInputNotes)
           /\ NoteCollectionValid(output_notes, MaxOutputNotes)
           /\ account_id \in OnChainIds
           /\ ~OnChainCheck.ok
  <2>1. BuildResult = OnChainCheck
    BY <1>7 DEF BuildResult
  <2>2. account_details \in {None} \cup AccountDetailsValues
    BY DEF TypeOK
  <2>3. CASE account_details = None
    BY <1>7, <2>1, <2>3, <1>2, RuleBrokenDraft DEF OnChainCheck, ProvenTxErrors
  <2>4. CASE account_details \in FullDetails
    <3>1. account_details # None /\ account_details.kind = "Full"
      BY <2>4, DetailsAssumption DEF FullDetails, AccountDetailsValues
    <3>2. QED
      BY <1>7, <2>1, <3>1, <1>2, RuleBrokenDraft DEF OnChainCheck, ProvenTxErrors, Ok
  <2>5. CASE account_details \in DeltaDetails
    <3>1. account_details # None /\ account_details.kind = "Delta"
      BY <2>5, DetailsAssumption DEF DeltaDetails, AccountDetailsValues
    <3>2. QED
      BY <1>7, <2>1, <3>1, <1>2, RuleBrokenDraft DEF OnChainCheck, ProvenTxErrors, Ok
  <2>6. QED
    BY <2>2, <2>3, <2>4, <2>5 DEF AccountDetailsValues
<1>8. CASE BuildResult.ok
  <2>1. BuildResult = Ok(BuiltTransaction) /\ WellFormed(BuiltTransaction)
    BY <1>8, BuildOkWellFormed
  <2>2. \A r \in ProvenTxErrors : ~R[r]
    <3>1. account_details \in {None} \cup AccountDetailsValues
      BY DEF TypeOK
    <3>2. account_details # None => account_details.kind \in {"Full", "Delta"}
      BY <3>1 DEF AccountDetailsValues, FullDetails, DeltaDetails
    <3>3. /\ DOMAIN output_note_details \subseteq ElemsOf(output_notes)
          /\ NoteCollectionValid(input_notes, MaxInputNotes)
          /\ NoteCollectionValid(output_notes, MaxOutputNotes)
          /\ account_id \notin OnChainIds => account_details = None
          /\ account_id \in OnChainIds =>
                /\ account_details # None
                /\ (initial_account_hash = None) = (account_details.kind = "Full")
                /\ account_details.kind = "Full" =>
                      /\ account_details.id = account_id
                      /\ account_details.hash = final_account_hash
      BY <2>1 DEF WellFormed, BuiltTransaction, TransactionIdOf
    <3>4. QED
      BY <3>2, <3>3, RuleBrokenDraft DEF R, ProvenTxErrors
  <2>3. B = {}
    BY <2>2, RuleBrokenDraft DEF Contract!Broken
  <2>4. BuiltTransaction = Contract!Tx(Draft)
    BY DEF BuiltTransaction, Contract!Tx, Draft, NotesCommitment, TransactionIdNew,
       Contract!TransactionIdNew, HashElements, Contract!HashElements,
       UnwrapOrDefault, Contract!UnwrapOrDefault
  <2>5. QED
    BY <2>1, <2>3, <2>4 DEF Contract!Verdicts, Ok, Contract!Ok
<1>9. QED
  BY <1>3, <1>4, <1>5, <1>6, <1>7, <1>8 DEF BuildResult, Ok


(* A builder step is a step of the contract or leaves the draft and the   *)
(* verdict alone.                                                          *)
LEMMA StepRefines ==
    ASSUME TypeOK, [Next]_vars
    PROVE  [Contract!Next]_<<Draft, result>>
<1>1. ASSUME NEW s \in Seq(Nullifiers) \cup Seq(NoteIds)
      PROVE  Contract!IsPrefix(s, s)
  <2>1. s \o <<>> = s
    BY ConcatEmptySeq
  <2>2. QED
    BY <2>1, PrefixOfConcat, EmptySeq
<1> USE DEF Contract!Next, Contract!Accumulate, Draft
<1>2. CASE \E d \in AccountDetailsValues : SetAccountDetails(d)
  BY <1>2, <1>1 DEF TypeOK, SetAccountDetails
<1>3. CASE \E ns \in Batches(Nullifiers) : AddInputNotes(ns)
  <2>1. PICK ns \in Batches(Nullifiers) : AddInputNotes(ns)
    BY <1>3
  <2>2. ns \in Seq(Nullifiers)
    BY BatchesAreSeqs, BuilderAssumption
  <2>3. Contract!IsPrefix(input_notes, input_notes')
    BY <2>1, <2>2, PrefixOfConcat DEF TypeOK, AddInputNotes
  <2>4. QED
    BY <2>1, <2>3, <1>1 DEF TypeOK, AddInputNotes
<1>4. CASE \E es \in Batches(NoteIds) : AddOutputNotes(es)
  <2>1. PICK es \in Batches(NoteIds) : AddOutputNotes(es)
    BY <1>4
  <2>2. es \in Seq(NoteIds)
    BY BatchesAreSeqs, BuilderAssumption
  <2>3. Contract!IsPrefix(output_notes, output_notes')
    BY <2>1, <2>2, PrefixOfConcat DEF TypeOK, AddOutputNotes
  <2>4. QED
    BY <2>1, <2>3, <1>1 DEF TypeOK, AddOutputNotes
<1>5. CASE \E D \in SUBSET NoteIds \ {{}} : \E m \in [D -> NoteIds] :
              AddOutputNoteDetails(m)
  BY <1>5, <1>1 DEF TypeOK, AddOutputNoteDetails, ExtendMap
<1>6. CASE \E r \in ScriptRoots : SetTxScriptRoot(r)
  BY <1>6, <1>1 DEF TypeOK, SetTxScriptRoot
<1>7. CASE Build
  BY <1>7, BuildResultInVerdicts DEF Build, Contract!Decide
<1>8. CASE UNCHANGED vars
  BY <1>8 DEF vars
<1>9. QED
  BY <1>2, <1>3, <1>4, <1>5, <1>6, <1>7, <1>8 DEF Next

(* ProvenTransactionBuilder implements its contract: whatever setters are  *)
(* called, the account id and hash transition never change, nullifiers,   *)
(* envelopes and disclosed notes are only added, build decides once on the *)
(* data as accumulated (with an error naming a rule of spec 4.3 the data   *)
(* breaks, or with the transaction carrying that data), and nothing        *)
(* changes after it.                                                       *)
THEOREM BuilderImplementsContract == Spec => ImplementsContract
<1>1. Init => Contract!Init
  BY DEF Init, Contract!Init, Draft
<1>2. TypeOK /\ [Next]_vars => [Contract!Next]_<<Draft, result>>
  BY StepRefines
<1>3. QED
  BY <1>1, <1>2, TypeCorrect, PTL DEF Spec, ImplementsContract, Contract!Spec

-----------------------------------------------------------------------------
(* The fail-fast order.                                                    *)

(* A rule of spec 4.3 is violated exactly when the contract's entry for it *)
(* is TRUE.                                                                *)
LEMMA ViolatedIffBroken ==
    ASSUME TypeOK
    PROVE  \A r \in ProvenTxErrors :
              r \in ViolatedRules <=> Contract!RuleBroken(Draft)[r]
BY RuleBrokenDraft DEF ViolatedRules, Contract!Broken

(* When rule k of SpecRuleOrder is broken and none before it is, rule k is *)
(* the one FirstViolatedRule chooses.                                      *)
LEMMA FirstViolatedIs ==
    ASSUME TypeOK
    PROVE  \A k \in 1..9 :
              /\ Contract!RuleBroken(Draft)[SpecRuleOrder[k]]
              /\ \A j \in 1..(k - 1) : ~Contract!RuleBroken(Draft)[SpecRuleOrder[j]]
              => /\ ViolatedRules # {}
                 /\ FirstViolatedRule = SpecRuleOrder[k]
<1> SUFFICES ASSUME NEW k \in 1..9,
                    Contract!RuleBroken(Draft)[SpecRuleOrder[k]],
                    \A j \in 1..(k - 1) : ~Contract!RuleBroken(Draft)[SpecRuleOrder[j]]
             PROVE  /\ ViolatedRules # {}
                    /\ FirstViolatedRule = SpecRuleOrder[k]
  OBVIOUS
<1> DEFINE R == Contract!RuleBroken(Draft)
<1>1. Len(SpecRuleOrder) = 9 /\ \A i \in 1..9 : SpecRuleOrder[i] \in ProvenTxErrors
  BY DEF SpecRuleOrder, ProvenTxErrors
<1>2. \A i \in 1..9 : SpecRuleOrder[i] \in ViolatedRules <=> R[SpecRuleOrder[i]]
  BY <1>1, ViolatedIffBroken DEF R
<1>3. \A i \in 1..Len(SpecRuleOrder) :
         (/\ SpecRuleOrder[i] \in ViolatedRules
          /\ \A j \in 1..(i - 1) : SpecRuleOrder[j] \notin ViolatedRules)
         <=> i = k
  BY <1>1, <1>2 DEF R
<1>4. QED
  BY <1>1, <1>2, <1>3 DEF FirstViolatedRule, R

(* build returns what the spec's order prescribes: Ok of the accumulated   *)
(* data when no rule is broken, otherwise the first broken rule.           *)
LEMMA BuildResultFollowsSpecOrder ==
    ASSUME TypeOK
    PROVE  BuildResult = IF ViolatedRules = {} THEN Ok(BuiltTransaction)
                         ELSE Err(FirstViolatedRule)
<1> DEFINE R == Contract!RuleBroken(Draft)
           First(k) == ViolatedRules # {} /\ FirstViolatedRule = SpecRuleOrder[k]
           Checked == /\ DOMAIN output_note_details \ ElemsOf(output_notes) = {}
                      /\ NoteCollectionValid(input_notes, MaxInputNotes)
                      /\ NoteCollectionValid(output_notes, MaxOutputNotes)
<1>1. CASE BuildResult.ok
  <2>1. BuildResult = Ok(BuiltTransaction)
    BY <1>1, BuildOkWellFormed
  <2>2. Contract!Broken(Draft) = {}
    BY <2>1, BuildResultInVerdicts DEF Contract!Verdicts, Contract!Err, Ok
  <2>3. QED
    BY <2>1, <2>2 DEF ViolatedRules
<1>2. CASE DOMAIN output_note_details \ ElemsOf(output_notes) # {}
  <2>1. First(1)
    <3>1. Contract!RuleBroken(Draft)["NoteDetailsForUnknownNotes"]
      BY <1>2, RuleBrokenDraft DEF Checked
    <3>2. QED
      BY <3>1, FirstViolatedIs DEF First, SpecRuleOrder
  <2>2. QED
    BY <1>2, <2>1 DEF BuildResult, SpecRuleOrder
<1>3. CASE /\ DOMAIN output_note_details \ ElemsOf(output_notes) = {}
           /\ ~NoteCollectionValid(input_notes, MaxInputNotes)
  <2>1. First(2)
    <3>1. Contract!RuleBroken(Draft)["InputNotesError"]
      BY <1>3, RuleBrokenDraft DEF Checked
    <3>2. \A j \in 1..1 : ~Contract!RuleBroken(Draft)[SpecRuleOrder[j]]
      <4>1. ~Contract!RuleBroken(Draft)["NoteDetailsForUnknownNotes"]
        BY <1>3, RuleBrokenDraft DEF Checked
      <4>2. QED
        BY <4>1 DEF SpecRuleOrder
    <3>3. QED
      BY <3>1, <3>2, FirstViolatedIs DEF First, SpecRuleOrder
  <2>2. QED
    BY <1>3, <2>1 DEF BuildResult, SpecRuleOrder
<1>4. CASE /\ DOMAIN output_note_details \ ElemsOf(output_notes) = {}
           /\ NoteCollectionValid(input_notes, MaxInputNotes)
           /\ ~NoteCollectionValid(output_notes, MaxOutputNotes)
  <2>1. First(3)
    <3>1. Contract!RuleBroken(Draft)["OutputNotesError"]
      BY <1>4, RuleBrokenDraft DEF Checked
    <3>2. \A j \in 1..2 : ~Contract!RuleBroken(Draft)[SpecRuleOrder[j]]
      <4>1. ~Contract!RuleBroken(Draft)["NoteDetailsForUnknownNotes"]
            /\ ~Contract!RuleBroken(Draft)["InputNotesError"]
        BY <1>4, RuleBrokenDraft DEF Checked
      <4>2. QED
        BY <4>1 DEF SpecRuleOrder
    <3>3. QED
      BY <3>1, <3>2, FirstViolatedIs DEF First, SpecRuleOrder
  <2>2. QED
    BY <1>4, <2>1 DEF BuildResult, SpecRuleOrder
<1>5. CASE Checked /\ account_id \notin OnChainIds /\ account_details # None
  <2>1. First(4)
    <3>1. Contract!RuleBroken(Draft)["OffChainAccountWithDetails"]
      BY <1>5, RuleBrokenDraft DEF Checked
    <3>2. \A j \in 1..3 : ~Contract!RuleBroken(Draft)[SpecRuleOrder[j]]
      <4>1. ~Contract!RuleBroken(Draft)["NoteDetailsForUnknownNotes"]
            /\ ~Contract!RuleBroken(Draft)["InputNotesError"]
            /\ ~Contract!RuleBroken(Draft)["OutputNotesError"]
        BY <1>5, RuleBrokenDraft DEF Checked
      <4>2. QED
        BY <4>1 DEF SpecRuleOrder
    <3>3. QED
      BY <3>1, <3>2, FirstViolatedIs DEF First, SpecRuleOrder
  <2>2. QED
    BY <1>5, <2>1 DEF BuildResult, SpecRuleOrder, Checked
<1>6. CASE Checked /\ account_id \in OnChainIds /\ ~BuildResult.ok
  <2>1. BuildResult = OnChainCheck
    BY <1>6 DEF BuildResult, Checked
  <2>2. account_details # None => account_details.kind \in {"Full", "Delta"}
    BY DEF TypeOK, AccountDetailsValues, FullDetails, DeltaDetails
  <2>3. CASE account_details = None
    <3>1. First(5)
      <4>1. Contract!RuleBroken(Draft)["OnChainAccountMissingDetails"]
        BY <1>6, <2>3, RuleBrokenDraft DEF Checked
      <4>2. \A j \in 1..4 : ~Contract!RuleBroken(Draft)[SpecRuleOrder[j]]
        <5>1. ~Contract!RuleBroken(Draft)["NoteDetailsForUnknownNotes"]
              /\ ~Contract!RuleBroken(Draft)["InputNotesError"]
              /\ ~Contract!RuleBroken(Draft)["OutputNotesError"]
              /\ ~Contract!RuleBroken(Draft)["OffChainAccountWithDetails"]
          BY <1>6, <2>3, RuleBrokenDraft DEF Checked
        <5>2. QED
          BY <5>1 DEF SpecRuleOrder
      <4>3. QED
        BY <4>1, <4>2, FirstViolatedIs DEF First, SpecRuleOrder
    <3>2. QED
      BY <2>1, <2>3, <3>1 DEF OnChainCheck, SpecRuleOrder
  <2>4. CASE account_details # None /\ initial_account_hash = None
             /\ account_details.kind = "Delta"
    <3>1. First(6)
      <4>1. Contract!RuleBroken(Draft)["NewOnChainAccountRequiresFullDetails"]
        BY <1>6, <2>4, RuleBrokenDraft DEF Checked
      <4>2. \A j \in 1..5 : ~Contract!RuleBroken(Draft)[SpecRuleOrder[j]]
        <5>1. ~Contract!RuleBroken(Draft)["NoteDetailsForUnknownNotes"]
              /\ ~Contract!RuleBroken(Draft)["InputNotesError"]
              /\ ~Contract!RuleBroken(Draft)["OutputNotesError"]
              /\ ~Contract!RuleBroken(Draft)["OffChainAccountWithDetails"]
              /\ ~Contract!RuleBroken(Draft)["OnChainAccountMissingDetails"]
          BY <1>6, <2>4, RuleBrokenDraft DEF Checked
        <5>2. QED
          BY <5>1 DEF SpecRuleOrder
      <4>3. QED
        BY <4>1, <4>2, FirstViolatedIs DEF First, SpecRuleOrder
    <3>2. QED
      BY <2>1, <2>4, <3>1 DEF OnChainCheck, SpecRuleOrder
  <2>5. CASE account_details # None /\ initial_account_hash = None
             /\ account_details.kind = "Full" /\ account_details.id # account_id
    <3>1. First(7)
      <4>1. Contract!RuleBroken(Draft)["AccountIdMismatch"]
        BY <1>6, <2>5, RuleBrokenDraft DEF Checked
      <4>2. \A j \in 1..6 : ~Contract!RuleBroken(Draft)[SpecRuleOrder[j]]
        <5>1. ~Contract!RuleBroken(Draft)["NoteDetailsForUnknownNotes"]
              /\ ~Contract!RuleBroken(Draft)["InputNotesError"]
              /\ ~Contract!RuleBroken(Draft)["OutputNotesError"]
              /\ ~Contract!RuleBroken(Draft)["OffChainAccountWithDetails"]
              /\ ~Contract!RuleBroken(Draft)["OnChainAccountMissingDetails"]
              /\ ~Contract!RuleBroken(Draft)["NewOnChainAccountRequiresFullDetails"]
          BY <1>6, <2>5, RuleBrokenDraft DEF Checked
        <5>2. QED
          BY <5>1 DEF SpecRuleOrder
      <4>3. QED
        BY <4>1, <4>2, FirstViolatedIs DEF First, SpecRuleOrder
    <3>2. QED
      BY <2>1, <2>5, <3>1 DEF OnChainCheck, SpecRuleOrder
  <2>6. CASE account_details # None /\ initial_account_hash = None
             /\ account_details.kind = "Full" /\ account_details.id = account_id
             /\ account_details.hash # final_account_hash
    <3>1. First(8)
      <4>1. Contract!RuleBroken(Draft)["AccountFinalHashMismatch"]
        BY <1>6, <2>6, RuleBrokenDraft DEF Checked
      <4>2. \A j \in 1..7 : ~Contract!RuleBroken(Draft)[SpecRuleOrder[j]]
        <5>1. ~Contract!RuleBroken(Draft)["NoteDetailsForUnknownNotes"]
              /\ ~Contract!RuleBroken(Draft)["InputNotesError"]
              /\ ~Contract!RuleBroken(Draft)["OutputNotesError"]
              /\ ~Contract!RuleBroken(Draft)["OffChainAccountWithDetails"]
              /\ ~Contract!RuleBroken(Draft)["OnChainAccountMissingDetails"]
              /\ ~Contract!RuleBroken(Draft)["NewOnChainAccountRequiresFullDetails"]
              /\ ~Contract!RuleBroken(Draft)["AccountIdMismatch"]
          BY <1>6, <2>6, RuleBrokenDraft DEF Checked
        <5>2. QED
          BY <5>1 DEF SpecRuleOrder
      <4>3. QED
        BY <4>1, <4>2, FirstViolatedIs DEF First, SpecRuleOrder
    <3>2. QED
      BY <2>1, <2>6, <3>1 DEF OnChainCheck, SpecRuleOrder
  <2>7. CASE account_details # None /\ initial_account_hash # None
             /\ account_details.kind = "Full"
    <3>1. First(9)
      <4>1. Contract!RuleBroken(Draft)["ExistingOnChainAccountRequiresDeltaDetails"]
        BY <1>6, <2>7, RuleBrokenDraft DEF Checked
      <4>2. \A j \in 1..8 : ~Contract!RuleBroken(Draft)[SpecRuleOrder[j]]
        <5>1. ~Contract!RuleBroken(Draft)["NoteDetailsForUnknownNotes"]
              /\ ~Contract!RuleBroken(Draft)["InputNotesError"]
              /\ ~Contract!RuleBroken(Draft)["OutputNotesError"]
              /\ ~Contract!RuleBroken(Draft)["OffChainAccountWithDetails"]
              /\ ~Contract!RuleBroken(Draft)["OnChainAccountMissingDetails"]
              /\ ~Contract!RuleBroken(Draft)["NewOnChainAccountRequiresFullDetails"]
              /\ ~Contract!RuleBroken(Draft)["AccountIdMismatch"]
              /\ ~Contract!RuleBroken(Draft)["AccountFinalHashMismatch"]
          BY <1>6, <2>7, RuleBrokenDraft DEF Checked
        <5>2. QED
          BY <5>1 DEF SpecRuleOrder
      <4>3. QED
        BY <4>1, <4>2, FirstViolatedIs DEF First, SpecRuleOrder
    <3>2. QED
      BY <2>1, <2>7, <3>1 DEF OnChainCheck, SpecRuleOrder
  <2>8. QED
    BY <1>6, <2>1, <2>2, <2>3, <2>4, <2>5, <2>6, <2>7 DEF OnChainCheck, Ok
<1>7. CASE Checked /\ account_id \notin OnChainIds /\ account_details = None
  BY <1>7, <1>1 DEF BuildResult, Checked, Ok
<1>8. QED
  BY <1>1, <1>2, <1>3, <1>4, <1>5, <1>6, <1>7 DEF Checked

(* build is a function of the fields it reads.                             *)
LEMMA BuildResultStable ==
    ASSUME UNCHANGED <<account_id, initial_account_hash, final_account_hash,
                       account_details, input_notes, output_notes,
                       output_note_details, tx_script_root>>
    PROVE  BuildResult' = BuildResult
<1>1. BuiltTransaction' = BuiltTransaction
  BY DEF BuiltTransaction
<1>2. OnChainCheck' = OnChainCheck
  BY <1>1 DEF OnChainCheck
<1>3. /\ ElemsOf(output_notes') = ElemsOf(output_notes)
      /\ NoteCollectionValid(input_notes', MaxInputNotes)
            = NoteCollectionValid(input_notes, MaxInputNotes)
      /\ NoteCollectionValid(output_notes', MaxOutputNotes)
            = NoteCollectionValid(output_notes, MaxOutputNotes)
  OBVIOUS
<1>4. QED
  BY <1>1, <1>2, <1>3 DEF BuildResult

(* Once build has run, its result is what build returns on the fields as   *)
(* they stand: build consumes the builder, so no setter follows it.        *)
ResultIsBuild == result # None => result = BuildResult

LEMMA ResultIsBuildInductive == ResultIsBuild /\ [Next]_vars => ResultIsBuild'
<1> SUFFICES ASSUME ResultIsBuild, [Next]_vars PROVE ResultIsBuild'
  OBVIOUS
<1>1. CASE Build
  BY <1>1, BuildResultStable DEF Build, ResultIsBuild
<1>2. CASE UNCHANGED vars
  BY <1>2, BuildResultStable DEF vars, ResultIsBuild
<1>3. CASE ~Build /\ ~UNCHANGED vars
  <2>1. result' = None
    BY <1>3 DEF Next, SetAccountDetails, AddInputNotes, AddOutputNotes,
                AddOutputNoteDetails, SetTxScriptRoot
  <2>2. QED
    BY <2>1 DEF ResultIsBuild
<1>4. QED
  BY <1>1, <1>2, <1>3

(* Whatever sequence of setter calls precedes it, build reports the first *)
(* rule of spec 4.3, in the spec's order, that the accumulated data        *)
(* breaks, and succeeds with that data unchanged when it breaks none.      *)
THEOREM BuildFollowsSpecOrder == Spec => []BuildVerdictMatchesSpec
<1>1. Init => ResultIsBuild
  BY DEF Init, ResultIsBuild
<1>2. TypeOK /\ ResultIsBuild => BuildVerdictMatchesSpec
  BY BuildResultFollowsSpecOrder DEF ResultIsBuild, BuildVerdictMatchesSpec
<1>3. QED
  BY <1>1, <1>2, ResultIsBuildInductive, TypeCorrect, PTL DEF Spec

=============================================================================
