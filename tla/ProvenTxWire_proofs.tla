------------------------- MODULE ProvenTxWire_proofs ------------------------
(***************************************************************************)
(* Proofs about the wire encoding of ProvenTransaction: what the prover    *)
(* sends untampered, the receiver decodes to the very transaction build    *)
(* returned, in debug and in release builds, for every value of the        *)
(* constants.                                                              *)
(***************************************************************************)
EXTENDS ProvenTxWire, ProvenTxBuilder_proofs

(* The wire scenario runs the builder unchanged: every wire behaviour is a *)
(* builder behaviour.                                                      *)
LEMMA WireRunsBuilder == WireSpec => Spec
<1>1. WireInit => Init
  BY DEF WireInit
<1>2. [WireNext]_allVars => [Next]_vars
  BY DEF WireNext, ProverStep, Send, Forge, Receive, allVars, vars
<1>3. QED
  BY <1>1, <1>2, PTL DEF WireSpec, Spec

(* AccountDetails::read_from inverts AccountDetails::write_into.          *)
LEMMA DetailsRoundTrip ==
    ASSUME NEW d \in AccountDetailsValues
    PROVE  /\ WriteDetails(d) \in WireAccountDetails
           /\ WriteDetails(d) # None
           /\ WriteDetails(d).disc \in {0, 1}
           /\ ReadDetails(WriteDetails(d)) = d
<1>1. CASE d \in FullDetails
  <2>1. d # None /\ d.kind = "Full"
    BY <1>1, DetailsAssumption DEF FullDetails, AccountDetailsValues
  <2>2. WriteDetails(d) = [disc |-> 0, id |-> d.id, hash |-> d.hash]
    BY <2>1 DEF WriteDetails
  <2>3. WriteDetails(d) \in WireAccountDetails
    BY <1>1, <2>2 DEF FullDetails, WireAccountDetails
  <2>4. QED
    BY <1>1, <2>2, <2>3, WireAssumption DEF FullDetails, ReadDetails
<1>2. CASE d \in DeltaDetails
  <2>1. d # None /\ d.kind = "Delta"
    BY <1>2, DetailsAssumption DEF DeltaDetails, AccountDetailsValues
  <2>2. WriteDetails(d) = [disc |-> 1, delta |-> d.delta]
    BY <2>1 DEF WriteDetails
  <2>3. WriteDetails(d) \in WireAccountDetails
    BY <1>2, <2>2 DEF DeltaDetails, WireAccountDetails
  <2>4. QED
    BY <1>2, <2>2, <2>3, WireAssumption DEF DeltaDetails, ReadDetails
<1>3. QED
  BY <1>1, <1>2 DEF AccountDetailsValues

(* ProvenTransaction::read_from inverts ProvenTransaction::write_into on   *)
(* every transaction build returns: no decode error, no debug panic, and   *)
(* the recomputed id is the one build stamped.                             *)
LEMMA TxRoundTrip ==
    ASSUME TypeOK, result # None, result.ok, WellFormed(result.tx)
    PROVE  ReadFrom(WriteInto(result.tx)) = [kind |-> "ok", tx |-> result.tx]
<1> DEFINE tx == result.tx
           buf == WriteInto(tx)
<1>1. tx \in ProvenTransactions
  BY DEF TypeOK
<1>2. /\ buf.account_details = WriteDetails(tx.account_details)
      /\ buf.initial_account_hash = tx.initial_account_hash
      /\ buf.final_account_hash = tx.final_account_hash
      /\ buf.input_notes = tx.input_notes
      /\ buf.output_notes = tx.output_notes
  BY DEF WriteInto
<1>3. /\ ~(buf.account_details # None /\ buf.account_details.disc \notin {0, 1})
      /\ (IF buf.account_details = None THEN None
          ELSE ReadDetails(buf.account_details)) = tx.account_details
  <2>1. CASE tx.account_details = None
    BY <1>2, <2>1 DEF WriteDetails
  <2>2. CASE tx.account_details # None
    <3>1. tx.account_details \in AccountDetailsValues
      BY <1>1, <2>2 DEF ProvenTransactions
    <3>2. QED
      BY <1>2, <3>1, DetailsRoundTrip
  <2>3. QED
    BY <2>1, <2>2
<1>4. /\ NoteCollectionValid(buf.input_notes, MaxInputNotes)
      /\ NoteCollectionValid(buf.output_notes, MaxOutputNotes)
  BY <1>2 DEF WellFormed
<1>5. TransactionIdPrecondition(buf.initial_account_hash)
  BY <1>1, <1>2, SentinelAssumption DEF ProvenTransactions, TransactionIdPrecondition
<1>6. TransactionIdNew(buf.initial_account_hash, buf.final_account_hash,
                      NotesCommitment(buf.input_notes),
                      NotesCommitment(buf.output_notes)) = tx.id
  BY <1>2 DEF WellFormed, TransactionIdOf
<1>7. tx = [id |-> tx.id, account_id |-> tx.account_id,
            initial_account_hash |-> tx.initial_account_hash,
            final_account_hash |-> tx.final_account_hash,
            account_details |-> tx.account_details,
            input_notes |-> tx.input_notes, output_notes |-> tx.output_notes,
            output_note_details |-> tx.output_note_details,
            tx_script_root |-> tx.tx_script_root]
  BY <1>1 DEF ProvenTransactions
<1>8. QED
  BY <1>3, <1>4, <1>5, <1>6, <1>7 DEF ReadFrom, WriteInto

-----------------------------------------------------------------------------
(* The inductive strengthening of DecodeRoundTrip: bytes are in flight or  *)
(* decoded only after build succeeded, and while no adversary touched them *)
(* they are what write_into produced and decode to what build returned.    *)
WireRoundTripInv ==
    /\ forged \in BOOLEAN
    /\ net # None \/ received # None => result # None /\ result.ok
    /\ net # None /\ ~forged => net = WriteInto(result.tx)
    /\ received # None /\ ~forged => received = [kind |-> "ok", tx |-> result.tx]

(* Every builder step happens before build: build(mut self) consumes the  *)
(* builder, so no setter and no second build follows it.                   *)
LEMMA BuilderStepsBeforeBuild == Next => result = None
BY DEF Next, SetAccountDetails, AddInputNotes, AddOutputNotes,
   AddOutputNoteDetails, SetTxScriptRoot, Build

(* A ProvenTransaction that crosses the network untouched is decoded by    *)
(* ProvenTransaction::read_from to exactly the transaction build returned, *)
(* id included, in debug and release builds alike: the serialise and      *)
(* deserialise step the integration test performs before verification.     *)
THEOREM WireDecodeRoundTrip == WireSpec => []DecodeRoundTrip
<1>1. WireInit => WireRoundTripInv
  BY DEF WireInit, WireRoundTripInv
<1>2. TypeOK /\ BuiltTxWellFormed /\ WireRoundTripInv /\ [WireNext]_allVars
        => WireRoundTripInv'
  <2> SUFFICES ASSUME TypeOK, BuiltTxWellFormed, WireRoundTripInv,
                      [WireNext]_allVars
               PROVE  WireRoundTripInv'
    OBVIOUS
  <2>1. CASE ProverStep
    <3>1. result = None
      BY <2>1, BuilderStepsBeforeBuild DEF ProverStep
    <3>2. net = None /\ received = None
      BY <3>1 DEF WireRoundTripInv
    <3>3. QED
      BY <2>1, <3>2 DEF ProverStep, wireVars, WireRoundTripInv
  <2>2. CASE Send
    BY <2>2 DEF Send, vars, WireRoundTripInv
  <2>3. CASE \E f \in DOMAIN WireFieldValues : \E v \in WireFieldValues[f] : Forge(f, v)
    BY <2>3 DEF Forge, vars, WireRoundTripInv
  <2>4. CASE Receive
    <3>1. result # None /\ result.ok
      BY <2>4 DEF Receive, WireRoundTripInv
    <3>2. ~forged => ReadFrom(net) = [kind |-> "ok", tx |-> result.tx]
      <4>1. SUFFICES ASSUME ~forged
                     PROVE  ReadFrom(net) = [kind |-> "ok", tx |-> result.tx]
        OBVIOUS
      <4>2. net = WriteInto(result.tx)
        BY <2>4, <4>1 DEF Receive, WireRoundTripInv
      <4>3. WellFormed(result.tx)
        BY <3>1 DEF BuiltTxWellFormed
      <4>4. QED
        BY <3>1, <4>2, <4>3, TxRoundTrip
    <3>3. QED
      BY <2>4, <3>1, <3>2 DEF Receive, vars, WireRoundTripInv
  <2>5. CASE UNCHANGED allVars
    BY <2>5 DEF allVars, vars, wireVars, WireRoundTripInv
  <2>6. QED
    BY <2>1, <2>2, <2>3, <2>4, <2>5 DEF WireNext
<1>3. WireRoundTripInv => DecodeRoundTrip
  BY DEF WireRoundTripInv, DecodeRoundTrip
<1>4. QED
  BY <1>1, <1>2, <1>3, WireRunsBuilder, TypeCorrect, BuildOnlyWellFormed,
     PTL DEF WireSpec


-----------------------------------------------------------------------------
(* The part of WireTypeOK about the wire: the bytes in flight carry a      *)
(* value of its type in every field, and a decode outcome is one of the    *)
(* results of read_from.                                                   *)
NetTyped ==
    /\ net = None
       \/ /\ DOMAIN net = DOMAIN WireFieldValues
          /\ \A f \in DOMAIN WireFieldValues : net[f] \in WireFieldValues[f]
    /\ forged \in BOOLEAN
    /\ received = None
       \/ received.kind \in {"ok", "InvalidValue", "InputNotesError",
                             "OutputNotesError", "panic"}

(* ProvenTransaction::write_into puts every field of a transaction build   *)
(* returned in the range the wire allows for it.                           *)
LEMMA WriteIntoTyped ==
    ASSUME NEW tx \in ProvenTransactions, WellFormed(tx)
    PROVE  /\ DOMAIN WriteInto(tx) = DOMAIN WireFieldValues
           /\ \A f \in DOMAIN WireFieldValues : WriteInto(tx)[f] \in WireFieldValues[f]
<1>1. WriteDetails(tx.account_details) \in WireDetails
  <2>1. CASE tx.account_details = None
    BY <2>1 DEF WriteDetails, WireDetails
  <2>2. CASE tx.account_details # None
    BY <2>2, DetailsRoundTrip DEF ProvenTransactions, WireDetails
  <2>3. QED
    BY <2>1, <2>2
<1>2. /\ tx.input_notes \in UNION {[1..k -> Nullifiers] : k \in 0..InputNotesBound}
      /\ tx.output_notes \in UNION {[1..k -> NoteIds] : k \in 0..OutputNotesBound}
  <2>1. /\ tx.input_notes \in Seq(Nullifiers) /\ Len(tx.input_notes) <= MaxInputNotes
        /\ tx.output_notes \in Seq(NoteIds) /\ Len(tx.output_notes) <= MaxOutputNotes
    BY DEF ProvenTransactions, WellFormed, NoteCollectionValid
  <2>2. QED
    BY <2>1, BuilderAssumption DEF InputNotesBound, OutputNotesBound
<1>3. QED
  BY <1>1, <1>2 DEF ProvenTransactions, WriteInto, WireFieldValues

(* Every state of the wire scenario is well typed: the builder's fields,   *)
(* the bytes in flight, honest or forged field by field, and what          *)
(* read_from returned.                                                     *)
THEOREM WireTypeCorrect == WireSpec => []WireTypeOK
<1>1. WireInit => NetTyped
  BY DEF WireInit, NetTyped
<1>2. TypeOK /\ BuiltTxWellFormed /\ NetTyped /\ [WireNext]_allVars => NetTyped'
  <2> SUFFICES ASSUME TypeOK, BuiltTxWellFormed, NetTyped, [WireNext]_allVars
               PROVE  NetTyped'
    OBVIOUS
  <2>1. CASE ProverStep
    BY <2>1 DEF ProverStep, wireVars, NetTyped
  <2>2. CASE Send
    <3>1. result.tx \in ProvenTransactions /\ WellFormed(result.tx)
      BY <2>2 DEF Send, TypeOK, BuiltTxWellFormed
    <3>2. QED
      BY <2>2, <3>1, WriteIntoTyped DEF Send, NetTyped
  <2>3. ASSUME NEW f \in DOMAIN WireFieldValues, NEW v \in WireFieldValues[f],
               Forge(f, v)
        PROVE  NetTyped'
    <3>1. net # None /\ net' = [net EXCEPT ![f] = v] /\ forged' = TRUE
          /\ received' = received
      BY <2>3 DEF Forge
    <3>2. QED
      BY <3>1 DEF NetTyped
  <2>4. CASE Receive
    BY <2>4 DEF Receive, ReadFrom, NetTyped
  <2>5. CASE UNCHANGED allVars
    BY <2>5 DEF allVars, wireVars, NetTyped
  <2>6. QED
    BY <2>1, <2>2, <2>3, <2>4, <2>5 DEF WireNext
<1>3. QED
  BY <1>1, <1>2, WireRunsBuilder, TypeCorrect, BuildOnlyWellFormed,
     PTL DEF WireSpec, WireTypeOK, NetTyped

=============================================================================
