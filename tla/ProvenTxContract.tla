------------------------- MODULE ProvenTxContract --------------------------
(***************************************************************************)
(* What a ProvenTransactionBuilder promises, independent of how build      *)
(* orders its checks (spec sections 3, 4.3 and 5).                         *)
(*                                                                         *)
(* The builder holds a draft: the account id and hash transition are       *)
(* fixed when it is created, nullifiers and note envelopes are only ever   *)
(* appended, disclosed note details only ever added, and the details and   *)
(* script root may be (re)set.  The terminal build decides once: an error  *)
(* naming SOME rule of 4.3 the draft breaks, or, when it breaks none, the  *)
(* transaction that carries the draft unchanged, stamped with its id.      *)
(* After the decision nothing changes any more.  Which broken rule is      *)
(* reported is left open here; the fail-fast order is the implementation's *)
(* choice (ProvenTxBuilder).                                               *)
(***************************************************************************)
EXTENDS TransactionId, SequencesExt

CONSTANTS
    OnChainIds,      \* accounts whose state the ledger replicates
    MaxInputNotes,   \* cap on consumed notes
    MaxOutputNotes   \* cap on produced notes

VARIABLES
    draft,    \* the builder's accumulated data, one field per builder field
    verdict   \* None until build, then its Result

Err(e) == [ok |-> FALSE, err |-> e]
Ok(tx) == [ok |-> TRUE, tx |-> tx]

(* A note collection is accepted when no element repeats and the cap holds. *)
CollectionValid(s, cap) ==
    /\ \A i, j \in 1..Len(s) : s[i] = s[j] => i = j
    /\ Len(s) <= cap

(* Each rule of spec 4.3, by the name of its error, mapped to TRUE when    *)
(* the draft d breaks it.                                                  *)
RuleBroken(d) ==
    LET onChain == d.account_id \in OnChainIds
        isNew == d.initial_account_hash = None
        full == d.account_details # None /\ d.account_details.kind = "Full"
        delta == d.account_details # None /\ d.account_details.kind = "Delta"
    IN [NoteDetailsForUnknownNotes |->
            ~(DOMAIN d.output_note_details \subseteq ToSet(d.output_notes)),
        InputNotesError |-> ~CollectionValid(d.input_notes, MaxInputNotes),
        OutputNotesError |-> ~CollectionValid(d.output_notes, MaxOutputNotes),
        OffChainAccountWithDetails |-> ~onChain /\ d.account_details # None,
        OnChainAccountMissingDetails |-> onChain /\ d.account_details = None,
        NewOnChainAccountRequiresFullDetails |-> onChain /\ isNew /\ delta,
        AccountIdMismatch |->
            onChain /\ isNew /\ full /\ d.account_details.id # d.account_id,
        AccountFinalHashMismatch |->
            onChain /\ isNew /\ full /\ d.account_details.hash # d.final_account_hash,
        ExistingOnChainAccountRequiresDeltaDetails |-> onChain /\ ~isNew /\ full]

Broken(d) == {r \in DOMAIN RuleBroken(d) : RuleBroken(d)[r]}

(* The transaction that carries the draft, with its id (spec 4.4).        *)
Tx(d) ==
    [id |-> TransactionIdNew(d.initial_account_hash, d.final_account_hash,
                             HashElements(d.input_notes),
                             HashElements(d.output_notes)),
     account_id |-> d.account_id,
     initial_account_hash |-> d.initial_account_hash,
     final_account_hash |-> d.final_account_hash,
     account_details |-> d.account_details,
     input_notes |-> d.input_notes,
     output_notes |-> d.output_notes,
     output_note_details |-> d.output_note_details,
     tx_script_root |-> d.tx_script_root]

(* The verdicts build may return on the draft d.                          *)
Verdicts(d) ==
    IF Broken(d) = {} THEN {Ok(Tx(d))} ELSE {Err(r) : r \in Broken(d)}

-----------------------------------------------------------------------------
Init ==
    /\ verdict = None
    /\ draft.account_details = None
    /\ draft.input_notes = <<>>
    /\ draft.output_notes = <<>>
    /\ DOMAIN draft.output_note_details = {}
    /\ draft.tx_script_root = None

(* A setter: the fixed fields stay, the collections only grow.             *)
Accumulate ==
    /\ verdict = None
    /\ draft'.account_id = draft.account_id
    /\ draft'.initial_account_hash = draft.initial_account_hash
    /\ draft'.final_account_hash = draft.final_account_hash
    /\ IsPrefix(draft.input_notes, draft'.input_notes)
    /\ IsPrefix(draft.output_notes, draft'.output_notes)
    /\ DOMAIN draft.output_note_details \subseteq DOMAIN draft'.output_note_details
    /\ verdict' = None

(* build: one verdict, on the draft as it stands.                          *)
Decide ==
    /\ verdict = None
    /\ verdict' \in Verdicts(draft)
    /\ draft' = draft

Next == Accumulate \/ Decide

Spec == Init /\ [][Next]_<<draft, verdict>>

=============================================================================
