----------------------------- MODULE NoteScripts ----------------------------
(***************************************************************************)
(* The standard note templates (src/miden-lib/src/notes/mod.rs):           *)
(* create_p2id_note, create_p2idr_note and create_swap_note, driven by a   *)
(* caller that owns one random coin.                                       *)
(*                                                                         *)
(* Each template takes the coin BY VALUE (mut rng: R) and draws its serial *)
(* numbers from that copy.  The caller either moves its coin into the call *)
(* (and must make a new one afterwards) or hands over a clone (and keeps a *)
(* coin that has NOT advanced).  The coin is deterministic: the word drawn *)
(* is a function of the seed and of how many words were drawn before, so a *)
(* word is modelled as the pair [seed, pos].                               *)
(*                                                                         *)
(* Note::new, the note script handles and build_p2id_recipient are not     *)
(* under src/ and are modelled from the spec (section 3): the recipient   *)
(* digest hashes (script, inputs, serial number), the note id hashes       *)
(* (recipient, asset commitment), and the assets go through               *)
(* NoteAssets::new.  Hashes are free constructors, as in TransactionId.    *)
(***************************************************************************)
EXTENDS Naturals, Sequences

CONSTANTS
    Faucets, Amounts, NonFungibleIds, ZeroWord, MaxNumAssets, ByteModulus,
    MaxBufferAssets, OverflowChecks, None,   \* as in NoteAssets
    AccountIds,     \* sender and target account ids
    RecallHeights,  \* recall_height arguments of create_p2idr_note
    Seeds,          \* seeds a caller can make an RpoRandomCoin from
    RngModes,       \* how the caller passes its coin: "move" and/or "clone"
    FreshSeeds,     \* TRUE when a new coin is never made from a used seed
    MaxNotes        \* most template calls in a behaviour

ASSUME NoteScriptsAssumption ==
    /\ RngModes \subseteq {"move", "clone"} /\ RngModes # {}
    /\ FreshSeeds \in BOOLEAN
    /\ MaxNotes \in Nat
    /\ MaxNumAssets \in Nat   \* MAX_NUM_ASSETS

NA == INSTANCE NoteAssets WITH note_assets <- None, wire <- None, outcome <- None

(* The precompiled scripts P2ID.masb, P2IDR.masb and SWAP.masb.            *)
Scripts == {"P2ID", "P2IDR", "SWAP"}

(* Fault model: a draw that does not advance the coin.                    *)
DrawWordNoAdvance(coin) ==
    [word |-> [seed |-> coin.seed, pos |-> coin.pos], coin |-> coin]

(* FeltRng::draw_word on a coin: the word and the advanced coin.           *)
DrawWord(coin) ==
    [word |-> [seed |-> coin.seed, pos |-> coin.pos],
     coin |-> [coin EXCEPT !.pos = @ + 1]]

(* NoteRecipient digest: hash of script, inputs and serial number.         *)
Recipient(script, inputs, serial) == [recipient |-> <<script, inputs, serial>>]

(* utils::build_p2id_recipient(target, serial): the recipient of the P2ID  *)
(* note that would pay target.                                             *)
BuildP2IDRecipient(target, serial) == Recipient("P2ID", <<target, 0, 0, 0>>, serial)

(* Note::new: the assets must form a valid NoteAssets; the id hashes the   *)
(* recipient and the asset commitment.                                     *)
NoteNew(script, inputs, assets, serial, sender, tag) ==
    IF NA!NewNoteAssetsResult(assets) # "ok"
    THEN [ok |-> FALSE, err |-> NA!NewNoteAssetsResult(assets)]
    ELSE [ok |-> TRUE,
          note |-> [id |-> [noteid |-> <<Recipient(script, inputs, serial),
                                         NA!ComputeAssetCommitment(assets)>>],
                    script |-> script, inputs |-> inputs, assets |-> assets,
                    serial |-> serial, sender |-> sender, tag |-> tag,
                    repay |-> None]]

-----------------------------------------------------------------------------
VARIABLES
    rng,        \* the caller's coin, or None once moved away
    usedSeeds,  \* seeds the caller has made coins from
    notes,      \* the notes the templates returned, in order
    serials,    \* every serial number committed to a note, in order
    last        \* the result of the last template call

vars == <<rng, usedSeeds, notes, serials, last>>

Init ==
    /\ rng = None
    /\ usedSeeds = {}
    /\ notes = <<>>
    /\ serials = <<>>
    /\ last = None

(* RpoRandomCoin::new(seed), when the caller holds no coin.                *)
NewCoin(s) ==
    /\ rng = None
    /\ FreshSeeds => s \notin usedSeeds
    /\ rng' = [seed |-> s, pos |-> 0]
    /\ usedSeeds' = usedSeeds \cup {s}
    /\ UNCHANGED <<notes, serials, last>>

(* Fault model: the caller's coin survives a move unchanged (a Copy coin).  *)
CoinAfterKept(mode) == rng

(* The caller's coin after passing it by value: gone, or unchanged.        *)
CoinAfter(mode) == IF mode = "move" THEN None ELSE rng

(* The effect of a template call returning r with fresh serials ss.       *)
Return(r, ss, mode) ==
    /\ rng' = CoinAfter(mode)
    /\ notes' = IF r.ok THEN Append(notes, r.note) ELSE notes
    /\ serials' = IF r.ok THEN serials \o ss ELSE serials
    /\ last' = r
    /\ UNCHANGED usedSeeds

(* create_p2id_note: inputs [target, 0, 0, 0], tag target.                *)
CreateP2ID(sender, target, assets, mode) ==
    /\ rng # None /\ Len(notes) < MaxNotes
    /\ LET serial == DrawWord(rng).word
       IN Return(NoteNew("P2ID", <<target, 0, 0, 0>>, assets, serial, sender, target),
                 <<serial>>, mode)

(* Fault model: the tag taken from the second input.                       *)
CreateP2IDRTagHeight(sender, target, assets, height, mode) ==
    /\ rng # None /\ Len(notes) < MaxNotes
    /\ LET serial == DrawWord(rng).word
       IN Return(NoteNew("P2IDR", <<target, height, 0, 0>>, assets, serial, sender, height),
                 <<serial>>, mode)

(* create_p2idr_note: inputs [target, recall_height, 0, 0], tag target.   *)
CreateP2IDR(sender, target, assets, height, mode) ==
    /\ rng # None /\ Len(notes) < MaxNotes
    /\ LET serial == DrawWord(rng).word
       IN Return(NoteNew("P2IDR", <<target, height, 0, 0>>, assets, serial, sender, target),
                 <<serial>>, mode)

(* Fault model: the recipient built from the note's own serial number.    *)
SwapInputsFromSerial(sender, requested, repay, serial) ==
    <<BuildP2IDRecipient(sender, serial), requested, sender, 0, 0, 0>>

(* The SWAP inputs: the repay recipient, the requested asset word, the     *)
(* sender and zero padding (a digest and a word are one element here).    *)
SwapInputs(sender, requested, repay, serial) ==
    <<BuildP2IDRecipient(sender, repay), requested, sender, 0, 0, 0>>

(* create_swap_note: draw the repay serial number, build the repay         *)
(* recipient, draw the note's serial number, create the note with the      *)
(* offered asset and tag 0, and return it with the repay serial number.    *)
CreateSwap(sender, offered, requested, mode) ==
    /\ rng # None /\ Len(notes) < MaxNotes
    /\ LET first == DrawWord(rng)
           repay == first.word
           serial == DrawWord(first.coin).word
           r == NoteNew("SWAP", SwapInputs(sender, requested, repay, serial),
                        <<offered>>, serial, sender, 0)
       IN Return(IF r.ok THEN [r EXCEPT !.note.repay = repay] ELSE r,
                 <<repay, serial>>, mode)

Next ==
    \/ \E s \in Seeds : NewCoin(s)
    \/ \E mode \in RngModes, sender, target \in AccountIds :
          \/ \E assets \in NA!Lists(2) : CreateP2ID(sender, target, assets, mode)
          \/ \E assets \in NA!Lists(1), h \in RecallHeights :
                CreateP2IDR(sender, target, assets, h, mode)
    \/ \E mode \in RngModes, sender \in AccountIds, offered, requested \in NA!Assets :
          CreateSwap(sender, offered, requested, mode)

Spec == Init /\ [][Next]_vars

-----------------------------------------------------------------------------
(***************************************************************************)
(* Properties.                                                             *)
(***************************************************************************)
Words == [seed : Seeds, pos : Nat]

(* The caller's coin, the notes and the serial numbers are typed.         *)
TypeOK ==
    /\ rng \in {None} \cup [seed : Seeds, pos : Nat]
    /\ usedSeeds \subseteq Seeds
    /\ \A i \in 1..Len(notes) :
          /\ notes[i].script \in Scripts
          /\ notes[i].assets \in NA!Lists(MaxNumAssets)
          /\ notes[i].serial \in Words /\ notes[i].repay \in {None} \cup Words
          /\ notes[i].sender \in AccountIds /\ notes[i].tag \in AccountIds \cup {0}
    /\ serials \in Seq(Words)
    /\ Len(notes) <= MaxNotes

(* The template shapes of spec 4.2: P2ID and P2IDR inputs and tags name    *)
(* the target; a SWAP note carries only the offered asset, has tag 0, and  *)
(* its first input is the P2ID recipient that the returned repay serial    *)
(* number rebuilds for the sender.                                         *)
TemplateInputs ==
    \A i \in 1..Len(notes) :
        LET n == notes[i] IN
        /\ n.script \in {"P2ID", "P2IDR"} =>
              /\ n.tag = n.inputs[1]
              /\ n.script = "P2ID" => n.inputs = <<n.tag, 0, 0, 0>>
        /\ n.script = "SWAP" =>
              /\ n.tag = 0 /\ Len(n.assets) = 1
              /\ n.inputs[1] = BuildP2IDRecipient(n.sender, n.repay)
              /\ n.inputs[3] = n.sender

(* No serial number is committed twice: neither two notes nor a SWAP note  *)
(* and the P2ID note it promises share one (spec 4.2 contract).           *)
SerialNumbersFresh ==
    \A i, j \in 1..Len(serials) : serials[i] = serials[j] => i = j

(* Two template calls never return notes with the same id (spec 4.2:      *)
(* colliding serial numbers break note-id uniqueness).                    *)
NoteIdsUnique ==
    \A i, j \in 1..Len(notes) : notes[i].id = notes[j].id => i = j

=============================================================================
