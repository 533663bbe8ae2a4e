----------------------------- MODULE NoteAssets -----------------------------
(***************************************************************************)
(* NoteAssets (src/objects/src/notes/assets.rs): the asset container of a  *)
(* note, its memoised commitment (a OnceCell filled on first read), its    *)
(* padded element form, and its byte encoding: one byte holding count-1    *)
(* followed by the assets.                                                 *)
(*                                                                         *)
(* An asset is one word; the model works at word granularity (the code's  *)
(* WORD_SIZE = 4 felts per word is a constant factor).  A word that is not *)
(* an asset, the all-zero word, pads odd lists.  The RPO hasher is a free  *)
(* constructor, as in TransactionId.  The byte is a scaled-down u8: the    *)
(* integer ByteModulus plays 256 and MaxNumAssets plays 255.               *)
(***************************************************************************)
EXTENDS Naturals, Sequences

CONSTANTS
    Faucets,        \* faucet ids of fungible assets
    Amounts,        \* amounts of fungible assets
    NonFungibleIds, \* non-fungible assets (their full word)
    ZeroWord,       \* Word::default()
    MaxNumAssets,   \* NoteAssets::MAX_NUM_ASSETS (255)
    ByteModulus,    \* 2^8: the width of the count byte
    MaxBufferAssets,\* most assets an adversarial buffer carries
    OverflowChecks, \* TRUE in debug builds: u8 overflow panics
    None            \* OnceCell empty / nothing yet

ASSUME NoteAssetsAssumption ==
    /\ MaxNumAssets \in Nat \ {0}
    /\ ByteModulus \in Nat /\ MaxNumAssets < ByteModulus
    /\ MaxBufferAssets \in Nat
    /\ OverflowChecks \in BOOLEAN

Fungible == [faucet : Faucets, amount : Amounts]
NonFungible == [nft : NonFungibleIds]
Assets == Fungible \cup NonFungible

(* None (an empty OnceCell, no container yet) is neither an asset list    *)
(* nor a container.                                                       *)
ASSUME NoneAssumption ==
    None \notin Seq(Assets) \cup
                 [assets : Seq(Assets),
                  hash : {None} \cup [rpo : Seq(Assets \cup {ZeroWord})]]

(* Asset::is_same: same faucet for fungible assets, equality otherwise.   *)
IsSame(a, b) ==
    IF a \in Fungible /\ b \in Fungible THEN a.faucet = b.faucet ELSE a = b

NoteErrors == {"EmptyAssetList", "TooManyAssets", "DuplicateFungibleAsset",
               "DuplicateNonFungibleAsset"}

Lists(n) == UNION {[1..k -> Assets] : k \in 0..n}

(* The error NoteAssets::new returns, or "ok".  The uniqueness loop        *)
(* reports the first index i with a later asset that is the same.         *)
NewNoteAssetsResult(assets) ==
    LET dup == {i \in 1..Len(assets) :
                  \E j \in (i + 1)..Len(assets) : IsSame(assets[j], assets[i])}
        first == CHOOSE i \in dup : \A k \in dup : i <= k
    IN IF Len(assets) = 0 THEN "EmptyAssetList"
       ELSE IF Len(assets) > MaxNumAssets THEN "TooManyAssets"
       ELSE IF dup # {}
            THEN IF assets[first] \in Fungible THEN "DuplicateFungibleAsset"
                 ELSE "DuplicateNonFungibleAsset"
       ELSE "ok"

(* One zero word appended to an odd list.                                  *)
PadToEven(assets) ==
    IF Len(assets) % 2 = 0 THEN assets ELSE Append(assets, ZeroWord)

(* Fault model: the parity test inverted.                                 *)
ToPaddedAssetsSwapped(assets) ==
    LET paddedLen == IF Len(assets) % 2 = 1 THEN Len(assets) ELSE Len(assets) + 1
    IN [i \in 1..paddedLen |-> IF i <= Len(assets) THEN assets[i] ELSE ZeroWord]

(* to_padded_assets: padded_len is len rounded up to even, and the asset   *)
(* words are resized to it with zeros.                                     *)
ToPaddedAssets(assets) ==
    LET paddedLen == IF Len(assets) % 2 = 0 THEN Len(assets) ELSE Len(assets) + 1
    IN [i \in 1..paddedLen |-> IF i <= Len(assets) THEN assets[i] ELSE ZeroWord]

(* compute_asset_commitment: Hasher::hash_elements of the asset words,     *)
(* extended with one zero word when their number is odd.                   *)
ComputeAssetCommitment(assets) == [rpo |-> PadToEven(assets)]

(* Fault model: the count written without the - 1.                         *)
WriteIntoFullCount(assets) == [count |-> Len(assets) % ByteModulus, body |-> assets]

(* write_into: the byte (len - 1) as u8, then the assets.                 *)
WriteInto(assets) == [count |-> (Len(assets) - 1) % ByteModulus, body |-> assets]

(* A buffer as read_from sees it: a count byte and the assets that follow. *)
Buffers == [count : 0..(ByteModulus - 1), body : Lists(MaxBufferAssets)]

(* Fault model: the decoded list trusted without re-running new.           *)
ReadFromResultTrusting(buf) ==
    LET count == (buf.count + 1) % ByteModulus
    IN IF buf.count + 1 >= ByteModulus /\ OverflowChecks THEN [kind |-> "panic"]
       ELSE IF Len(buf.body) < count THEN [kind |-> "UnexpectedEOF"]
       ELSE [kind |-> "ok", assets |-> SubSeq(buf.body, 1, count)]

(* read_from: read_u8()? + 1 in u8 arithmetic (panics on overflow when     *)
(* overflow checks are on, wraps otherwise), read that many assets, and    *)
(* re-run NoteAssets::new on them.                                         *)
ReadFromResult(buf) ==
    LET count == (buf.count + 1) % ByteModulus
    IN IF buf.count + 1 >= ByteModulus /\ OverflowChecks THEN [kind |-> "panic"]
       ELSE IF Len(buf.body) < count THEN [kind |-> "UnexpectedEOF"]
       ELSE LET assets == SubSeq(buf.body, 1, count)
            IN IF NewNoteAssetsResult(assets) = "ok"
               THEN [kind |-> "ok", assets |-> assets]
               ELSE [kind |-> "InvalidValue"]

-----------------------------------------------------------------------------
VARIABLES
    note_assets,   \* None, or the live container [assets, hash]
    wire,          \* the bytes last written by write_into, or None
    outcome        \* what the last call returned

vars == <<note_assets, wire, outcome>>

Init ==
    /\ note_assets = None
    /\ wire = None
    /\ outcome = None

(* Fault model: the error of new ignored.                                  *)
NewIgnoringError(assets) ==
    LET r == NewNoteAssetsResult(assets)
    IN /\ note_assets' = [assets |-> assets, hash |-> None]
       /\ outcome' = [op |-> "new", res |-> r]
       /\ UNCHANGED wire

(* Fault model: the new container inherits the previous cache.           *)
NewKeepingCache(assets) ==
    LET r == NewNoteAssetsResult(assets)
    IN /\ note_assets' =
            IF r = "ok"
            THEN [assets |-> assets,
                  hash |-> IF note_assets = None THEN None ELSE note_assets.hash]
            ELSE note_assets
       /\ outcome' = [op |-> "new", res |-> r]
       /\ UNCHANGED wire

(* NoteAssets::new: a fresh container with an empty OnceCell, or an error. *)
New(assets) ==
    LET r == NewNoteAssetsResult(assets)
    IN /\ note_assets' = IF r = "ok" THEN [assets |-> assets, hash |-> None]
                         ELSE note_assets
       /\ outcome' = [op |-> "new", res |-> r]
       /\ UNCHANGED wire

(* NoteAssets::commitment: get_or_init on the OnceCell.                   *)
Commitment ==
    /\ note_assets # None
    /\ LET h == IF note_assets.hash = None
                THEN ComputeAssetCommitment(note_assets.assets)
                ELSE note_assets.hash
       IN /\ note_assets' = [note_assets EXCEPT !.hash = h]
          /\ outcome' = [op |-> "commitment", res |-> h]
    /\ UNCHANGED wire

(* Serializable::write_into.                                              *)
Write ==
    /\ note_assets # None
    /\ wire' = WriteInto(note_assets.assets)
    /\ outcome' = [op |-> "write", res |-> wire']
    /\ UNCHANGED note_assets

(* Deserializable::read_from of the bytes last written, or of any buffer   *)
(* an adversary sends; a decoded container starts with an empty cache.    *)
Read(buf) ==
    LET r == ReadFromResult(buf)
    IN /\ note_assets' = IF r.kind = "ok" THEN [assets |-> r.assets, hash |-> None]
                         ELSE note_assets
       /\ outcome' = [op |-> "read", res |-> r]
       /\ UNCHANGED wire

Next ==
    \/ \E assets \in Lists(MaxNumAssets + 1) : New(assets)
    \/ Commitment
    \/ Write
    \/ \E buf \in Buffers : Read(buf)
    \/ wire # None /\ Read(wire)

Spec == Init /\ [][Next]_vars

-----------------------------------------------------------------------------
(***************************************************************************)
(* Properties.                                                             *)
(***************************************************************************)
Words == Assets \cup {ZeroWord}

(* The live container, the written bytes and the last outcome are typed.  *)
TypeOK ==
    /\ note_assets \in {None} \cup
          [assets : Lists(MaxNumAssets), hash : {None} \cup [rpo : Seq(Words)]]
    /\ wire \in {None} \cup [count : 0..(ByteModulus - 1), body : Lists(MaxNumAssets)]
    /\ outcome = None \/ outcome.op \in {"new", "commitment", "write", "read"}

(* The reference rule of spec 4.1: a list is accepted exactly when it is   *)
(* non-empty, has at most MaxNumAssets entries and no two are the same     *)
(* asset.                                                                  *)
ValidAssetList(assets) ==
    /\ 1 <= Len(assets) /\ Len(assets) <= MaxNumAssets
    /\ \A i, j \in 1..Len(assets) : i # j => ~IsSame(assets[i], assets[j])

(* Every container alive, whether built by new or decoded from bytes an    *)
(* adversary chose, satisfies the construction rules: decoding re-runs the *)
(* checks instead of trusting the count byte (spec 7).                     *)
LiveAssetsValid == note_assets # None => ValidAssetList(note_assets.assets)

(* The OnceCell never holds a digest other than the commitment of the      *)
(* assets it sits beside, across construction, decoding and reads.         *)
CommitmentCacheCoherent ==
    note_assets # None /\ note_assets.hash # None =>
        note_assets.hash = ComputeAssetCommitment(note_assets.assets)

(* "hashing the returned elements results in the note asset commitment":   *)
(* to_padded_assets and compute_asset_commitment pad the same way, and the *)
(* padded length is a whole number of hasher rates (two words).            *)
PaddedAgreesWithCommitment ==
    note_assets # None =>
        /\ [rpo |-> ToPaddedAssets(note_assets.assets)]
              = ComputeAssetCommitment(note_assets.assets)
        /\ Len(ToPaddedAssets(note_assets.assets)) % 2 = 0

(* Bytes written by write_into decode to the same asset list.             *)
WireRoundTrip ==
    wire # None =>
        /\ ReadFromResult(wire).kind = "ok"
        /\ ReadFromResult(wire).assets = wire.body

(* Decoding bytes received from the network returns a value or an error,   *)
(* never a panic (spec 7).                                                 *)
ReadNeverPanics ==
    outcome # None /\ outcome.op = "read" => outcome.res.kind # "panic"

-----------------------------------------------------------------------------
(***************************************************************************)
(* Refinement.  The contract sees the asset list of the live container,    *)
(* never its OnceCell, and the bytes and replies as they are.              *)
(***************************************************************************)
LiveList == IF note_assets = None THEN None ELSE note_assets.assets

Contract == INSTANCE NoteAssetsContract WITH live <- LiveList, bytes <- wire,
                                             reply <- outcome

(* In a release build (no overflow checks) the container implements its    *)
(* contract: every call of new, commitment, write_into and read_from is a  *)
(* step of NoteAssetsContract, so the OnceCell cache is invisible and      *)
(* commitment() always answers the hash of the current list, write_into    *)
(* writes the exact count and read_from installs only accepted lists.      *)
ImplementsAssetsContract == Contract!CSpec

=============================================================================
