----------------------- MODULE NoteAssetsContract_proofs -----------------------
(***************************************************************************)
(* NoteAssets implements NoteAssetsContract in a release build, for every  *)
(* set of faucets, amounts and non-fungible assets and every byte width    *)
(* that satisfies NoteAssetsAssumption.  The argument is a step            *)
(* simulation under the invariant NAInv of NoteAssets_proofs: each call is *)
(* the contract's call of the same name, the OnceCell is invisible because *)
(* the cache is coherent, and the count byte is exact because a live list  *)
(* is shorter than ByteModulus.                                            *)
(***************************************************************************)
EXTENDS NoteAssets_proofs

-----------------------------------------------------------------------------
(* Asset::is_same and the contract's SameAsset agree on assets: only      *)
(* fungible assets have a faucet field.                                    *)
LEMMA SameAssetIsSame ==
    ASSUME NEW x \in Assets, NEW y \in Assets
    PROVE  Contract!SameAsset(x, y) = IsSame(x, y)
<1>1. \A z \in Fungible : "faucet" \in DOMAIN z
  BY DEF Fungible
<1>2. \A z \in NonFungible : "faucet" \notin DOMAIN z
  BY DEF NonFungible
<1>3. QED
  BY <1>1, <1>2 DEF Contract!SameAsset, IsSame, Assets

(* A list the reference rule accepts is one the contract accepts.         *)
LEMMA AcceptedIfValid ==
    ASSUME NEW a \in Seq(Assets), ValidAssetList(a)
    PROVE  Contract!Accepted(a)
<1>1. a \in Seq(Contract!AssetValues)
  BY DEF Contract!AssetValues, Assets, Fungible, NonFungible
<1>2. Len(a) \in 1..MaxNumAssets
  BY LenProperties DEF ValidAssetList
<1>3. ASSUME NEW i \in 1..Len(a), NEW j \in 1..Len(a),
             Contract!SameAsset(a[i], a[j])
      PROVE  i = j
  <2>1. a[i] \in Assets /\ a[j] \in Assets
    BY ElementOfSeq
  <2>2. IsSame(a[i], a[j])
    BY <1>3, <2>1, SameAssetIsSame
  <2>3. QED
    BY <2>2 DEF ValidAssetList
<1>4. QED
  BY <1>1, <1>2, <1>3 DEF Contract!Accepted

(* compute_asset_commitment is the contract's commitment: Append of one    *)
(* zero word to an odd list is concatenation with <<ZeroWord>>.            *)
LEMMA CommitIsComputed ==
    ASSUME NEW a \in Seq(Assets)
    PROVE  Contract!Commit(a) = ComputeAssetCommitment(a)
<1>1. a \in Seq(Words) /\ ZeroWord \in Words
  BY SeqMonotonic DEF Words
<1>2. Append(a, ZeroWord) = a \o <<ZeroWord>>
  BY <1>1, AppendIsConcat
<1>3. (Len(a) % 2 = 1) <=> ~(Len(a) % 2 = 0)
  BY LenProperties
<1>4. QED
  BY <1>2, <1>3 DEF Contract!Commit, ComputeAssetCommitment, PadToEven

(* new refuses a list with one of its four errors.                        *)
LEMMA NewResults ==
    ASSUME NEW a
    PROVE  NewNoteAssetsResult(a) \in Contract!NewErrors \cup {"ok"}
BY DEF NewNoteAssetsResult, Contract!NewErrors

(* Without overflow checks read_from fails only with UnexpectedEOF or     *)
(* InvalidValue.                                                           *)
LEMMA ReadResults ==
    ASSUME ~OverflowChecks, NEW buf, ReadFromResult(buf).kind # "ok"
    PROVE  ReadFromResult(buf) \in [kind : Contract!ReadErrors]
BY DEF ReadFromResult, Contract!ReadErrors

(* The contract's view of a live container is its list.                   *)
LEMMA LiveListOf ==
    ASSUME NAInv
    PROVE  note_assets # None =>
               /\ LiveList = note_assets.assets
               /\ LiveList # None
               /\ LiveList \in Seq(Assets)
               /\ ValidAssetList(LiveList)
<1> SUFFICES ASSUME note_assets # None
             PROVE  /\ LiveList = note_assets.assets
                    /\ LiveList # None
                    /\ LiveList \in Seq(Assets)
                    /\ ValidAssetList(LiveList)
  OBVIOUS
<1>1. note_assets.assets \in Seq(Assets)
  BY ListsAreSeqs, NoteAssetsAssumption DEF NAInv, TypeOK
<1>2. ValidAssetList(note_assets.assets)
  BY DEF NAInv, LiveAssetsValid
<1>3. QED
  BY <1>1, <1>2, NoneAssumption DEF LiveList

(* A container, with an empty or a filled cell, is seen as its list.      *)
LEMMA ContainerList ==
    ASSUME NEW c \in [assets : Seq(Assets), hash : {None} \cup [rpo : Seq(Words)]]
    PROVE  c # None /\ c.assets # None
BY NoneAssumption DEF Words

(* A step of NoteAssets from a state of NAInv, in a release build, is a   *)
(* step of the contract or leaves its view unchanged.                     *)
LEMMA ReadSimulates ==
    ASSUME NAInv, ~OverflowChecks, NEW buf, buf.body \in Seq(Assets),
           buf.count \in Nat, Read(buf)
    PROVE  Contract!CRead
<1> DEFINE r == ReadFromResult(buf)
<1>1. CASE r.kind = "ok"
  <2>1. r.assets \in Seq(Assets) /\ ValidAssetList(r.assets)
    BY <1>1, ReadOkValid
  <2>2. r = [kind |-> "ok", assets |-> r.assets]
    BY <1>1 DEF ReadFromResult
  <2>3. note_assets' = [assets |-> r.assets, hash |-> None]
    BY <1>1 DEF Read
  <2>4. LiveList' = r.assets /\ LiveList' # None
    BY <2>1, <2>3, ContainerList DEF LiveList
  <2>5. Contract!Accepted(r.assets)
    BY <2>1, AcceptedIfValid
  <2>6. outcome' = [op |-> "read", res |-> r] /\ UNCHANGED wire
    BY DEF Read
  <2>7. QED
    BY <2>2, <2>4, <2>5, <2>6 DEF Contract!CRead
<1>2. CASE r.kind # "ok"
  <2>1. r \in [kind : Contract!ReadErrors]
    BY <1>2, ReadResults
  <2>2. note_assets' = note_assets /\ outcome' = [op |-> "read", res |-> r]
        /\ UNCHANGED wire
    BY <1>2 DEF Read
  <2>3. QED
    BY <2>1, <2>2 DEF Contract!CRead, LiveList
<1>3. QED
  BY <1>1, <1>2

LEMMA StepSimulates ==
    ASSUME NAInv, ~OverflowChecks, [Next]_vars
    PROVE  [Contract!CNext]_Contract!cvars
<1>1. ASSUME NEW assets \in Lists(MaxNumAssets + 1), New(assets)
      PROVE  Contract!CNew
  <2>1. assets \in Seq(Assets)
    BY ListsAreSeqs, NoteAssetsAssumption
  <2>2. CASE NewNoteAssetsResult(assets) = "ok"
    <3>1. ValidAssetList(assets)
      BY <2>1, <2>2, NewOkIffValid
    <3>2. note_assets' = [assets |-> assets, hash |-> None]
      BY <1>1, <2>2 DEF New
    <3>3. LiveList' = assets /\ LiveList' # None
      BY <2>1, <3>2, ContainerList DEF LiveList
    <3>4. outcome' = [op |-> "new", res |-> "ok"] /\ UNCHANGED wire
      BY <1>1, <2>2 DEF New
    <3>5. QED
      BY <2>1, <3>1, <3>3, <3>4, AcceptedIfValid DEF Contract!CNew
  <2>3. CASE NewNoteAssetsResult(assets) # "ok"
    <3>1. NewNoteAssetsResult(assets) \in Contract!NewErrors
      BY <2>3, NewResults
    <3>2. note_assets' = note_assets /\ UNCHANGED wire
          /\ outcome' = [op |-> "new", res |-> NewNoteAssetsResult(assets)]
      BY <1>1, <2>3 DEF New
    <3>3. QED
      BY <3>1, <3>2 DEF Contract!CNew, LiveList
  <2>4. QED
    BY <2>2, <2>3
<1>2. ASSUME Commitment PROVE Contract!CCommitment
  <2>1. note_assets # None
    BY <1>2 DEF Commitment
  <2>2. /\ LiveList = note_assets.assets /\ LiveList # None
        /\ LiveList \in Seq(Assets)
    BY <2>1, LiveListOf
  <2>3. note_assets \in [assets : Lists(MaxNumAssets),
                         hash : {None} \cup [rpo : Seq(Words)]]
    BY <2>1 DEF NAInv, TypeOK
  <2>4. ComputeAssetCommitment(note_assets.assets) \in [rpo : Seq(Words)]
    BY <2>2, SeqMonotonic, AppendProperties
       DEF ComputeAssetCommitment, PadToEven, Words
  <2> DEFINE h == IF note_assets.hash = None
                  THEN ComputeAssetCommitment(note_assets.assets)
                  ELSE note_assets.hash
  <2>5. h = ComputeAssetCommitment(note_assets.assets)
    BY <2>1 DEF NAInv, CommitmentCacheCoherent
  <2>6. note_assets' = [assets |-> note_assets.assets, hash |-> h]
        /\ outcome' = [op |-> "commitment", res |-> h] /\ UNCHANGED wire
    BY <1>2, <2>3 DEF Commitment
  <2>7. note_assets' \in [assets : Seq(Assets), hash : {None} \cup [rpo : Seq(Words)]]
    BY <2>2, <2>4, <2>5, <2>6
  <2>8. LiveList' = LiveList
    BY <2>2, <2>6, <2>7, ContainerList DEF LiveList
  <2>9. Contract!Commit(LiveList) = h
    BY <2>2, <2>5, CommitIsComputed
  <2>10. QED
    BY <2>2, <2>6, <2>8, <2>9 DEF Contract!CCommitment
<1>3. ASSUME Write PROVE Contract!CWrite
  <2>1. note_assets # None
    BY <1>3 DEF Write
  <2>2. /\ LiveList = note_assets.assets /\ LiveList # None
        /\ LiveList \in Seq(Assets) /\ ValidAssetList(LiveList)
    BY <2>1, LiveListOf
  <2>3. WriteInto(LiveList) = [count |-> Len(LiveList) - 1, body |-> LiveList]
    BY <2>2, WriteCount DEF WriteInto
  <2>4. QED
    BY <1>3, <2>2, <2>3 DEF Write, Contract!CWrite, LiveList
<1>4. ASSUME NEW buf \in Buffers, Read(buf) PROVE Contract!CRead
  <2>1. buf.body \in Seq(Assets) /\ buf.count \in Nat
    BY ListsAreSeqs, NoteAssetsAssumption DEF Buffers
  <2>2. QED
    BY <1>4, <2>1, ReadSimulates
<1>5. ASSUME wire # None, Read(wire) PROVE Contract!CRead
  <2>1. wire.body \in Seq(Assets) /\ wire.count \in Nat
    BY <1>5, ListsAreSeqs, NoteAssetsAssumption DEF NAInv, TypeOK
  <2>2. QED
    BY <1>5, <2>1, ReadSimulates
<1>6. CASE UNCHANGED vars
  BY <1>6 DEF vars, Contract!cvars, LiveList
<1>7. QED
  BY <1>1, <1>2, <1>3, <1>4, <1>5, <1>6 DEF Next, Contract!CNext

-----------------------------------------------------------------------------
(* In a release build NoteAssets implements its contract: new installs    *)
(* only accepted lists, commitment() answers the hash of the current list  *)
(* whatever its OnceCell holds, write_into writes the exact count, and     *)
(* read_from installs an accepted list or fails without a panic.           *)
THEOREM AssetsImplementContract ==
    ~OverflowChecks => (Spec => ImplementsAssetsContract)
<1> SUFFICES ASSUME ~OverflowChecks PROVE Spec => Contract!CSpec
  BY DEF ImplementsAssetsContract
<1>1. Init => Contract!CInit
  BY DEF Init, Contract!CInit, LiveList
<1>2. NAInv /\ [Next]_vars => [Contract!CNext]_Contract!cvars
  BY StepSimulates
<1>3. QED
  BY <1>1, <1>2, NAInvHolds, PTL DEF Spec, Contract!CSpec

====
