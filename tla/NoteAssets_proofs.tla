-------------------------- MODULE NoteAssets_proofs --------------------------
(***************************************************************************)
(* Proofs about NoteAssets, for every set of faucets, amounts and          *)
(* non-fungible assets and every byte width that satisfies                 *)
(* NoteAssetsAssumption: the live container always satisfies the rules of  *)
(* spec 4.1, its commitment cache never goes stale, and bytes written by   *)
(* write_into decode to the list they were written from.                   *)
(***************************************************************************)
EXTENDS NoteAssets, SequenceTheorems, TLAPS

-----------------------------------------------------------------------------
(* A u8 value below the modulus is unchanged by the wrap.                  *)
LEMMA ModSmall ==
    ASSUME NEW x \in Nat, NEW m \in Nat, x < m
    PROVE  x % m = x
BY SMT

(* A list of at most n assets is a sequence of assets, and conversely.    *)
LEMMA ListsAreSeqs ==
    ASSUME NEW n \in Nat
    PROVE  \A a : a \in Lists(n) <=> a \in Seq(Assets) /\ Len(a) <= n
<1>1. ASSUME NEW a \in Lists(n) PROVE a \in Seq(Assets) /\ Len(a) <= n
  <2>1. PICK k \in 0..n : a \in [1..k -> Assets]
    BY DEF Lists
  <2>2. a \in Seq(Assets) /\ Len(a) = k
    BY <2>1
  <2>3. QED
    BY <2>2
<1>2. ASSUME NEW a \in Seq(Assets), Len(a) <= n PROVE a \in Lists(n)
  BY <1>2, LenProperties DEF Lists
<1>3. QED
  BY <1>1, <1>2

(* Asset::is_same does not depend on the order of its arguments.         *)
LEMMA IsSameSymmetric ==
    ASSUME NEW a, NEW b
    PROVE  IsSame(a, b) = IsSame(b, a)
BY DEF IsSame

(* The loop of NoteAssets::new accepts exactly the lists the reference     *)
(* rule ValidAssetList describes: checking each asset against the later    *)
(* ones only is enough because is_same is symmetric.                       *)
LEMMA NewOkIffValid ==
    ASSUME NEW a \in Seq(Assets)
    PROVE  NewNoteAssetsResult(a) = "ok" <=> ValidAssetList(a)
<1> DEFINE dup == {i \in 1..Len(a) :
                     \E j \in (i + 1)..Len(a) : IsSame(a[j], a[i])}
<1>1. Len(a) \in Nat
  BY LenProperties
<1>2. NewNoteAssetsResult(a) = "ok" <=>
         Len(a) # 0 /\ ~(Len(a) > MaxNumAssets) /\ dup = {}
  BY DEF NewNoteAssetsResult
<1>3. dup = {} <=> \A i, j \in 1..Len(a) : i # j => ~IsSame(a[i], a[j])
  <2>1. ASSUME dup = {}, NEW i \in 1..Len(a), NEW j \in 1..Len(a), i # j
        PROVE  ~IsSame(a[i], a[j])
    <3>1. CASE i < j
      BY <2>1, <3>1, IsSameSymmetric
    <3>2. CASE j < i
      BY <2>1, <3>2
    <3>3. QED
      BY <1>1, <2>1, <3>1, <3>2
  <2>2. ASSUME \A i, j \in 1..Len(a) : i # j => ~IsSame(a[i], a[j])
        PROVE  dup = {}
    BY <1>1, <2>2
  <2>3. QED
    BY <2>1, <2>2
<1>4. QED
  BY <1>1, <1>2, <1>3, NoteAssetsAssumption DEF ValidAssetList


(* The bytes write_into produces: the count byte is len - 1, without wrap, *)
(* because a live list has at most MaxNumAssets < ByteModulus entries.     *)
LEMMA WriteCount ==
    ASSUME NEW a \in Seq(Assets), ValidAssetList(a)
    PROVE  /\ WriteInto(a).count = Len(a) - 1
           /\ WriteInto(a).count \in 0..(ByteModulus - 1)
           /\ WriteInto(a).body = a
<1>1. Len(a) - 1 \in 0..(ByteModulus - 1)
  BY LenProperties, NoteAssetsAssumption DEF ValidAssetList
<1>2. (Len(a) - 1) % ByteModulus = Len(a) - 1
  BY <1>1, NoteAssetsAssumption
<1>3. QED
  BY <1>1, <1>2 DEF WriteInto

(* What read_from accepts is a list of assets that new would accept.      *)
LEMMA ReadOkValid ==
    ASSUME NEW buf, buf.body \in Seq(Assets), buf.count \in Nat,
           ReadFromResult(buf).kind = "ok"
    PROVE  /\ ReadFromResult(buf).assets \in Seq(Assets)
           /\ ValidAssetList(ReadFromResult(buf).assets)
<1> DEFINE count == (buf.count + 1) % ByteModulus
           assets == SubSeq(buf.body, 1, count)
<1>1. count \in Nat /\ count <= Len(buf.body)
  BY NoteAssetsAssumption, LenProperties DEF ReadFromResult
<1>2. assets \in Seq(Assets)
  <2>1. \A i \in 1..count : buf.body[i] \in Assets
    BY <1>1, ElementOfSeq
  <2>2. QED
    BY <1>1, <2>1, SubSeqProperties
<1>3. NewNoteAssetsResult(assets) = "ok" /\ ReadFromResult(buf).assets = assets
  BY DEF ReadFromResult
<1>4. QED
  BY <1>2, <1>3, NewOkIffValid

(* Bytes as write_into produced them decode to the list they came from,   *)
(* in debug and release builds: the count byte never reaches the top of   *)
(* the u8, so the + 1 of read_from neither wraps nor panics.              *)
LEMMA WrittenDecodes ==
    ASSUME NEW w, w.body \in Seq(Assets), ValidAssetList(w.body),
           w.count = Len(w.body) - 1
    PROVE  ReadFromResult(w) = [kind |-> "ok", assets |-> w.body]
<1>1. Len(w.body) \in 1..MaxNumAssets
  BY LenProperties DEF ValidAssetList
<1>2. /\ w.count + 1 = Len(w.body)
      /\ ~(w.count + 1 >= ByteModulus)
      /\ (w.count + 1) % ByteModulus = Len(w.body)
  <2>1. w.count + 1 = Len(w.body) /\ Len(w.body) < ByteModulus
    BY <1>1, NoteAssetsAssumption
  <2>2. Len(w.body) % ByteModulus = Len(w.body)
    <3>1. Len(w.body) \in Nat /\ ByteModulus \in Nat /\ Len(w.body) < ByteModulus
      BY <1>1, <2>1, NoteAssetsAssumption
    <3>2. QED
      BY <3>1, ModSmall
  <2>3. (w.count + 1) % ByteModulus = Len(w.body) % ByteModulus
    BY <2>1, Zenon
  <2>4. ~(w.count + 1 >= ByteModulus)
    BY <1>1, <2>1, NoteAssetsAssumption
  <2>5. QED
    BY <2>1, <2>2, <2>3, <2>4, Zenon
<1>3. SubSeq(w.body, 1, Len(w.body)) = w.body
  <2>1. \A i \in 1..Len(w.body) : w.body[i] \in Assets
    BY ElementOfSeq
  <2>2. /\ SubSeq(w.body, 1, Len(w.body)) \in Seq(Assets)
        /\ Len(SubSeq(w.body, 1, Len(w.body))) = Len(w.body)
        /\ \A i \in 1..Len(w.body) : SubSeq(w.body, 1, Len(w.body))[i] = w.body[i]
    BY <1>1, <2>1, SubSeqProperties
  <2>3. QED
    BY <2>2, SeqEqual
<1>4. NewNoteAssetsResult(w.body) = "ok"
  BY NewOkIffValid
<1>5. ~(Len(w.body) < (w.count + 1) % ByteModulus)
  BY <1>1, <1>2
<1>6. QED
  BY <1>2, <1>3, <1>4, <1>5 DEF ReadFromResult

-----------------------------------------------------------------------------
(* The inductive strengthening: the three invariants, and the bytes last  *)
(* written hold a valid list with its count byte.                          *)
NAInv ==
    /\ TypeOK
    /\ LiveAssetsValid
    /\ CommitmentCacheCoherent
    /\ wire # None => ValidAssetList(wire.body) /\ wire.count = Len(wire.body) - 1


(* A container with a valid list and an empty cache satisfies the three   *)
(* container conjuncts of NAInv.                                           *)
LEMMA FreshContainer ==
    ASSUME NEW a \in Seq(Assets), ValidAssetList(a)
    PROVE  LET c == [assets |-> a, hash |-> None] IN
           /\ c \in [assets : Lists(MaxNumAssets), hash : {None} \cup [rpo : Seq(Words)]]
           /\ ValidAssetList(c.assets)
           /\ ~(c.hash # None)
<1>1. a \in Lists(MaxNumAssets)
  BY ListsAreSeqs, NoteAssetsAssumption DEF ValidAssetList
<1>2. QED
  BY <1>1

(* read_from of a buffer of assets keeps NAInv: what it decodes is valid.  *)
LEMMA ReadKeeps ==
    ASSUME NAInv, NEW buf, buf.body \in Seq(Assets), buf.count \in Nat, Read(buf)
    PROVE  NAInv'
<1> DEFINE r == ReadFromResult(buf)
<1>1. CASE r.kind = "ok"
  <2>1. r.assets \in Seq(Assets) /\ ValidAssetList(r.assets)
    BY <1>1, ReadOkValid
  <2>2. note_assets' = [assets |-> r.assets, hash |-> None]
    BY <1>1 DEF Read
  <2>3. QED
    BY <2>1, <2>2, FreshContainer DEF Read, NAInv, TypeOK, LiveAssetsValid,
       CommitmentCacheCoherent
<1>2. CASE r.kind # "ok"
  BY <1>2 DEF Read, NAInv, TypeOK, LiveAssetsValid, CommitmentCacheCoherent
<1>3. QED
  BY <1>1, <1>2

(* NAInv is inductive.                                                     *)
LEMMA NAInvInductive ==
    ASSUME NAInv, [Next]_vars
    PROVE  NAInv'
<1>1. ASSUME NEW assets \in Lists(MaxNumAssets + 1), New(assets) PROVE NAInv'
  <2>1. assets \in Seq(Assets)
    BY ListsAreSeqs, NoteAssetsAssumption
  <2>2. CASE NewNoteAssetsResult(assets) = "ok"
    <3>1. ValidAssetList(assets)
      BY <2>1, <2>2, NewOkIffValid
    <3>2. note_assets' = [assets |-> assets, hash |-> None]
      BY <1>1, <2>2 DEF New
    <3>3. QED
      BY <1>1, <2>1, <3>1, <3>2, FreshContainer DEF New, NAInv, TypeOK,
         LiveAssetsValid, CommitmentCacheCoherent
  <2>3. CASE NewNoteAssetsResult(assets) # "ok"
    BY <1>1, <2>3 DEF New, NAInv, TypeOK, LiveAssetsValid, CommitmentCacheCoherent
  <2>4. QED
    BY <2>2, <2>3
<1>2. CASE Commitment
  <2>1. note_assets \in [assets : Lists(MaxNumAssets),
                         hash : {None} \cup [rpo : Seq(Words)]]
    BY <1>2 DEF Commitment, NAInv, TypeOK
  <2>2. note_assets.assets \in Seq(Words)
    <3>1. note_assets.assets \in Seq(Assets)
      BY <2>1, ListsAreSeqs, NoteAssetsAssumption
    <3>2. QED
      BY <3>1, SeqMonotonic DEF Words
  <2>3. ComputeAssetCommitment(note_assets.assets) \in [rpo : Seq(Words)]
    BY <2>2, AppendProperties DEF ComputeAssetCommitment, PadToEven, Words
  <2>4. QED
    BY <1>2, <2>1, <2>3 DEF Commitment, NAInv, TypeOK, LiveAssetsValid,
       CommitmentCacheCoherent
<1>3. CASE Write
  <2>1. /\ note_assets \in [assets : Lists(MaxNumAssets),
                            hash : {None} \cup [rpo : Seq(Words)]]
        /\ ValidAssetList(note_assets.assets)
    BY <1>3 DEF Write, NAInv, TypeOK, LiveAssetsValid
  <2>2. note_assets.assets \in Seq(Assets)
    BY <2>1, ListsAreSeqs, NoteAssetsAssumption
  <2>3. /\ WriteInto(note_assets.assets).count = Len(note_assets.assets) - 1
        /\ WriteInto(note_assets.assets).count \in 0..(ByteModulus - 1)
        /\ WriteInto(note_assets.assets).body = note_assets.assets
    BY <2>1, <2>2, WriteCount
  <2>4. wire' = [count |-> WriteInto(note_assets.assets).count,
                 body |-> note_assets.assets]
    BY <1>3, <2>3 DEF Write, WriteInto
  <2>5. QED
    BY <1>3, <2>1, <2>3, <2>4 DEF Write, NAInv, TypeOK, LiveAssetsValid,
       CommitmentCacheCoherent
<1>4. ASSUME NEW buf \in Buffers, Read(buf) PROVE NAInv'
  <2>1. buf.body \in Seq(Assets) /\ buf.count \in Nat
    BY ListsAreSeqs, NoteAssetsAssumption DEF Buffers
  <2>2. QED
    BY <1>4, <2>1, ReadKeeps
<1>5. CASE wire # None /\ Read(wire)
  <2>1. wire.body \in Seq(Assets) /\ wire.count \in Nat
    BY <1>5, ListsAreSeqs, NoteAssetsAssumption DEF NAInv, TypeOK
  <2>2. QED
    BY <1>5, <2>1, ReadKeeps
<1>6. CASE UNCHANGED vars
  BY <1>6 DEF vars, NAInv, TypeOK, LiveAssetsValid, CommitmentCacheCoherent
<1>7. QED
  BY <1>1, <1>2, <1>3, <1>4, <1>5, <1>6 DEF Next

(* NAInv holds in every reachable state.                                   *)
LEMMA NAInvHolds == Spec => []NAInv
<1>1. Init => NAInv
  BY DEF Init, NAInv, TypeOK, LiveAssetsValid, CommitmentCacheCoherent
<1>2. NAInv /\ [Next]_vars => NAInv'
  BY NAInvInductive
<1>3. QED
  BY <1>1, <1>2, PTL DEF Spec

-----------------------------------------------------------------------------
(* to_padded_assets is the padding compute_asset_commitment hashes: on any *)
(* list of words it is the list itself when its length is even and the     *)
(* list with one zero word appended when it is odd, and its length is even.*)
LEMMA PaddingIsPadToEven ==
    ASSUME NEW S, NEW assets \in Seq(S)
    PROVE  /\ ToPaddedAssets(assets) = PadToEven(assets)
           /\ Len(PadToEven(assets)) % 2 = 0
<1> DEFINE n == Len(assets)
<1>1. n \in Nat
  OBVIOUS
<1>2. CASE n % 2 = 0
  <2>1. ToPaddedAssets(assets) = [i \in 1..n |-> assets[i]]
    BY <1>2 DEF ToPaddedAssets
  <2>2. assets = [i \in 1..n |-> assets[i]]
    OBVIOUS
  <2>3. QED
    BY <1>2, <2>1, <2>2 DEF PadToEven
<1>3. CASE n % 2 # 0
  <2>1. n + 1 \in Nat /\ (n + 1) % 2 = 0
    BY <1>1, <1>3
  <2> DEFINE T == S \cup {ZeroWord}
  <2>2. assets \in Seq(T)
    BY SeqMonotonic DEF T
  <2>3. /\ Append(assets, ZeroWord) \in Seq(T)
        /\ Len(Append(assets, ZeroWord)) = n + 1
        /\ \A i \in 1..n : Append(assets, ZeroWord)[i] = assets[i]
        /\ Append(assets, ZeroWord)[n + 1] = ZeroWord
    BY <2>2, AppendProperties DEF T
  <2>4. Append(assets, ZeroWord)
          = [i \in 1..(n + 1) |-> IF i <= n THEN assets[i] ELSE ZeroWord]
    <3> DEFINE P == [i \in 1..(n + 1) |-> IF i <= n THEN assets[i] ELSE ZeroWord]
    <3>1. P \in Seq(T)
      BY <1>1 DEF P, T, n
    <3>2. Len(P) = n + 1
      BY <1>1 DEF P
    <3>3. \A i \in 1..(n + 1) : Append(assets, ZeroWord)[i] = P[i]
      BY <1>1, <2>3 DEF P
    <3>4. QED
      BY <2>3, <3>1, <3>2, <3>3, SeqEqual DEF P
  <2>5. ToPaddedAssets(assets)
          = [i \in 1..(n + 1) |-> IF i <= n THEN assets[i] ELSE ZeroWord]
    BY <1>3 DEF ToPaddedAssets
  <2>6. QED
    BY <1>3, <2>1, <2>3, <2>4, <2>5 DEF PadToEven
<1>4. QED
  BY <1>2, <1>3

-----------------------------------------------------------------------------
(* Every container that NoteAssets::new builds or read_from decodes, from  *)
(* any bytes, is non-empty, within MAX_NUM_ASSETS and free of two entries  *)
(* that are the same asset.                                                *)
THEOREM AssetsAlwaysValid == Spec => []LiveAssetsValid
BY NAInvHolds, PTL DEF NAInv

(* Every reachable state is well typed: a live container holds a list of  *)
(* at most MaxNumAssets assets and an empty or filled cell, the wire a     *)
(* count byte below ByteModulus and such a list.                           *)
THEOREM NoteAssetsTypeCorrect == Spec => []TypeOK
BY NAInvHolds, PTL DEF NAInv

(* The OnceCell of commitment() never holds a digest other than the        *)
(* commitment of the assets beside it.                                     *)
THEOREM CacheNeverStale == Spec => []CommitmentCacheCoherent
BY NAInvHolds, PTL DEF NAInv

(* Bytes written by NoteAssets::write_into decode, in debug and release    *)
(* builds, to exactly the list they were written from.                     *)
THEOREM WrittenBytesRoundTrip == Spec => []WireRoundTrip
<1>1. NAInv => WireRoundTrip
  <2> SUFFICES ASSUME NAInv, wire # None
               PROVE  ReadFromResult(wire) = [kind |-> "ok", assets |-> wire.body]
    BY DEF WireRoundTrip
  <2>1. wire.body \in Seq(Assets)
    BY ListsAreSeqs, NoteAssetsAssumption DEF NAInv, TypeOK
  <2>2. QED
    BY <2>1, WrittenDecodes DEF NAInv
<1>2. QED
  BY <1>1, NAInvHolds, PTL


(* The padded words handed out by to_padded_assets hash to the commitment  *)
(* of every live container, and are a whole number of two-word rates.      *)
THEOREM PaddingMatchesCommitment == Spec => []PaddedAgreesWithCommitment
<1>1. TypeOK => PaddedAgreesWithCommitment
  <2> SUFFICES ASSUME TypeOK, note_assets # None
               PROVE  /\ [rpo |-> ToPaddedAssets(note_assets.assets)]
                            = ComputeAssetCommitment(note_assets.assets)
                      /\ Len(ToPaddedAssets(note_assets.assets)) % 2 = 0
    BY DEF PaddedAgreesWithCommitment
  <2>1. note_assets.assets \in Seq(Assets)
    BY ListsAreSeqs, NoteAssetsAssumption DEF TypeOK
  <2>2. QED
    BY <2>1, PaddingIsPadToEven DEF ComputeAssetCommitment
<1>2. QED
  BY <1>1, NoteAssetsTypeCorrect, PTL

=============================================================================
