------------------------- MODULE NoteScripts_proofs -------------------------
(***************************************************************************)
(* Proofs about the note templates, for every set of accounts, assets,     *)
(* seeds and bound: every state is well typed; the templates return notes  *)
(* of the shapes of spec 4.2 whatever the caller does with its coin; and a *)
(* caller that moves its coin into each template and never makes a coin    *)
(* from a used seed never commits a serial number twice and never gets two *)
(* notes with one id.                                                      *)
(***************************************************************************)
EXTENDS NoteScripts, SequenceTheorems, TLAPS

(* The caller's side of the contract of spec 4.2: the coin is moved, never *)
(* cloned, and every new coin has a seed not used before.                  *)
MoveContract == RngModes = {"move"} /\ FreshSeeds = TRUE

(* The inductive strengthening of SerialNumbersFresh.  A coin the caller   *)
(* holds has never been drawn from (the templates draw from their own copy *)
(* and the caller's coin is moved away), its seed is used, and no committed *)
(* serial number carries that seed.                                        *)
FreshCoinInv ==
    /\ serials \in Seq(Words)
    /\ \A i \in 1..Len(serials) : serials[i].seed \in usedSeeds
    /\ rng # None =>
          /\ rng \in [seed : Seeds, pos : {0}]
          /\ rng.seed \in usedSeeds
          /\ \A i \in 1..Len(serials) : serials[i].seed # rng.seed
    /\ SerialNumbersFresh

-----------------------------------------------------------------------------
(* Appending serial numbers that are pairwise distinct and distinct from   *)
(* every earlier one keeps the sequence free of repeats.                   *)
LEMMA AppendFresh ==
    ASSUME NEW s \in Seq(Words), NEW ss \in Seq(Words),
           \A i, j \in 1..Len(s) : s[i] = s[j] => i = j,
           \A i, j \in 1..Len(ss) : ss[i] = ss[j] => i = j,
           \A i \in 1..Len(s), j \in 1..Len(ss) : s[i] # ss[j]
    PROVE  \A i, j \in 1..Len(s \o ss) : (s \o ss)[i] = (s \o ss)[j] => i = j
<1>1. /\ Len(s \o ss) = Len(s) + Len(ss)
      /\ \A i \in 1..Len(s) + Len(ss) :
            (s \o ss)[i] = IF i <= Len(s) THEN s[i] ELSE ss[i - Len(s)]
  BY ConcatProperties
<1>2. QED
  BY <1>1

(* The effect of a template call on the caller under the contract: the     *)
(* coin is gone, and the serial numbers are kept or extended by ss.        *)
LEMMA ReturnEffect ==
    ASSUME NEW r, NEW ss, Return(r, ss, "move")
    PROVE  /\ rng' = None
           /\ serials' \in {serials, serials \o ss}
           /\ usedSeeds' = usedSeeds
BY DEF Return, CoinAfter

-----------------------------------------------------------------------------
(* A template call that draws the words ss from the caller's coin keeps    *)
(* FreshCoinInv, when those words carry the coin's seed and are pairwise   *)
(* distinct.                                                               *)
LEMMA DrawKeepsFresh ==
    ASSUME FreshCoinInv, NEW r, NEW ss \in Seq(Words),
           rng # None, Return(r, ss, "move"),
           \A j \in 1..Len(ss) : ss[j].seed = rng.seed,
           \A i, j \in 1..Len(ss) : ss[i] = ss[j] => i = j
    PROVE  FreshCoinInv'
<1>1. /\ rng' = None
      /\ serials' \in {serials, serials \o ss}
      /\ usedSeeds' = usedSeeds
  BY ReturnEffect
<1>2. CASE serials' = serials
  BY <1>1, <1>2 DEF FreshCoinInv, SerialNumbersFresh
<1>3. CASE serials' = serials \o ss
  <2>1. serials' \in Seq(Words)
        /\ Len(serials') = Len(serials) + Len(ss)
        /\ \A i \in 1..Len(serials) + Len(ss) :
              serials'[i] = IF i <= Len(serials) THEN serials[i]
                            ELSE ss[i - Len(serials)]
    BY <1>3, ConcatProperties DEF FreshCoinInv
  <2>3. \A i \in 1..Len(serials), j \in 1..Len(ss) : serials[i] # ss[j]
    BY DEF FreshCoinInv
  <2>4. \A i, j \in 1..Len(serials \o ss) :
           (serials \o ss)[i] = (serials \o ss)[j] => i = j
    <3>1. \A i, j \in 1..Len(serials) : serials[i] = serials[j] => i = j
      BY DEF FreshCoinInv, SerialNumbersFresh
    <3>2. serials \in Seq(Words)
      BY DEF FreshCoinInv
    <3>3. QED
      BY <3>1, <3>2, <2>3, AppendFresh
  <2>5. ASSUME NEW i \in 1..Len(serials') PROVE serials'[i].seed \in usedSeeds'
    <3>1. CASE i <= Len(serials)
      BY <1>1, <2>1, <3>1 DEF FreshCoinInv
    <3>2. CASE ~(i <= Len(serials))
      <4>1. i - Len(serials) \in 1..Len(ss)
        BY <2>1, <3>2 DEF FreshCoinInv
      <4>2. serials'[i] = ss[i - Len(serials)]
        BY <2>1, <3>2 DEF FreshCoinInv
      <4>3. QED
        BY <1>1, <4>1, <4>2 DEF FreshCoinInv
    <3>3. QED
      BY <3>1, <3>2
  <2>6. QED
    BY <1>1, <1>3, <2>1, <2>4, <2>5 DEF FreshCoinInv, SerialNumbersFresh
<1>4. QED
  BY <1>1, <1>2, <1>3

-----------------------------------------------------------------------------
(* A caller that moves its coin into every template call and seeds every   *)
(* new RpoRandomCoin freshly never commits one serial number to two notes, *)
(* the SWAP note's repay serial number included: the contract under which  *)
(* the by-value coin of create_p2id_note, create_p2idr_note and            *)
(* create_swap_note keeps note ids unique.                                 *)
THEOREM SerialsFresh == MoveContract => (Spec => []SerialNumbersFresh)
<1> SUFFICES ASSUME MoveContract PROVE Spec => []SerialNumbersFresh
  OBVIOUS
<1>1. Init => FreshCoinInv
  BY DEF Init, FreshCoinInv, SerialNumbersFresh
<1>2. FreshCoinInv /\ [Next]_vars => FreshCoinInv'
  <2> SUFFICES ASSUME FreshCoinInv, [Next]_vars PROVE FreshCoinInv'
    OBVIOUS
  <2>1. ASSUME NEW s \in Seeds, NewCoin(s) PROVE FreshCoinInv'
    <3>1. s \notin usedSeeds
      BY <2>1 DEF NewCoin, MoveContract
    <3>2. QED
      BY <2>1, <3>1 DEF NewCoin, FreshCoinInv, SerialNumbersFresh
  <2>2. ASSUME NEW mode \in RngModes, NEW sender \in AccountIds,
               NEW target \in AccountIds, NEW assets \in NA!Lists(2),
               CreateP2ID(sender, target, assets, mode)
        PROVE  FreshCoinInv'
    <3>1. mode = "move" /\ rng # None /\ rng \in [seed : Seeds, pos : {0}]
      BY <2>2 DEF MoveContract, CreateP2ID, FreshCoinInv
    <3>2. Return(NoteNew("P2ID", <<target, 0, 0, 0>>, assets, DrawWord(rng).word,
                         sender, target),
                 <<DrawWord(rng).word>>, "move")
      BY <2>2, <3>1 DEF CreateP2ID
    <3>3. DrawWord(rng).word \in Words /\ DrawWord(rng).word.seed = rng.seed
      BY <3>1 DEF DrawWord, Words
    <3>4. /\ <<DrawWord(rng).word>> \in Seq(Words)
          /\ \A j \in 1..Len(<<DrawWord(rng).word>>) :
                <<DrawWord(rng).word>>[j].seed = rng.seed
          /\ \A i, j \in 1..Len(<<DrawWord(rng).word>>) :
                <<DrawWord(rng).word>>[i] = <<DrawWord(rng).word>>[j] => i = j
      BY <3>3
    <3>5. QED
      BY <3>1, <3>2, <3>4, DrawKeepsFresh
  <2>3. ASSUME NEW mode \in RngModes, NEW sender \in AccountIds,
               NEW target \in AccountIds, NEW assets \in NA!Lists(1),
               NEW h \in RecallHeights,
               CreateP2IDR(sender, target, assets, h, mode)
        PROVE  FreshCoinInv'
    <3>1. mode = "move" /\ rng # None /\ rng \in [seed : Seeds, pos : {0}]
      BY <2>3 DEF MoveContract, CreateP2IDR, FreshCoinInv
    <3>2. Return(NoteNew("P2IDR", <<target, h, 0, 0>>, assets, DrawWord(rng).word,
                         sender, target),
                 <<DrawWord(rng).word>>, "move")
      BY <2>3, <3>1 DEF CreateP2IDR
    <3>3. DrawWord(rng).word \in Words /\ DrawWord(rng).word.seed = rng.seed
      BY <3>1 DEF DrawWord, Words
    <3>4. /\ <<DrawWord(rng).word>> \in Seq(Words)
          /\ \A j \in 1..Len(<<DrawWord(rng).word>>) :
                <<DrawWord(rng).word>>[j].seed = rng.seed
          /\ \A i, j \in 1..Len(<<DrawWord(rng).word>>) :
                <<DrawWord(rng).word>>[i] = <<DrawWord(rng).word>>[j] => i = j
      BY <3>3
    <3>5. QED
      BY <3>1, <3>2, <3>4, DrawKeepsFresh
  <2>4. ASSUME NEW mode \in RngModes, NEW sender \in AccountIds,
               NEW offered \in NA!Assets, NEW requested \in NA!Assets,
               CreateSwap(sender, offered, requested, mode)
        PROVE  FreshCoinInv'
    <3>1. mode = "move" /\ rng # None /\ rng \in [seed : Seeds, pos : {0}]
      BY <2>4 DEF MoveContract, CreateSwap, FreshCoinInv
    <3> DEFINE first == DrawWord(rng)
               repay == first.word
               serial == DrawWord(first.coin).word
               r == NoteNew("SWAP", SwapInputs(sender, requested, repay, serial),
                            <<offered>>, serial, sender, 0)
    <3>2. Return(IF r.ok THEN [r EXCEPT !.note.repay = repay] ELSE r,
                 <<repay, serial>>, "move")
      BY <2>4, <3>1 DEF CreateSwap
    <3>3. /\ repay = [seed |-> rng.seed, pos |-> 0]
          /\ serial = [seed |-> rng.seed, pos |-> 1]
      BY <3>1 DEF DrawWord
    <3>4. /\ <<repay, serial>> \in Seq(Words)
          /\ \A j \in 1..2 : <<repay, serial>>[j].seed = rng.seed
          /\ \A i, j \in 1..2 : <<repay, serial>>[i] = <<repay, serial>>[j] => i = j
      BY <3>1, <3>3 DEF Words
    <3>5. QED
      BY <3>1, <3>2, <3>4, DrawKeepsFresh
  <2>5. CASE UNCHANGED vars
    BY <2>5 DEF vars, FreshCoinInv, SerialNumbersFresh
  <2>6. QED
    BY <2>1, <2>2, <2>3, <2>4, <2>5 DEF Next
<1>3. FreshCoinInv => SerialNumbersFresh
  BY DEF FreshCoinInv
<1>4. QED
  BY <1>1, <1>2, <1>3, PTL DEF Spec


-----------------------------------------------------------------------------
(* The inductive strengthening of NoteIdsUnique.  Over FreshCoinInv: the   *)
(* notes form a sequence, the recipient inside a note's id hashes that     *)
(* note's serial number, that serial number is one of the committed ones,  *)
(* and no two notes share a serial number.                                 *)
NoteIdInv ==
    /\ FreshCoinInv
    /\ \E S : notes \in Seq(S)
    /\ \A i \in 1..Len(notes) :
          /\ notes[i].id.noteid[1].recipient[3] = notes[i].serial
          /\ \E k \in 1..Len(serials) : serials[k] = notes[i].serial
    /\ \A i, j \in 1..Len(notes) : notes[i].serial = notes[j].serial => i = j

(* A template call under the contract keeps NoteIdInv when the note it     *)
(* returns, if any, has an id built on its own serial number and that      *)
(* serial number is one of the fresh words ss drawn from the caller's coin.*)
LEMMA NoteKeepsIdInv ==
    ASSUME NoteIdInv, NEW r, NEW ss \in Seq(Words),
           rng # None, Return(r, ss, "move"),
           \A j \in 1..Len(ss) : ss[j].seed = rng.seed,
           \A i, j \in 1..Len(ss) : ss[i] = ss[j] => i = j,
           r.ok => /\ r.note.id.noteid[1].recipient[3] = r.note.serial
                   /\ \E k \in 1..Len(ss) : ss[k] = r.note.serial
    PROVE  NoteIdInv'
<1>1. FreshCoinInv'
  BY DrawKeepsFresh DEF NoteIdInv
<1>2. CASE ~r.ok
  <2>1. notes' = notes /\ serials' = serials
    BY <1>2 DEF Return
  <2>2. QED
    BY <1>1, <2>1 DEF NoteIdInv
<1>3. CASE r.ok
  <2>1. notes' = Append(notes, r.note) /\ serials' = serials \o ss
    BY <1>3 DEF Return
  <2>2. PICK S : notes \in Seq(S)
    BY DEF NoteIdInv
  <2> DEFINE n == Len(notes)
  <2>3. /\ notes' \in Seq(S \cup {r.note})
        /\ Len(notes') = n + 1
        /\ \A i \in 1..n : notes'[i] = notes[i]
        /\ notes'[n + 1] = r.note
    <3>1. notes \in Seq(S \cup {r.note})
      BY <2>2, SeqMonotonic
    <3>2. QED
      BY <2>1, <3>1, AppendProperties DEF n
  <2>4. /\ serials \in Seq(Words)
        /\ Len(serials') = Len(serials) + Len(ss)
        /\ \A k \in 1..Len(serials) : serials'[k] = serials[k]
        /\ \A k \in 1..Len(ss) : serials'[Len(serials) + k] = ss[k]
    <3>1. serials \in Seq(Words)
      BY DEF NoteIdInv, FreshCoinInv
    <3>2. QED
      BY <2>1, <3>1, ConcatProperties
  <2>5. \A i \in 1..n : notes[i].serial.seed # rng.seed
    BY DEF NoteIdInv, FreshCoinInv, n
  <2>6. r.note.serial.seed = rng.seed
    BY <1>3
  <2>7. \A i \in 1..Len(notes') :
           /\ notes'[i].id.noteid[1].recipient[3] = notes'[i].serial
           /\ \E k \in 1..Len(serials') : serials'[k] = notes'[i].serial
    <3> SUFFICES ASSUME NEW i \in 1..Len(notes')
                 PROVE  /\ notes'[i].id.noteid[1].recipient[3] = notes'[i].serial
                        /\ \E k \in 1..Len(serials') : serials'[k] = notes'[i].serial
      OBVIOUS
    <3>1. CASE i \in 1..n
      <4>1. PICK k \in 1..Len(serials) : serials[k] = notes[i].serial
        BY <3>1 DEF NoteIdInv, n
      <4>2. QED
        BY <2>3, <2>4, <3>1, <4>1 DEF NoteIdInv, n
    <3>2. CASE i = n + 1
      <4>1. PICK k \in 1..Len(ss) : ss[k] = r.note.serial
        BY <1>3
      <4>2. notes'[i] = r.note
        BY <2>3, <3>2 DEF n
      <4>3. /\ Len(serials) + k \in 1..Len(serials')
            /\ serials'[Len(serials) + k] = r.note.serial
        BY <2>4, <4>1
      <4>4. notes'[i].id.noteid[1].recipient[3] = notes'[i].serial
        BY <1>3, <4>2
      <4>5. QED
        BY <4>2, <4>3, <4>4
    <3>3. QED
      BY <2>3, <3>1, <3>2 DEF n
  <2>8. \A i, j \in 1..Len(notes') : notes'[i].serial = notes'[j].serial => i = j
    <3> SUFFICES ASSUME NEW i \in 1..Len(notes'), NEW j \in 1..Len(notes'),
                        notes'[i].serial = notes'[j].serial
                 PROVE  i = j
      OBVIOUS
    <3>1. \A a, b \in 1..n : notes[a].serial = notes[b].serial => a = b
      BY DEF NoteIdInv, n
    <3>2. \A a \in 1..n : notes'[a].serial # notes'[n + 1].serial
      BY <2>3, <2>5, <2>6
    <3>3. i \in 1..n \/ i = n + 1
      BY <2>3 DEF n
    <3>4. j \in 1..n \/ j = n + 1
      BY <2>3 DEF n
    <3>5. QED
      BY <2>3, <3>1, <3>2, <3>3, <3>4
  <2>9. QED
    BY <1>1, <2>3, <2>7, <2>8 DEF NoteIdInv
<1>4. QED
  BY <1>2, <1>3


-----------------------------------------------------------------------------
(* A caller that moves its coin into every template call and seeds every   *)
(* new RpoRandomCoin freshly never gets two notes with the same id from    *)
(* create_p2id_note, create_p2idr_note and create_swap_note: each id       *)
(* hashes a recipient built on the note's own serial number, and those are *)
(* fresh (SerialsFresh).  With a cloned coin the run note_scripts_clone    *)
(* shows two notes with one id.                                            *)
THEOREM NoteIdsAreUnique == MoveContract => (Spec => []NoteIdsUnique)
<1> SUFFICES ASSUME MoveContract PROVE Spec => []NoteIdsUnique
  OBVIOUS
<1>1. Init => NoteIdInv
  <2> SUFFICES ASSUME Init PROVE NoteIdInv
    OBVIOUS
  <2>1. notes \in Seq({})
    BY EmptySeq DEF Init
  <2>2. QED
    BY <2>1 DEF Init, NoteIdInv, FreshCoinInv, SerialNumbersFresh
<1>2. NoteIdInv /\ [Next]_vars => NoteIdInv'
  <2> SUFFICES ASSUME NoteIdInv, [Next]_vars PROVE NoteIdInv'
    OBVIOUS
  <2>1. ASSUME NEW s \in Seeds, NewCoin(s) PROVE NoteIdInv'
    <3>1. FreshCoinInv'
      <4>1. s \notin usedSeeds
        BY <2>1 DEF NewCoin, MoveContract
      <4>2. QED
        BY <2>1, <4>1 DEF NewCoin, NoteIdInv, FreshCoinInv, SerialNumbersFresh
    <3>2. QED
      BY <2>1, <3>1 DEF NewCoin, NoteIdInv
  <2>2. ASSUME NEW mode \in RngModes, NEW sender \in AccountIds,
               NEW target \in AccountIds, NEW assets \in NA!Lists(2),
               CreateP2ID(sender, target, assets, mode)
        PROVE  NoteIdInv'
    <3> DEFINE serial == DrawWord(rng).word
               r == NoteNew("P2ID", <<target, 0, 0, 0>>, assets, serial, sender, target)
    <3>1. mode = "move" /\ rng # None /\ rng \in [seed : Seeds, pos : {0}]
      BY <2>2 DEF MoveContract, CreateP2ID, NoteIdInv, FreshCoinInv
    <3>2. Return(r, <<serial>>, "move")
      BY <2>2, <3>1 DEF CreateP2ID
    <3>3. serial \in Words /\ serial.seed = rng.seed
      BY <3>1 DEF DrawWord, Words
    <3>4. r.ok => /\ r.note.id.noteid[1].recipient[3] = r.note.serial
                  /\ \E k \in 1..Len(<<serial>>) : <<serial>>[k] = r.note.serial
      BY DEF NoteNew, Recipient
    <3>5. /\ <<serial>> \in Seq(Words)
          /\ \A j \in 1..Len(<<serial>>) : <<serial>>[j].seed = rng.seed
          /\ \A i, j \in 1..Len(<<serial>>) : <<serial>>[i] = <<serial>>[j] => i = j
      BY <3>3
    <3>6. QED
      BY <3>1, <3>2, <3>4, <3>5, NoteKeepsIdInv
  <2>3. ASSUME NEW mode \in RngModes, NEW sender \in AccountIds,
               NEW target \in AccountIds, NEW assets \in NA!Lists(1),
               NEW h \in RecallHeights,
               CreateP2IDR(sender, target, assets, h, mode)
        PROVE  NoteIdInv'
    <3> DEFINE serial == DrawWord(rng).word
               r == NoteNew("P2IDR", <<target, h, 0, 0>>, assets, serial, sender, target)
    <3>1. mode = "move" /\ rng # None /\ rng \in [seed : Seeds, pos : {0}]
      BY <2>3 DEF MoveContract, CreateP2IDR, NoteIdInv, FreshCoinInv
    <3>2. Return(r, <<serial>>, "move")
      BY <2>3, <3>1 DEF CreateP2IDR
    <3>3. serial \in Words /\ serial.seed = rng.seed
      BY <3>1 DEF DrawWord, Words
    <3>4. r.ok => /\ r.note.id.noteid[1].recipient[3] = r.note.serial
                  /\ \E k \in 1..Len(<<serial>>) : <<serial>>[k] = r.note.serial
      BY DEF NoteNew, Recipient
    <3>5. /\ <<serial>> \in Seq(Words)
          /\ \A j \in 1..Len(<<serial>>) : <<serial>>[j].seed = rng.seed
          /\ \A i, j \in 1..Len(<<serial>>) : <<serial>>[i] = <<serial>>[j] => i = j
      BY <3>3
    <3>6. QED
      BY <3>1, <3>2, <3>4, <3>5, NoteKeepsIdInv
  <2>4. ASSUME NEW mode \in RngModes, NEW sender \in AccountIds,
               NEW offered \in NA!Assets, NEW requested \in NA!Assets,
               CreateSwap(sender, offered, requested, mode)
        PROVE  NoteIdInv'
    <3>1. mode = "move" /\ rng # None /\ rng \in [seed : Seeds, pos : {0}]
      BY <2>4 DEF MoveContract, CreateSwap, NoteIdInv, FreshCoinInv
    <3> DEFINE first == DrawWord(rng)
               repay == first.word
               serial == DrawWord(first.coin).word
               r == NoteNew("SWAP", SwapInputs(sender, requested, repay, serial),
                            <<offered>>, serial, sender, 0)
               rr == IF r.ok THEN [r EXCEPT !.note.repay = repay] ELSE r
    <3>2. Return(rr, <<repay, serial>>, "move")
      BY <2>4, <3>1 DEF CreateSwap
    <3>3. /\ repay = [seed |-> rng.seed, pos |-> 0]
          /\ serial = [seed |-> rng.seed, pos |-> 1]
      BY <3>1 DEF DrawWord
    <3>4. /\ <<repay, serial>> \in Seq(Words)
          /\ \A j \in 1..Len(<<repay, serial>>) : <<repay, serial>>[j].seed = rng.seed
          /\ \A i, j \in 1..Len(<<repay, serial>>) :
                <<repay, serial>>[i] = <<repay, serial>>[j] => i = j
      BY <3>1, <3>3 DEF Words
    <3>5. r.ok => /\ r.note.id.noteid[1].recipient[3] = serial
                  /\ r.note.serial = serial
      BY DEF NoteNew, Recipient
    <3>6. rr.ok => /\ rr.note.id.noteid[1].recipient[3] = rr.note.serial
                   /\ \E k \in 1..Len(<<repay, serial>>) :
                         <<repay, serial>>[k] = rr.note.serial
      <4>1. CASE r.ok
        <5>1. /\ rr.ok
              /\ rr.note.id = r.note.id
              /\ rr.note.serial = r.note.serial
          BY <4>1 DEF rr, r, NoteNew
        <5>2. rr.note.id.noteid[1].recipient[3] = rr.note.serial
          BY <3>5, <4>1, <5>1
        <5>3. rr.note.serial = serial
          BY <3>5, <4>1, <5>1
        <5>4. <<repay, serial>>[2] = serial /\ 2 \in 1..Len(<<repay, serial>>)
          OBVIOUS
        <5>5. rr.note.serial = <<repay, serial>>[2] /\ 2 \in 1..Len(<<repay, serial>>)
          BY <5>3, <5>4
        <5>6. QED
          BY <5>2, <5>5
      <4>2. CASE ~r.ok
        BY <4>2 DEF rr
      <4>3. QED
        BY <4>1, <4>2
    <3>7. QED
      BY <3>1, <3>2, <3>4, <3>6, NoteKeepsIdInv
  <2>5. CASE UNCHANGED vars
    BY <2>5 DEF vars, NoteIdInv, FreshCoinInv, SerialNumbersFresh
  <2>6. QED
    BY <2>1, <2>2, <2>3, <2>4, <2>5 DEF Next
<1>3. NoteIdInv => NoteIdsUnique
  <2> SUFFICES ASSUME NoteIdInv, NEW i \in 1..Len(notes), NEW j \in 1..Len(notes),
                      notes[i].id = notes[j].id
               PROVE  i = j
    BY DEF NoteIdsUnique
  <2>1. notes[i].serial = notes[j].serial
    BY DEF NoteIdInv
  <2>2. QED
    BY <2>1 DEF NoteIdInv
<1>4. QED
  BY <1>1, <1>2, <1>3, PTL DEF Spec


-----------------------------------------------------------------------------
(* The shape TemplateInputs asks of one note.                              *)
Shaped(n) ==
    /\ n.script \in {"P2ID", "P2IDR"} =>
          /\ n.tag = n.inputs[1]
          /\ n.script = "P2ID" => n.inputs = <<n.tag, 0, 0, 0>>
    /\ n.script = "SWAP" =>
          /\ n.tag = 0 /\ Len(n.assets) = 1
          /\ n.inputs[1] = BuildP2IDRecipient(n.sender, n.repay)
          /\ n.inputs[3] = n.sender

(* The inductive strengthening of TemplateInputs: the notes also form a    *)
(* sequence, so that a template call only appends to them.                 *)
ShapeInv ==
    /\ \E S : notes \in Seq(S)
    /\ \A i \in 1..Len(notes) : Shaped(notes[i])

(* A template call, whatever the caller does with its coin, keeps ShapeInv *)
(* when the note it returns, if any, has the shape.                        *)
LEMMA NoteKeepsShape ==
    ASSUME ShapeInv, NEW r, NEW ss, NEW mode, Return(r, ss, mode),
           r.ok => Shaped(r.note)
    PROVE  ShapeInv'
<1>1. CASE ~r.ok
  BY <1>1 DEF Return, ShapeInv
<1>2. CASE r.ok
  <2>1. notes' = Append(notes, r.note)
    BY <1>2 DEF Return
  <2>2. PICK S : notes \in Seq(S)
    BY DEF ShapeInv
  <2>3. /\ notes' \in Seq(S \cup {r.note})
        /\ Len(notes') = Len(notes) + 1
        /\ \A i \in 1..Len(notes) : notes'[i] = notes[i]
        /\ notes'[Len(notes) + 1] = r.note
    <3>1. notes \in Seq(S \cup {r.note})
      BY <2>2, SeqMonotonic
    <3>2. QED
      BY <2>1, <3>1, AppendProperties
  <2>4. \A i \in 1..Len(notes') : Shaped(notes'[i])
    <3> SUFFICES ASSUME NEW i \in 1..Len(notes') PROVE Shaped(notes'[i])
      OBVIOUS
    <3>1. i \in 1..Len(notes) \/ i = Len(notes) + 1
      BY <2>2, <2>3
    <3>2. QED
      BY <1>2, <2>3, <3>1 DEF ShapeInv
  <2>5. QED
    BY <2>3, <2>4 DEF ShapeInv
<1>3. QED
  BY <1>1, <1>2

(* The templates return notes of the shapes of spec 4.2, whether the       *)
(* caller moves or clones its coin: create_p2id_note and create_p2idr_note *)
(* put the target in the first input and the tag, and create_swap_note     *)
(* carries one asset, tag 0, the sender, and the P2ID recipient that the   *)
(* repay serial number it returns rebuilds.                                *)
THEOREM TemplatesHaveShape == Spec => []TemplateInputs
<1>1. Init => ShapeInv
  <2> SUFFICES ASSUME Init PROVE ShapeInv
    OBVIOUS
  <2>1. notes \in Seq({})
    BY EmptySeq DEF Init
  <2>2. QED
    BY <2>1 DEF Init, ShapeInv
<1>2. ShapeInv /\ [Next]_vars => ShapeInv'
  <2> SUFFICES ASSUME ShapeInv, [Next]_vars PROVE ShapeInv'
    OBVIOUS
  <2>1. ASSUME NEW s \in Seeds, NewCoin(s) PROVE ShapeInv'
    BY <2>1 DEF NewCoin, ShapeInv
  <2>2. ASSUME NEW mode \in RngModes, NEW sender \in AccountIds,
               NEW target \in AccountIds, NEW assets \in NA!Lists(2),
               CreateP2ID(sender, target, assets, mode)
        PROVE  ShapeInv'
    <3> DEFINE r == NoteNew("P2ID", <<target, 0, 0, 0>>, assets,
                            DrawWord(rng).word, sender, target)
    <3>1. Return(r, <<DrawWord(rng).word>>, mode)
      BY <2>2 DEF CreateP2ID
    <3>2. r.ok => Shaped(r.note)
      BY DEF NoteNew, Shaped
    <3>3. QED
      BY <3>1, <3>2, NoteKeepsShape
  <2>3. ASSUME NEW mode \in RngModes, NEW sender \in AccountIds,
               NEW target \in AccountIds, NEW assets \in NA!Lists(1),
               NEW h \in RecallHeights,
               CreateP2IDR(sender, target, assets, h, mode)
        PROVE  ShapeInv'
    <3> DEFINE r == NoteNew("P2IDR", <<target, h, 0, 0>>, assets,
                            DrawWord(rng).word, sender, target)
    <3>1. Return(r, <<DrawWord(rng).word>>, mode)
      BY <2>3 DEF CreateP2IDR
    <3>2. r.ok => Shaped(r.note)
      BY DEF NoteNew, Shaped
    <3>3. QED
      BY <3>1, <3>2, NoteKeepsShape
  <2>4. ASSUME NEW mode \in RngModes, NEW sender \in AccountIds,
               NEW offered \in NA!Assets, NEW requested \in NA!Assets,
               CreateSwap(sender, offered, requested, mode)
        PROVE  ShapeInv'
    <3> DEFINE first == DrawWord(rng)
               repay == first.word
               serial == DrawWord(first.coin).word
               r == NoteNew("SWAP", SwapInputs(sender, requested, repay, serial),
                            <<offered>>, serial, sender, 0)
               rr == IF r.ok THEN [r EXCEPT !.note.repay = repay] ELSE r
    <3>1. Return(rr, <<repay, serial>>, mode)
      BY <2>4 DEF CreateSwap
    <3>2. CASE r.ok
      <4>1. rr.ok /\ rr.note = [r.note EXCEPT !.repay = repay]
        BY <3>2 DEF rr, r, NoteNew
      <4>2. /\ rr.note.script = "SWAP" /\ rr.note.tag = 0
            /\ rr.note.assets = <<offered>> /\ rr.note.sender = sender
            /\ rr.note.repay = repay
            /\ rr.note.inputs = SwapInputs(sender, requested, repay, serial)
        BY <3>2, <4>1 DEF r, NoteNew
      <4>3. /\ SwapInputs(sender, requested, repay, serial)[1]
                   = BuildP2IDRecipient(sender, repay)
            /\ SwapInputs(sender, requested, repay, serial)[3] = sender
            /\ Len(<<offered>>) = 1
        BY DEF SwapInputs
      <4>4. ~(rr.note.script \in {"P2ID", "P2IDR"})
        BY <4>2
      <4>5. Shaped(rr.note)
        BY <4>2, <4>3, <4>4 DEF Shaped
      <4>6. QED
        BY <3>1, <4>5, NoteKeepsShape
    <3>3. CASE ~r.ok
      BY <3>1, <3>3, NoteKeepsShape DEF rr
    <3>4. QED
      BY <3>2, <3>3
  <2>5. CASE UNCHANGED vars
    BY <2>5 DEF vars, ShapeInv
  <2>6. QED
    BY <2>1, <2>2, <2>3, <2>4, <2>5 DEF Next
<1>3. ShapeInv => TemplateInputs
  BY DEF ShapeInv, Shaped, TemplateInputs
<1>4. QED
  BY <1>1, <1>2, <1>3, PTL DEF Spec


-----------------------------------------------------------------------------
(* A list of at most n assets is a sequence of assets, and conversely.    *)
LEMMA ListsSeqs ==
    ASSUME NEW n \in Nat
    PROVE  \A a : a \in NA!Lists(n) <=> a \in Seq(NA!Assets) /\ Len(a) <= n
<1>1. ASSUME NEW a \in NA!Lists(n) PROVE a \in Seq(NA!Assets) /\ Len(a) <= n
  <2>1. PICK k \in 0..n : a \in [1..k -> NA!Assets]
    BY DEF NA!Lists
  <2>2. QED
    BY <2>1
<1>2. ASSUME NEW a \in Seq(NA!Assets), Len(a) <= n PROVE a \in NA!Lists(n)
  BY <1>2, LenProperties DEF NA!Lists
<1>3. QED
  BY <1>1, <1>2

(* Note::new returns a note only for a list NoteAssets::new accepts, which *)
(* holds at most MAX_NUM_ASSETS assets.                                    *)
LEMMA NoteNewAssets ==
    ASSUME NEW script, NEW inputs, NEW assets \in Seq(NA!Assets), NEW serial,
           NEW sender, NEW tag,
           NoteNew(script, inputs, assets, serial, sender, tag).ok
    PROVE  assets \in NA!Lists(MaxNumAssets)
<1>1. NA!NewNoteAssetsResult(assets) = "ok"
  BY DEF NoteNew
<1>2. Len(assets) <= MaxNumAssets
  BY <1>1, NoteScriptsAssumption DEF NA!NewNoteAssetsResult
<1>3. QED
  BY <1>2, ListsSeqs, NoteScriptsAssumption

(* The types TypeOK asks of one note.                                      *)
NoteTyped(n) ==
    /\ n.script \in Scripts
    /\ n.assets \in NA!Lists(MaxNumAssets)
    /\ n.serial \in Words /\ n.repay \in {None} \cup Words
    /\ n.sender \in AccountIds /\ n.tag \in AccountIds \cup {0}

(* The inductive strengthening of TypeOK: the notes form a sequence.       *)
TypeInv ==
    /\ TypeOK
    /\ \E S : notes \in Seq(S)

(* A template call keeps TypeInv when the note it returns, if any, is      *)
(* typed and the words it commits are words.                               *)
LEMMA NoteKeepsType ==
    ASSUME TypeInv, NEW r, NEW ss \in Seq(Words), NEW mode,
           rng # None, Len(notes) < MaxNotes, Return(r, ss, mode),
           r.ok => NoteTyped(r.note)
    PROVE  TypeInv'
<1>1. /\ rng' \in {None, rng}
      /\ usedSeeds' = usedSeeds
  BY DEF Return, CoinAfter
<1>2. serials' \in Seq(Words)
  BY ConcatProperties DEF Return, TypeInv, TypeOK
<1>3. CASE ~r.ok
  BY <1>1, <1>2, <1>3 DEF Return, TypeInv, TypeOK
<1>4. CASE r.ok
  <2>1. notes' = Append(notes, r.note)
    BY <1>4 DEF Return
  <2>2. PICK S : notes \in Seq(S)
    BY DEF TypeInv
  <2>3. /\ notes' \in Seq(S \cup {r.note})
        /\ Len(notes') = Len(notes) + 1
        /\ \A i \in 1..Len(notes) : notes'[i] = notes[i]
        /\ notes'[Len(notes) + 1] = r.note
    <3>1. notes \in Seq(S \cup {r.note})
      BY <2>2, SeqMonotonic
    <3>2. QED
      BY <2>1, <3>1, AppendProperties
  <2>4. \A i \in 1..Len(notes') : NoteTyped(notes'[i])
    <3> SUFFICES ASSUME NEW i \in 1..Len(notes') PROVE NoteTyped(notes'[i])
      OBVIOUS
    <3>1. i \in 1..Len(notes) \/ i = Len(notes) + 1
      BY <2>2, <2>3
    <3>2. QED
      BY <1>4, <2>3, <3>1 DEF TypeInv, TypeOK, NoteTyped
  <2>5. Len(notes') <= MaxNotes
    BY <2>2, <2>3, NoteScriptsAssumption
  <2>6. QED
    BY <1>1, <1>2, <2>3, <2>4, <2>5 DEF TypeInv, TypeOK, NoteTyped
<1>5. QED
  BY <1>3, <1>4


(* Every reachable state of the caller and the templates is well typed:    *)
(* its coin, the notes, whose assets passed NoteAssets::new, their serial  *)
(* and repay words, and the committed serial numbers, with at most         *)
(* MaxNotes notes.                                                         *)
THEOREM NoteScriptsTypeCorrect == Spec => []TypeOK
<1>1. Init => TypeInv
  <2> SUFFICES ASSUME Init PROVE TypeInv
    OBVIOUS
  <2>1. notes \in Seq({}) /\ serials \in Seq(Words)
    BY EmptySeq DEF Init
  <2>2. QED
    BY <2>1, NoteScriptsAssumption DEF Init, TypeInv, TypeOK
<1>2. TypeInv /\ [Next]_vars => TypeInv'
  <2> SUFFICES ASSUME TypeInv, [Next]_vars PROVE TypeInv'
    OBVIOUS
  <2>0. rng # None => rng \in [seed : Seeds, pos : Nat]
    BY DEF TypeInv, TypeOK
  <2>1. ASSUME NEW s \in Seeds, NewCoin(s) PROVE TypeInv'
    BY <2>1 DEF NewCoin, TypeInv, TypeOK
  <2>2. ASSUME NEW mode \in RngModes, NEW sender \in AccountIds,
               NEW target \in AccountIds, NEW assets \in NA!Lists(2),
               CreateP2ID(sender, target, assets, mode)
        PROVE  TypeInv'
    <3> DEFINE serial == DrawWord(rng).word
               r == NoteNew("P2ID", <<target, 0, 0, 0>>, assets, serial, sender, target)
    <3>1. rng # None /\ Len(notes) < MaxNotes /\ Return(r, <<serial>>, mode)
      BY <2>2 DEF CreateP2ID
    <3>2. serial \in Words
      BY <2>0, <3>1 DEF DrawWord, Words
    <3>3. assets \in Seq(NA!Assets)
      BY ListsSeqs
    <3>4. r.ok => assets \in NA!Lists(MaxNumAssets)
      BY <3>3, NoteNewAssets
    <3>5. r.ok => NoteTyped(r.note)
      BY <3>2, <3>4 DEF NoteNew, NoteTyped, Scripts
    <3>6. <<serial>> \in Seq(Words)
      BY <3>2
    <3>7. QED
      BY <3>1, <3>5, <3>6, NoteKeepsType
  <2>3. ASSUME NEW mode \in RngModes, NEW sender \in AccountIds,
               NEW target \in AccountIds, NEW assets \in NA!Lists(1),
               NEW h \in RecallHeights,
               CreateP2IDR(sender, target, assets, h, mode)
        PROVE  TypeInv'
    <3> DEFINE serial == DrawWord(rng).word
               r == NoteNew("P2IDR", <<target, h, 0, 0>>, assets, serial, sender, target)
    <3>1. rng # None /\ Len(notes) < MaxNotes /\ Return(r, <<serial>>, mode)
      BY <2>3 DEF CreateP2IDR
    <3>2. serial \in Words
      BY <2>0, <3>1 DEF DrawWord, Words
    <3>3. assets \in Seq(NA!Assets)
      BY ListsSeqs
    <3>4. r.ok => assets \in NA!Lists(MaxNumAssets)
      BY <3>3, NoteNewAssets
    <3>5. r.ok => NoteTyped(r.note)
      BY <3>2, <3>4 DEF NoteNew, NoteTyped, Scripts
    <3>6. <<serial>> \in Seq(Words)
      BY <3>2
    <3>7. QED
      BY <3>1, <3>5, <3>6, NoteKeepsType
  <2>4. ASSUME NEW mode \in RngModes, NEW sender \in AccountIds,
               NEW offered \in NA!Assets, NEW requested \in NA!Assets,
               CreateSwap(sender, offered, requested, mode)
        PROVE  TypeInv'
    <3> DEFINE first == DrawWord(rng)
               repay == first.word
               serial == DrawWord(first.coin).word
               r == NoteNew("SWAP", SwapInputs(sender, requested, repay, serial),
                            <<offered>>, serial, sender, 0)
               rr == IF r.ok THEN [r EXCEPT !.note.repay = repay] ELSE r
    <3>1. rng # None /\ Len(notes) < MaxNotes /\ Return(rr, <<repay, serial>>, mode)
      BY <2>4 DEF CreateSwap
    <3>2. repay \in Words /\ serial \in Words
      BY <2>0, <3>1 DEF DrawWord, Words
    <3>3. <<repay, serial>> \in Seq(Words)
      BY <3>2
    <3>4. r.ok => <<offered>> \in NA!Lists(MaxNumAssets)
      <4>1. <<offered>> \in Seq(NA!Assets)
        OBVIOUS
      <4>2. QED
        BY <4>1, NoteNewAssets
    <3>5. CASE r.ok
      <4>1. /\ rr.ok
            /\ rr.note.script = "SWAP" /\ rr.note.tag = 0
            /\ rr.note.assets = <<offered>> /\ rr.note.sender = sender
            /\ rr.note.serial = serial /\ rr.note.repay = repay
        BY <3>5 DEF rr, r, NoteNew
      <4>2. NoteTyped(rr.note)
        BY <3>2, <3>4, <3>5, <4>1 DEF NoteTyped, Scripts
      <4>3. QED
        BY <3>1, <3>3, <4>2, NoteKeepsType
    <3>6. CASE ~r.ok
      BY <3>1, <3>3, <3>6, NoteKeepsType DEF rr
    <3>7. QED
      BY <3>5, <3>6
  <2>5. CASE UNCHANGED vars
    BY <2>5 DEF vars, TypeInv, TypeOK
  <2>6. QED
    BY <2>1, <2>2, <2>3, <2>4, <2>5 DEF Next
<1>3. QED
  BY <1>1, <1>2, PTL DEF Spec, TypeInv

=============================================================================
