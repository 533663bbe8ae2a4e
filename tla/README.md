# Formal models of the transaction and note objects

TLA+ models of the core of this repository. The core is the part that binds
off-chain proving to on-chain acceptance:

- the asset container of a note and its commitment;
- the standard note templates;
- the transaction-id derivation;
- the proven-transaction builder and its wire encoding;
- one transaction from data-store request to proof, driven against the
  crate's `MockDataStore` of `src/miden-tx/src/mock.rs`. The integration tests
  (`tests/integration/main.rs` 77-109) use a store of their own, which filters
  the notes by the requested ids; that store is not modelled.

The models are checked with TLC on small instances. TLAPS proves the following
for every value of the constants: the builder's type and well-formedness
invariants, that the builder implements an abstract contract, the wire round
trip, serial freshness under the coin contract, the validity, cache coherence
and encoding round trip of note assets, that the asset container implements
its cache-free contract in release builds, and that a built transaction passes
the integration test's id assertion exactly when the prover's initial-hash
`Option` follows the account's `is_new`.

## 1. The system

| Part | Source | State | Operations |
|---|---|---|---|
| TransactionIdentity | `src/objects/src/transaction/transaction_id.rs` | none (pure) | `TransactionId::new`: `unwrap_or_default` of the initial hash, `debug_assert_ne!` against the zero digest, one RPO hash over four words |
| ProvenTransactionModel | `src/objects/src/transaction/proven_tx.rs` 129-331 | the builder's fields | `new`, `account_details`, `add_input_notes`, `add_output_notes`, `add_output_note_details`, `tx_script_root`, `build` (fail-fast validation, then the id) |
| Wire encoding | `proven_tx.rs` 334-422 | bytes in flight | `AccountDetails` and `ProvenTransaction` `write_into`/`read_from`; `read_from` recomputes the id |
| AssetCommitment | `src/objects/src/notes/assets.rs` | `assets`, the `OnceCell` cache | `new`, `commitment` (memoised), `to_padded_assets`, `write_into` (byte `len-1`), `read_from` (`read_u8()? + 1`, then `new`) |
| NoteScriptTemplates | `src/miden-lib/src/notes/mod.rs` | the caller's random coin | `create_p2id_note`, `create_p2idr_note`, `create_swap_note`; each takes the coin **by value** |
| Crate constants | `src/objects/src/lib.rs` | none | collection caps 1023 / 4096; `MAX_ASSETS_PER_NOTE` = 256 |
| Tests and mocks | `src/miden-tx/tests/*`, `src/miden-tx/src/mock.rs`, `src/mock/` | `MockDataStore`: account, block, notes | `get_transaction_data` (three `assert_eq!`, an `unwrap` per note proof, a discarded `all`), `get_account_code`; the tests drive executor, prover and verifier |

How the parts interact:

- A note template builds a note. Its assets go through `NoteAssets::new`, and
  its id hashes the recipient with the asset commitment.
- The prover feeds the nullifiers and output envelopes of a transaction into
  the builder. `build` validates them and stamps the id with `TransactionId::new`.
- The executor gets the account, block and notes from a `DataStore`; the
  executed transaction has an id (`From<&ExecutedTransaction>`), and the
  integration test asserts that the proven transaction has the same one. The
  executed side derives the initial hash from `is_new`; the prover passes its
  own `Option` to the builder, and nothing under `src/` ties the two.
- The transaction is serialised and sent. The receiver deserialises it, and
  `read_from` recomputes the id.

The code is sequential; there are no threads. What is hard to test is this:

- long sequences of builder calls;
- the order of the fail-fast checks;
- boundary values of the u8 count byte;
- the zero-digest sentinel;
- a memoised cache;
- bytes chosen by an adversary on the network;
- a random coin that is copied instead of advanced;
- two id derivations, on the executed and on the proven side, that must agree.

These are listed one by one, with their source lines, under `hazards` in
`PROJECT.json`.

## 2. Modules

| Module | Models | Correspondence |
|---|---|---|
| `TransactionId` | `TransactionId::new` | `UnwrapOrDefault` is line 38; `TransactionIdPrecondition` is the `debug_assert_ne!` at line 35; `HashElements` is the hasher, as a free constructor (a record that remembers its input, i.e. a collision-free hash). `ZeroDigest` is a model value, assumed to be no account hash (`SentinelAssumption`). |
| `ProvenTxBuilder` | the builder | One variable per builder field (block ref and proof are opaque, left out). `Init` is `new`; one action per setter; `Build` sets `result` to `BuildResult`, an IF chain in the code's order with `OnChainCheck` the nested match of lines 266-309. `AddOutputNoteDetails` merges with `ExtendMap` (new entries win, as `BTreeMap::extend`). `result` ends the behaviour because `build(mut self)` consumes the builder. `InputNotes`/`OutputNotes` (not under `src/`) are modelled from the spec: no repeats, at most the cap; the commitment is a hash of the sequence. |
| `ProvenTxWire` | the wire encoding | Extends the builder. `Send` writes `WriteInto(result.tx)`: every field in order except the id. `Forge(f, v)` lets the network rewrite one field of the captured bytes, including an initial hash `Some(zero)` and an unknown `AccountDetails` discriminant. `Receive` runs `ReadFrom`: the discriminant check, the note collections' own checks, the `debug_assert` of `TransactionId::new` when `DebugAssertions`, and nothing else. |
| `NoteAssets` | `assets.rs` | `note_assets` is the live container `[assets, hash]`, where `hash = None` is an empty `OnceCell`. `New` gives a fresh container with an empty cell; `Commitment` is `get_or_init`; `Write` puts `[count, body]` on `wire`; `Read(buf)` decodes the written bytes or any adversarial buffer. The u8 is scaled down: `ByteModulus` plays 256 and `MaxNumAssets` plays 255. `OverflowChecks` chooses the debug behaviour (panic) or the release behaviour (wrap) of `+ 1`. |
| `NoteScripts` | the templates | `rng` is the caller's coin `[seed, pos]`, or `None` once it has been moved away. A drawn word is `[seed, pos]` (a deterministic coin). `RngModes` says whether the caller moves the coin or passes a clone (a clone leaves the caller's coin un-advanced); `FreshSeeds` says whether a new coin may reuse a seed. Each `Create*` action is a whole template. `Note::new`, `build_p2id_recipient` and the coin (not under `src/`) come from the spec; the asset check is `NoteAssets::new` through `INSTANCE`. |
| `ProvenTxContract` | what `build` promises | The abstract specification. `draft` holds the builder's data and `verdict` build's result. `Accumulate` keeps the id and hashes and only extends the note lists and the disclosed keys; `Decide` returns `Ok` of the draft's transaction when no rule of 4.3 is broken, otherwise an `Err` naming *some* broken rule. The order of the checks is left open. `ProvenTxBuilder` instantiates it with `draft <- Draft` (the record of the builder's fields) and `verdict <- result`; its `ViolatedRules` is the contract's `Broken(Draft)`. |
| `TransactionFlow` | `mock.rs`, the test driver | `store` is the `MockDataStore` (account `[id, is_new, hash]`, block, notes `[nullifier, origin]` with `origin = None` for a note without an inclusion proof); `phase` is where the test is. `GetTransactionData` is the whole handler: any failing `assert_eq!` or `unwrap` ends in `"panicked"`, the `all` is dropped, and `Ok` returns the store. `ExecuteTransaction` (the executor, from the spec) copies the account and the notes' nullifiers and picks the final hash, delta and output notes; `ExecutionFails` is its error. `ProveTransaction` lets the prover choose `claimed`, the initial-hash `Option` it hands the builder (`None` or `Some(initial hash)`, since the prover is outside `src/`), then runs `BuildResult` of an `INSTANCE` of `ProvenTxBuilder` whose fields are the prover's inputs (`ProverDetails`: nothing off-chain, `Full` for a new on-chain account, `Delta` otherwise). `ExecutedTransactionId` is `From<&ExecutedTransaction>`; `ProvenTxBuilder`'s `TransactionIdOf` is `From<&ProvenTransaction>`. |
| `NoteAssetsContract` | what `NoteAssets` promises | The abstract specification, with no cache and no byte arithmetic. `live` is the list of the live container; `CNew` and `CRead` install a list the spec's rule `Accepted` admits, or report some error of the call and keep `live`; `CCommitment` answers `Commit(live)`, the padded hash, as if it were recomputed on every call; `CWrite` writes `[count \|-> Len(live) - 1, body \|-> live]`. Which error is reported is left open. `NoteAssets` instantiates it with `live <- LiveList` (the container's list, never its `OnceCell`), `bytes <- wire` and `reply <- outcome`. |
| `ProvenTxBuilder_proofs`, `ProvenTxWire_proofs`, `NoteScripts_proofs`, `NoteAssets_proofs`, `NoteAssetsContract_proofs`, `TransactionFlow_proofs` | proofs | see section 5 |

Each `MC_*` module gives the model values and small sets that the `.cfg` files use.

Definitions named `...Sentinel`, `...Swapped`, `...Trusting`, `...NoAdvance` and so on,
each marked "Fault model", are plausible bugs of the definition that follows them. The
`mutants` of `PROJECT.json` substitute them, one at a time, and each is caught by the
property named there.

## 3. Runs

| Run | Checks | Shows |
|---|---|---|
| `builder` | `TypeOK`, `BuiltTxWellFormed`, `BuildVerdictMatchesSpec`, `ImplementsContract` | Every transaction `build` returns satisfies the spec's invariants (section 3). Whatever the setter sequence, the error returned is the first violated rule, in the order of spec section 4.3. `ViolatedRules` computes that order from the spec, as a set, independently of the code's IF chain. The builder implements `ProvenTxContract`: a setter that replaced the nullifiers added before would break it. |
| `builder_details_keys` (violation) | `DisclosedNotesMatchKeys` | `build` accepts a map whose value under key `k` is not note `k`. |
| `note_assets` | `TypeOK`, `LiveAssetsValid`, `CommitmentCacheCoherent`, `PaddedAgreesWithCommitment`, `WireRoundTrip`, `ImplementsAssetsContract` | Over any interleaving of `new`, `commitment`, `write_into` and `read_from` on adversarial buffers: a live container is always valid; the cache never holds a stale digest; padding agrees with the commitment; and encoding round-trips. In a release build every call is a step of `NoteAssetsContract`, so the cache is invisible: a `new` that kept the previous container's cache breaks it. |
| `note_assets_debug_decode` (violation) | `ReadNeverPanics` | Byte 0xFF panics on decode when overflow checks are on. |
| `wire_roundtrip` | `WireTypeOK`, `DecodeRoundTrip` | An untampered transaction decodes to the built one, id included. This is the serialise/deserialise step of the integration test. |
| `wire_decode_validation` (violation) | `ReceivedWellFormed` | `read_from` accepts transactions that `build` rejects. |
| `wire_sentinel_collision` (violation) | `IdBindsContent` | `Some(zero)` and `None` give the same id. |
| `wire_debug_decode` (violation) | `DecodeNeverPanics` | The `debug_assert` panics on network input. |
| `note_scripts` | `TypeOK`, `TemplateInputs`, `SerialNumbersFresh`, `NoteIdsUnique` | A caller that moves its coin and seeds freshly gets the spec's template shapes, fresh serial numbers (the SWAP note's and its repay note's included) and unique note ids. |
| `note_scripts_clone` (violation) | `NoteIdsUnique` | Passing clones of one coin gives two notes one id. |
| `transaction_flow` | `TypeOK`, `IdLinkageExact` | For every store content and request, and either `Option` the prover may choose, an `Ok` of `build` passes the id assertion of `prove_and_verify_transaction` exactly when that `Option` follows `is_new` (`unwrap_or_default` maps `None` to a zero digest no account hash equals), and an on-chain account with a mislabelled `Option` never gets an `Ok`: `build`'s matrix reads "new" off the absent hash. An off-chain mislabel is built and only the assertion catches it. |
| `transaction_flow_requested` (violation) | `ConsumedNotesAreRequested` | `MockDataStore` answers a request naming notes it does not hold with every note it holds. |

`findings` in `PROJECT.json` records what each violation shows about the code.

**Bounds, and why they suffice:**

- **Builder.** There is one on-chain and one off-chain account, two hashes,
  two nullifiers and two note ids. The caps are 2, and batches hold 1-2
  entries. This reaches every error of `build`: duplicates across calls, a
  collection one over its cap, all four cells of the on-chain matrix with
  matching and mismatching id and hash, and overwritten details.
- **Assets.** The count byte is scaled so that the overflow value exists: with
  `ByteModulus = 4` and `MaxNumAssets = 3`, every count byte including "0xFF"
  is decoded. Adversarial buffers carry up to 2 assets (3 in the debug run),
  enough for a duplicate and a short read; a 3-asset list, the byte's maximum,
  is written and read back through `wire`. Two faucets, two
  amounts and one NFT produce every duplicate kind.
- **Wire.** Caps and batches are 1. One field of one message is rewritten, and
  each finding needs only that.
- **Templates.** There are two seeds and up to three calls. That is enough for
  a SWAP followed by another template and for a reused coin.
- **Flow.** An on-chain and an off-chain account, each new or existing; two
  blocks; a store of up to two notes over two nullifiers and two origins, a
  note possibly without a proof; requests of up to two origins. This reaches
  every assert of `get_transaction_data` failing and passing, the `unwrap`
  panic, a request of the right length naming an absent note, and all four
  account cases of the prover.

**Fairness.** None. Every property is a safety property. The code has no
scheduler and no obligation to make progress: a builder may never be built and
a note may never be created. `CHECK_DEADLOCK FALSE` is set where the system
really stops: `build` consumes the builder, a single delivery ends the wire
scenario, the template calls are bounded, and the test driver returns after
the proof, an execution error or a panic. The driver is a straight line of
calls with no loop, so "the test terminates" holds of every behaviour and says
nothing a liveness property would add.

## 4. What the findings say

- `read_from` of a `ProvenTransaction` re-runs none of `build`'s checks. The
  spec (section 7) requires decoding to re-run them.
- `read_from` also maps `Some(zero)` to the id of `None`; the guard is a
  `debug_assert`. In debug builds, that assert turns adversarial input into a
  panic.
- `NoteAssets::read_from` overflows its `u8` on 0xFF.
- The disclosed-note map is checked only by its keys.
- The templates' by-value coin makes serial reuse a one-line mistake for the
  caller.
- `MockDataStore::get_transaction_data` computes whether every requested
  origin is stored and throws the answer away (`mock.rs:48`). An executor
  given this store consumes the notes the store holds, not the ones it asked
  for.

## 5. Proofs (TLAPS)

`ProvenTxBuilder_proofs` proves, for every value of the constants satisfying
`SentinelAssumption` and `BuilderAssumption`:

- `TypeCorrect`: `Spec => []TypeOK`. `TypeOK` is inductive as it stands. The
  proof has one step per action and uses these lemmas:
  - `BatchesAreSeqs`, `ConcatProperties`: a batch is a sequence, and
    concatenation adds the lengths;
  - `ExtendMapType`: the merged map is still a map from note ids to notes;
  - `CommitmentType`, `TransactionIdType`, `BuiltTransactionType`: the built
    transaction is typed.
- `BuildOnlyWellFormed`: `Spec => []BuiltTxWellFormed`. `BuiltTxWellFormed`
  alone is not inductive, because the `Build` step needs the shape of
  `account_details`. It is strengthened with `TypeOK`, which the first theorem
  supplies. The key lemma, `BuildOkWellFormed`, reads back every check from
  `BuildResult.ok`: `build` succeeds only when each check passed, and then
  `WellFormed` holds of the assembled record.

`ProvenTxWire_proofs` proves `WireDecodeRoundTrip`:
`WireSpec => []DecodeRoundTrip`.

- `WireRunsBuilder` shows `WireSpec => Spec`. The wire scenario leaves the
  builder's steps as they are, so both builder theorems hold of it.
- `DetailsRoundTrip` and `TxRoundTrip` show that `ReadFrom(WriteInto(tx))`
  gives `tx` back for a typed, well-formed `tx`. The discriminant is valid and
  the collections pass their checks. The `debug_assert` cannot fire, because
  `SentinelAssumption` keeps the zero digest out of the account hashes.
  Finally, the recomputed id is the one `build` stamped.
- The strengthening `WireRoundTripInv` is needed because `DecodeRoundTrip`
  says nothing about bytes still in flight. It states three things: bytes
  exist only after a successful `build`, untouched bytes are exactly
  `WriteInto(result.tx)`, and `result` no longer changes.
  `BuilderStepsBeforeBuild` gives the last fact: `build` consumes the builder.
- The theorem needs `DetailsAssumption` and the second conjunct of
  `WireAssumption`. Together they say that `Option::None` is no
  `AccountDetails` value and no encoded one.

`ProvenTxWire_proofs` also proves `WireTypeCorrect`: `WireSpec => []WireTypeOK`.
The builder part of `WireTypeOK` comes from `TypeCorrect` through
`WireRunsBuilder`. The wire part, `NetTyped`, is inductive given `TypeOK` and
`BuiltTxWellFormed`. `WriteIntoTyped` shows that `write_into` puts every field
of a built transaction in its wire range. The note lists fit the bounds because
`build` accepted them. A forged field is drawn from the same ranges, and
`read_from` returns only its documented outcomes.

`NoteScripts_proofs` proves `SerialsFresh`:
`MoveContract => (Spec => []SerialNumbersFresh)`.

- `MoveContract` is the caller's side of the contract: the coin is always
  moved and every new coin has a fresh seed.
- The strengthening is `FreshCoinInv`:
  - a coin held by the caller has never been drawn from, because the
    templates draw from their copy;
  - its seed is used and appears in no committed serial number;
  - every committed serial number has a used seed.
- `DrawKeepsFresh` shows that a template call appending pairwise-distinct
  words of the coin's seed keeps the invariant. It rests on `AppendFresh`, a
  sequence lemma built on `ConcatProperties`. Each action step instantiates it
  with one word (P2ID, P2IDR) or two words (SWAP, at positions 0 and 1).

`NoteScripts_proofs` also proves three more theorems.

- `NoteIdsAreUnique`: `MoveContract => (Spec => []NoteIdsUnique)`. The
  strengthening `NoteIdInv` extends `FreshCoinInv` with four facts:
  - the notes form a sequence;
  - the recipient inside each note's id hashes that note's own serial number;
  - that serial number is among the committed ones;
  - no two notes share a serial number.
  
  `NoteKeepsIdInv` shows that a template call keeps it. The new note's serial
  number carries the seed of the caller's coin, which no committed serial
  number carries, so it differs from every earlier note's. Equal ids then
  force equal serial numbers, because the hashes are free constructors.
- `TemplatesHaveShape`: `Spec => []TemplateInputs`, for both coin modes. The
  strengthening `ShapeInv` adds that the notes form a sequence (`\E S : notes
  \in Seq(S)`). `NoteKeepsShape` shows that appending a note of the right
  shape (`Shaped`) keeps it. For SWAP, the record update that stores the
  repay serial number is taken apart field by field.
- `NoteScriptsTypeCorrect`: `Spec => []TypeOK`. The strengthening is `TypeInv`
  (`TypeOK` and the sequence fact), kept by `NoteKeepsType`. `NoteNewAssets`
  shows that `Note::new` returns a note only for assets `NoteAssets::new`
  accepted, at most `MaxNumAssets` of them. That needs the conjunct
  `MaxNumAssets \in Nat` of `NoteScriptsAssumption`, which matches the
  constant `MAX_NUM_ASSETS`.

`ProvenTxBuilder_proofs` also proves `BuilderImplementsContract`:
`Spec => ImplementsContract`, the refinement. `Init` maps to the contract's
`Init`. `StepRefines` shows that every builder step is a contract step or a
stutter: the setters are `Accumulate` (`PrefixOfConcat`: the old notes are a
prefix of the concatenation), and `Build` is `Decide`, because
`BuildResultInVerdicts` shows that `BuildResult` is one of the contract's
verdicts on the draft. That lemma splits on `BuildResult`'s branches and uses
`RuleBrokenDraft`, the contract's rules restated in the builder's fields.

`ProvenTxBuilder_proofs` also proves `BuildFollowsSpecOrder`:
`Spec => []BuildVerdictMatchesSpec`. This is the order in which `build`
reports broken rules, compared with the reference that picks the first
violated rule of `SpecRuleOrder`.

- The strengthening `ResultIsBuild` says that a `result` that is set equals
  `BuildResult`. It is inductive because `build` consumes the builder: every
  setter leaves `result` at `None`.
- `BuildResultFollowsSpecOrder` proves, under `TypeOK`, that `BuildResult` is
  `Ok` when no rule is violated and otherwise `Err(FirstViolatedRule)`. The
  proof has one case per branch of the IF chain. Each case names the rule that
  branch reports and shows that no rule before it in `SpecRuleOrder` is
  broken.
- `FirstViolatedIs` pins down the `CHOOSE` of the reference: if rule k is
  broken and rules 1..k-1 are not, the first violated rule is rule k.
- `ViolatedIffBroken` ties the reference's set of violated rules to the
  contract's `RuleBroken`.

`NoteAssets_proofs` proves `AssetsAlwaysValid` (`Spec => []LiveAssetsValid`),
`CacheNeverStale` (`Spec => []CommitmentCacheCoherent`) and
`WrittenBytesRoundTrip` (`Spec => []WireRoundTrip`), from one inductive
invariant `NAInv`. `NAInv` adds to the three properties `TypeOK` and a fact
about the bytes on the wire: they hold a valid list and their count byte is
its length less one. Decoding needs this fact to give back what was written.
The lemmas are `NewOkIffValid` (the loop of `new` accepts exactly the valid
lists), `WriteCount` and `WrittenDecodes`, which take the byte arithmetic
apart with `ModSmall` (`x % m = x` for `0 <= x < m`).
`NoteAssetsTypeCorrect` (`Spec => []TypeOK`) follows from `NAInv` as well.
`PaddingMatchesCommitment` (`Spec => []PaddedAgreesWithCommitment`) follows,
state by state, from `TypeOK` and the lemma `PaddingIsPadToEven`: on any
sequence, `to_padded_assets` equals the padding `compute_asset_commitment`
hashes, and its length is even. The lemma splits on the parity of the length
and uses `AppendProperties` and `SeqEqual`.

`NoteAssetsContract_proofs` proves `AssetsImplementContract`:
`~OverflowChecks => (Spec => ImplementsAssetsContract)`, the refinement of the
container by its contract in a release build (in a debug build `read_from`
panics, which is the `note_assets_debug_decode` finding). `Init` maps to
`CInit`; `StepSimulates` shows that, from a state of `NAInv`, each action is
the contract action of the same call, and a stutter maps to a stutter. `NAInv`
is what makes it so: `CommitmentCacheCoherent` makes the cached and the
recomputed digest equal, `LiveAssetsValid` with `WriteCount` makes the count
byte exact, and `ReadOkValid` makes what `read_from` installs an accepted list.
The lemmas relate the two vocabularies: `SameAssetIsSame` (`is_same` against a
test on the record's fields), `AcceptedIfValid`, `CommitIsComputed` (`Append`
of the zero word is concatenation with it), and `NewResults` and `ReadResults`
(the errors each call can report). `NoneAssumption`, evaluated by TLC on every
`MC_NoteAssets` run, says that `None` is neither an asset list nor a container,
so the mapping can tell "no container" from a container.

`TransactionFlow_proofs` proves `IdLinkageIsExact`:
`Spec => []IdLinkageExact`. The strengthening `FlowInv` says that, once
proven, the result is `BuildResult` on the execution and the `Option` still
held, and that the `Option` is `None` or the execution's initial hash. It also
says the `is_new` flag is a Boolean, because it was copied from the store's
account. `BuildOkIsBuilt` shows that every `Ok` of `build` holds the assembled
transaction. `FirstWordAgrees` shows, from `SentinelAssumption` (the zero
digest and `None` are no account hash), that `unwrap_or_default` of the
prover's `Option` equals that of `is_new().not().then(..)` exactly when the
`Option` follows `is_new`; `BuiltIdAgainstExecutedId` lifts this through the
injective hash to the two ids. `OnChainOkFollowsIsNew` shows that `build`
refuses an on-chain mislabel. `BuildStable` shows that `build` is a function
of the execution and the `Option` alone.

`TransactionFlow_proofs` also proves `FlowTypeCorrect`: `Spec => []TypeOK`,
including the equivalences between the phase and each `Option` being `Some`.
The strengthening `FlowTypeInv` adds `FlowInv`, the fact that an existing
execution is in `ExecutedTransactions` and that `claimed` is `None` or an
account hash; `FlowTypeInvHolds` proves it inductive. `BuildResultTyped` shows that on such an
execution `build` returns a typed `Err` or `Ok`. `FlowNoneAssumption` states
that `Option::None` is no store content, no execution and no build result.
This is the Rust fact that `None` is not `Some(x)`. TLC evaluates the
assumption on every run of `MC_TransactionFlow`.

TLC checked every strengthening as an invariant of the corresponding run's
instance before it was proved. The one exception is the conjunct
`\E S : notes \in Seq(S)`, which quantifies over all sets and which TLC
cannot evaluate.

**Only model-checked:** the violated properties of the `violation` runs
(`DisclosedNotesMatchKeys`, `ReadNeverPanics`, `ReceivedWellFormed`,
`IdBindsContent`, `DecodeNeverPanics`, `ConsumedNotesAreRequested`) and the
violation of `NoteIdsUnique` under a cloned coin. They are findings, shown by
TLC's counterexamples, not theorems. Every property of a passing run is also a
theorem.

**Out of TLAPS's reach:** liveness and `ENABLED`, induction over data
(recursive definitions) and modules that reach `RECURSIVE` operators. None of
the modules declares one.

## 6. Not modelled

- the proof system, the assembler and script bytes (opaque handles);
- the block reference and the proof blob (opaque, never inspected by the
  builder);
- the byte-level encodings of accounts, deltas and notes (fields are the unit);
- `MAX_ASSETS_PER_NOTE` (256), which no code uses. The model keeps the
  limit `new` enforces, one less than the byte's range, and the runs reach
  lists of that length: with a limit of 256 the count byte would wrap;
- `MockDataStore::get_account_code`: a lookup behind one `assert_eq!`, which
  the executor calls only with the account it was just given;
- the executor and the prover themselves (not under `src/`): only what they
  hand to and take from the modelled code is modelled, from the spec;
- the verifier (a STARK check) and the swap test's golden digests.

## 7. Plan

1. Compose `TransactionFlow` with `ProvenTxWire`, so that the id the receiver
   recomputes is linked to the execution as well.
2. Prove that the flow refines the builder's contract on the prover's inputs.
