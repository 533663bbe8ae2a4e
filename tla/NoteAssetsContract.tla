------------------------- MODULE NoteAssetsContract -------------------------
(***************************************************************************)
(* What NoteAssets promises (spec 4.1 and 7), with no cache and no byte    *)
(* arithmetic.  A live container holds a list the construction rule        *)
(* accepts; commitment() answers the hash of that list padded to an even   *)
(* number of words, as if it were computed on every call; write_into emits *)
(* the list and its length less one; read_from either installs some list  *)
(* the rule accepts or reports an error, and never panics.  Which error    *)
(* new or read_from reports is left open.                                  *)
(***************************************************************************)
EXTENDS Naturals, Sequences

CONSTANTS Faucets, Amounts, NonFungibleIds, ZeroWord, MaxNumAssets, None

VARIABLES
    live,    \* None, or the asset list of the live container
    bytes,   \* None, or the last [count, body] written
    reply    \* None, or what the last call returned

cvars == <<live, bytes, reply>>

AssetValues == [faucet : Faucets, amount : Amounts] \cup [nft : NonFungibleIds]

(* Two entries are the same asset: one faucet for fungible assets, one     *)
(* value otherwise.                                                        *)
SameAsset(x, y) ==
    IF "faucet" \in DOMAIN x /\ "faucet" \in DOMAIN y THEN x.faucet = y.faucet
    ELSE x = y

(* The construction rule of spec 4.1.                                     *)
Accepted(a) ==
    /\ a \in Seq(AssetValues)
    /\ Len(a) \in 1..MaxNumAssets
    /\ \A i, j \in 1..Len(a) : SameAsset(a[i], a[j]) => i = j

(* The asset commitment: the words hashed with one zero word appended when *)
(* their number is odd.                                                    *)
Commit(a) == [rpo |-> IF Len(a) % 2 = 1 THEN a \o <<ZeroWord>> ELSE a]

NewErrors == {"EmptyAssetList", "TooManyAssets", "DuplicateFungibleAsset",
              "DuplicateNonFungibleAsset"}
ReadErrors == {"UnexpectedEOF", "InvalidValue"}

CInit == live = None /\ bytes = None /\ reply = None

(* new: an accepted list becomes the live container; any other is refused *)
(* with one of the errors of new and the live container stays.            *)
CNew ==
    /\ \/ live' # None /\ Accepted(live') /\ reply' = [op |-> "new", res |-> "ok"]
       \/ live' = live /\ reply' \in [op : {"new"}, res : NewErrors]
    /\ UNCHANGED bytes

CCommitment ==
    /\ live # None
    /\ reply' = [op |-> "commitment", res |-> Commit(live)]
    /\ UNCHANGED <<live, bytes>>

CWrite ==
    /\ live # None
    /\ bytes' = [count |-> Len(live) - 1, body |-> live]
    /\ reply' = [op |-> "write", res |-> bytes']
    /\ UNCHANGED live

(* read_from: some accepted list becomes the live container, or an error *)
(* other than a panic is reported and the live container stays.            *)
CRead ==
    /\ \/ /\ live' # None /\ Accepted(live')
          /\ reply' = [op |-> "read", res |-> [kind |-> "ok", assets |-> live']]
       \/ live' = live /\ reply' \in [op : {"read"}, res : [kind : ReadErrors]]
    /\ UNCHANGED bytes

CNext == CNew \/ CCommitment \/ CWrite \/ CRead

CSpec == CInit /\ [][CNext]_cvars

=============================================================================
