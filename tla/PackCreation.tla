---------------------------- MODULE PackCreation ----------------------------
(***************************************************************************)
(* The seller makes a pack of cards (web/src/views/packCreate): one list   *)
(* of transactions, cut from lists of instructions and lists of signers    *)
(* that have to stay in step, sent one after the other whatever becomes of *)
(* each.                                                                   *)
(*                                                                         *)
(* External: the packs program, as far as its instructions name accounts   *)
(* that earlier ones make.                                                 *)
(***************************************************************************)
EXTENDS Integers, FiniteSets, SequencesExt

CONSTANTS
  NumItems,       (* cards chosen for the pack                              *)
  AccountChunk,   (* CREATE_ACCOUNT_CHUNK_SIZE                              *)
  CardChunk,      (* ADD_CARD_TO_PACK_CHUNK_SIZE                            *)
  SendChunk,      (* transactions signed at a time                          *)
  MaxFaults       (* bound on faults, the visitor's of PackOpening included *)

Items == 1 .. NumItems

ASSUME CreationAssumption ==
  /\ {NumItems, AccountChunk, CardChunk, SendChunk} \subseteq Nat \ {0}
  /\ MaxFaults \in Nat

VARIABLES
  pack,           (* the pack set on the chain                              *)
  seller,         (* the transactions to send, how many were sent, and what
                     the seller was told                                    *)
  faults

creationVars == <<pack, seller, faults>>

-----------------------------------------------------------------------------
(* The list.                                                                *)

\* The local chunk(): consecutive pieces, the last one what is left.
Chunk(list, size) ==
  [k \in 1 .. (Len(list) + size - 1) \div size |->
     SubSeq(list, (k - 1) * size + 1, IF k * size < Len(list) THEN k * size ELSE Len(list))]

ItemList == [i \in Items |-> i]
Each(kind) == [i \in Items |-> <<kind, i>>]
PackKey == 0

InstructionSets ==
  << << <<"init", PackKey>> >> >>
    \o Chunk(Each("account"), AccountChunk)
    \o Chunk(Each("card"), CardChunk)
    \o << << <<"voucher", PackKey>> >>, << <<"activate", PackKey>> >> >>

SignerSets ==
  << <<PackKey>> >>
    \o Chunk(ItemList, AccountChunk)
    \o [k \in 1 .. Len(Chunk(Each("card"), CardChunk)) |-> <<>>]
    \o << <<>>, <<>> >>

Plan == [k \in 1 .. Len(InstructionSets) |->
           [do |-> ToSet(InstructionSets[k]), signers |-> ToSet(SignerSets[k])]]

-----------------------------------------------------------------------------
(* The program.                                                             *)

\* An account that is made signs for itself.
MustSign(tx) == {ins[2] : ins \in {i \in tx.do : i[1] \in {"init", "account"}}}

Executable(ins) ==
  CASE ins[1] = "init"    -> ~pack.made
    [] ins[1] = "account" -> ins[2] \notin pack.accounts
    [] ins[1] = "card"    -> pack.made /\ ins[2] \in pack.accounts \ pack.cards
    [] OTHER              -> pack.made

Accepted(tx) == MustSign(tx) \subseteq tx.signers /\ \A ins \in tx.do : Executable(ins)

\* Nothing here says whether a pack that lacks something can be activated.
MayRefuse(tx) == <<"activate", PackKey>> \in tx.do /\ (pack.cards # Items \/ ~pack.voucher)

Of(tx, kind) == {ins[2] : ins \in {i \in tx.do : i[1] = kind}}
After(tx) ==
  [made     |-> pack.made \/ Of(tx, "init") # {},
   accounts |-> pack.accounts \cup Of(tx, "account"),
   cards    |-> pack.cards \cup Of(tx, "card"),
   voucher  |-> pack.voucher \/ Of(tx, "voucher") # {},
   active   |-> pack.active \/ Of(tx, "activate") # {}]

NoPack == [made |-> FALSE, accounts |-> {}, cards |-> {}, voucher |-> FALSE, active |-> FALSE]

-----------------------------------------------------------------------------
(* handleSubmit.                                                            *)

InitCreation ==
  /\ pack = NoPack
  /\ seller = [sent |-> 0, told |-> "nothing"]
  /\ faults = 0

Sending == seller.told = "nothing" /\ seller.sent < Len(Plan)
Next1 == Plan[seller.sent + 1]

\* SequenceType.Sequential: a failure is caught and the next one is sent.
Passed(p) == pack' = p /\ seller' = [seller EXCEPT !.sent = @ + 1]

SellerSends ==
  /\ Sending /\ UNCHANGED faults
  /\ \/ Accepted(Next1) /\ Passed(After(Next1))
     \/ (~Accepted(Next1) \/ MayRefuse(Next1)) /\ Passed(pack)

SellerLoses ==
  /\ Sending /\ faults < MaxFaults
  /\ faults' = faults + 1 /\ Passed(pack)

\* The wallet, or the node that is asked for a blockhash, fails: it throws.
SellerDeclines ==
  /\ Sending /\ seller.sent % SendChunk = 0 /\ faults < MaxFaults
  /\ faults' = faults + 1
  /\ seller' = [seller EXCEPT !.told = "error"]
  /\ UNCHANGED pack

SellerTold ==
  /\ seller.told = "nothing" /\ seller.sent = Len(Plan)
  /\ seller' = [seller EXCEPT !.told = "created"]
  /\ UNCHANGED <<pack, faults>>

Creation == SellerSends \/ SellerLoses \/ SellerDeclines \/ SellerTold

-----------------------------------------------------------------------------

\* A seller who is told that the pack has been created, after a creation in
\* which nothing was lost or declined, has a pack with every card, its voucher,
\* and it is active: each transaction finds the accounts that earlier ones make,
\* and its own signers, through three lists of chunks joined by position.
CreatedWhole ==
  seller.told = "created" /\ faults = 0
    => pack = [made |-> TRUE, accounts |-> Items, cards |-> Items,
               voucher |-> TRUE, active |-> TRUE]
=============================================================================
