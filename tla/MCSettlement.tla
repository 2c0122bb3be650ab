---------------------------- MODULE MCSettlement ----------------------------
(***************************************************************************)
(* Three winners, one of them with a small bid; two items, each with a     *)
(* creator, and the seller.                                                *)
(***************************************************************************)
EXTENDS Settlement

CONSTANTS w1, w2, w3, c1, c2, sel

MCWinners == <<w1, w2, w3>>
MCPayouts == <<c1, sel, c2, c1, sel>>
MCPrice == w1 :> 1 @@ w2 :> 2 @@ w3 :> 3
MCDue == <<1, 2, 1, 1, 1>>
=============================================================================
