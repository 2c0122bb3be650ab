---------------------------- MODULE MCRedemption ----------------------------
(***************************************************************************)
(* Two places, with an edition each and a box for the second.  One bidder  *)
(* never comes back.  Nobody wins the second place; two winners who redeem *)
(* at the same time; a winner and one who never comes back, who both get a *)
(* participation print; and, behind these two, a loser who gets a print or *)
(* is only refunded.                                                       *)
(***************************************************************************)
EXTENDS Redemption

CONSTANTS b1, b2, a, l

MCOutcomes ==
  {[bids |-> <<b1>>, prints |-> {"winners"}],
   [bids |-> <<b1, b2>>, prints |-> {}],
   [bids |-> <<b1, a>>, prints |-> {"winners"}],
   [bids |-> <<b1, a, l>>, prints |-> {"losers"}],
   [bids |-> <<b1, a, l>>, prints |-> {}]}
MCPrints == <<1, 1>>
MCBoxes == {2}
MCAbsent == {a}
=============================================================================
