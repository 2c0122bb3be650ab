--------------------------- MODULE MCAccountCache ---------------------------
(***************************************************************************)
(* Two wallets, a token account of the first, a mint.                      *)
(***************************************************************************)
EXTENDS AccountCache

CONSTANTS w1, w2, t1, t2, m1, m2

MCWallets == {w1, w2}
MCTokens == {t1}
MCMints == {m1}
MCOwnerOf == [t \in MCTokens |-> IF t = t1 THEN w1 ELSE w2]
====
