---------------------------- MODULE MCFairLaunch ----------------------------
(***************************************************************************)
(* Two buyers, one of them on the whitelist, for one token; two prices,    *)
(* and two tickets to a byte of the bitmap, which hold its only update.    *)
(* That the bits come out right where a lottery has several bytes and      *)
(* updates, and a short one at the end, is evaluated beside it.            *)
(***************************************************************************)
EXTENDS FairLaunch

CONSTANTS b1, b2

MCBuyers == {b1, b2}
MCPrices == {1, 2}
MCWhitelist == {b1}

Larger(bytes) ==
  INSTANCE FairLaunch WITH Buyers <- 1..9, Whitelist <- {}, ByteSize <- 2, ChunkBytes <- bytes

\* A lottery of n tickets leaves the bits of its winners set, and no others.
ASSUME BitsOfLottery ==
  \A bytes \in 1..3, n \in 0..9 : \A won \in SUBSET (0..(n - 1)) :
    LET write(data, chunk) == Larger(bytes)!Overlaid(data, chunk, n, won)
        written[k \in 0..9] ==
          IF k = 0 THEN Larger(bytes)!Blank
          ELSE IF k - 1 \in Larger(bytes)!Chunks(n) THEN write(written[k - 1], k - 1)
          ELSE written[k - 1]
    IN  Larger(bytes)!Marks(written[9]) = won
=============================================================================
