---------------------------- MODULE MCMetaStore ----------------------------
(***************************************************************************)
(* An index of three pages; on the first one auction fits exactly, one     *)
(* does not fit in the batch, one starts the next.                         *)
(***************************************************************************)
EXTENDS MetaStore

MCAuctions == <<<<2, 1, 2, 2>>, <<1>>, <<3>>>>
MCFungible == {<<1, 1>>}
=============================================================================
