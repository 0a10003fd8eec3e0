---------------------------- MODULE MCPayloadQueue ----------------------------
(* Instances of PayloadQueue for TLC: one producer fills more than a block, *)
(* the other is a consumer too.                                             *)
EXTENDS PayloadQueue, TLC

CONSTANTS ta, tb

MCQuota == ta :> 3 @@ tb :> 1
=============================================================================
