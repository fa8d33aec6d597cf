----------------------------- MODULE MCMsgSocket -----------------------------
(***************************************************************************)
(* MsgSocket with messages of different lengths: the first carries two     *)
(* descriptors and a number that is none, the second one descriptor, and   *)
(* the third is a header alone.                                            *)
(***************************************************************************)
EXTENDS MsgSocket, TLC

CONSTANTS h1, h2, h3, h4, r1, r2, r3

OffsetDef == 1 :> 0 @@ 2 :> 4 @@ 3 :> 7 @@ 4 :> 9
CarriedDef == 1 :> 2 @@ 2 :> 1 @@ 3 :> 0
BadDef == 1 :> 1 @@ 2 :> 0 @@ 3 :> 0
=============================================================================
