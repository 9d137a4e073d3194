--------------------------- MODULE MCLoadBalance ----------------------------
(* Small instances of LoadBalance for TLC.                                 *)
EXTENDS LoadBalance
=============================================================================
