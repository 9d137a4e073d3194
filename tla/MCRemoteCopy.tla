---------------------------- MODULE MCRemoteCopy ----------------------------
(* Small instances of RemoteCopy for TLC.  The senders are interchangeable   *)
(* and the properties of the safety run name none of them.                   *)
EXTENDS RemoteCopy
=============================================================================
