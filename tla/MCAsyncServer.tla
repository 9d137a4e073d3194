--------------------------- MODULE MCAsyncServer ----------------------------
(* Small instances of AsyncServer for TLC.  An object is needed per thread *)
(* and per matched call, so as many objects as threads and calls together  *)
(* never make New wait.                                                    *)
EXTENDS AsyncServer
=============================================================================
