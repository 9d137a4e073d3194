--------------------------- MODULE MCStaticSchemes --------------------------
(* A small instance of StaticSchemes for TLC. *)
EXTENDS StaticSchemes
=============================================================================
