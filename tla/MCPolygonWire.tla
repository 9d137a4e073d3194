--------------------------- MODULE MCPolygonWire ----------------------------
(* Small instances of PolygonWire for TLC: floats with few exact integers. *)
EXTENDS PolygonWire

\* A past-the-end read may look like a coordinate, a header, or anything.
MCJunk == {-1, 0, 1000}
=============================================================================
