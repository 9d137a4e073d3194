---------------------------- MODULE MCRTreeJoin ----------------------------
EXTENDS RTreeJoin

\* The point 1 is in the envelope of {0, 2} and not in it.
SmallGeometries == {{1}, {0, 2}}
=============================================================================
