\* Files of up to five polygons of one to three points, in requests of two,
\* of which the DPU sends on none, some, all, or more than there are.  With
\* integers exact up to 9, two small polygons fit and two large do not.
CONSTANTS
  MaxPolygons = 5
  MaxPoints = 3
  bunchSize = 2
  DpuBunches = {0, 1, 2, 3}
  Exact = 9
  Junk <- MCJunk
SPECIFICATION WireSpec
INVARIANTS WholeBatch ThrowsOnlyIfShort ReadIsKept
