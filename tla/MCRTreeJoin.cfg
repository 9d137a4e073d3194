CONSTANTS
  Geometries <- SmallGeometries
  Most = 2
  Every = 2
SPECIFICATION Spec
\* The programs end.
CHECK_DEADLOCK FALSE
INVARIANTS BlockingIsExact FrozenEarly QueriesAgree
