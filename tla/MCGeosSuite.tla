----------------------------- MODULE MCGeosSuite -----------------------------
EXTENDS GeosSuite

\* One file of each kind: the last two are one and two polygons too long for the
\* arrays of MCMaxGeoms.
MCMaxGeoms == 2
Files == {Missing, <<>>, <<"short", "polygon", "polygon">>, <<"text">>, <<"open", "polygon">>, <<"long">>,
          <<"polygon", "polygon", "polygon">>}
Plain == {Missing, <<"polygon", "polygon">>, <<"text">>}

Started(program, n, files1, file2, files, stack) ==
  [program |-> program, n |-> n, first |-> files1, second |-> file2, files |-> files, stack |-> stack]
One(file) == [r \in {0} |-> file]

MCInputs ==
  {Started(p, n, One(f), s, files, stack) :
     p \in {"geos_benchmark", "geos_benchmark_mpi"}, n \in {1, 2}, f \in Files, s \in Files,
     files \in {43, 44}, stack \in {1, 2}}
  \cup {Started(p, n, One(f), s, 44, 1) : p \in {"all_tests", "intersect_only", "file_partition"},
          n \in {1, 2}, f \in Files, s \in Files}
  \cup {Started(p, 1, One(f), s, 44, 1) : p \in {"exp6_client", "exp6_server", "lb_mt_client", "lb_mt_server"},
          f \in Files, s \in Files}
  \cup {Started("geos_benchmark_mpi", 1, f, s, 44, 2) : f \in [{0, 1} -> Plain], s \in Plain}
=============================================================================
