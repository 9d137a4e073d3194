---------------------------- MODULE PolygonWire -----------------------------
(***************************************************************************)
(* The arrays of numbers in which the programs of exp2 (multiple query,    *)
(* multiple thread, floating point) send polygons: how the client builds   *)
(* them, how the DPU walks and splits them, and how the DPU and the host,  *)
(* each with a loop of its own, decode them.                               *)
(*                                                                         *)
(* Every polygon is preceded by a header: the index, counted from 0, of    *)
(* its last coordinate in the array.  All entries are floats, so a header  *)
(* larger than Exact is rounded to an even number, ties to a multiple of   *)
(* four.                                                                   *)
(*                                                                         *)
(* Abstractions: a coordinate is a negative integer of its own, so that    *)
(* one taken for a header is no index; the text handed to GEOS is the list *)
(* of its coordinates, and empty when a comma is missing between two.      *)
(***************************************************************************)
EXTENDS Integers, Sequences

CONSTANTS MaxPolygons,  \* polygons in the client's file, at most
          MaxPoints,    \* points of a polygon, at most
          bunchSize,    \* the client's polygons per request
          DpuBunches,   \* the DPU's bunchSize, as its command line may set it
          Exact,        \* integers up to this are exact as floats (2^24)
          Junk          \* what a read past the end of an array may return

ASSUME SizesAssumption == /\ MaxPolygons \in Nat /\ MaxPoints \in Nat \ {0}
                          /\ bunchSize \in Nat \ {0} /\ DpuBunches \subseteq Nat
ASSUME FloatAssumption == Exact \in Nat /\ Junk \subseteq Int

VARIABLES
  file,          \* the number of points of each polygon of the file
  dpuBunch,      \* polygons the DPU sends on from each request
  polygonsRead,  \* polygons the client has read
  polygonArray,  \* the request under construction
  requests,      \* the arrays sent to the DPU
  forwarded,     \* the part the DPU has sent on, of each request it has split
  atHost,        \* the polygons queried by the host, of each request it has done
  atDpu,         \* the same of the DPU
  thrown         \* whether an exception has ended the DPU

wireVars == <<file, dpuBunch, polygonsRead, polygonArray, requests, forwarded, atHost, atDpu, thrown>>

-----------------------------------------------------------------------------
\* The arrays ---------------------------------------------------------------

Coordinate(p, k) == - (2 * MaxPoints * p + k)
geomToArray(p) == [k \in 1 .. 2 * file[p] |-> Coordinate(p, k)]

\* An integer stored as a float, up to 2 * Exact.
AsFloat(n) == IF n <= Exact \/ n % 2 = 0 THEN n
              ELSE IF n % 4 = 1 THEN n - 1 ELSE n + 1

Appended(a, polygon) == Append(a, AsFloat(Len(a) + Len(polygon))) \o polygon

\* The entry at index i, counted from 0; past the end, whatever is there.
At(a, i, junk) == IF i \in 0 .. Len(a) - 1 THEN a[i + 1] ELSE junk

\* The walk of the DPU over n headers, each the index just before the next: the
\* last index read, or Len(a) once a bounds-checked read has thrown.
AfterHeaders(a, n) ==
  LET walk[c \in 0 .. n] ==
        IF c = 0 THEN -1
        ELSE IF walk[c - 1] + 1 \in 0 .. Len(a) - 1 THEN a[walk[c - 1] + 2] ELSE Len(a)
  IN  walk[n]

\* Mutant of SendIndex: one header too many.
SendIndexOneMore(a, bunch) == AfterHeaders(a, bunch + 1)

\* The last index that is sent on to the host.
SendIndex(a, bunch) == AfterHeaders(a, bunch)

\* Mutant of SendArray: the last coordinate is not sent on.
SendArrayShort(a, last) == SubSeq(a, 1, last)

SendArray(a, last) == SubSeq(a, 1, last + 1)

\* The polygons in the part of an array that begins with the header at index i,
\* the way the DPU reads it: i runs over headers.
DecodeDpu(a, from, junk) ==
  LET decode[i \in 0 .. Len(a)] ==
        IF i = Len(a) THEN <<>>
        ELSE LET geomSize == a[i + 1]
                 pairs == IF geomSize > i THEN (geomSize - i + 1) \div 2 ELSE 0
                 next == i + 2 * pairs + 1
             IN  <<[k \in 1 .. 2 * pairs |-> At(a, i + k, junk)]>>
                 \o (IF next < Len(a) THEN decode[next] ELSE <<>>)
  IN  IF from \in 0 .. Len(a) THEN decode[from] ELSE <<>>

\* The same of a whole array, the way the host reads it: i runs over first
\* coordinates, and the header before them was read at the end of the round
\* before.  With an odd number of coordinates the last comma is missing.
DecodeHost(a, junk) ==
  LET decode[i \in 1 .. Len(a) + 1] ==
        IF i >= Len(a) THEN <<>>
        ELSE LET geomSize == a[i]
                 pairs == IF geomSize >= i THEN (geomSize - i + 2) \div 2 ELSE 0
                 next == i + 2 * pairs + 1
                 broken == pairs > 1 /\ (geomSize - i) % 2 = 0
             IN  <<[k \in 1 .. IF broken THEN 0 ELSE 2 * pairs |-> At(a, i + k - 1, junk)]>>
                 \o (IF next < Len(a) THEN decode[next] ELSE <<>>)
  IN  decode[1]

\* What is kept of each request, with that of request r.
Keep(kept, r, what) == [s \in DOMAIN kept \cup {r} |-> IF s = r THEN what ELSE kept[s]]
-----------------------------------------------------------------------------
WireInit ==
  /\ file \in UNION {[1 .. n -> 1 .. MaxPoints] : n \in 0 .. MaxPolygons}
  /\ dpuBunch \in DpuBunches
  /\ polygonsRead = 0
  /\ polygonArray = <<>>
  /\ requests = <<>> /\ forwarded = <<>> /\ atHost = <<>> /\ atDpu = <<>>
  /\ thrown = FALSE

\* Mutant of ReadPolygon: the polygon that fills a request comes too late for it.
ReadPolygonLate ==
  /\ polygonsRead < Len(file)
  /\ polygonsRead' = polygonsRead + 1
  /\ LET a == Appended(polygonArray, geomToArray(polygonsRead + 1))
     IN  IF (polygonsRead + 1) % bunchSize = 0
           THEN requests' = Append(requests, polygonArray) /\ polygonArray' = <<>>
           ELSE polygonArray' = a /\ UNCHANGED requests
  /\ UNCHANGED <<file, dpuBunch, forwarded, atHost, atDpu, thrown>>

\* The client reads a polygon, and sends what it has after every bunchSize.
ReadPolygon ==
  /\ polygonsRead < Len(file)
  /\ polygonsRead' = polygonsRead + 1
  /\ LET a == Appended(polygonArray, geomToArray(polygonsRead + 1))
     IN  IF (polygonsRead + 1) % bunchSize = 0
           THEN requests' = Append(requests, a) /\ polygonArray' = <<>>
           ELSE polygonArray' = a /\ UNCHANGED requests
  /\ UNCHANGED <<file, dpuBunch, forwarded, atHost, atDpu, thrown>>

\* The DPU finds the end of its first dpuBunch polygons and sends them on.
Split(r) ==
  /\ ~thrown /\ r \notin DOMAIN forwarded
  /\ LET last == SendIndex(requests[r], dpuBunch)
     IN  IF last < Len(requests[r])
           THEN /\ forwarded' = Keep(forwarded, r, SendArray(requests[r], last))
                /\ thrown' = FALSE
           ELSE /\ thrown' = TRUE
                /\ UNCHANGED forwarded
  /\ UNCHANGED <<file, dpuBunch, polygonsRead, polygonArray, requests, atHost, atDpu>>

\* The DPU queries the rest.
QueryDpu(r) ==
  /\ ~thrown /\ r \in DOMAIN forwarded /\ r \notin DOMAIN atDpu
  /\ \E junk \in Junk :
       atDpu' = Keep(atDpu, r, DecodeDpu(requests[r], SendIndex(requests[r], dpuBunch) + 1, junk))
  /\ UNCHANGED <<file, dpuBunch, polygonsRead, polygonArray, requests, forwarded, atHost, thrown>>

\* The host queries what it was sent, if that is anything.
QueryHost(r) ==
  /\ r \in DOMAIN forwarded /\ r \notin DOMAIN atHost
  /\ \E junk \in Junk :
       atHost' = Keep(atHost, r, DecodeHost(forwarded[r], junk))
  /\ UNCHANGED <<file, dpuBunch, polygonsRead, polygonArray, requests, forwarded, atDpu, thrown>>

Finished == /\ polygonsRead = Len(file)
            /\ \A r \in DOMAIN requests :
                 /\ r \in DOMAIN forwarded => r \in DOMAIN atHost
                 /\ thrown \/ r \in DOMAIN atDpu

WireNext == \/ ReadPolygon
            \/ \E r \in DOMAIN requests : Split(r) \/ QueryDpu(r) \/ QueryHost(r)
            \/ Finished /\ UNCHANGED wireVars

WireSpec == WireInit /\ [][WireNext]_wireVars
-----------------------------------------------------------------------------
\* The polygons the client put in its r-th request.
Batch(r) == [k \in 1 .. bunchSize |-> geomToArray((r - 1) * bunchSize + k)]

\* All headers of a request are exact.
Fits(a) == Len(a) - 1 <= Exact

(***************************************************************************)
(* Host and DPU between them query each polygon of a request once, whole   *)
(* and in order, although the two loops read the headers at different      *)
(* times, one of them past the end: as long as the headers are exact.      *)
(***************************************************************************)
WholeBatch ==
  \A r \in DOMAIN requests :
    Fits(requests[r]) =>
      /\ r \in DOMAIN atHost => atHost[r] = SubSeq(Batch(r), 1, dpuBunch)
      /\ r \in DOMAIN atDpu => atDpu[r] = SubSeq(Batch(r), dpuBunch + 1, bunchSize)

(***************************************************************************)
(* The bounds check of the DPU throws only for a request with fewer        *)
(* polygons than it sends on, or with a rounded header.                    *)
(***************************************************************************)
ThrowsOnlyIfShort ==
  thrown => \/ dpuBunch > bunchSize
            \/ \E r \in DOMAIN requests : ~Fits(requests[r])

\* The array a is that of the given polygons: header and coordinates of each,
\* one after the other, and nothing else; ends[k] is where the k-th ends, counted
\* from 1.
IsArrayOf(a, polygons) ==
  \E ends \in [DOMAIN polygons -> DOMAIN a] :
    LET before(k) == IF k = 1 THEN 0 ELSE ends[k - 1]
    IN  /\ Len(a) = before(Len(polygons) + 1)
        /\ \A k \in DOMAIN polygons :
             /\ ends[k] = before(k) + 1 + Len(polygons[k])
             /\ a[before(k) + 1] = AsFloat(ends[k] - 1)
             /\ SubSeq(a, before(k) + 2, ends[k]) = polygons[k]

(***************************************************************************)
(* The r-th request is the array of the r-th bunchSize polygons of the     *)
(* file, each once and in order, and what is read beyond full requests is  *)
(* the array under construction: batches neither overlap nor leave a       *)
(* polygon out, however long they are and whether or not their headers are *)
(* rounded.                                                                *)
(***************************************************************************)
ReadIsKept ==
  LET kept == polygonsRead % bunchSize
  IN  /\ Len(requests) = polygonsRead \div bunchSize
      /\ \A r \in DOMAIN requests : IsArrayOf(requests[r], Batch(r))
      /\ IsArrayOf(polygonArray, [k \in 1 .. kept |-> geomToArray(polygonsRead - kept + k)])
=============================================================================
