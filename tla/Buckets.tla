------------------------------ MODULE Buckets -------------------------------
(***************************************************************************)
(* The arithmetic of the one-pass localizer: evenly spaced block edges,    *)
(* the id at which each edge begins in a database (ranges.py), the edges   *)
(* both databases can use, and the bucket of a row (compare.py, sql.py).   *)
(***************************************************************************)
EXTENDS SpineRanges, Sequences, SequencesExt

(***************************************************************************)
(* 0, w, 2w, ... and the cutoff itself.                                    *)
(***************************************************************************)
BlockEdges(cutoff, n) ==
  LET w == Max({1, cutoff \div Max({1, n})})
      edges == [i \in 1 .. cutoff \div w + 1 |-> (i - 1) * w]
  IN  IF Last(edges) = cutoff THEN edges ELSE Append(edges, cutoff)

(***************************************************************************)
(* WHERE key >= v ORDER BY key, id LIMIT 1.                                *)
(***************************************************************************)
FirstFrom(S, v) ==
  LET from == {r \in S : None \notin {v, r.key} /\ v <= r.key}
  IN  IF from = {} THEN None ELSE FirstRow(from).id

(***************************************************************************)
(* The first id of a spine at or after a block edge, None past the end.    *)
(***************************************************************************)
BoundaryId(rows, s, edge) ==
  LET b == FirstFrom(rows["block"], edge)
      t == FirstFrom(rows["tx"], b)
  IN  CASE s = "block" -> b
        [] s = "tx"    -> t
        [] s = "leaf"  -> FirstFrom(rows["leaf"], t)

BucketBoundaryIds(rows, s, edges) ==
  [i \in DOMAIN edges |-> BoundaryId(rows, s, edges[i])]

(***************************************************************************)
(* sorted(): the numbers of a finite set from the least to the greatest,   *)
(* and the entries of a sequence at the indices in such a set.             *)
(***************************************************************************)
Ascending(S) ==
  CHOOSE f \in [1 .. Cardinality(S) -> S] : \A i, j \in DOMAIN f : i < j => f[i] < f[j]

Entries(seq, indices) ==
  LET a == Ascending(indices) IN [k \in DOMAIN a |-> seq[a[k]]]

(***************************************************************************)
(* The edges to keep: those with a boundary on both sides that is above    *)
(* those of the edges kept before it, on both sides.  (The code compares   *)
(* with the last one kept, which is above the others.)                     *)
(***************************************************************************)
(* Slip: each side drops its own useless edges. *)
AlignSeparately(edges, b1, b2) ==
  LET Useful(b) == {i \in DOMAIN edges : b[i] # None /\ (i = 1 \/ b[i] # b[i - 1])}
  IN  [edges |-> Entries(edges, Useful(b1)),
       thresholds |-> <<Entries(b1, Useful(b1)), Entries(b2, Useful(b2))>>]

Keeps(kept, i, b1, b2) ==
  /\ None \notin {b1[i], b2[i]}
  /\ \A k \in kept : k < i => b1[k] < b1[i] /\ b2[k] < b2[i]

AlignBucketBoundaries(edges, b1, b2) ==
  LET kept == CHOOSE S \in SUBSET DOMAIN edges :
                \A i \in DOMAIN edges : i \in S <=> Keeps(S, i, b1, b2)
  IN  [edges |-> Entries(edges, kept), thresholds |-> <<Entries(b1, kept), Entries(b2, kept)>>]

(***************************************************************************)
(* width_bucket: how many thresholds an id has reached.                    *)
(***************************************************************************)
WidthBucket(id, thresholds) == Cardinality({k \in DOMAIN thresholds : thresholds[k] <= id})

(***************************************************************************)
(* The block window reported for a bucket.                                 *)
(***************************************************************************)
BucketWindow(v, edges, cutoff) ==
  CASE v = 0                          -> [lo |-> 0, hi |-> edges[1]]
    [] v \in 1 .. Len(edges) - 1      -> [lo |-> edges[v], hi |-> edges[v + 1]]
    [] v >= Len(edges)                -> [lo |-> edges[Len(edges)], hi |-> cutoff]
=============================================================================
