---------------------------- MODULE HeightIndex ----------------------------
(***************************************************************************)
(* The buckets in which the consensus plugins keep a value per block       *)
(* height.  A key is the height in big-endian bytes (encodeBlockheight),   *)
(* so the order of the keys is the order of the heights and a bucket is a  *)
(* function from the heights that have a value.                            *)
(***************************************************************************)
EXTENDS Integers, FiniteSets, FiniteSetsExt, TLC

EmptyBucket == [h \in {} |-> 0]

PutAt(bucket, h, v) == (h :> v) @@ bucket
DeleteAt(bucket, h) == [k \in DOMAIN bucket \ {h} |-> bucket[k]]

\* Cursor.Last.
Latest(bucket, none) == IF DOMAIN bucket = {} THEN none ELSE bucket[Max(DOMAIN bucket)]

\* Cursor.Seek(h), then Last if that is past the end, or Prev if the key found
\* is above h.
ValueAt(bucket, h, none) ==
    LET from == {k \in DOMAIN bucket : k >= h}
        below == {k \in DOMAIN bucket : k < h}
    IN  IF from = {} THEN Latest(bucket, none)
        ELSE IF Min(from) <= h THEN bucket[Min(from)]
        ELSE IF below = {} THEN none ELSE bucket[Max(below)]

=============================================================================
