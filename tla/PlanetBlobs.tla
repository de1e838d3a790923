---------------------------- MODULE PlanetBlobs ----------------------------
(***************************************************************************)
(* The planet, and how BlobReader finds the blobs of a type in it.         *)
(*                                                                         *)
(* A planet is a sequence of blobs, a blob a sequence of primitives: nodes,*)
(* then ways, then relations, over the whole planet.  A blob may have      *)
(* primitives of several types.  Tags are as in MatchMasks; a role is a    *)
(* value.                                                                  *)
(***************************************************************************)
EXTENDS MatchMasks

NODE == 1
WAY == 2
RELATION == 3

encode_feature_id(member_type, id) == id * 10 + member_type
decode_feature_id(fid) == [type |-> fid % 10, id |-> fid \div 10]

\* What kind of blob it is, by its first primitive.
classify(blob) == blob[1].type

\* The number of blobs at the start that come before a type; the first
\* "left" of them are known to.  The planet is sorted: a binary search.
PartitionPoint(blobs, left, type) ==
    LET search[l \in 0 .. Len(blobs), r \in 0 .. Len(blobs)] ==
            LET mid == l + (r - l) \div 2 IN
            IF l >= r THEN l
            ELSE IF classify(blobs[mid + 1]) < type THEN search[mid + 1, r]
            ELSE search[l, mid]
    IN  search[left, Len(blobs)]

\* The blobs that a pass over the primitives of a type is sent.  The last
\* blob that begins with another type may end with this one.
partition(blobs) ==
    LET nodes_end == PartitionPoint(blobs, 0, WAY)
        ways_end == PartitionPoint(blobs, nodes_end, RELATION)
    IN  [nodes_end |-> nodes_end, ways_end |-> ways_end]

saturating_sub(n, k) == IF n < k THEN 0 ELSE n - k

\* A mutant: the blob in which a type begins is not sent.
Blobs_exact(blobs, type) ==
    LET p == partition(blobs) IN
    CASE type = NODE -> 1 .. p.nodes_end
      [] type = WAY -> p.nodes_end + 1 .. p.ways_end
      [] type = RELATION -> p.ways_end + 1 .. Len(blobs)

Blobs(blobs, type) ==
    LET p == partition(blobs) IN
    CASE type = NODE -> 1 .. p.nodes_end
      [] type = WAY -> saturating_sub(p.nodes_end, 1) + 1 .. p.ways_end
      [] type = RELATION -> saturating_sub(p.ways_end, 1) + 1 .. Len(blobs)

\* The primitives of a type that a pass sees.
Sent(blobs, type) ==
    UNION {{b \in ToSet(blobs[i]) : b.type = type} : i \in Blobs(blobs, type)}
=============================================================================
