------------------------------- MODULE Tables -------------------------------
(***************************************************************************)
(* What the passes over the planet keep between them.  Tables by id are    *)
(* functions here: their writers sort the entries by key, and refuse a key *)
(* that is there twice.  In the pool of strings, a string is found by its  *)
(* hash, from which follow a bucket and a value that is sorted in it;      *)
(* strings with the same hash are next to each other.                      *)
(***************************************************************************)
EXTENDS Integers, Sequences, FiniteSets, FiniteSetsExt, SequencesExt

CONSTANTS
    Hash(_),        \* of a string
    BUCKET_COUNT,
    VALUES          \* how many values there are in a bucket

NONE == 0

-----------------------------------------------------------------------------
\* Of a set of pairs <<key, value>>.
Table(entries) ==
    [key \in {e[1] : e \in entries} |-> (CHOOSE e \in entries : e[1] = key)[2]]

lookup_or(table, key, otherwise) == IF key \in DOMAIN table THEN table[key] ELSE otherwise

\* A store grows while it is read; what is there last is found.
insert(store, key, geometry) == (key :> geometry) @@ store

-----------------------------------------------------------------------------
(***************************************************************************)
(* StringPool.  The code sorts the strings by how often they occur; here   *)
(* their order is any.  A string is known by its index.                    *)
(***************************************************************************)
BucketOf(hash) == hash \div VALUES
ValueOf(hash) == hash % VALUES

\* Sorted by hash, then by index.
sort_hashes(strings) ==
    SortSeq([i \in DOMAIN strings |-> [hash |-> Hash(strings[i]), index |-> i]],
            LAMBDA a, b : a.hash < b.hash \/ (a.hash = b.hash /\ a.index < b.index))

\* How many hashes come before a bucket; the last one is a sentinel.
Buckets(hashes) ==
    [bucket \in 0 .. BUCKET_COUNT |->
        Cardinality({k \in DOMAIN hashes : BucketOf(hashes[k].hash) < bucket})]

Pool(strings, hashes) == [strings |-> strings, hashes |-> hashes, buckets |-> Buckets(hashes)]

create_pool(texts) ==
    LET strings == FoldSet(LAMBDA text, seq : Append(seq, text), <<>>, texts)
    IN  Pool(strings, sort_hashes(strings))

get(pool, index) == pool.strings[index]

\* From the first hash of the bucket that is not smaller, as long as they
\* are the same.
lookup(pool, text) ==
    LET lo == pool.buckets[BucketOf(Hash(text))]
        hi == pool.buckets[BucketOf(Hash(text)) + 1]
        Value(p) == ValueOf(pool.hashes[p].hash)
        first == lo + 1 + Cardinality({p \in lo + 1 .. hi : Value(p) < ValueOf(Hash(text))})
        run == {p \in first .. hi : Value(p) = ValueOf(Hash(text))}
        found == {pool.hashes[p].index : p \in run}
        same == {index \in found : get(pool, index) = text}
    IN  IF same = {} THEN NONE ELSE Min(same)
=============================================================================
