----------------------------- MODULE BlockPool -----------------------------
(***************************************************************************)
(* vllm/v1/core/block_pool.py as operators on a pool: reference counts,    *)
(* the free queue in eviction order and the hash index. The manager that   *)
(* calls it is AsyncSched.                                                 *)
(*                                                                         *)
(* A hash is the prefix it stands for (hashes chain over the whole         *)
(* prefix); a key is a prefix of one cache group, <<group, prefix>>. The   *)
(* number of tokens of a key is the length of its prefix. The free queue   *)
(* is the sequence that FreeList is shown to implement.                    *)
(***************************************************************************)
EXTENDS Lists, FiniteSets

CONSTANTS AllPrefixes,   \* the prefixes that can be hashed
          Groups,        \* kv_cache_group_ids
          HashSize       \* hash_block_size

ASSUME PoolAssumption == HashSize \in Nat \ {0}

\* Where b occurs in s, and in the sequences of the family f.
Places(b, s) == {i \in DOMAIN s : s[i] = b}
AllPlaces(b, f) == UNION {{<<d, i>> : i \in Places(b, f[d])} : d \in DOMAIN f}

Null == 0
NoBlock == -1
NoKey == <<>>
Keys == Groups \X AllPrefixes
PrefixOf(k) == k[2]
Tokens(k) == Len(k[2])

\* A pool of num_gpu_blocks blocks; block 0 is null_block.
NewPool(numBlocks) ==
    [ref   |-> [b \in 0..(numBlocks - 1) |-> 0],
     hash  |-> [b \in 0..(numBlocks - 1) |-> NoKey], \* KVCacheBlock.block_hash
     extra |-> [b \in 0..(numBlocks - 1) |-> {}],    \* cached_block_hashes_by_block
     index |-> [k \in Keys |-> <<>>],        \* cached_block_hash_to_block
     free  |-> [i \in 1..(numBlocks - 1) |-> i]]

BlocksOf(p) == DOMAIN p.ref

NumFree(p) == Len(p.free)
KeysOf(p, b) == p.extra[b] \cup (IF p.hash[b] = NoKey THEN {} ELSE {p.hash[b]})
Holds(p, k, b) == b \in Range(p.index[k])
GetOne(p, k) == IF p.index[k] = <<>> THEN NoBlock ELSE p.index[k][1]

-----------------------------------------------------------------------------
(* The hash index.                                                         *)

\* _maybe_evict_cached_block: every key of the block leaves the index.
Evict(p, b) ==
    [p EXCEPT !.index = [k \in Keys |-> IF k \in KeysOf(p, b)
                                        THEN Without(@[k], b)
                                        ELSE @[k]],
              !.hash[b] = NoKey, !.extra[b] = {}]

Inserted(p, k, b) == p.hash[b] # k /\ ~Holds(p, k, b)

\* _insert_block_hash.
InsertHash(p, k, b) ==
    IF ~Inserted(p, k, b) THEN p
    ELSE IF p.hash[b] = NoKey
    THEN [p EXCEPT !.hash[b] = k, !.index[k] = Append(@, b)]
    ELSE [p EXCEPT !.extra[b] = @ \cup {k}, !.index[k] = Append(@, b)]

\* One block of cache_full_blocks: keep says whether the entries of a shorter
\* prefix stay (full attention) or are promoted away (Mamba).
CacheFull(p, k, b, keep) ==
    IF b = Null THEN p
    ELSE InsertHash(IF p.hash[b] # NoKey /\ ~keep THEN Evict(p, b) ELSE p, k, b)

-----------------------------------------------------------------------------
(* Allocation and reference counts.                                        *)

\* get_new_blocks(n), for n no more than the free blocks.
Taken(q, b) == [Evict(q, b) EXCEPT !.ref[b] = @ + 1]
GetNew(p, n) ==
    FoldLeft(Taken, [p EXCEPT !.free = SubSeq(@, n + 1, Len(@))], SubSeq(p.free, 1, n))

\* touch: a block of the free queue leaves it.
\* mutant: the block stays in the free queue
TouchedInQueue(q, b) == IF b = Null THEN q ELSE [q EXCEPT !.ref[b] = @ + 1]
Touched(q, b) ==
    IF b = Null THEN q
    ELSE [q EXCEPT !.ref[b] = @ + 1,
                   !.free = IF q.ref[b] = 0 THEN Without(@, b) ELSE @]
Touch(p, bs) == FoldLeft(Touched, p, bs)

\* free_blocks: what reaches zero goes to the front of the queue when it holds
\* no hash, to its end otherwise.
Dropped(q, b) ==
    IF b = Null THEN q
    ELSE [q EXCEPT !.ref[b] = @ - 1, !.out = IF q.ref[b] = 1 THEN Append(@, b) ELSE @]
FreeBlocks(p, bs) ==
    LET q == FoldLeft(Dropped, [ref |-> p.ref, out |-> <<>>], bs)
        hashed == {b \in BlocksOf(p) : p.hash[b] # NoKey}
    IN  [p EXCEPT !.ref = q.ref,
                  !.free = Filter(q.out, BlocksOf(p) \ hashed) \o @ \o Filter(q.out, hashed)]

\* The blocks of a table are freed from its end, those of several in turn.
FreeTable(p, bs) == FreeBlocks(p, Reverse(bs))
FreeTables(p, tables) == FoldLeft(FreeTable, p, tables)

\* reset_prefix_cache succeeds when only null_block is in use.
MayReset(p) == NumFree(p) = Cardinality(BlocksOf(p)) - 1
ResetHashes(p) == [NewPool(Cardinality(BlocksOf(p))) EXCEPT !.ref = p.ref, !.free = p.free]

-----------------------------------------------------------------------------
(* What the pool promises between two calls.                               *)

PoolType(p) ==
    /\ p.ref \in [BlocksOf(p) -> Nat]
    /\ \A b \in BlocksOf(p) : p.hash[b] \in Keys \cup {NoKey} /\ p.extra[b] \subseteq Keys
    /\ \A k \in Keys : p.index[k] \in Seq(BlocksOf(p))
    /\ p.free \in Seq(BlocksOf(p))

\* The free queue holds each block that nobody refers to, once.
FreeExact(p) ==
    /\ Range(p.free) = {b \in BlocksOf(p) \ {Null} : p.ref[b] = 0}
    /\ Len(p.free) = Cardinality(Range(p.free))

\* Every key of a block leads to it in the index, and every entry of the index
\* belongs to a block that knows it, so that eviction leaves none behind.
IndexExact(p) ==
    \A k \in Keys : /\ Range(p.index[k]) = {b \in BlocksOf(p) : k \in KeysOf(p, b)}
                    /\ Len(p.index[k]) = Cardinality(Range(p.index[k]))
=============================================================================
