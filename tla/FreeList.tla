------------------------------ MODULE FreeList ------------------------------
(***************************************************************************)
(* FreeKVCacheBlockQueue (vllm/v1/core/kv_cache_utils.py): the free blocks *)
(* of a pool as a doubly linked list through the blocks themselves, with a *)
(* sentinel at each end, a count and a shadow set of members. The callers  *)
(* (BlockPool) put back blocks that are not in the list and remove blocks  *)
(* that are; anything else raises.                                         *)
(***************************************************************************)
EXTENDS Integers, Sequences, FiniteSets

CONSTANTS NumBlocks, MaxBatch

ASSUME ListAssumption == NumBlocks \in Nat \ {0} /\ MaxBatch \in Nat \ {0}

Blocks == 0..(NumBlocks - 1)
Head0 == NumBlocks           \* fake_free_list_head
Tail0 == NumBlocks + 1       \* fake_free_list_tail
Nodes == 0..(NumBlocks + 1)
None == -1

VARIABLES prev, next,        \* prev_free_block, next_free_block
          num,               \* num_free_blocks
          linked,            \* _linked
          given              \* the blocks the last call returned

vars == <<prev, next, num, linked, given>>

Init ==
    /\ next = [x \in Nodes |-> CASE x = Head0 -> 0
                                 [] x = Tail0 -> None
                                 [] x = NumBlocks - 1 -> Tail0
                                 [] OTHER -> x + 1]
    /\ prev = [x \in Nodes |-> CASE x = Head0 -> None
                                 [] x = Tail0 -> NumBlocks - 1
                                 [] x = 0 -> Head0
                                 [] OTHER -> x - 1]
    /\ num = NumBlocks /\ linked = Blocks /\ given = <<>>

\* _check: the count and the shadow set agree, or the call raises.
Checked == Cardinality(linked) = num

\* The node i links away from the head, None beyond the end.
Path(links) ==
    LET nth[i \in Nat] == IF i = 0 THEN Head0
                          ELSE IF nth[i - 1] = None THEN None ELSE links[nth[i - 1]]
    IN  nth
Nth == Path(next)

\* popleft_n; popleft is the case of one block.
\* mutant: the new first block keeps its link to a block that is gone
PopLeftNOneWay(n) ==
    /\ Checked /\ n <= num /\ num' = num - n
    /\ given' = [i \in 1..n |-> Nth[i]]
    /\ linked' = linked \ {Nth[i] : i \in 1..n}
    /\ next' = [x \in Nodes |-> IF x = Head0 THEN Nth[n + 1]
                                ELSE IF x \in {Nth[i] : i \in 1..n} THEN None ELSE next[x]]
    /\ prev' = [x \in Nodes |-> IF x \in {Nth[i] : i \in 1..n} THEN None ELSE prev[x]]
PopLeftN(n) ==
    /\ Checked /\ n <= num /\ num' = num - n
    /\ given' = [i \in 1..n |-> Nth[i]]
    /\ linked' = linked \ {Nth[i] : i \in 1..n}
    /\ next' = [x \in Nodes |-> IF x = Head0 THEN Nth[n + 1]
                                ELSE IF x \in {Nth[i] : i \in 1..n} THEN None ELSE next[x]]
    /\ prev' = [x \in Nodes |-> IF x = Nth[n + 1] THEN Head0
                                ELSE IF x \in {Nth[i] : i \in 1..n} THEN None ELSE prev[x]]

\* remove.
Remove(b) ==
    /\ Checked /\ prev[b] # None /\ next[b] # None
    /\ next' = [next EXCEPT ![prev[b]] = next[b], ![b] = None]
    /\ prev' = [prev EXCEPT ![next[b]] = prev[b], ![b] = None]
    /\ linked' = linked \ {b} /\ num' = num - 1 /\ given' = <<>>

\* The list s goes between the neighbours left and right. A block enters only
\* when it is not linked and its id is not in the list.
Members(s) == {s[i] : i \in DOMAIN s}
MayLink(s) == \A b \in Members(s) : prev[b] = None /\ next[b] = None /\ b \notin linked
Place(s, b) == CHOOSE i \in DOMAIN s : s[i] = b
Splice(s, left, right) ==
    /\ Checked /\ MayLink(s)
    /\ next' = [x \in Nodes |->
                   IF x = left THEN s[1]
                   ELSE IF x \notin Members(s) THEN next[x]
                   ELSE IF Place(s, x) = Len(s) THEN right ELSE s[Place(s, x) + 1]]
    /\ prev' = [x \in Nodes |->
                   IF x = right THEN s[Len(s)]
                   ELSE IF x \notin Members(s) THEN prev[x]
                   ELSE IF Place(s, x) = 1 THEN left ELSE s[Place(s, x) - 1]]
    /\ linked' = linked \cup Members(s)
    /\ num' = num + Len(s) /\ given' = <<>>

\* append_n; append is the case of one block.
\* mutant: the last block is looked up in the wrong direction
AppendNAtHead(s) == Splice(s, Head0, Tail0)
AppendN(s) == Splice(s, prev[Tail0], Tail0)

\* prepend_n.
PrependN(s) == Splice(s, Head0, next[Head0])

Lists == {s \in UNION {[1..n -> Blocks] : n \in 1..MaxBatch} :
             \A i, j \in DOMAIN s : s[i] = s[j] => i = j}

Next == \/ \E n \in 1..num : PopLeftN(n)
        \/ \E b \in Blocks : Remove(b)
        \/ \E s \in Lists : AppendN(s) \/ PrependN(s)
Spec == Init /\ [][Next]_vars

-----------------------------------------------------------------------------
(* Properties.                                                             *)

\* The blocks in the order the list is walked by get_all_free_blocks.
Walked == LET len == CHOOSE i \in 0..NumBlocks : Nth[i + 1] = Tail0
          IN  [i \in 1..len |-> Nth[i]]

\* The list can be walked both ways and ends: every link has its counterpart,
\* a block outside the list has none, and the count and the shadow set that
\* _check compares are those of the walk, after any sequence of calls.
BothWays ==
    /\ \E i \in 0..NumBlocks : Nth[i + 1] = Tail0
    /\ \A x \in Nodes : /\ x # Tail0 /\ next[x] # None => prev[next[x]] = x
                        /\ x # Head0 /\ prev[x] # None => next[prev[x]] = x
    /\ \A b \in Blocks \ linked : prev[b] = None /\ next[b] = None
    /\ linked = {Nth[i] : i \in 1..num} /\ num = Cardinality(linked)

Queue == INSTANCE BlockQueue WITH order <- Walked

\* The list behaves as the queue its callers think of: blocks are handed out
\* from the front, in the order in which they were put back at either end.
ImplementsQueue == Queue!QSpec
=============================================================================
