----------------------------- MODULE BlockQueue -----------------------------
(***************************************************************************)
(* What FreeKVCacheBlockQueue promises its callers: a queue of distinct    *)
(* blocks, taken from its front, put back at either end and removed from   *)
(* anywhere. BlockPool keeps its free blocks in such a sequence.           *)
(***************************************************************************)
EXTENDS Integers, Sequences

CONSTANTS NumBlocks, MaxBatch   \* MaxBatch bounds the blocks put back at once

VARIABLES order,     \* the free blocks, the next to be allocated first
          given      \* what the last call returned

qvars == <<order, given>>

Members(s) == {s[i] : i \in DOMAIN s}
Lists == {s \in UNION {[1..n -> 0..(NumBlocks - 1)] : n \in 1..MaxBatch} :
             \A i, j \in DOMAIN s : s[i] = s[j] => i = j}

QInit == given = <<>> /\ order = [i \in 1..NumBlocks |-> i - 1]

Pop(n) ==
    /\ given' = SubSeq(order, 1, n)
    /\ order' = SubSeq(order, n + 1, Len(order))
Drop(i) ==
    /\ order' = SubSeq(order, 1, i - 1) \o SubSeq(order, i + 1, Len(order))
    /\ given' = <<>>
PutBack(s, atEnd) ==
    /\ Members(s) \cap Members(order) = {}
    /\ order' = IF atEnd THEN order \o s ELSE s \o order
    /\ given' = <<>>

QNext == \/ \E n \in 1..Len(order) : Pop(n)
         \/ \E i \in DOMAIN order : Drop(i)
         \/ \E s \in Lists, atEnd \in BOOLEAN : PutBack(s, atEnd)
QSpec == QInit /\ [][QNext]_qvars
=============================================================================
