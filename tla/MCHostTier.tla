----------------------------- MODULE MCHostTier -----------------------------
(* Instances of HostTier for TLC.                                             *)
EXTENDS HostTier

\* r2 repeats r1's prompt; r3 is another conversation, which needs room.
RepeatedPrompt == [r1 |-> <<"a">>, r2 |-> <<"a">>, r3 |-> <<"c">>]

\* r2 shares the first block of r1 and goes on differently.
ForkedPrompt == [r1 |-> <<"a", "b">>, r2 |-> <<"a", "c">>]

\* r2 repeats r1's prompt of two blocks.
LongPrompt == [r1 |-> <<"a", "b">>, r2 |-> <<"a", "b">>]

\* An attention group and a state group, little room on the host and the disk.
Hybrid ==
    [numHost |-> 2, numDisk |-> 3, chain |-> RepeatedPrompt,
     attentionOnly |-> FALSE, hasRing |-> TRUE, recompute |-> TRUE,
     mayFailIO |-> FALSE, mayMissBlock |-> FALSE, mayReuse |-> FALSE,
     v1Runner |-> FALSE, maxBatch |-> 1, maxPreemptions |-> 0]

\* Boundaries inside a prompt, more room.
Longer == [Hybrid EXCEPT !.numHost = 3, !.numDisk = 4, !.chain = LongPrompt]

\* The same, of conversations that part after their first block.
Forked == [Longer EXCEPT !.chain = ForkedPrompt]

\* The disk fails.
Failing == [Hybrid EXCEPT !.mayFailIO = TRUE]

\* Attention only and no disk: partial resume.
Partial ==
    [Hybrid EXCEPT !.numHost = 3, !.numDisk = 0, !.chain = ForkedPrompt,
                   !.attentionOnly = TRUE, !.mayMissBlock = TRUE,
                   !.maxBatch = 2, !.maxPreemptions = 1]

\* The GPU is full: a freed block is soon written again.
FullGPU == [Hybrid EXCEPT !.chain = ForkedPrompt, !.mayReuse = TRUE]

Tiers == {Hybrid, Longer, Forked, Failing, Partial, FullGPU}
HybridOnly == {Hybrid}
=============================================================================
