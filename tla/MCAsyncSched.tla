---------------------------- MODULE MCAsyncSched ----------------------------
(* Three requests whose prompts share their first block; the first and the   *)
(* last are turns of one conversation.                                       *)
EXTENDS AsyncSched

MCText == <<<<1, 2, 3, 4, 5, 6, 7, 8, 9, 10>>,
            <<1, 2, 13, 14, 15, 16, 17, 18, 19, 20>>,
            <<1, 2, 3, 4, 5, 6, 7, 8, 9, 10>>>>
MCAllPrefixes == {SubSeq(MCText[r], 1, 2 * i) : r \in Requests, i \in 1..5}

\* One forced reset; blocks are freed at once.
Eager ==
    [prompt |-> <<3, 3, 5>>, maxTokens |-> <<3, 4, 1>>, priority |-> <<1, 0, 0>>,
     numBlocks |-> 5, budget |-> 3, longPrefill |-> 0, maxRunning |-> 2, ppSize |-> 1,
     drafts |-> 0, byPriority |-> FALSE, deferFree |-> FALSE, aborts |-> TRUE,
     maxResets |-> 1]

\* Blocks are freed behind the steps in flight.
Deferring == [Eager EXCEPT !.deferFree = TRUE, !.maxResets = 0]

\* A draft token with every sampled one.
Drafting == [Eager EXCEPT !.numBlocks = 6, !.drafts = 1, !.maxResets = 0]

\* Nobody aborts.
Quiet == [Deferring EXCEPT !.aborts = FALSE]

\* Two pipeline stages: three steps in flight.
Pipelined == [Eager EXCEPT !.ppSize = 2, !.aborts = FALSE]

\* Long prompts in chunks, one request more urgent than the other.
Urgent == [Eager EXCEPT !.prompt = <<9, 7, 7>>, !.maxTokens = <<1, 1, 1>>,
                        !.numBlocks = 8, !.budget = 8, !.longPrefill = 3,
                        !.byPriority = TRUE, !.aborts = FALSE, !.maxResets = 0]

Checked == {Eager, Deferring, Drafting, Quiet, Pipelined}
UrgentOnly == {Urgent}
=============================================================================
