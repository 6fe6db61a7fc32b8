-------------------------- MODULE MCEncoderCache --------------------------
(* Engines and requests for EncoderCache.                                  *)
EXTENDS EncoderCache, TLC

MCSize == "a" :> 2 @@ "b" :> 2 @@ "c" :> 1 @@ "d" :> 2
Item(at, hash) == [at |-> at, hash |-> hash]

\* Two requests share an image; the second has it twice, around another one.
Async ==
    [prompt |-> <<6, 5, 4>>, priority |-> <<1, 0, 0>>,
     features |-> <<<<Item(0, "a"), Item(2, "b")>>,
                    <<Item(0, "a"), Item(2, "c"), Item(3, "a")>>,
                    <<Item(1, "b")>>>>,
     cacheSize |-> 3, computeBudget |-> 3, budget |-> 3, depth |-> 2,
     prefixHits |-> {0, 1}, byPriority |-> FALSE, eagle |-> FALSE,
     wholeItems |-> FALSE, encDec |-> FALSE, aborts |-> TRUE, maxFull |-> 1,
     maxResets |-> 1]

\* A drafter that reads one token ahead, and items that may not be split.
LookAhead == [Async EXCEPT !.cacheSize = 4, !.eagle = TRUE, !.wholeItems = TRUE]

\* Nobody aborts.
Quiet == [Async EXCEPT !.aborts = FALSE, !.maxResets = 0]

\* One step at a time.
Sync == [Quiet EXCEPT !.depth = 1]

Engines == {Async, LookAhead, Quiet, Sync}
=============================================================================
