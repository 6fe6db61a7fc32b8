----------------------------- MODULE MCDPWaves -----------------------------
(* Deployments for DPWaves. *)
EXTENDS DPWaves

\* Two requests to one front end; progress is checked too.
Small == [numEngines |-> 2, front |-> <<"f1", "f1">>, length |-> <<1, 1>>,
          targets |-> <<{0, 1}, {0, 1}>>, syncEvery |-> 1,
          replicated |-> FALSE, modes |-> {}, maxPauses |-> 0, aborts |-> FALSE,
          live |-> TRUE]

\* The forward passes are no collectives; the all-reduce comes every second step.
ReplicatedMoE == [Small EXCEPT !.targets = <<{0}, {1}>>,
                               !.replicated = TRUE, !.syncEvery = 2, !.live = FALSE]

\* A request of two steps to engine 0 and one of one step to engine 1, with the
\* all-reduce of the engines' collectives every second step.
EverySecond == [Small EXCEPT !.length = <<2, 1>>, !.targets = <<{0}, {1}>>,
                             !.syncEvery = 2, !.live = FALSE]

\* Each request through a front end of its own, to engine 1 and then to engine 0.
TwoFronts == [Small EXCEPT !.front = <<"f1", "f2">>,
                           !.targets = <<{1}, {0}>>, !.live = FALSE]

\* Three engines and one request, which may be aborted.
Aborting == [Small EXCEPT !.numEngines = 3, !.front = <<"f1">>, !.length = <<1>>,
                          !.targets = <<{0, 1, 2}>>, !.aborts = TRUE, !.live = FALSE]

\* One request and a pause and resume in every mode.
Pausing == [Small EXCEPT !.front = <<"f1">>, !.length = <<2>>, !.targets = <<{0, 1}>>,
                         !.maxPauses = 1, !.modes = {"abort", "wait", "keep"}, !.live = FALSE]

\* Two requests around a pause that aborts.
PausedBetween == [Small EXCEPT !.maxPauses = 1, !.modes = {"abort"},
                               !.live = FALSE]

Deployments == {Small, ReplicatedMoE, EverySecond, TwoFronts, Aborting, Pausing}
PauseOnly == {PausedBetween}
=============================================================================
