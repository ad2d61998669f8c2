--------------------------- MODULE MCTaskProcessor ---------------------------
(* TaskProcessor instantiated for TLC: two state ids, one local queue.    *)
EXTENDS TaskProcessor

CONSTANTS A, B, w1, w2, q1

MCStateIds == {A, B}
MCWorkers == {w1, w2}
MCOneWorker == {w1}
MCQueues == {q1}

(* The worker goroutines are interchangeable: the code never tells them  *)
(* apart.                                                                   *)
WorkerSymmetry == Permutations(MCWorkers)

(* The worker's decisions: go to A, go to B skipping WaitUntil, or fan    *)
(* out to both, which creates siblings that run in parallel.              *)
MCNextStateChoices ==
    { <<[stateId |-> A, skipWaitUntil |-> FALSE]>>,
      <<[stateId |-> B, skipWaitUntil |-> TRUE]>>,
      <<[stateId |-> A, skipWaitUntil |-> FALSE],
        [stateId |-> B, skipWaitUntil |-> TRUE]>> }

(* The process definition starts at A, with or without its WaitUntil, or *)
(* starts with no state at all; the request carries a StartStateConfig.  *)
MCStartChoices ==
    {<<>>, <<[stateId |-> A, skipWaitUntil |-> FALSE, config |-> TRUE]>>,
     <<[stateId |-> A, skipWaitUntil |-> TRUE, config |-> TRUE]>>}

(* The same, and a request that leaves the optional StartStateConfig out. *)
MCStartChoicesAnyConfig ==
    MCStartChoices \cup {<<[stateId |-> A, skipWaitUntil |-> FALSE, config |-> FALSE]>>}

(* Only a start at A without a StartStateConfig.                          *)
MCUnconfiguredStart ==
    {<<[stateId |-> A, skipWaitUntil |-> FALSE, config |-> FALSE]>>}

(* WaitUntil commands the code handles to the end: an empty command and a *)
(* local-queue command.                                                    *)
MCWaitUntilCommands == {[kind |-> "Empty"], [kind |-> "LocalQueue", queue |-> q1]}

(* Only the empty command: every WaitUntil completes at once.             *)
MCEmptyCommandOnly == {[kind |-> "Empty"]}

(* The commands with a timer: WaitUntil may ask to wait for a timer.      *)
MCTimerCommands == {[kind |-> "Empty"], [kind |-> "Timer"]}
=============================================================================
