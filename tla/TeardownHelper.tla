--------------------------- MODULE TeardownHelper ---------------------------
(***************************************************************************)
(* docker/teardown.mjs: the helper that runs the repository's teardown     *)
(* hooks inside a workspace Pod, fenced by two marker files on the         *)
(* workspace's volume, and store.teardown(), which executes it.            *)
(***************************************************************************)
EXTENDS ClusterState

\* kubectl exec needs a running daemon container.
CanExec(w) == pod[w].phase = "Ready"

\* The helper finds the completion marker and returns without running hooks.
TeardownAlreadyDone(w) == CanExec(w) /\ hooks[w] = "complete"

\* The helper cannot be executed, or its exclusive create of the intent fails.
TeardownRefused(w) == ~CanExec(w) \/ hooks[w] = "started"

\* Mutant of TeardownStarts: an intent left by an earlier run is ignored.
TeardownStartsAgain(w) ==
  /\ CanExec(w)
  /\ hooks[w] # "complete"
  /\ hooks' = [hooks EXCEPT ![w] = "started"]
  /\ helper' = helper \cup {w}
  /\ runs' = [runs EXCEPT ![w] = IF @ = 2 THEN 2 ELSE @ + 1]

\* The helper creates the intent, syncs it and starts the hooks.
TeardownStarts(w) ==
  /\ CanExec(w)
  /\ hooks[w] = "none"
  /\ hooks' = [hooks EXCEPT ![w] = "started"]
  /\ helper' = helper \cup {w}
  /\ runs' = [runs EXCEPT ![w] = IF @ = 2 THEN 2 ELSE @ + 1]

\* Mutant of TeardownSucceeded: any exit of the helper counts as success.
TeardownExited(w) == w \notin helper

\* What the caller of store.teardown() may be told while it waits.
TeardownSucceeded(w) == w \notin helper /\ hooks[w] = "complete"
TeardownFailed(w) ==
  \/ w \notin helper /\ hooks[w] # "complete"
  \/ "unknown" \in Faults

HooksSucceed(w) ==
  /\ w \in helper
  /\ hooks' = [hooks EXCEPT ![w] = "complete"]
  /\ helper' = helper \ {w}
  /\ UNCHANGED <<rec, fresh, sameGeneration, pod, claim, runtime, reader,
                 verified, inventory, now, runs, stoppedAt, gated>>

\* A hook exits with an error, times out or is killed; the intent stays.
HooksFail(w) ==
  /\ "hook" \in Faults
  /\ w \in helper
  /\ helper' = helper \ {w}
  /\ UNCHANGED <<rec, fresh, sameGeneration, pod, claim, runtime, reader,
                 verified, inventory, hooks, now, runs, stoppedAt, gated>>
=============================================================================
