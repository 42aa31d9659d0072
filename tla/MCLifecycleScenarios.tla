------------------------ MODULE MCLifecycleScenarios ------------------------
(***************************************************************************)
(* Three small instances of the lifecycle in one run, over one set of      *)
(* variables: the instance is chosen in the initial state and never left.  *)
(***************************************************************************)
EXTENDS WorkspaceLifecycle, TLC

CONSTANTS w1, w2, p1

VARIABLE scenario

\* The constants themselves: two workspaces compete for one slot of the
\* namespace.  GatedPodsWithinCapacity is about them, and holds trivially of the
\* other instances, which have one workspace.
MCTwo == {w1, w2}
MCOneProject == {p1}
MCTwoRef == (w1 :> p1) @@ (w2 :> p1)
MCTwoLimit == (p1 :> 2)
MCTwoTtl == (w1 :> NoTime) @@ (w2 :> NoTime)
MCFaultsTwo == {"loss", "evict", "flap"}

\* One workspace, retained for a tick, in a cluster where calls fail and
\* others act on the same objects.
Env == INSTANCE WorkspaceLifecycle WITH
  Workspaces <- {w1}, ProjectRef <- (w1 :> p1), ProjectLimit <- (p1 :> 1),
  Ttl <- (w1 :> 1), MaxTime <- 1,
  Faults <- {"user", "tick", "api", "foreign", "reader", "finalizer", "project",
             "credentials", "snapshot"}

\* One ephemeral workspace, whose Pod may be lost at any time.
Brief == INSTANCE WorkspaceLifecycle WITH
  Workspaces <- {w1}, Ephemeral <- {w1}, ProjectRef <- (w1 :> p1),
  ProjectLimit <- (p1 :> 1), Ttl <- (w1 :> NoTime),
  Faults <- {"user", "archive", "evict", "loss", "timeout"}

ScenarioInit ==
  \/ scenario = "capacity" /\ Init
  \/ scenario = "environment" /\ Env!Init
  \/ scenario = "ephemeral" /\ Brief!Init

ScenarioNext ==
  /\ \/ scenario = "capacity" /\ Next
     \/ scenario = "environment" /\ Env!Next
     \/ scenario = "ephemeral" /\ Brief!Next
  /\ UNCHANGED scenario

ScenarioSpec == ScenarioInit /\ [][ScenarioNext]_<<vars, scenario>>

\* Collecting a volume, in the second (ReleasedMeansGone and
\* ForeignClaimUntouched): whatever a step leaves recorded as released is gone,
\* and a claim of another owner under the workspace's name is never touched.
ReleaseIsExact ==
  [][scenario = "environment" => Env!ReleasedMeansGone' /\ Env!ForeignClaimKept]_<<vars, scenario>>

\* EphemeralStopsAfterTeardown of the third: no step of the controller deletes
\* the Pod of an ephemeral workspace before its teardown is recorded.
EphemeralStops ==
  [][scenario = "ephemeral" => Brief!EphemeralStopsClean]_<<vars, scenario>>
=============================================================================
