------------------------ MODULE MCWorkspaceLifecycle ------------------------
(***************************************************************************)
(* One workspace under the faults of each run.                             *)
(***************************************************************************)
EXTENDS WorkspaceLifecycle, TLC

CONSTANTS w1, p1

\* One workspace in one project, and its retention policies.
MCOne == {w1}
MCOneProject == {p1}
MCOneRef == (w1 :> p1)
MCOneLimit == (p1 :> 1)
MCTtlOne == (w1 :> 1)
MCTtlNone == (w1 :> NoTime)

MCFaultsDeep == {"user", "archive", "tick", "crash", "unknown", "hook"}
MCFaultsLive == {"user", "tick", "waiting"}
MCFaultsLiveEvict == {"user", "tick", "evict"}
=============================================================================
