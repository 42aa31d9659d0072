------------------------- MODULE WorkspaceController -------------------------
(***************************************************************************)
(* src/controller/controller.ts: the serialized resync loop runController  *)
(* and one reconciliation, one action per store call whose position        *)
(* relative to other actors matters.  A pass works on the copies it listed *)
(* at its start; every status report is a compare-and-swap on that copy.   *)
(***************************************************************************)
EXTENDS TeardownHelper

CONSTANTS
  Projects,        \* the PaseoProject records
  ProjectRef,      \* [Workspaces -> Projects], spec.projectRef
  NamespaceLimit,  \* MAX_RUNNING_WORKSPACES
  ProjectLimit     \* [Projects -> Nat], spec.maxRunningWorkspaces

ASSUME LimitsAssumption ==
  /\ ProjectRef \in [Workspaces -> Projects]
  /\ NamespaceLimit \in Nat
  /\ ProjectLimit \in [Projects -> Nat]
  /\ IsFiniteSet(Workspaces)

VARIABLES
  pc,     \* where the loop is
  cur,    \* the workspace being reconciled
  list,   \* the copies listed at the start of the pass
  left,   \* the workspaces the pass has yet to visit
  out,    \* the status about to be reported
  force,  \* the report carries fields and is never skipped
  retry   \* the workspaces in backoff

controllerVars == <<pc, cur, list, left, out, force, retry>>

Steps == {"idle", "pick", "stop", "snapshot", "teardown", "await",
          "deletePod", "reader", "runtime", "settle", "claim", "deleteClaim",
          "checkClaim", "purge", "start", "capacity", "credentials",
          "ensureClaim", "ensureService", "ensurePod", "replacePod", "report"}

Blank == NewRecord("Running")

ControllerInit ==
  /\ pc = "idle"
  /\ cur \in Workspaces
  /\ list = [w \in Workspaces |-> Blank]
  /\ left = {}
  /\ out = Blank
  /\ force = FALSE
  /\ retry = {}

\* The copy of the workspace that reconcile() was called with.
workspace == list[cur]

Outcomes(f) == IF f \in Faults THEN BOOLEAN ELSE {TRUE}

\* Moves of the loop that leave its local data alone.
Goto(step) == pc' = step /\ UNCHANGED <<cur, list, left, out, force, retry>>

\* reconcile() returns: forget the copy, and the backoff when it succeeded.
Return(backoff) ==
  /\ pc' = "pick"
  /\ list' = [list EXCEPT ![cur] = Blank]
  /\ retry' = backoff
  /\ out' = Blank
  /\ force' = FALSE
  /\ UNCHANGED <<cur, left>>

Done == Return(retry \ {cur})
Throw == Return(retry \cup {cur})

\* Calls of report(): bare ones, and ones that carry further status fields.
ReportWith(status, forced) ==
  /\ pc' = "report"
  /\ out' = status
  /\ force' = forced
  /\ UNCHANGED <<cur, list, left, retry>>

\* Mutant of Reported: the new status replaces the old instead of extending it.
ReportedAlone(phase, why) ==
  [NewRecord(workspace.res) EXCEPT !.phase = phase, !.why = why, !.observed = TRUE]

Reported(phase, why) ==
  [workspace EXCEPT !.phase = phase, !.why = why, !.observed = TRUE]

Say(phase, why) == ReportWith(Reported(phase, why), FALSE)

-----------------------------------------------------------------------------
(* The loop.                                                                *)

BeginPass ==
  /\ pc = "idle"
  /\ pc' = "pick"
  /\ list' = rec
  /\ left' = Workspaces
  /\ fresh' = fresh \cup ({"controller"} \X Workspaces)
  /\ UNCHANGED <<cur, out, force, retry, rec, sameGeneration, pod, claim,
                 runtime, reader, verified, inventory, hooks, helper, now,
                 runs, stoppedAt, gated>>

\* Mutant of Pick: residency is not looked at.
PickStops(w) ==
  /\ pc = "pick"
  /\ w \in left \ retry
  /\ cur' = w
  /\ left' = left \ {w}
  /\ pc' = "stop"
  /\ UNCHANGED <<list, out, force, retry, clusterVars>>

Pick(w) ==
  /\ pc = "pick"
  /\ w \in left \ retry
  /\ cur' = w
  /\ left' = left \ {w}
  /\ pc' = IF list[w].res = "Running" THEN "start" ELSE "stop"
  /\ UNCHANGED <<list, out, force, retry, clusterVars>>

SkipBackoff(w) ==
  /\ pc = "pick"
  /\ w \in left \cap retry
  /\ left' = left \ {w}
  /\ list' = [list EXCEPT ![w] = Blank]
  /\ UNCHANGED <<pc, cur, out, force, retry, clusterVars>>

\* The pass ends and its copies go out of scope.
EndPass ==
  /\ pc = "pick"
  /\ left = {}
  /\ Goto("idle")
  /\ fresh' = fresh \ ({"controller"} \X Workspaces)
  /\ UNCHANGED <<rec, sameGeneration, pod, claim, runtime, reader, verified,
                 inventory, hooks, helper, now, runs, stoppedAt, gated>>

\* Mutant of BackoffExpires: a backed-off workspace is never retried.
BackoffStays(w) ==
  /\ w \in retry
  /\ UNCHANGED <<controllerVars, clusterVars>>

BackoffExpires(w) ==
  /\ w \in retry
  /\ retry' = retry \ {w}
  /\ UNCHANGED <<pc, cur, list, left, out, force, clusterVars>>

\* Any store call may fail before it takes effect, or after: the step is then
\* taken and the call that follows it is the one that fails.
StoreCallFails ==
  /\ "api" \in Faults
  /\ pc \notin {"idle", "pick"}
  /\ Throw
  /\ UNCHANGED clusterVars

-----------------------------------------------------------------------------
(* report().                                                                *)

ReportUnchanged ==
  /\ ~force
  /\ workspace.observed
  /\ workspace.phase = out.phase
  /\ workspace.why = out.why

Report ==
  /\ pc = "report"
  /\ \/ /\ ReportUnchanged
        /\ Done
        /\ UNCHANGED <<rec, fresh, sameGeneration>>
     \/ /\ ~ReportUnchanged
        /\ PutStatus("controller", cur, out)
        /\ Done
     \/ /\ ~ReportUnchanged
        /\ <<"controller", cur>> \notin fresh
        /\ Throw
        /\ UNCHANGED <<rec, fresh, sameGeneration>>
  /\ UNCHANGED <<pod, claim, runtime, reader, verified, inventory, hooks,
                 helper, now, runs, stoppedAt, gated>>

-----------------------------------------------------------------------------
(* stop(): Suspended and Archived workspaces.                               *)

\* Mutant of SuspendRefused: storage is not looked at.
SuspendAccepted == FALSE

\* Ephemeral workspaces cannot be suspended.
SuspendRefused == workspace.res = "Suspended" /\ cur \in Ephemeral

Stop ==
  /\ pc = "stop"
  /\ LET p == pod[cur]
         archiving == workspace.res = "Archived" /\ ~workspace.teardown
         suspending == workspace.res = "Suspended"
     IN \/ SuspendRefused /\ Say("Failed", "noSuspend")
        \/ /\ archiving /\ ~HasPod(cur)
           /\ IF cur \in Ephemeral /\ workspace.phase # "None"
                THEN Say("Failed", "podLost")
                ELSE Goto("start")
        \/ /\ archiving /\ HasPod(cur)
           /\ IF PodReady(p) THEN Goto("snapshot")
                             ELSE Say("Pending", "awaitTeardown")
        \/ /\ ~archiving
           /\ ~SuspendRefused
           /\ CASE ~HasPod(cur)               -> Goto("reader")
                [] suspending /\ PodReady(p)  -> Goto("snapshot")
                [] HasPod(cur) /\ p.deleting  -> Say("Pending", "awaitStop")
                [] OTHER                      -> Goto("deletePod")
  /\ UNCHANGED clusterVars

\* beforeArchive and beforeSuspend: capture the inventory from the daemon.
Snapshot ==
  /\ pc = "snapshot"
  /\ \E ok \in Outcomes("snapshot") :
       IF ok /\ CanExec(cur)
         THEN /\ inventory' = [inventory EXCEPT ![cur] = "kept"]
              /\ Goto(IF workspace.res = "Archived" THEN "teardown"
                                                    ELSE "deletePod")
         ELSE /\ Say("Failed", IF workspace.res = "Archived"
                                 THEN "teardownFailed" ELSE "noSnapshot")
              /\ UNCHANGED inventory
  /\ UNCHANGED <<rec, fresh, sameGeneration, pod, claim, runtime, reader,
                 verified, hooks, helper, now, runs, stoppedAt, gated>>

TornDown ==
  ReportWith([Reported("Pending", "tornDown") EXCEPT !.teardown = TRUE], TRUE)

Teardown ==
  /\ pc = "teardown"
  /\ \/ TeardownStarts(cur) /\ Goto("await")
     \/ /\ TeardownAlreadyDone(cur)
        /\ TornDown
        /\ UNCHANGED <<hooks, helper, runs>>
     \/ /\ TeardownRefused(cur)
        /\ Say("Failed", "teardownFailed")
        /\ UNCHANGED <<hooks, helper, runs>>
  /\ UNCHANGED <<rec, fresh, sameGeneration, pod, claim, runtime, reader,
                 verified, inventory, now, stoppedAt, gated>>

AwaitTeardown ==
  /\ pc = "await"
  /\ \/ TeardownSucceeded(cur) /\ TornDown
     \/ TeardownFailed(cur) /\ Say("Failed", "teardownFailed")
  /\ UNCHANGED clusterVars

\* Mutant of RequestPodDeletion: the deletion is reported but not requested.
ReportPodDeletion(why) ==
  /\ IF HasPod(cur) THEN Say("Pending", why) ELSE Throw
  /\ UNCHANGED clusterVars

\* deletePod with the UID that was read; the Pod may be gone by now (404).
RequestPodDeletion(why) ==
  /\ IF HasPod(cur)
       THEN /\ pod' = [pod EXCEPT ![cur].deleting = TRUE]
            /\ Say("Pending", why)
       ELSE Throw /\ UNCHANGED pod
  /\ UNCHANGED <<rec, fresh, sameGeneration, claim, runtime, reader, verified,
                 inventory, hooks, helper, now, runs, stoppedAt, gated>>

\* Mutant of DeletePod: the requested deletion is taken for the stop.
DeletePodSettles ==
  /\ pc = "deletePod"
  /\ IF HasPod(cur)
       THEN pod' = [pod EXCEPT ![cur].deleting = TRUE] /\ Goto("reader")
       ELSE Throw /\ UNCHANGED pod
  /\ UNCHANGED <<rec, fresh, sameGeneration, claim, runtime, reader, verified,
                 inventory, hooks, helper, now, runs, stoppedAt, gated>>

DeletePod == pc = "deletePod" /\ RequestPodDeletion("awaitStop")

AwaitReader ==
  /\ pc = "reader"
  /\ CASE reader[cur] # "None" /\ CompletedStop(workspace)  -> Done
       [] reader[cur] # "None" /\ ~CompletedStop(workspace) ->
            Say("Pending", "awaitReader")
       [] OTHER -> Goto(IF workspace.res = "Archived" THEN "runtime"
                                                      ELSE "settle")
  /\ UNCHANGED clusterVars

\* deleteRuntime: the Service and the access Secret, by UID.  Finalizers or a
\* failure between the two deletions may leave some behind.
DeleteRuntime ==
  /\ pc = "runtime"
  /\ \E rest \in IF "finalizer" \in Faults THEN SUBSET runtime[cur] ELSE {{}} :
       /\ runtime' = [runtime EXCEPT ![cur] = rest]
       /\ IF rest = {} THEN Goto("settle") ELSE Say("Pending", "awaitRuntime")
  /\ UNCHANGED <<rec, fresh, sameGeneration, pod, claim, reader, verified,
                 inventory, hooks, helper, now, runs, stoppedAt, gated>>

ArchivedAt == IF workspace.archivedAt = NoTime THEN now ELSE workspace.archivedAt

\* Mutant of RetentionExpired: the period itself is not waited for.
RetentionStarted ==
  /\ workspace.res = "Archived"
  /\ Ttl[cur] # NoTime
  /\ ~workspace.released
  /\ now >= ArchivedAt

RetentionExpired ==
  /\ workspace.res = "Archived"
  /\ Ttl[cur] # NoTime
  /\ ~workspace.released
  /\ now >= ArchivedAt + Ttl[cur]

\* Compute is stopped: stamp archivedAt, then either collect or report.
Settle ==
  /\ pc = "settle"
  /\ IF RetentionExpired
       THEN /\ pc' = "claim"
            /\ out' = [Reported("Archived", "awaitClaim")
                         EXCEPT !.archivedAt = ArchivedAt]
            /\ UNCHANGED <<cur, list, left, force, retry>>
       ELSE LET why == IF workspace.released THEN "released" ELSE "stopped"
            IN IF workspace.res = "Archived" /\ workspace.archivedAt = NoTime
                 THEN ReportWith([Reported("Archived", why)
                                    EXCEPT !.archivedAt = now], TRUE)
                 ELSE Say(workspace.res, why)
  /\ UNCHANGED clusterVars

ReadClaim ==
  /\ pc = "claim"
  /\ CASE claim[cur] = "Foreign" -> Throw
       [] claim[cur] = "None"    -> Goto("checkClaim")
       [] OTHER                  -> Goto("deleteClaim")
  /\ UNCHANGED clusterVars

\* deleteStorage: the UID precondition refuses a claim that replaced the one
\* that was read.
DeleteClaim ==
  /\ pc = "deleteClaim"
  /\ IF claim[cur] \in {"Owned", "Deleting"}
       THEN /\ claim' = [claim EXCEPT ![cur] = "Deleting"]
            /\ Goto("checkClaim")
       ELSE Throw /\ UNCHANGED claim
  /\ UNCHANGED <<rec, fresh, sameGeneration, pod, runtime, reader, verified,
                 inventory, hooks, helper, now, runs, stoppedAt, gated>>

\* Mutant of CheckClaim: the requested deletion is taken for the deletion.
CheckClaimRequested ==
  /\ pc = "checkClaim"
  /\ Goto("purge")
  /\ UNCHANGED clusterVars

\* Only observed absence permits the purge.
CheckClaim ==
  /\ pc = "checkClaim"
  /\ IF claim[cur] = "None" THEN Goto("purge") ELSE ReportWith(out, TRUE)
  /\ UNCHANGED clusterVars

PurgeInventory ==
  /\ pc = "purge"
  /\ inventory' = [inventory EXCEPT ![cur] = "purged"]
  /\ ReportWith([out EXCEPT !.why = "released", !.released = TRUE], TRUE)
  /\ UNCHANGED <<rec, fresh, sameGeneration, pod, claim, runtime, reader,
                 verified, hooks, helper, now, runs, stoppedAt, gated>>

-----------------------------------------------------------------------------
(* The rest of reconcile(): Running workspaces, and Archived ones whose Pod *)
(* must be restored to run its hooks.                                       *)

Start ==
  /\ pc = "start"
  /\ \E found \in Outcomes("project") :
       CASE ~found -> Say("Failed", "noProject")
         [] found /\ (HasPod(cur) \/ workspace.res # "Running") ->
              Goto("credentials")
         [] OTHER -> IF reader[cur] # "None" THEN Say("Pending", "awaitReader")
                                             ELSE Goto("capacity")
  /\ UNCHANGED clusterVars

OthersWithPod == {w \in Workspaces \ {cur} : HasPod(w)}
OthersInProject ==
  {w \in OthersWithPod : ProjectRef[w] = ProjectRef[cur]}

\* Mutant of CapacityReached: the limits are compared off by one.
CapacityExceeded ==
  \/ Cardinality(OthersWithPod) > NamespaceLimit
  \/ Cardinality(OthersInProject) > ProjectLimit[ProjectRef[cur]]

CapacityReached ==
  \/ Cardinality(OthersWithPod) >= NamespaceLimit
  \/ Cardinality(OthersInProject) >= ProjectLimit[ProjectRef[cur]]

Capacity ==
  /\ pc = "capacity"
  /\ IF CapacityReached THEN Say("Pending", "capacity") ELSE Goto("credentials")
  /\ UNCHANGED clusterVars

\* The profile's references resolve, and the access Secret is ensured.
Credentials ==
  /\ pc = "credentials"
  /\ \E ok \in Outcomes("credentials") :
       IF ok
         THEN /\ runtime' = [runtime EXCEPT ![cur] = @ \cup {"Secret"}]
              /\ Goto(IF cur \in Ephemeral THEN "ensureService"
                                           ELSE "ensureClaim")
         ELSE Say("Failed", "noCredentials") /\ UNCHANGED runtime
  /\ UNCHANGED <<rec, fresh, sameGeneration, pod, claim, reader, verified,
                 inventory, hooks, helper, now, runs, stoppedAt, gated>>

\* ensure(): an existing object is adopted only if the workspace owns it.
EnsureClaim ==
  /\ pc = "ensureClaim"
  /\ IF claim[cur] = "Foreign"
       THEN Throw /\ UNCHANGED claim
       ELSE /\ claim' = [claim EXCEPT ![cur] = IF @ = "None" THEN "Owned" ELSE @]
            /\ Goto("ensureService")
  /\ UNCHANGED <<rec, fresh, sameGeneration, pod, runtime, reader, verified,
                 inventory, hooks, helper, now, runs, stoppedAt, gated>>

EnsureService ==
  /\ pc = "ensureService"
  /\ runtime' = [runtime EXCEPT ![cur] = @ \cup {"Service"}]
  /\ Goto("ensurePod")
  /\ UNCHANGED <<rec, fresh, sameGeneration, pod, claim, reader, verified,
                 inventory, hooks, helper, now, runs, stoppedAt, gated>>

CreatePod ==
  /\ ~HasPod(cur)
  /\ pod' = [pod EXCEPT ![cur] = NewPod]
  /\ gated' = IF workspace.res = "Running" THEN gated \cup {cur} ELSE gated
  /\ Say("Pending", "awaitDaemon")

ReportDiagnostic(p) ==
  ReportWith(
    [Reported(IF PodReady(p) THEN "Ready"
              ELSE IF p.diag = "Unschedulable" THEN "Pending" ELSE "Failed",
              IF PodReady(p) THEN "ready" ELSE p.diag)
       EXCEPT !.failure = p.diag],
    workspace.failure # p.diag)

ObservePod ==
  LET p == pod[cur]
      terminated == p.phase = "Ended"
      newFailure == workspace.failure # p.diag
  IN /\ HasPod(cur)
     /\ CASE p.diag # "none" /\ (newFailure \/ (~PodReady(p) /\ ~terminated)) ->
               ReportDiagnostic(p)
          [] terminated /\ (p.diag = "none" \/ ~newFailure) ->
               IF cur \in Ephemeral THEN Say("Failed", "ended")
               ELSE IF p.deleting THEN Say("Pending", "replacing")
               ELSE Goto("replacePod")
          [] OTHER ->
               IF PodReady(p) THEN Say("Ready", "ready")
                              ELSE Say("Pending", "awaitDaemon")
     /\ UNCHANGED <<pod, gated>>

EnsurePod ==
  /\ pc = "ensurePod"
  /\ CreatePod \/ ObservePod
  /\ UNCHANGED <<rec, fresh, sameGeneration, claim, runtime, reader, verified,
                 inventory, hooks, helper, now, runs, stoppedAt>>

ReplacePod == pc = "replacePod" /\ RequestPodDeletion("replacing")

ControllerNext ==
  \/ BeginPass \/ EndPass \/ StoreCallFails \/ Report
  \/ \E w \in Workspaces : Pick(w) \/ SkipBackoff(w)
  \/ Stop \/ Snapshot \/ Teardown \/ AwaitTeardown \/ DeletePod \/ AwaitReader
  \/ DeleteRuntime \/ Settle \/ ReadClaim \/ DeleteClaim \/ CheckClaim
  \/ PurgeInventory \/ Start \/ Capacity \/ Credentials \/ EnsureClaim
  \/ EnsureService \/ EnsurePod \/ ReplacePod
=============================================================================
