---------------------------- MODULE ClusterState ----------------------------
(***************************************************************************)
(* The Kubernetes records and objects that the workspace controller, the   *)
(* gateway's archive operation and the retained-history reader share, with *)
(* the optimistic store operations of src/kubernetes/client.ts and the     *)
(* steps of the cluster itself (kubelet, volume controller, operators).    *)
(*                                                                         *)
(* resourceVersion and generation are modelled by what the code does with  *)
(* them: <<h, w>> \in fresh says that the copy of w held by h still        *)
(* carries the record's resourceVersion, w \in sameGeneration that the     *)
(* spec of w has not changed since the archive operation read it, and      *)
(* rec[w].observed that status.observedGeneration equals the generation.   *)
(***************************************************************************)
EXTENDS Integers, FiniteSets

CONSTANTS
  Workspaces,      \* the PaseoWorkspace records of the namespace
  Ephemeral,       \* those with retentionPolicy.storage = "Ephemeral"
  Ttl,             \* [Workspaces -> Nat \cup {NoTime}], ttlAfterArchivedSeconds
  NoTime,          \* an absent timestamp or an absent TTL
  MaxTime,         \* bound of the clock
  Faults           \* the kinds of failure the environment may produce

FaultKinds == {"api", "crash", "credentials", "project", "snapshot", "hook",
               "unknown", "timeout", "evict", "loss", "waiting", "flap",
               "finalizer", "foreign", "reader", "user", "archive", "tick"}

ASSUME ConstantsAssumption ==
  /\ Workspaces # {}
  /\ Ephemeral \subseteq Workspaces
  /\ NoTime \notin Int
  /\ Ttl \in [Workspaces -> Nat \cup {NoTime}]
  /\ MaxTime \in Nat
  /\ Faults \subseteq FaultKinds

VARIABLES
  rec,             \* the PaseoWorkspace records: spec.residency and status
  fresh,           \* copies that still carry the current resourceVersion
  sameGeneration,  \* archive operations whose copy has the current generation
  pod,             \* the workspace Pods
  claim,           \* the PersistentVolumeClaims named after the workspaces
  runtime,         \* the Services and access Secrets
  reader,          \* the retained-history reader Pods
  verified,        \* reader requests past their last check of the record
  inventory,       \* the cached agent inventory of a workspace
  hooks,           \* the teardown markers on a workspace's volume
  helper,          \* workspaces in whose Pod the teardown helper is running
  now,             \* the clock
  runs,            \* history: hook executions started (0, 1, or 2 for "more")
  stoppedAt,       \* history: when the last Pod of a workspace disappeared
  gated            \* history: workspaces whose Pod passed the capacity check

clusterVars == <<rec, fresh, sameGeneration, pod, claim, runtime, reader,
                 verified, inventory, hooks, helper, now, runs, stoppedAt,
                 gated>>

Residency == {"Running", "Suspended", "Archived"}
Phase == {"None", "Pending", "Ready", "Suspended", "Archived", "Failed"}
Diagnostic == {"none", "Unschedulable", "ContainerFailed", "Evicted"}
Holders == {"controller", "archive"}

\* The messages of the controller's reports, one label per report.
Message ==
  {"none", "noProject", "capacity", "awaitReader", "noCredentials", "ready",
   "awaitDaemon", "ended", "replacing", "noSuspend", "podLost",
   "awaitTeardown", "teardownFailed", "tornDown", "noSnapshot", "awaitStop",
   "awaitRuntime", "awaitClaim", "released", "stopped"} \cup Diagnostic

Record == [res : Residency, phase : Phase, why : Message, observed : BOOLEAN,
           teardown : BOOLEAN, archivedAt : Nat \cup {NoTime},
           released : BOOLEAN, failure : Diagnostic]

NewRecord(r) ==
  [res |-> r, phase |-> "None", why |-> "none", observed |-> FALSE,
   teardown |-> FALSE, archivedAt |-> NoTime, released |-> FALSE,
   failure |-> "none"]

Pod == [phase : {"None", "Starting", "Ready", "Ended"}, diag : Diagnostic,
        deleting : BOOLEAN]
NoPod == [phase |-> "None", diag |-> "none", deleting |-> FALSE]
NewPod == [phase |-> "Starting", diag |-> "none", deleting |-> FALSE]

Claim == {"None", "Owned", "Deleting", "Foreign"}

HasPod(w) == pod[w].phase # "None"
PodReady(p) == p.phase = "Ready" /\ ~p.deleting

\* A stop that the status reports complete for the current generation; the
\* retained-history reader and the controller both rely on it.
CompletedStop(r) ==
  /\ r.observed
  /\ \/ r.res = "Suspended" /\ r.phase = "Suspended"
     \/ r.res = "Archived" /\ r.phase = "Archived" /\ r.teardown

ClusterInit ==
  /\ rec \in [Workspaces -> {NewRecord(r) : r \in Residency}]
  /\ fresh = {}
  /\ sameGeneration = {}
  /\ pod = [w \in Workspaces |-> NoPod]
  /\ claim = [w \in Workspaces |-> "None"]
  /\ runtime = [w \in Workspaces |-> {}]
  /\ reader = [w \in Workspaces |-> "None"]
  /\ verified = {}
  /\ inventory = [w \in Workspaces |-> "none"]
  /\ hooks = [w \in Workspaces |-> "none"]
  /\ helper = {}
  /\ now = 0
  /\ runs = [w \in Workspaces |-> 0]
  /\ stoppedAt = [w \in Workspaces |-> 0]
  /\ gated = {}

-----------------------------------------------------------------------------
(* Store operations.                                                        *)

Stale(w) == fresh \ (Holders \X {w})

\* replaceNamespacedCustomObjectStatus: accepted only with the current
\* resourceVersion, which the accepted write then advances.
PutStatus(h, w, r) ==
  /\ <<h, w>> \in fresh
  /\ rec' = [rec EXCEPT ![w] = [r EXCEPT !.res = rec[w].res]]
  /\ fresh' = Stale(w)
  /\ UNCHANGED sameGeneration

\* A spec write advances generation and resourceVersion; the CRD's validation
\* rule keeps an Archived workspace Archived.
WriteResidency(w, r) ==
  /\ rec[w].res # "Archived" \/ r = "Archived"
  /\ rec' = [rec EXCEPT ![w] = [rec[w] EXCEPT
               !.res = r,
               !.observed = rec[w].observed /\ rec[w].res = r]]
  /\ fresh' = Stale(w)
  /\ sameGeneration' = IF rec[w].res = r THEN sameGeneration
                                         ELSE sameGeneration \ {w}

-----------------------------------------------------------------------------
(* Users, operators and time.                                               *)

\* A client archive request or a kubectl patch of spec.residency.
SetResidency(w, r) ==
  /\ "user" \in Faults
  /\ rec[w].res # r
  /\ WriteResidency(w, r)
  /\ UNCHANGED <<pod, claim, runtime, reader, verified, inventory, hooks,
                 helper, now, runs, stoppedAt, gated>>

Tick ==
  /\ "tick" \in Faults
  /\ now < MaxTime
  /\ now' = now + 1
  /\ UNCHANGED <<rec, fresh, sameGeneration, pod, claim, runtime, reader,
                 verified, inventory, hooks, helper, runs, stoppedAt,
                 gated>>

-----------------------------------------------------------------------------
(* The cluster: kubelet, eviction, node loss, volume deletion.              *)

ChangePod(w, p) ==
  /\ pod' = [pod EXCEPT ![w] = p]
  /\ UNCHANGED <<rec, fresh, sameGeneration, claim, runtime, reader, verified,
                 inventory, hooks, helper, now, runs, stoppedAt, gated>>

\* All containers become ready; a past container failure stays visible.
PodBecomesReady(w) ==
  /\ pod[w].phase = "Starting"
  /\ ~pod[w].deleting
  /\ ChangePod(w, [pod[w] EXCEPT
       !.phase = "Ready",
       !.diag = IF pod[w].diag = "ContainerFailed" THEN "ContainerFailed"
                                                   ELSE "none"])

PodWaits(w) ==
  /\ "waiting" \in Faults
  /\ pod[w].phase = "Starting"
  /\ \E d \in {"Unschedulable", "ContainerFailed"} :
       ChangePod(w, [pod[w] EXCEPT !.diag = d])

PodBecomesUnready(w) ==
  /\ "flap" \in Faults
  /\ pod[w].phase = "Ready"
  /\ ChangePod(w, [pod[w] EXCEPT !.phase = "Starting"])

\* Eviction leaves the Pod object behind in a terminal phase.
PodEvicted(w) ==
  /\ "evict" \in Faults
  /\ pod[w].phase \in {"Starting", "Ready"}
  /\ pod' = [pod EXCEPT ![w] = [@ EXCEPT !.phase = "Ended",
                                          !.diag = "Evicted"]]
  /\ helper' = helper \ {w}
  /\ UNCHANGED <<rec, fresh, sameGeneration, claim, runtime, reader, verified,
                 inventory, hooks, now, runs, stoppedAt, gated>>

\* A node drain or an operator deletes the Pod.
PodDeletedElsewhere(w) ==
  /\ "loss" \in Faults
  /\ HasPod(w)
  /\ ~pod[w].deleting
  /\ ChangePod(w, [pod[w] EXCEPT !.deleting = TRUE])

\* A terminating Pod disappears, and with it an emptyDir volume.
PodGone(w) ==
  /\ pod[w].deleting
  /\ pod' = [pod EXCEPT ![w] = NoPod]
  /\ helper' = helper \ {w}
  /\ hooks' = IF w \in Ephemeral THEN [hooks EXCEPT ![w] = "none"] ELSE hooks
  /\ stoppedAt' = [stoppedAt EXCEPT ![w] = now]
  /\ gated' = gated \ {w}
  /\ UNCHANGED <<rec, fresh, sameGeneration, claim, runtime, reader, verified,
                 inventory, now, runs>>

\* Claim protection keeps a terminating claim while a Pod mounts it.
ClaimGone(w) ==
  /\ claim[w] = "Deleting"
  /\ ~HasPod(w)
  /\ reader[w] = "None"
  /\ claim' = [claim EXCEPT ![w] = "None"]
  /\ hooks' = [hooks EXCEPT ![w] = "none"]
  /\ UNCHANGED <<rec, fresh, sameGeneration, pod, runtime, reader, verified,
                 inventory, helper, now, runs, stoppedAt, gated>>

\* A claim that is not the workspace's own takes the free name.
ForeignClaimAppears(w) ==
  /\ "foreign" \in Faults
  /\ claim[w] = "None"
  /\ claim' = [claim EXCEPT ![w] = "Foreign"]
  /\ UNCHANGED <<rec, fresh, sameGeneration, pod, runtime, reader, verified,
                 inventory, hooks, helper, now, runs, stoppedAt, gated>>

-----------------------------------------------------------------------------
(* The retained-history reader, reduced to the Pod the controller waits for. *)

ReaderStep(w, p, v) ==
  /\ reader' = [reader EXCEPT ![w] = p]
  /\ verified' = v
  /\ UNCHANGED <<rec, fresh, sameGeneration, pod, claim, runtime, inventory,
                 hooks, helper, now, runs, stoppedAt, gated>>

\* The checks of readerPod() before it creates the Pod.
ReaderVerify(w) ==
  /\ "reader" \in Faults
  /\ w \notin verified
  /\ w \notin Ephemeral
  /\ CompletedStop(rec[w])
  /\ ~rec[w].released
  /\ claim[w] = "Owned"
  /\ reader[w] = "None"
  /\ ReaderStep(w, "None", verified \cup {w})

\* The creation itself, or the deadline, an abort or a 409 in its place.
ReaderCreate(w) ==
  /\ w \in verified
  /\ \E p \in {reader[w], IF reader[w] = "None" THEN "Active" ELSE reader[w]} :
       ReaderStep(w, p, verified \ {w})

\* deletePod after the read, or by the periodic cleanup.
ReaderDelete(w) ==
  /\ reader[w] = "Active"
  /\ ReaderStep(w, "Terminating", verified)

ReaderGone(w) ==
  /\ reader[w] = "Terminating"
  /\ ReaderStep(w, "None", verified)
=============================================================================
