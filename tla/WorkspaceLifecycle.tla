------------------------- MODULE WorkspaceLifecycle -------------------------
(***************************************************************************)
(* The life of PaseoWorkspaces: the controller, the gateway's archive      *)
(* operation, the in-Pod teardown helper, history readers, users and the   *)
(* cluster, interleaved, with gateway restarts.                            *)
(***************************************************************************)
EXTENDS WorkspaceController, ArchiveOperation

vars == <<clusterVars, controllerVars, archiveVars>>

Init == ClusterInit /\ ControllerInit /\ ArchiveInit

\* The gateway process is replaced: everything it held in memory is lost, what
\* it asked of the cluster goes on.
GatewayRestart ==
  /\ "crash" \in Faults
  /\ pc' = "idle"
  /\ list' = [w \in Workspaces |-> Blank]
  /\ left' = {}
  /\ out' = Blank
  /\ force' = FALSE
  /\ retry' = {}
  /\ archivePc' = [w \in Workspaces |-> "idle"]
  /\ resumed' = {}
  /\ fresh' = {}
  /\ sameGeneration' = {}
  /\ UNCHANGED <<cur, rec, pod, claim, runtime, reader, verified, inventory,
                 hooks, helper, now, runs, stoppedAt, gated>>

UserStep(w) == \E r \in Residency : SetResidency(w, r)

ClusterStep(w) ==
  \/ PodBecomesReady(w) \/ PodWaits(w) \/ PodBecomesUnready(w) \/ PodEvicted(w)
  \/ PodDeletedElsewhere(w) \/ PodGone(w) \/ ClaimGone(w)
  \/ ForeignClaimAppears(w) \/ HooksSucceed(w) \/ HooksFail(w)

ReaderRequest(w) ==
  ReaderVerify(w) \/ ReaderCreate(w) \/ ReaderDelete(w) \/ ReaderGone(w)

Next ==
  \/ ControllerNext /\ UNCHANGED archiveVars
  \/ \E w \in Workspaces :
       \/ BackoffExpires(w) /\ UNCHANGED archiveVars
       \/ ArchiveNext(w) /\ UNCHANGED controllerVars
       \/ (UserStep(w) \/ ClusterStep(w) \/ ReaderRequest(w))
            /\ UNCHANGED <<controllerVars, archiveVars>>
  \/ Tick /\ UNCHANGED <<controllerVars, archiveVars>>
  \/ GatewayRestart

Spec == Init /\ [][Next]_vars

\* The loop keeps running, backoffs expire, time passes, and the cluster
\* finishes what was asked of it.  Users and faults owe nothing.
Fairness ==
  /\ WF_vars(ControllerNext /\ UNCHANGED archiveVars)
  /\ WF_vars(Tick /\ UNCHANGED <<controllerVars, archiveVars>>)
  /\ \A w \in Workspaces :
       /\ WF_vars(BackoffExpires(w) /\ UNCHANGED archiveVars)
       /\ WF_vars(PodBecomesReady(w) /\ UNCHANGED <<controllerVars, archiveVars>>)
       /\ WF_vars(PodGone(w) /\ UNCHANGED <<controllerVars, archiveVars>>)
       /\ WF_vars(ClaimGone(w) /\ UNCHANGED <<controllerVars, archiveVars>>)
       /\ WF_vars(HooksSucceed(w) /\ UNCHANGED <<controllerVars, archiveVars>>)
       /\ WF_vars(ReaderDelete(w) /\ UNCHANGED <<controllerVars, archiveVars>>)
       /\ WF_vars(ReaderGone(w) /\ UNCHANGED <<controllerVars, archiveVars>>)

FairSpec == Spec /\ Fairness

-----------------------------------------------------------------------------
\* Every variable has the shape the code gives it.
RecordsTypeOK ==
  /\ rec \in [Workspaces -> Record]
  /\ fresh \subseteq Holders \X Workspaces
  /\ sameGeneration \subseteq Workspaces

ObjectsTypeOK ==
  /\ pod \in [Workspaces -> Pod]
  /\ claim \in [Workspaces -> Claim]
  /\ runtime \in [Workspaces -> SUBSET {"Service", "Secret"}]
  /\ reader \in [Workspaces -> {"None", "Active", "Terminating"}]
  /\ verified \subseteq Workspaces
  /\ inventory \in [Workspaces -> {"none", "kept", "purged"}]
  /\ hooks \in [Workspaces -> {"none", "started", "complete"}]
  /\ helper \subseteq Workspaces

HistoryTypeOK ==
  /\ now \in Nat
  /\ runs \in [Workspaces -> 0..2]
  /\ stoppedAt \in [Workspaces -> Nat]
  /\ gated \subseteq Workspaces

ControllerTypeOK ==
  /\ pc \in Steps
  /\ cur \in Workspaces
  /\ list \in [Workspaces -> Record]
  /\ left \subseteq Workspaces
  /\ out \in Record
  /\ force \in BOOLEAN
  /\ retry \subseteq Workspaces

ArchiveTypeOK ==
  /\ archivePc \in [Workspaces -> ArchiveSteps]
  /\ resumed \subseteq Workspaces

TypeOK ==
  /\ RecordsTypeOK
  /\ ObjectsTypeOK
  /\ HistoryTypeOK
  /\ ControllerTypeOK
  /\ ArchiveTypeOK

\* deleteStorage reaches a volume only when the record is Archived, the hooks
\* have completed on that very volume and no workspace Pod exists, however the
\* controller's copy of the record aged in between.
ReleaseOnlyAfterTeardown ==
  \A w \in Workspaces : claim[w] = "Deleting" =>
    /\ rec[w].res = "Archived" /\ rec[w].teardown
    /\ hooks[w] = "complete"
    /\ ~HasPod(w)

\* The retention period is counted from the end of compute: a volume is never
\* collected earlier than its TTL after its last Pod disappeared.
RetentionHonoured ==
  \A w \in Workspaces : claim[w] = "Deleting" =>
    /\ Ttl[w] # NoTime
    /\ now >= stoppedAt[w] + Ttl[w]

\* A status that says "stopped" for the current generation is true: readers
\* fence on it, and a stale report would let them mount a volume in use.
CompletedStopHasNoCompute ==
  \A w \in Workspaces : CompletedStop(rec[w]) => ~HasPod(w)

\* storageDeletedAt is recorded and the inventory purged only when the
\* workspace's own volume is really gone.
ReleasedMeansGone ==
  \A w \in Workspaces : 
    /\ rec[w].released => claim[w] \in {"None", "Foreign"}
    /\ rec[w].released => inventory[w] = "purged"
    /\ inventory[w] = "purged" => claim[w] \in {"None", "Foreign"}

\* The hooks of a retained workspace run at most once, whoever asks and
\* however often: controller passes, archive requests, restarts.
HooksRunAtMostOnce ==
  \A w \in Workspaces \ Ephemeral : runs[w] <= 1

\* Pods that passed the capacity check never outnumber the limits.
GatedPodsWithinCapacity ==
  /\ Cardinality(gated) <= NamespaceLimit
  /\ \A p \in Projects :
       Cardinality({w \in gated : ProjectRef[w] = p}) <= ProjectLimit[p]

\* teardownCompletedAt, archivedAt and storageDeletedAt, once recorded by the
\* controller or by an archive request, survive every later status write.
StatusKept ==
  \A w \in Workspaces :
    /\ rec[w].teardown => rec'[w].teardown
    /\ rec[w].released => rec'[w].released
    /\ rec[w].archivedAt # NoTime => rec'[w].archivedAt = rec[w].archivedAt

StatusNeverForgets == [][StatusKept]_vars

\* A controller step that deletes the Pod of an ephemeral workspace, and its
\* data with it, finds the teardown recorded.
EphemeralStopsClean ==
  \A w \in Ephemeral :
    (~pod[w].deleting /\ pod'[w].deleting /\ pc' # pc) => rec[w].teardown

EphemeralStopsAfterTeardown == [][EphemeralStopsClean]_vars

\* A claim of another owner under the workspace's name is never touched.
ForeignClaimKept ==
  \A w \in Workspaces : claim[w] = "Foreign" => claim'[w] = "Foreign"

ForeignClaimUntouched == [][ForeignClaimKept]_vars

-----------------------------------------------------------------------------
\* An archive is carried through: hooks run, compute stops, status says so.
ArchiveCompletes ==
  \A w \in Workspaces :
    rec[w].res = "Archived" ~> (CompletedStop(rec[w]) /\ ~HasPod(w))

\* A volume whose retention ends before the clock's bound is eventually
\* collected, and its release recorded.
RetentionEndsInRelease ==
  \A w \in Workspaces :
    (/\ rec[w].res = "Archived" /\ Ttl[w] # NoTime
     /\ rec[w].archivedAt \in 0..(MaxTime - Ttl[w])) ~> rec[w].released

\* A workspace left Suspended comes to a completed stop.
SuspendCompletes ==
  \A w \in Workspaces \ Ephemeral :
    <>[](rec[w].res = "Suspended") => <>CompletedStop(rec[w])

\* A workspace left Running comes back to Ready once evictions of its Pod
\* cease, whatever happened to the Pod before.
RunningBecomesReady ==
  \A w \in Workspaces :
    (/\ <>[](rec[w].res = "Running")
     /\ <>[][pod'[w].phase = "Ended" => pod[w].phase = "Ended"]_vars)
    => []<>(rec[w].phase = "Ready" /\ rec[w].observed)

-----------------------------------------------------------------------------
(* The inductive invariant behind the theorems.                             *)

\* The workspaces whose listed copy the pass still has to act on.
Pending == left \cup (IF pc \in {"idle", "pick"} THEN {} ELSE {cur})

\* A copy on which reconcile() would create a Pod.
Startable(r) == r.res = "Running" \/ (r.res = "Archived" /\ ~r.teardown)

StartSteps == {"start", "capacity", "credentials", "ensureClaim",
               "ensureService", "ensurePod", "replacePod"}
StoppedSteps == {"reader", "runtime", "settle", "claim", "deleteClaim",
                 "checkClaim", "purge"}
CollectSteps == {"claim", "deleteClaim", "checkClaim", "purge"}

\* A copy agrees with its record while it is fresh, and a record never takes
\* back what a copy of it says for good.
CopyOK(w) ==
  /\ <<"controller", w>> \in fresh => list[w] = rec[w]
  /\ list[w].res = "Archived" => rec[w].res = "Archived"
  /\ list[w].teardown => rec[w].teardown
  /\ CompletedStop(rec[w]) => ~Startable(list[w])

CopiesInv ==
  /\ \A w \in Pending : CopyOK(w)
  /\ cur \in left => pc \in {"idle", "pick"}
  /\ pc = "idle" => left = {}

\* What the loop knows of the workspace it is reconciling at each step.
StepsInv ==
  /\ pc \in StartSteps => Startable(list[cur])
  /\ pc \in {"stop", "snapshot"} \cup StoppedSteps => list[cur].res # "Running"
  /\ pc \in StoppedSteps =>
       ~HasPod(cur) /\ (list[cur].res = "Archived" => list[cur].teardown)
  /\ pc \in CollectSteps => list[cur].res = "Archived"
  /\ pc = "ensureClaim" => cur \notin Ephemeral
  /\ pc \in {"ensureService", "ensurePod"} /\ cur \notin Ephemeral =>
       claim[cur] = "Owned"

\* A report in preparation extends the copy it is based on.
OutInv ==
  pc \in CollectSteps \cup {"report"} =>
    /\ out.res = list[cur].res
    /\ list[cur].teardown => out.teardown
    /\ list[cur].released => out.released
    /\ list[cur].archivedAt # NoTime => out.archivedAt = list[cur].archivedAt
    /\ out.phase \in {"Suspended", "Archived"} => ~HasPod(cur)
    /\ (out.teardown /\ ~list[cur].teardown /\ cur \notin Ephemeral) =>
         hooks[cur] = "complete"

\* Volumes, their markers and the record of the teardown.
VolumeOK(w) ==
  /\ HasPod(w) => claim[w] = "Owned"
  /\ hooks[w] # "none" => claim[w] \in {"Owned", "Deleting"}
  /\ rec[w].teardown /\ claim[w] = "Owned" => hooks[w] = "complete"
  /\ rec[w].teardown /\ claim[w] # "Owned" => rec[w].res = "Archived"
  /\ rec[w].teardown /\ claim[w] # "Owned" /\ w \in Pending =>
       list[w].res = "Archived" /\ list[w].teardown
  /\ runs[w] > 0 /\ claim[w] = "Owned" => hooks[w] # "none"
  /\ runs[w] > 0 /\ claim[w] # "Owned" => rec[w].teardown
  /\ runs[w] = 0 => hooks[w] = "none"

VolumeInv ==
  /\ \A w \in Ephemeral : claim[w] \in {"None", "Foreign"}
  /\ \A w \in Workspaces \ Ephemeral : VolumeOK(w)

\* An archive request whose copy is fresh torn down a Running workspace.
ArchiveInv ==
  \A w \in Workspaces :
    /\ (/\ archivePc[w] \in {"snapshot", "teardown", "await", "mark"}
        /\ <<"archive", w>> \in fresh) => rec[w].res = "Running"
    /\ (/\ archivePc[w] = "mark" /\ <<"archive", w>> \in fresh
        /\ w \notin Ephemeral) => hooks[w] = "complete"

\* A running helper lives in a Pod and has left its intent on the volume.
HelperInv ==
  \A w \in helper : HasPod(w) /\ hooks[w] = "started"

\* Everything the theorems above rest on.
LifecycleInv ==
  /\ CopiesInv
  /\ StepsInv
  /\ OutInv
  /\ VolumeInv
  /\ ArchiveInv
  /\ HelperInv
  /\ ReleaseOnlyAfterTeardown
  /\ CompletedStopHasNoCompute
  /\ HooksRunAtMostOnce

-----------------------------------------------------------------------------
(* The inductive invariant behind the theorems about retention, release,    *)
(* ephemeral workspaces and capacity, on top of TypeOK and LifecycleInv.    *)

\* A record or a copy that no reconciliation will start a Pod for again.
StoppedForGood(r) == r.res = "Archived" /\ r.teardown

\* archivedAt is stamped when compute is gone for good, and every copy listed
\* afterwards says so; a release is recorded and the inventory purged for such a
\* workspace only.
RetentionOK(w) ==
  /\ stoppedAt[w] <= now
  /\ pod[w].deleting => HasPod(w)
  /\ rec[w].archivedAt # NoTime =>
       /\ StoppedForGood(rec[w])
       /\ ~HasPod(w)
       /\ stoppedAt[w] <= rec[w].archivedAt
       /\ w \in Pending => StoppedForGood(list[w])
  /\ rec[w].released => rec[w].archivedAt # NoTime /\ inventory[w] = "purged"
  /\ inventory[w] = "purged" =>
       claim[w] \in {"None", "Foreign"} /\ StoppedForGood(rec[w])
  /\ w \in Pending =>
       /\ list[w].archivedAt # NoTime => rec[w].archivedAt = list[w].archivedAt
       /\ list[w].released => rec[w].released /\ list[w].archivedAt # NoTime

\* The report in preparation stamps archivedAt under the same conditions, and
\* collection goes on only for a volume whose retention is over.
StampOK ==
  /\ pc \in CollectSteps \cup {"report"} =>
       /\ out.archivedAt # NoTime =>
            /\ StoppedForGood(list[cur])
            /\ ~HasPod(cur)
            /\ stoppedAt[cur] <= out.archivedAt
       /\ out.released => out.archivedAt # NoTime /\ inventory[cur] = "purged"
  /\ pc \in CollectSteps =>
       /\ Ttl[cur] # NoTime
       /\ out.archivedAt # NoTime
       /\ now >= out.archivedAt + Ttl[cur]
       /\ ~out.released
  /\ pc = "purge" => claim[cur] \in {"None", "Foreign"}

\* The Pod of an ephemeral workspace is deleted only once it is torn down.
PodDeletionOK ==
  cur \in Ephemeral =>
    /\ pc # "replacePod"
    /\ pc = "snapshot" => list[cur].res = "Archived"
    /\ pc = "deletePod" => list[cur].teardown

StorageInv ==
  /\ \A w \in Workspaces : RetentionOK(w)
  /\ StampOK
  /\ PodDeletionOK
  /\ RetentionHonoured

Fits(S) ==
  /\ Cardinality(S) <= NamespaceLimit
  /\ \A p \in Projects :
       Cardinality({w \in S : ProjectRef[w] = p}) <= ProjectLimit[p]

\* Only a Pod restored for the hooks of an Archived workspace passed no capacity
\* check; what the check found stays true until the loop has created the Pod.
CapacityInv ==
  /\ \A w \in gated : HasPod(w)
  /\ \A w \in Workspaces \ gated :
       HasPod(w) => /\ rec[w].res = "Archived"
                    /\ w \in Pending => list[w].res = "Archived"
  /\ Fits(gated)
  /\ (/\ pc \in StartSteps \ {"start", "capacity"}
      /\ list[cur].res = "Running") => Fits(gated \cup {cur})

\* The residency a user asks for takes effect, and retention ends.
ResidencyTakesEffect ==
  SuspendCompletes /\ RunningBecomesReady /\ RetentionEndsInRelease
=============================================================================
