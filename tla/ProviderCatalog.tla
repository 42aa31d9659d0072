-------------------------- MODULE ProviderCatalog --------------------------
(***************************************************************************)
(* Provider discovery for one project: the catalog record and the runs of  *)
(* src/gateway/provider-catalog-service.ts, and the disposable Service and *)
(* Pod of a run (provider-probe.ts, provider-probe-resources.ts), with the *)
(* old and the new gateway of a rollout working on the same record.        *)
(*                                                                         *)
(* A job is one call of snapshot() with the run it starts, or one stale    *)
(* sweep.  put() reads, decides and compare-and-swaps, retrying on a       *)
(* conflict: it is one step.  Run ids are random UUIDs; an id is used      *)
(* again here once nothing refers to it.  Every time limit is one tick:    *)
(* "left" counts it down for the record's state.  Polls, audits and        *)
(* retries of a watched project all call snapshot().                       *)
(***************************************************************************)
EXTENDS Integers, FiniteSets, Sequences

CONSTANTS
  CatalogGateways,   \* gateway processes
  CatalogJobs,       \* concurrent calls and sweeps
  JobHomes,          \* which gateways the calls may arrive at
  CatalogConfigs,    \* bound: configurations (fingerprints) 1 .. n
  ProbeRuns,         \* run ids
  MaxProbes,         \* MAX_CONCURRENT
  BusyGateways,      \* those at which another project is probed, too
  MaxCatalogFaults,  \* bound: crashes and failed calls
  CatalogFaultKinds  \* which of them happen

ASSUME CatalogAssumption ==
  /\ JobHomes \subseteq [CatalogJobs -> CatalogGateways]
  /\ CatalogConfigs \in Nat \ {0} /\ MaxProbes \in Nat \ {0}
  /\ ProbeRuns \subseteq Nat \ {0} /\ IsFiniteSet(ProbeRuns)
  /\ "other" \notin CatalogJobs   \* the queue's name for another project's run
  /\ MaxCatalogFaults \in Nat /\ BusyGateways \subseteq CatalogGateways
  /\ CatalogFaultKinds \subseteq {"crash", "create", "lostAck", "delete"}

VARIABLES
  catalogRecord,   \* the durable record
  catalogConfig,   \* the fingerprint of the project as it is now
  job,             \* calls in progress
  home,            \* the gateway each call arrives at (never changes)
  pending,         \* per gateway: the project has an entry in "pending"
  activeProbes,    \* per gateway: permits taken
  permitQueue,     \* per gateway: runs waiting for a permit
  otherRun,        \* per gateway: the run of another project, for its permit
  staleSweep,      \* per gateway: the run a sweep timer is set for, 0 for none
  probeObjects,    \* per run: its Service and Pod that exist
  deleting,        \* per run: those of them marked for deletion
  catalogFaults    \* faults so far

probeVars == <<probeObjects, deleting>>
localVars == <<pending, activeProbes, permitQueue, otherRun>>
catalogVars == <<catalogRecord, catalogConfig, job, home, pending,
                 activeProbes, permitQueue, otherRun, staleSweep, probeObjects,
                 deleting, catalogFaults>>

ProbeKinds == {"Service", "Pod"}
RunOrNone == ProbeRuns \cup {0}
CatalogRecords ==
  [state : {"none", "probing", "verified", "failed"},
   fingerprint : 0 .. CatalogConfigs, run : RunOrNone,
   receipts : SUBSET ProbeKinds, left : 0 .. 1]
\* identity -> look -> (reclaim -> reclaimed ->) register -> run()
JobSteps == {"idle", "look", "reclaim", "reclaimed", "waiting", "admit",
             "record", "claim", "Service", "Pod", "receipt", "ready",
             "converse", "cleanup", "gone", "verify", "publish", "failed"}
CatalogJob ==
  [step : JobSteps, fingerprint : 0 .. CatalogConfigs, force : BOOLEAN,
   sweep : BOOLEAN, run : RunOrNone, receipts : SUBSET ProbeKinds, ok : BOOLEAN]
IdleJob == [step |-> "idle", fingerprint |-> 0, force |-> FALSE, sweep |-> FALSE,
            run |-> 0, receipts |-> {}, ok |-> FALSE]

CatalogInit ==
  /\ catalogRecord = [state |-> "none", fingerprint |-> 0, run |-> 0,
                      receipts |-> {}, left |-> 0]
  /\ catalogConfig = 1
  /\ job = [j \in CatalogJobs |-> IdleJob]
  /\ home \in JobHomes
  /\ pending = [g \in CatalogGateways |-> FALSE]
  /\ activeProbes = [g \in CatalogGateways |-> 0]
  /\ permitQueue = [g \in CatalogGateways |-> <<>>]
  /\ otherRun = [g \in CatalogGateways |-> "none"]
  /\ staleSweep = [g \in CatalogGateways |-> 0]
  /\ probeObjects = [r \in ProbeRuns |-> {}]
  /\ deleting = [r \in ProbeRuns |-> {}]
  /\ catalogFaults = 0

-----------------------------------------------------------------------------
(* Helpers.                                                                 *)

JobGoes(j, step) == [job EXCEPT ![j].step = step]
JobEnds(j) == [job EXCEPT ![j] = IdleJob]
Mine(j) == catalogRecord.state = "probing" /\ catalogRecord.run = job[j].run
Fresh(state, fp) == /\ catalogRecord.state = state /\ catalogRecord.left > 0
                    /\ catalogRecord.fingerprint = fp
Fault(kind) == /\ kind \in CatalogFaultKinds /\ catalogFaults < MaxCatalogFaults
               /\ catalogFaults' = catalogFaults + 1

\* scheduleStaleSweep(): one timer, whichever run it was set for.
Swept(g, run) == [staleSweep EXCEPT ![g] = IF @ = 0 THEN run ELSE @]

RunsInUse ==
  {catalogRecord.run} \cup {job[j].run : j \in CatalogJobs}
    \cup {staleSweep[g] : g \in CatalogGateways}
    \cup {r \in ProbeRuns : probeObjects[r] # {}}
FreeRuns == ProbeRuns \ RunsInUse

\* acquire(): a permit at once, or a place in the queue.
Register(j) ==
  LET g == home[j]
      free == activeProbes[g] < MaxProbes
  IN  /\ pending' = [pending EXCEPT ![g] = TRUE]
      /\ activeProbes' = [activeProbes EXCEPT ![g] = IF free THEN @ + 1 ELSE @]
      /\ permitQueue' = [permitQueue EXCEPT
                           ![g] = IF free THEN @ ELSE Append(@, j)]
      /\ job' = [job EXCEPT ![j].step = IF free THEN "admit" ELSE "waiting",
                            ![j].run = 0, ![j].receipts = {}]
      /\ UNCHANGED otherRun

\* release(): the permit passes to the next in the queue.
Release(g, jobs, others) ==
  LET q == permitQueue[g]
      other == q # <<>> /\ Head(q) = "other"
  IN  IF q = <<>>
      THEN /\ activeProbes' = [activeProbes EXCEPT ![g] = @ - 1]
           /\ job' = jobs /\ otherRun' = others /\ UNCHANGED permitQueue
      ELSE /\ permitQueue' = [permitQueue EXCEPT ![g] = Tail(@)]
           /\ job' = IF other THEN jobs
                     ELSE [jobs EXCEPT ![Head(q)].step = "admit"]
           /\ otherRun' = IF other THEN [others EXCEPT ![g] = "running"] ELSE others
           /\ UNCHANGED activeProbes

\* run() returns; the entry of "pending" goes, whoever set it.
EndRun(j) ==
  /\ pending' = [pending EXCEPT ![home[j]] = FALSE]
  /\ Release(home[j], JobEnds(j), otherRun)

\* The runs of other projects share nothing but the permits.
OtherRunBegins(g) ==
  LET free == activeProbes[g] < MaxProbes
  IN  /\ g \in BusyGateways /\ otherRun[g] = "none"
      /\ otherRun' = [otherRun EXCEPT ![g] = IF free THEN "running" ELSE "waiting"]
      /\ activeProbes' = [activeProbes EXCEPT ![g] = IF free THEN @ + 1 ELSE @]
      /\ permitQueue' = [permitQueue EXCEPT
                           ![g] = IF free THEN @ ELSE Append(@, "other")]
      /\ UNCHANGED <<catalogRecord, catalogConfig, job, pending, staleSweep,
                     probeVars, catalogFaults>>

OtherRunEnds(g) ==
  /\ otherRun[g] = "running"
  /\ Release(g, job, [otherRun EXCEPT ![g] = "none"])
  /\ UNCHANGED <<catalogRecord, catalogConfig, pending, staleSweep, probeVars,
                 catalogFaults>>

-----------------------------------------------------------------------------
(* snapshot() and the stale sweep.                                          *)

SnapshotBegins(j, force) ==
  /\ job[j].step = "idle"
  /\ job' = [job EXCEPT ![j].step = "look", ![j].fingerprint = catalogConfig,
                        ![j].force = force]
  /\ UNCHANGED <<catalogRecord, catalogConfig, localVars, staleSweep, probeVars,
                 catalogFaults>>

\* Answered from the record, by a run in this process, or by a run of
\* another process that a sweep will watch.
LookAnswers(j) ==
  LET g == home[j]
      fp == job[j].fingerprint
      known == ~job[j].force /\ (Fresh("verified", fp) \/ Fresh("failed", fp))
      running == catalogRecord.state = "probing" /\ catalogRecord.left > 0
  IN  /\ job[j].step = "look"
      /\ known \/ pending[g] \/ running
      /\ job' = JobEnds(j)
      /\ staleSweep' = IF ~known /\ ~pending[g]
                       THEN Swept(g, catalogRecord.run) ELSE staleSweep
      /\ UNCHANGED <<catalogRecord, catalogConfig, localVars, probeVars,
                     catalogFaults>>

LookStarts(j) ==
  LET fp == job[j].fingerprint
  IN  /\ job[j].step = "look"
      /\ job[j].force \/ ~(Fresh("verified", fp) \/ Fresh("failed", fp))
      /\ ~pending[home[j]]
      /\ IF catalogRecord.state = "probing"
         THEN /\ catalogRecord.left = 0
              /\ job' = [job EXCEPT ![j].step = "reclaim",
                                    ![j].run = catalogRecord.run]
              /\ UNCHANGED localVars
         ELSE Register(j)
      /\ UNCHANGED <<catalogRecord, catalogConfig, staleSweep, probeVars,
                     catalogFaults>>

SweepFires(j) ==
  LET g == home[j]
      run == staleSweep[g]
      its == catalogRecord.state = "probing" /\ catalogRecord.run = run
  IN  /\ job[j].step = "idle" /\ run # 0
      /\ its => catalogRecord.left = 0
      /\ staleSweep' = [staleSweep EXCEPT ![g] = 0]
      /\ job' = IF its THEN [job EXCEPT ![j].step = "reclaim", ![j].run = run,
                                        ![j].sweep = TRUE]
                ELSE job
      /\ UNCHANGED <<catalogRecord, catalogConfig, localVars, probeVars,
                     catalogFaults>>

\* cleanup() of an expired run: without a receipt, the run label and the owner
\* say what is the run's.
ReclaimDeletes(j) ==
  LET run == job[j].run
  IN  /\ job[j].step = "reclaim"
      /\ deleting' = [deleting EXCEPT ![run] = probeObjects[run]]
      /\ job' = JobGoes(j, "reclaimed")
      /\ UNCHANGED <<catalogRecord, catalogConfig, localVars, staleSweep,
                     probeObjects, catalogFaults>>

\* Mutant of ReclaimEnds: the reclaimed run stays in the record.
ReclaimKeeps(j) ==
  /\ job[j].step = "reclaimed"
  /\ deleting[job[j].run] = {}
  /\ job' = JobEnds(j)
  /\ UNCHANGED <<catalogRecord, catalogConfig, localVars, staleSweep, probeVars,
                 catalogFaults>>

\* The deletion was observed: the record says "interrupted", at once retryable.
ReclaimEnds(j) ==
  LET g == home[j]
  IN  /\ job[j].step = "reclaimed"
      /\ deleting[job[j].run] = {}
      /\ IF Mine(j)
         THEN /\ catalogRecord' = [catalogRecord EXCEPT !.state = "failed",
                   !.run = 0, !.receipts = {}, !.left = 0]
              /\ staleSweep' = [staleSweep EXCEPT ![g] = 0]
         ELSE /\ catalogRecord' = catalogRecord
              /\ staleSweep' = IF job[j].sweep
                               THEN Swept(g, job[j].run) ELSE staleSweep
      /\ IF Mine(j) /\ ~job[j].sweep THEN Register(j)
         ELSE job' = JobEnds(j) /\ UNCHANGED localVars
      /\ UNCHANGED <<catalogConfig, probeVars, catalogFaults>>

\* The deletion is not seen within 20 s: a sweep is scheduled again.
ReclaimFails(j) ==
  /\ job[j].step = "reclaimed" /\ deleting[job[j].run] # {}
  /\ Fault("delete")
  /\ job' = JobEnds(j)
  /\ staleSweep' = IF job[j].sweep THEN Swept(home[j], job[j].run)
                   ELSE staleSweep
  /\ UNCHANGED <<catalogRecord, catalogConfig, localVars, probeVars>>

-----------------------------------------------------------------------------
(* run() and the probe.                                                     *)

\* The configuration must still be the one that was asked for.
Admit(j) ==
  /\ job[j].step = "admit"
  /\ IF catalogConfig = job[j].fingerprint
     THEN job' = JobGoes(j, "record") /\ UNCHANGED localVars
     ELSE EndRun(j)
  /\ UNCHANGED <<catalogRecord, catalogConfig, staleSweep, probeVars,
                 catalogFaults>>

CheckRecord(j) ==
  LET served == ~job[j].force /\ Fresh("verified", job[j].fingerprint)
  IN  /\ job[j].step = "record"
      /\ IF catalogRecord.state = "probing" \/ served THEN EndRun(j)
         ELSE job' = JobGoes(j, "claim") /\ UNCHANGED localVars
      /\ UNCHANGED <<catalogRecord, catalogConfig, staleSweep, probeVars,
                     catalogFaults>>

ClaimRun(j) ==
  /\ job[j].step = "claim"
  /\ IF catalogRecord.state = "probing"
     THEN EndRun(j) /\ UNCHANGED <<catalogRecord, staleSweep>>
     ELSE \E run \in FreeRuns :
            /\ \A r \in FreeRuns : run <= r
            /\ catalogRecord' = [state |-> "probing", run |-> run,
                 fingerprint |-> job[j].fingerprint, receipts |-> {}, left |-> 1]
            /\ staleSweep' = Swept(home[j], run)
            /\ job' = [job EXCEPT ![j].step = "Service", ![j].run = run]
            /\ UNCHANGED localVars
  /\ UNCHANGED <<catalogConfig, probeVars, catalogFaults>>

\* The Service first, then the Pod.
CreateObject(j) ==
  LET kind == job[j].step
  IN  /\ kind \in ProbeKinds
      /\ probeObjects' = [probeObjects EXCEPT ![job[j].run] = @ \cup {kind}]
      /\ job' = [job EXCEPT ![j].step = "receipt", ![j].receipts = @ \cup {kind}]
      /\ UNCHANGED <<catalogRecord, catalogConfig, localVars, staleSweep,
                     deleting, catalogFaults>>

\* The call fails; the object may exist all the same.
CreateFails(j) ==
  /\ job[j].step \in ProbeKinds
  /\ \/ Fault("create") /\ UNCHANGED probeObjects
     \/ /\ Fault("lostAck")
        /\ probeObjects' = [probeObjects EXCEPT ![job[j].run] = @ \cup {job[j].step}]
  /\ job' = JobGoes(j, "cleanup")
  /\ UNCHANGED <<catalogRecord, catalogConfig, localVars, staleSweep, deleting>>

\* onResourceCreated(): only the current run may add to the record.
StoreReceipts(j) ==
  /\ job[j].step = "receipt"
  /\ IF Mine(j)
     THEN /\ catalogRecord' = [catalogRecord EXCEPT !.receipts = job[j].receipts]
          /\ job' = JobGoes(j, IF "Pod" \in job[j].receipts THEN "ready" ELSE "Pod")
     ELSE catalogRecord' = catalogRecord /\ job' = JobGoes(j, "cleanup")
  /\ UNCHANGED <<catalogConfig, localVars, staleSweep, probeVars, catalogFaults>>

\* The Pod is Ready; then the daemon answers for checkout and providers, and
\* the Pod is still the same one.
ProbeAdvances(j) ==
  /\ job[j].step \in {"ready", "converse"}
  /\ "Pod" \in probeObjects[job[j].run]
  /\ job' = IF job[j].step = "ready" THEN JobGoes(j, "converse")
            ELSE [job EXCEPT ![j].step = "cleanup", ![j].ok = TRUE]
  /\ UNCHANGED <<catalogRecord, catalogConfig, localVars, staleSweep, probeVars,
                 catalogFaults>>

\* The Pod failed or was replaced, an answer was refused, or time is up.
ProbeFails(j) ==
  /\ job[j].step \in {"ready", "converse"}
  /\ job' = JobGoes(j, "cleanup")
  /\ UNCHANGED <<catalogRecord, catalogConfig, localVars, staleSweep, probeVars,
                 catalogFaults>>

\* cleanup() by the run: what it has the UID of.
CleanupDeletes(j) ==
  LET run == job[j].run
  IN  /\ job[j].step = "cleanup"
      /\ deleting' = [deleting EXCEPT
           ![run] = @ \cup (probeObjects[run] \cap job[j].receipts)]
      /\ job' = JobGoes(j, "gone")
      /\ UNCHANGED <<catalogRecord, catalogConfig, localVars, staleSweep,
                     probeObjects, catalogFaults>>

CleanupEnds(j) ==
  /\ job[j].step = "gone" /\ deleting[job[j].run] = {}
  /\ job' = JobGoes(j, IF job[j].ok THEN "verify" ELSE "failed")
  /\ UNCHANGED <<catalogRecord, catalogConfig, localVars, staleSweep, probeVars,
                 catalogFaults>>

\* Mutant of CleanupFails: a cleanup that failed ends the run like any other.
CleanupShrugs(j) ==
  /\ job[j].step = "gone" /\ deleting[job[j].run] # {}
  /\ Fault("delete")
  /\ job' = JobGoes(j, "failed")
  /\ deleting' = [deleting EXCEPT ![job[j].run] = {}]
  /\ UNCHANGED <<catalogRecord, catalogConfig, localVars, staleSweep,
                 probeObjects>>

\* ProviderProbeCleanupError: the record keeps the run for the stale sweep.
CleanupFails(j) ==
  /\ job[j].step = "gone" /\ deleting[job[j].run] # {}
  /\ Fault("delete")
  /\ EndRun(j)
  /\ UNCHANGED <<catalogRecord, catalogConfig, staleSweep, probeVars>>

VerifyConfig(j) ==
  /\ job[j].step = "verify"
  /\ job' = JobGoes(j, IF catalogConfig = job[j].fingerprint
                       THEN "publish" ELSE "failed")
  /\ UNCHANGED <<catalogRecord, catalogConfig, localVars, staleSweep, probeVars,
                 catalogFaults>>

\* verified with its entries, or failed with its retry time; a run that was
\* replaced leaves the record alone.
Conclude(j) ==
  LET g == home[j]
  IN  /\ job[j].step \in {"publish", "failed"}
      /\ IF Mine(j)
         THEN /\ catalogRecord' =
                   [state |-> IF job[j].step = "publish" THEN "verified" ELSE "failed",
                    fingerprint |-> job[j].fingerprint, run |-> 0,
                    receipts |-> {}, left |-> 1]
              /\ staleSweep' = [staleSweep EXCEPT ![g] = 0]
         ELSE UNCHANGED <<catalogRecord, staleSweep>>
      /\ EndRun(j)
      /\ UNCHANGED <<catalogConfig, probeVars, catalogFaults>>

-----------------------------------------------------------------------------
(* The environment.                                                         *)

\* The process is replaced; initialize() watches a run it finds in progress.
CatalogCrash(g) ==
  /\ Fault("crash")
  /\ job' = [j \in CatalogJobs |-> IF home[j] = g THEN IdleJob ELSE job[j]]
  /\ pending' = [pending EXCEPT ![g] = FALSE]
  /\ activeProbes' = [activeProbes EXCEPT ![g] = 0]
  /\ permitQueue' = [permitQueue EXCEPT ![g] = <<>>]
  /\ otherRun' = [otherRun EXCEPT ![g] = "none"]
  /\ staleSweep' = [staleSweep EXCEPT ![g] = catalogRecord.run]
  /\ UNCHANGED <<catalogRecord, catalogConfig, probeVars>>

\* Mutant of ObjectGone: the object is gone, the deletion goes on.
ObjectGoneTwice(run) ==
  /\ deleting[run] # {}
  /\ probeObjects' = [probeObjects EXCEPT ![run] = @ \ deleting[run]]
  /\ UNCHANGED <<deleting, catalogRecord, catalogConfig, job, localVars,
                 staleSweep, catalogFaults>>

\* Kubernetes removes what was deleted.
ObjectGone(run) ==
  /\ deleting[run] # {}
  /\ probeObjects' = [probeObjects EXCEPT ![run] = @ \ deleting[run]]
  /\ deleting' = [deleting EXCEPT ![run] = {}]
  /\ UNCHANGED <<catalogRecord, catalogConfig, job, localVars, staleSweep,
                 catalogFaults>>

ConfigEdited ==
  /\ catalogConfig < CatalogConfigs
  /\ catalogConfig' = catalogConfig + 1
  /\ UNCHANGED <<catalogRecord, job, localVars, staleSweep, probeVars,
                 catalogFaults>>

RunningSteps == {"Service", "Pod", "receipt", "ready", "converse", "cleanup",
                 "gone", "verify", "publish", "failed"}
Probing(j) == job[j].step \in RunningSteps

HasPermit(j) == Probing(j) \/ job[j].step \in {"admit", "record", "claim"}

\* A live run ends before it is stale: 240 s for the probe and 20 s for its
\* cleanup, against 360 s.
CatalogTick ==
  /\ catalogRecord.left > 0
  /\ ~\E j \in CatalogJobs : Probing(j) /\ job[j].run = catalogRecord.run
  /\ catalogRecord' = [catalogRecord EXCEPT !.left = 0]
  /\ UNCHANGED <<catalogConfig, job, localVars, staleSweep, probeVars,
                 catalogFaults>>

JobStep(j) ==
  \/ LookAnswers(j) \/ LookStarts(j)
  \/ ReclaimDeletes(j) \/ ReclaimEnds(j)
  \/ Admit(j) \/ CheckRecord(j) \/ ClaimRun(j)
  \/ CreateObject(j) \/ StoreReceipts(j) \/ ProbeAdvances(j) \/ ProbeFails(j)
  \/ CleanupDeletes(j) \/ CleanupEnds(j) \/ VerifyConfig(j) \/ Conclude(j)

CatalogStep ==
  \/ \E j \in CatalogJobs :
       \/ JobStep(j) \/ SweepFires(j)
       \/ \E force \in BOOLEAN : SnapshotBegins(j, force)
       \/ CreateFails(j) \/ ReclaimFails(j) \/ CleanupFails(j)
  \/ \E g \in CatalogGateways :
       CatalogCrash(g) \/ OtherRunBegins(g) \/ OtherRunEnds(g)
  \/ \E run \in ProbeRuns : ObjectGone(run)
  \/ ConfigEdited \/ CatalogTick

CatalogNext == CatalogStep /\ UNCHANGED home

\* Calls go on, a watched project is polled and audited, timers fire, and
\* Kubernetes completes deletions.
CatalogFairness ==
  /\ \A j \in CatalogJobs : WF_catalogVars(JobStep(j) /\ UNCHANGED home)
  /\ \A j \in CatalogJobs : WF_catalogVars(SnapshotBegins(j, FALSE) /\ UNCHANGED home)
  /\ \A run \in ProbeRuns : WF_catalogVars(ObjectGone(run) /\ UNCHANGED home)
  /\ \A g \in CatalogGateways : WF_catalogVars(OtherRunEnds(g) /\ UNCHANGED home)
  /\ WF_catalogVars(CatalogTick /\ UNCHANGED home)

CatalogSpec == CatalogInit /\ [][CatalogNext]_catalogVars /\ CatalogFairness

-----------------------------------------------------------------------------
(* Properties.                                                              *)

\* The state has its type.
CatalogTypeOK ==
  /\ catalogRecord \in CatalogRecords
  /\ catalogConfig \in 1 .. CatalogConfigs /\ catalogFaults \in 0 .. MaxCatalogFaults
  /\ job \in [CatalogJobs -> CatalogJob]
  /\ home \in [CatalogJobs -> CatalogGateways]
  /\ pending \in [CatalogGateways -> BOOLEAN]
  /\ activeProbes \in [CatalogGateways -> Nat]
  /\ permitQueue \in [CatalogGateways -> Seq(CatalogJobs \cup {"other"})]
  /\ otherRun \in [CatalogGateways -> {"none", "running", "waiting"}]
  /\ staleSweep \in [CatalogGateways -> RunOrNone]
  /\ probeObjects \in [ProbeRuns -> SUBSET ProbeKinds]
  /\ deleting \in [ProbeRuns -> SUBSET ProbeKinds]
  /\ \A r \in ProbeRuns : deleting[r] \subseteq probeObjects[r]

\* Two probes of one project never run at once, though snapshot() registers
\* its run after an await and two processes share the record.
OneProbeAtATime ==
  \A i, j \in CatalogJobs : Probing(i) /\ Probing(j) => i = j

\* No Pod or Service of a probe outlives what will delete it: its run is at
\* work, or the record still names the run for the stale sweep.
ProbeObjectsAccounted ==
  \A r \in ProbeRuns :
    probeObjects[r] \ deleting[r] # {} =>
      \/ catalogRecord.state = "probing" /\ catalogRecord.run = r
      \/ \E j \in CatalogJobs : job[j].run = r

\* acquire(): permits are neither lost nor invented when they are handed on,
\* and nobody waits while one is free.
PermitsConserved ==
  \A g \in CatalogGateways :
    /\ activeProbes[g] =
         Cardinality({j \in CatalogJobs : home[j] = g /\ HasPermit(j)})
           + (IF otherRun[g] = "running" THEN 1 ELSE 0)
    /\ activeProbes[g] <= MaxProbes
    /\ permitQueue[g] # <<>> => activeProbes[g] = MaxProbes

\* A run that was claimed ends in a verdict, whoever dies meanwhile.
ProbingEnds == catalogRecord.state = "probing" ~> catalogRecord.state # "probing"

\* Once anybody asks, a configuration that is not the recorded one, the first
\* or a changed one, is discovered.
ConfigurationCatalogued ==
  /\ catalogRecord.fingerprint # catalogConfig
  /\ \E j \in CatalogJobs : job[j].step # "idle"
    ~> catalogRecord.fingerprint = catalogConfig

\* One probe at a time, and everything one has made or holds is accounted for.
ProbesAccounted == OneProbeAtATime /\ ProbeObjectsAccounted /\ PermitsConserved
=============================================================================
