-------------------------- MODULE LifecycleProofs --------------------------
(***************************************************************************)
(* The safety theorems of WorkspaceLifecycle, for every set of workspaces, *)
(* retention policy, capacity and kind of failure: type correctness, the   *)
(* theorems about stops and releases from TypeOK /\ LifecycleInv, and those *)
(* about retention, data, claims of other owners and capacity from         *)
(* StorageInv and CapacityInv on top of it.                                *)
(***************************************************************************)
EXTENDS WorkspaceLifecycle, FiniteSetTheorems, TLAPS

-----------------------------------------------------------------------------
(* Type correctness.  TypeOK is inductive only together with StepsInv.       *)

\* A new record is a record, whatever its residency.
LEMMA NewRecordType == \A r \in Residency : NewRecord(r) \in Record
  BY ConstantsAssumption DEF NewRecord, Record, Residency, Phase, Message, Diagnostic

\* The empty copy and the empty Pod have the types of copies and of Pods.
LEMMA BlankType == Blank \in Record
  BY NewRecordType DEF Blank, Residency

LEMMA PodTypes == NoPod \in Pod /\ NewPod \in Pod
  BY DEF NoPod, NewPod, Pod, Diagnostic

LEMMA TypeInit == Init => TypeOK
  <1> SUFFICES ASSUME Init PROVE TypeOK
    OBVIOUS
  <1> USE DEF Init, ClusterInit, ControllerInit, ArchiveInit
  <1>1. RecordsTypeOK
    BY NewRecordType DEF RecordsTypeOK
  <1>2. ObjectsTypeOK
    BY PodTypes DEF ObjectsTypeOK, Claim
  <1>3. HistoryTypeOK
    BY DEF HistoryTypeOK
  <1>4. ControllerTypeOK
    BY BlankType DEF ControllerTypeOK, Steps
  <1>5. ArchiveTypeOK
    BY DEF ArchiveTypeOK, ArchiveSteps
  <1> QED
    BY <1>1, <1>2, <1>3, <1>4, <1>5 DEF TypeOK

\* What the writers of a status change in it leaves it a record.
LEMMA TeardownUpdate ==
  ASSUME NEW r \in Record PROVE [r EXCEPT !.teardown = TRUE] \in Record
  BY DEF Record

LEMMA ArchivedAtUpdate ==
  ASSUME NEW r \in Record, NEW t \in Nat \cup {NoTime}
  PROVE  [r EXCEPT !.archivedAt = t] \in Record
  BY DEF Record

LEMMA FailureUpdate ==
  ASSUME NEW r \in Record, NEW d \in Diagnostic
  PROVE  [r EXCEPT !.failure = d] \in Record
  BY DEF Record

\* The phases and messages of the forced reports are those of the record.
LEMMA Vocabulary ==
  /\ \A r \in Residency \ {"Running"} : r \in Phase
  /\ "Archived" \in Phase /\ "Pending" \in Phase
  /\ {"tornDown", "awaitClaim", "released", "stopped"} \subseteq Message
  BY DEF Residency, Phase, Message

\* The moves of the loop keep the types of its local data.
LEMMA ReportedType ==
  ASSUME ControllerTypeOK, NEW phase \in Phase, NEW why \in Message
  PROVE  Reported(phase, why) \in Record
  BY DEF ControllerTypeOK, Reported, workspace, Record

LEMMA GotoType ==
  ASSUME ControllerTypeOK, NEW step \in Steps, Goto(step)
  PROVE  ControllerTypeOK'
  BY DEF ControllerTypeOK, Goto

LEMMA ReturnType ==
  ASSUME ControllerTypeOK, NEW b \in SUBSET Workspaces, Return(b)
  PROVE  ControllerTypeOK'
  BY BlankType DEF ControllerTypeOK, Return, Steps

LEMMA DoneType ==
  ASSUME ControllerTypeOK, Done \/ Throw
  PROVE  ControllerTypeOK'
  <1>1. CASE Done
    BY <1>1, ReturnType, retry \ {cur} \in SUBSET Workspaces
    DEF Done, ControllerTypeOK
  <1>2. CASE Throw
    BY <1>2, ReturnType, retry \cup {cur} \in SUBSET Workspaces
    DEF Throw, ControllerTypeOK
  <1> QED
    BY <1>1, <1>2

LEMMA ReportWithType ==
  ASSUME ControllerTypeOK, NEW status \in Record, NEW forced \in BOOLEAN,
         ReportWith(status, forced)
  PROVE  ControllerTypeOK'
  BY DEF ControllerTypeOK, ReportWith, Steps

LEMMA SayType ==
  ASSUME ControllerTypeOK, NEW phase \in Phase, NEW why \in Message,
         Say(phase, why)
  PROVE  ControllerTypeOK'
  BY ReportedType, ReportWithType DEF Say

\* A status or spec write leaves a record a record.
LEMMA PutStatusType ==
  ASSUME RecordsTypeOK, NEW h, NEW w \in Workspaces, NEW r \in Record,
         PutStatus(h, w, r)
  PROVE  RecordsTypeOK'
  BY DEF RecordsTypeOK, PutStatus, Stale, Record

LEMMA WriteResidencyType ==
  ASSUME RecordsTypeOK, NEW w \in Workspaces, NEW r \in Residency,
         WriteResidency(w, r)
  PROVE  RecordsTypeOK'
  <1> DEFINE o == rec[w].observed /\ rec[w].res = r
             new == [rec[w] EXCEPT !.res = r, !.observed = o]
  <1>1. o \in BOOLEAN
    OBVIOUS
  <1>2. rec[w] \in Record
    BY DEF RecordsTypeOK
  <1>3. new \in Record
    <2> HIDE DEF o
    <2> QED BY <1>1, <1>2 DEF Record
  <1>4. rec' = [rec EXCEPT ![w] = new]
    BY DEF WriteResidency
  <1> HIDE DEF new
  <1>5. rec' \in [Workspaces -> Record]
    BY <1>3, <1>4 DEF RecordsTypeOK
  <1> QED
    BY <1>5 DEF RecordsTypeOK, WriteResidency, Stale

\* Users, time, the cluster and the readers preserve the types.
LEMMA EnvironmentType ==
  ASSUME TypeOK, NEW w \in Workspaces,
         UserStep(w) \/ ClusterStep(w) \/ ReaderRequest(w) \/ Tick
  PROVE  RecordsTypeOK' /\ ObjectsTypeOK' /\ HistoryTypeOK'
  <1> USE DEF TypeOK
  <1>1. CASE UserStep(w)
    <2>1. PICK r \in Residency : SetResidency(w, r)
      BY <1>1 DEF UserStep
    <2>2. RecordsTypeOK'
      BY <2>1, WriteResidencyType DEF SetResidency
    <2> QED
      BY <2>1, <2>2 DEF SetResidency, ObjectsTypeOK, HistoryTypeOK
  <1>2. CASE Tick
    BY <1>2 DEF Tick, RecordsTypeOK, ObjectsTypeOK, HistoryTypeOK
  <1>3. CASE PodBecomesReady(w)
    <2> DEFINE d == IF pod[w].diag = "ContainerFailed" THEN "ContainerFailed"
                                                       ELSE "none"
    <2>1. d \in Diagnostic
      BY DEF Diagnostic
    <2>2. pod' = [pod EXCEPT ![w] = [pod[w] EXCEPT !.phase = "Ready", !.diag = d]]
      BY <1>3 DEF PodBecomesReady, ChangePod
    <2> HIDE DEF d
    <2>3. pod' \in [Workspaces -> Pod]
      BY ZenonT(60), <2>1, <2>2 DEF ObjectsTypeOK, Pod
    <2> QED
      BY <1>3, <2>3 DEF PodBecomesReady, ChangePod, RecordsTypeOK,
                        ObjectsTypeOK, HistoryTypeOK
  <1>4. CASE PodWaits(w)
    BY <1>4 DEF PodWaits, ChangePod, RecordsTypeOK, ObjectsTypeOK,
                HistoryTypeOK, Pod, Diagnostic
  <1>5. CASE PodBecomesUnready(w)
    BY ZenonT(60), <1>5 DEF PodBecomesUnready, ChangePod, RecordsTypeOK, ObjectsTypeOK,
                HistoryTypeOK, Pod
  <1>6. CASE PodEvicted(w)
    BY ZenonT(60), <1>6 DEF PodEvicted, RecordsTypeOK, ObjectsTypeOK, HistoryTypeOK, Pod,
                Diagnostic
  <1>7. CASE PodDeletedElsewhere(w)
    BY ZenonT(60), <1>7 DEF PodDeletedElsewhere, ChangePod, RecordsTypeOK, ObjectsTypeOK,
                HistoryTypeOK, Pod
  <1>8. CASE PodGone(w)
    BY <1>8, PodTypes DEF PodGone, RecordsTypeOK, ObjectsTypeOK, HistoryTypeOK
  <1>9. CASE ClaimGone(w)
    BY <1>9 DEF ClaimGone, RecordsTypeOK, ObjectsTypeOK, HistoryTypeOK, Claim
  <1>10. CASE ForeignClaimAppears(w)
    BY <1>10 DEF ForeignClaimAppears, RecordsTypeOK, ObjectsTypeOK,
                 HistoryTypeOK, Claim
  <1>11. CASE HooksSucceed(w)
    BY <1>11 DEF HooksSucceed, RecordsTypeOK, ObjectsTypeOK, HistoryTypeOK
  <1>12. CASE HooksFail(w)
    BY <1>12 DEF HooksFail, RecordsTypeOK, ObjectsTypeOK, HistoryTypeOK
  <1>13. CASE ReaderRequest(w)
    BY <1>13 DEF ReaderRequest, ReaderVerify, ReaderCreate, ReaderDelete,
                 ReaderGone, ReaderStep, RecordsTypeOK, ObjectsTypeOK,
                 HistoryTypeOK
  <1> QED
    BY <1>1, <1>2, <1>3, <1>4, <1>5, <1>6, <1>7, <1>8, <1>9, <1>10, <1>11,
       <1>12, <1>13 DEF ClusterStep

\* One execution of the teardown helper preserves the types of its state.
LEMMA TeardownStartsType ==
  ASSUME ObjectsTypeOK, HistoryTypeOK, NEW w \in Workspaces, TeardownStarts(w)
  PROVE  /\ hooks' \in [Workspaces -> {"none", "started", "complete"}]
         /\ helper' \subseteq Workspaces
         /\ runs' \in [Workspaces -> 0..2]
  BY DEF ObjectsTypeOK, HistoryTypeOK, TeardownStarts

\* The moves of an archive request keep the types of its local data.
LEMMA GoArchiveType ==
  ASSUME ArchiveTypeOK, NEW w \in Workspaces, NEW step \in ArchiveSteps,
         GoArchive(w, step)
  PROVE  ArchiveTypeOK'
  BY DEF ArchiveTypeOK, GoArchive

\* Every step of an archive request preserves the types.
LEMMA ArchiveType ==
  ASSUME TypeOK, NEW w \in Workspaces, ArchiveNext(w)
  PROVE  RecordsTypeOK' /\ ObjectsTypeOK' /\ HistoryTypeOK' /\ ArchiveTypeOK'
  <1> USE DEF TypeOK
  <1>1. CASE ArchiveBegin(w)
    BY <1>1 DEF ArchiveBegin, ReadCopy, Holders, RecordsTypeOK, ObjectsTypeOK,
                HistoryTypeOK, ArchiveTypeOK, ArchiveSteps
  <1>2. CASE ArchiveResume(w)
    <2>1. RecordsTypeOK'
      BY <1>2, WriteResidencyType DEF ArchiveResume, Residency, RecordsTypeOK
    <2>2. ArchiveTypeOK'
      BY <1>2, GoArchiveType DEF ArchiveResume, ArchiveSteps
    <2> QED
      BY <1>2, <2>1, <2>2 DEF ArchiveResume, ObjectsTypeOK, HistoryTypeOK
  <1>3. CASE ArchiveReady(w)
    <2>1. ArchiveTypeOK'
      BY <1>3, GoArchiveType DEF ArchiveReady, ArchiveSteps
    <2> QED
      BY <1>3, <2>1 DEF ArchiveReady, ReadCopy, Holders, RecordsTypeOK,
                        ObjectsTypeOK, HistoryTypeOK
  <1>4. CASE ArchiveSnapshot(w)
    <2>1. ArchiveTypeOK'
      BY <1>4, GoArchiveType DEF ArchiveSnapshot, ArchiveSteps
    <2> QED
      BY <1>4, <2>1 DEF ArchiveSnapshot, RecordsTypeOK, ObjectsTypeOK,
                        HistoryTypeOK
  <1>5. CASE ArchiveTeardown(w)
    <2>1. ArchiveTypeOK'
      BY <1>5, GoArchiveType DEF ArchiveTeardown, ArchiveSteps
    <2> QED
      BY <1>5, <2>1, TeardownStartsType
      DEF ArchiveTeardown, RecordsTypeOK, ObjectsTypeOK, HistoryTypeOK
  <1>6. CASE ArchiveAwait(w)
    <2>1. ArchiveTypeOK'
      BY <1>6, GoArchiveType DEF ArchiveAwait, ArchiveSteps
    <2> QED
      BY <1>6, <2>1 DEF ArchiveAwait, clusterVars, RecordsTypeOK,
                        ObjectsTypeOK, HistoryTypeOK
  <1>7. CASE ArchiveUndo(w)
    <2>1. RecordsTypeOK'
      BY <1>7, WriteResidencyType DEF ArchiveUndo, Residency, RecordsTypeOK
    <2>2. ArchiveTypeOK'
      BY <1>7, GoArchiveType DEF ArchiveUndo, ArchiveSteps
    <2> QED
      BY <1>7, <2>1, <2>2 DEF ArchiveUndo, ObjectsTypeOK, HistoryTypeOK
  <1>8. CASE ArchiveMark(w)
    <2>1. [rec[w] EXCEPT !.teardown = TRUE] \in Record
      BY DEF RecordsTypeOK, Record
    <2>2. RecordsTypeOK'
      BY <1>8, <2>1, PutStatusType DEF ArchiveMark, RecordsTypeOK
    <2>3. ArchiveTypeOK'
      BY <1>8, GoArchiveType DEF ArchiveMark, ArchiveSteps
    <2> QED
      BY <1>8, <2>2, <2>3 DEF ArchiveMark, ObjectsTypeOK, HistoryTypeOK
  <1>9. CASE ArchiveRecheck(w)
    <2>1. ArchiveTypeOK'
      BY <1>9, GoArchiveType DEF ArchiveRecheck, ArchiveSteps
    <2> QED
      BY <1>9, <2>1 DEF ArchiveRecheck, ReadCopy, Holders, RecordsTypeOK,
                        ObjectsTypeOK, HistoryTypeOK
  <1>10. CASE ArchiveCommit(w)
    <2>1. RecordsTypeOK'
      BY <1>10, WriteResidencyType DEF ArchiveCommit, Residency, RecordsTypeOK
    <2>2. ArchiveTypeOK'
      BY <1>10, GoArchiveType DEF ArchiveCommit, ArchiveSteps
    <2> QED
      BY <1>10, <2>1, <2>2 DEF ArchiveCommit, ObjectsTypeOK, HistoryTypeOK
  <1> QED
    BY <1>1, <1>2, <1>3, <1>4, <1>5, <1>6, <1>7, <1>8, <1>9, <1>10
    DEF ArchiveNext

\* Every step of the controller preserves the types.  That the phase reported
\* for a stopped workspace is one of the phases needs StepsInv: the residency
\* that is reported in its place is then never Running.
LEMMA ControllerType ==
  ASSUME TypeOK, StepsInv, ControllerNext
  PROVE  RecordsTypeOK' /\ ObjectsTypeOK' /\ HistoryTypeOK' /\ ControllerTypeOK'
  <1> USE DEF TypeOK
  <1> DEFINE ClusterOK == RecordsTypeOK /\ ObjectsTypeOK /\ HistoryTypeOK
  <1> SUFFICES ClusterOK' /\ ControllerTypeOK'
    OBVIOUS
  <1>0. ASSUME UNCHANGED clusterVars PROVE ClusterOK'
    BY <1>0 DEF clusterVars, RecordsTypeOK, ObjectsTypeOK, HistoryTypeOK
  <1>1. CASE BeginPass
    BY <1>1 DEF BeginPass, Holders, ControllerTypeOK, Steps, RecordsTypeOK, ObjectsTypeOK, HistoryTypeOK
  <1>2. CASE EndPass
    BY <1>2, GotoType DEF EndPass, Steps, RecordsTypeOK, ObjectsTypeOK, HistoryTypeOK
  <1>3. CASE StoreCallFails
    BY <1>3, <1>0, DoneType DEF StoreCallFails
  <1>4. CASE Report
    <2>1. ControllerTypeOK'
      BY <1>4, DoneType DEF Report
    <2>2. RecordsTypeOK'
      BY <1>4, PutStatusType DEF Report, ControllerTypeOK, RecordsTypeOK
    <2> QED
      BY <1>4, <2>1, <2>2 DEF Report, ObjectsTypeOK, HistoryTypeOK
  <1>5. ASSUME NEW w \in Workspaces, Pick(w) \/ SkipBackoff(w)
        PROVE  ClusterOK' /\ ControllerTypeOK'
    BY <1>5, <1>0, BlankType DEF Pick, SkipBackoff, ControllerTypeOK, Steps
  <1>6. CASE Stop
    <2> ControllerTypeOK'
      BY <1>6, SayType, GotoType DEF Stop, Steps, Phase, Message
    <2> QED
      BY <1>6, <1>0 DEF Stop
  <1>7. CASE Snapshot
    <2>1. ControllerTypeOK'
      BY <1>7, SayType, GotoType DEF Snapshot, Steps, Phase, Message
    <2>2. inventory' \in [Workspaces -> {"none", "kept", "purged"}]
      BY <1>7 DEF Snapshot, ObjectsTypeOK, ControllerTypeOK
    <2> QED
      BY <1>7, <2>1, <2>2 DEF Snapshot, RecordsTypeOK, ObjectsTypeOK, HistoryTypeOK
  <1>8. TornDown => ControllerTypeOK'
    <2>1. [Reported("Pending", "tornDown") EXCEPT !.teardown = TRUE] \in Record
      BY ReportedType, TeardownUpdate, Vocabulary
    <2> QED
      BY <2>1, ReportWithType DEF TornDown
  <1>9. CASE Teardown
    <2>1. ControllerTypeOK'
      BY <1>9, <1>8, SayType, GotoType DEF Teardown, Steps, Phase, Message
    <2>2. cur \in Workspaces
      BY DEF ControllerTypeOK
    <2> QED
      BY <1>9, <2>1, <2>2, TeardownStartsType DEF Teardown, RecordsTypeOK, ObjectsTypeOK, HistoryTypeOK
  <1>10. CASE AwaitTeardown
    <2> ControllerTypeOK'
      BY <1>10, <1>8, SayType DEF AwaitTeardown, Phase, Message
    <2> QED
      BY <1>10, <1>0 DEF AwaitTeardown
  <1>11. ASSUME NEW why \in Message, RequestPodDeletion(why)
         PROVE  ClusterOK' /\ ControllerTypeOK'
    <2>1. ControllerTypeOK'
      BY <1>11, SayType, DoneType DEF RequestPodDeletion, Phase
    <2>2. pod' \in [Workspaces -> Pod]
      <3> DEFINE new == [pod[cur] EXCEPT !.deleting = TRUE]
      <3>1. pod' = pod \/ pod' = [pod EXCEPT ![cur] = new]
        BY <1>11 DEF RequestPodDeletion
      <3>2. new \in Pod
        BY ZenonT(60) DEF ObjectsTypeOK, ControllerTypeOK, Pod
      <3> HIDE DEF new
      <3> QED
        BY <3>1, <3>2 DEF ObjectsTypeOK, ControllerTypeOK
    <2> QED
      BY <1>11, <2>1, <2>2 DEF RequestPodDeletion, RecordsTypeOK, ObjectsTypeOK, HistoryTypeOK
  <1>12. CASE DeletePod \/ ReplacePod
    BY <1>12, <1>11 DEF DeletePod, ReplacePod, Message
  <1>13. CASE AwaitReader
    <2> ControllerTypeOK'
      BY <1>13, DoneType, SayType, GotoType DEF AwaitReader, Steps, Phase, Message
    <2> QED
      BY <1>13, <1>0 DEF AwaitReader
  <1>14. CASE DeleteRuntime
    <2>1. ControllerTypeOK'
      BY <1>14, SayType, GotoType DEF DeleteRuntime, Steps, Phase, Message
    <2>2. runtime' \in [Workspaces -> SUBSET {"Service", "Secret"}]
      BY <1>14 DEF DeleteRuntime, ObjectsTypeOK, ControllerTypeOK
    <2> QED
      BY <1>14, <2>1, <2>2 DEF DeleteRuntime, RecordsTypeOK, ObjectsTypeOK, HistoryTypeOK
  <1>15. CASE Settle
    <2>1. ArchivedAt \in Nat \cup {NoTime}
      BY DEF ArchivedAt, workspace, ControllerTypeOK, HistoryTypeOK, Record
    <2>2. [Reported("Archived", "awaitClaim") EXCEPT !.archivedAt = ArchivedAt]
            \in Record
      BY <2>1, ReportedType, ArchivedAtUpdate, Vocabulary
    <2>3. ASSUME NEW why \in {"released", "stopped"}
          PROVE  [Reported("Archived", why) EXCEPT !.archivedAt = now] \in Record
      BY <2>3, ReportedType, ArchivedAtUpdate, Vocabulary DEF HistoryTypeOK
    <2>4. workspace.res \in Phase
      <3>1. list[cur].res # "Running"
        BY <1>15 DEF Settle, StepsInv, StoppedSteps
      <3> QED
        BY <3>1, Vocabulary DEF workspace, ControllerTypeOK, Record
    <2>5. ASSUME RetentionExpired PROVE ControllerTypeOK'
      <3> DEFINE status == [Reported("Archived", "awaitClaim")
                              EXCEPT !.archivedAt = ArchivedAt]
      <3>1. /\ pc' = "claim"
            /\ out' = status
            /\ UNCHANGED <<cur, list, left, force, retry>>
        BY <1>15, <2>5 DEF Settle
      <3>2. status \in Record
        BY <2>2
      <3> HIDE DEF status
      <3> QED
        BY <3>1, <3>2 DEF ControllerTypeOK, Steps
    <2>6. ASSUME ~RetentionExpired PROVE ControllerTypeOK'
      <3> DEFINE why == IF workspace.released THEN "released" ELSE "stopped"
      <3>1. why \in {"released", "stopped"} /\ why \in Message
        BY Vocabulary
      <3> DEFINE status == [Reported("Archived", why) EXCEPT !.archivedAt = now]
      <3>2. ReportWith(status, TRUE) \/ Say(workspace.res, why)
        BY <1>15, <2>6 DEF Settle
      <3> HIDE DEF why
      <3>3. status \in Record
        BY <2>3, <3>1
      <3> HIDE DEF status
      <3> QED
        BY <2>4, <3>1, <3>2, <3>3, ReportWithType, SayType
    <2> QED
      BY <1>15, <1>0, <2>5, <2>6 DEF Settle
  <1>16. CASE ReadClaim
    <2> ControllerTypeOK'
      BY <1>16, DoneType, GotoType DEF ReadClaim, Steps
    <2> QED
      BY <1>16, <1>0 DEF ReadClaim
  <1>17. CASE DeleteClaim
    <2>1. ControllerTypeOK'
      BY <1>17, DoneType, GotoType DEF DeleteClaim, Steps
    <2> QED
      BY <1>17, <2>1 DEF DeleteClaim, Claim, ControllerTypeOK, RecordsTypeOK, ObjectsTypeOK, HistoryTypeOK
  <1>18. CASE CheckClaim
    <2> ControllerTypeOK'
      BY <1>18, ReportWithType, GotoType DEF CheckClaim, Steps, ControllerTypeOK
    <2> QED
      BY <1>18, <1>0 DEF CheckClaim
  <1>19. CASE PurgeInventory
    <2>1. [out EXCEPT !.why = "released", !.released = TRUE] \in Record
      BY DEF ControllerTypeOK, Record, Message
    <2>2. ControllerTypeOK'
      BY <1>19, <2>1, ReportWithType DEF PurgeInventory
    <2> QED
      BY <1>19, <2>2 DEF PurgeInventory, ControllerTypeOK, RecordsTypeOK, ObjectsTypeOK, HistoryTypeOK
  <1>20. CASE Start
    <2> ControllerTypeOK'
      BY <1>20, SayType, GotoType DEF Start, Steps, Phase, Message
    <2> QED
      BY <1>20, <1>0 DEF Start
  <1>21. CASE Capacity
    <2> ControllerTypeOK'
      BY <1>21, SayType, GotoType DEF Capacity, Steps, Phase, Message
    <2> QED
      BY <1>21, <1>0 DEF Capacity
  <1>22. CASE Credentials
    <2>1. ControllerTypeOK'
      BY <1>22, SayType, GotoType DEF Credentials, Steps, Phase, Message
    <2>2. runtime' \in [Workspaces -> SUBSET {"Service", "Secret"}]
      BY <1>22 DEF Credentials, ObjectsTypeOK, ControllerTypeOK
    <2> QED
      BY <1>22, <2>1, <2>2 DEF Credentials, RecordsTypeOK, ObjectsTypeOK, HistoryTypeOK
  <1>23. CASE EnsureClaim
    <2>1. ControllerTypeOK'
      BY <1>23, DoneType, GotoType DEF EnsureClaim, Steps
    <2>2. claim' \in [Workspaces -> Claim]
      BY <1>23 DEF EnsureClaim, ObjectsTypeOK, ControllerTypeOK, Claim
    <2> QED
      BY <1>23, <2>1, <2>2 DEF EnsureClaim, RecordsTypeOK, ObjectsTypeOK, HistoryTypeOK
  <1>24. CASE EnsureService
    <2>1. ControllerTypeOK'
      BY <1>24, GotoType DEF EnsureService, Steps
    <2>2. runtime' \in [Workspaces -> SUBSET {"Service", "Secret"}]
      BY <1>24 DEF EnsureService, ObjectsTypeOK, ControllerTypeOK
    <2> QED
      BY <1>24, <2>1, <2>2 DEF EnsureService, RecordsTypeOK, ObjectsTypeOK, HistoryTypeOK
  <1>25. ASSUME NEW p \in Pod, ReportDiagnostic(p)
         PROVE  ControllerTypeOK'
    <2> DEFINE phase == IF PodReady(p) THEN "Ready"
                        ELSE IF p.diag = "Unschedulable" THEN "Pending"
                        ELSE "Failed"
               why == IF PodReady(p) THEN "ready" ELSE p.diag
               forced == workspace.failure # p.diag
    <2>1. phase \in Phase /\ why \in Message /\ p.diag \in Diagnostic
      BY DEF Phase, Message, Pod
    <2>2. forced \in BOOLEAN
      OBVIOUS
    <2>3. ReportWith([Reported(phase, why) EXCEPT !.failure = p.diag], forced)
      BY <1>25 DEF ReportDiagnostic
    <2> HIDE DEF phase, why, forced
    <2>4. [Reported(phase, why) EXCEPT !.failure = p.diag] \in Record
      BY <2>1, ReportedType DEF Record
    <2> QED
      BY <2>2, <2>3, <2>4, ReportWithType
  <1>26. CASE EnsurePod
    <2>1. CASE CreatePod
      <3>1. ControllerTypeOK'
        BY <2>1, SayType DEF CreatePod, Phase, Message
      <3> QED
        BY <1>26, <2>1, <3>1, PodTypes DEF EnsurePod, CreatePod,
           ControllerTypeOK, RecordsTypeOK, ObjectsTypeOK, HistoryTypeOK
    <2>2. CASE ObservePod
      <3>0. pod[cur] \in Pod
        BY DEF ObjectsTypeOK, ControllerTypeOK
      <3>1. ControllerTypeOK'
        BY <2>2, <3>0, <1>25, SayType, GotoType
        DEF ObservePod, Steps, Phase, Message
      <3> QED
        BY <1>26, <2>2, <3>1 DEF EnsurePod, ObservePod, RecordsTypeOK, ObjectsTypeOK, HistoryTypeOK
    <2> QED
      BY <1>26, <2>1, <2>2 DEF EnsurePod
  <1> QED
    BY <1>1, <1>2, <1>3, <1>4, <1>5, <1>6, <1>7, <1>9, <1>10, <1>12, <1>13,
       <1>14, <1>15, <1>16, <1>17, <1>18, <1>19, <1>20, <1>21, <1>22, <1>23,
       <1>24, <1>26 DEF ControllerNext

\* Every step of the composed system preserves the types.
LEMMA TypeStep == TypeOK /\ StepsInv /\ [Next]_vars => TypeOK'
  <1> SUFFICES ASSUME TypeOK, StepsInv, [Next]_vars PROVE TypeOK'
    OBVIOUS
  <1>1. ASSUME UNCHANGED controllerVars PROVE ControllerTypeOK'
    BY <1>1 DEF controllerVars, ControllerTypeOK, TypeOK
  <1>2. ASSUME UNCHANGED archiveVars PROVE ArchiveTypeOK'
    BY <1>2 DEF archiveVars, ArchiveTypeOK, TypeOK
  <1>3. ASSUME UNCHANGED clusterVars
        PROVE  RecordsTypeOK' /\ ObjectsTypeOK' /\ HistoryTypeOK'
    BY <1>3 DEF clusterVars, TypeOK, RecordsTypeOK, ObjectsTypeOK, HistoryTypeOK
  <1>4. CASE ControllerNext /\ UNCHANGED archiveVars
    BY <1>4, <1>2, ControllerType DEF TypeOK
  <1>5. ASSUME NEW w \in Workspaces, BackoffExpires(w), UNCHANGED archiveVars
        PROVE  TypeOK'
    <2> ControllerTypeOK'
      BY <1>5 DEF BackoffExpires, ControllerTypeOK, TypeOK
    <2> QED
      BY <1>5, <1>2, <1>3 DEF BackoffExpires, TypeOK
  <1>6. ASSUME NEW w \in Workspaces, ArchiveNext(w), UNCHANGED controllerVars
        PROVE  TypeOK'
    BY <1>6, <1>1, ArchiveType DEF TypeOK
  <1>7. ASSUME NEW w \in Workspaces, UNCHANGED <<controllerVars, archiveVars>>,
               UserStep(w) \/ ClusterStep(w) \/ ReaderRequest(w) \/ Tick
        PROVE  TypeOK'
    BY <1>7, <1>1, <1>2, EnvironmentType DEF TypeOK
  <1>8. CASE GatewayRestart
    <2>1. ControllerTypeOK' /\ ArchiveTypeOK'
      BY <1>8, BlankType DEF GatewayRestart, ControllerTypeOK, ArchiveTypeOK,
         Steps, ArchiveSteps, TypeOK
    <2> QED
      BY <1>8, <2>1 DEF GatewayRestart, TypeOK, RecordsTypeOK, ObjectsTypeOK, HistoryTypeOK
  <1>9. CASE UNCHANGED vars
    BY <1>9, <1>1, <1>2, <1>3 DEF vars, TypeOK
  <1>10. PICK w : w \in Workspaces
    BY ConstantsAssumption
  <1> QED
    BY <1>4, <1>5, <1>6, <1>7, <1>8, <1>9, <1>10 DEF Next

-----------------------------------------------------------------------------
(* Stops, releases and hooks: TypeOK /\ LifecycleInv is inductive.           *)

\* The initial states satisfy the invariant: nothing is listed, no volume and
\* no Pod exists, no hook has run.
LEMMA LifecycleInit == Init => LifecycleInv
  <1> SUFFICES ASSUME Init PROVE LifecycleInv
    OBVIOUS
  <1> USE DEF Init, ClusterInit, ControllerInit, ArchiveInit
  <1>1. CopiesInv /\ StepsInv /\ OutInv
    BY DEF CopiesInv, StepsInv, OutInv, Pending, StartSteps, StoppedSteps,
           CollectSteps
  <1>2. VolumeInv
    BY ConstantsAssumption DEF VolumeInv, VolumeOK, HasPod, NoPod, NewRecord
  <1>3. ArchiveInv /\ HelperInv /\ ReleaseOnlyAfterTeardown /\ HooksRunAtMostOnce
    BY DEF ArchiveInv, HelperInv, ReleaseOnlyAfterTeardown, HooksRunAtMostOnce
  <1>4. CompletedStopHasNoCompute
    BY DEF CompletedStopHasNoCompute, HasPod, NoPod
  <1> QED
    BY <1>1, <1>2, <1>3, <1>4 DEF LifecycleInv

-----------------------------------------------------------------------------
(* Steps of the controller.                                                 *)

\* A step inside reconcile() that changes none of the records, volumes,
\* markers and helpers and creates or removes no Pod can disturb only what is
\* known about the step itself and about the report in preparation.
LEMMA LocalMove ==
  ASSUME TypeOK, LifecycleInv,
         pc \notin {"idle", "pick"}, pc' # "idle",
         UNCHANGED <<cur, left, rec, fresh, claim, hooks, helper, runs, archivePc>>,
         list' = list \/ (pc' = "pick" /\ list' = [list EXCEPT ![cur] = Blank]),
         \A w \in Workspaces : (pod'[w].phase = "None") = (pod[w].phase = "None"),
         StepsInv', OutInv'
  PROVE  LifecycleInv'
  <1>1. /\ Pending' \subseteq Pending
        /\ Pending \subseteq Workspaces
        /\ \A w \in Pending' : list'[w] = list[w]
        /\ cur \in left => pc \in {"idle", "pick"}
    BY DEF Pending, LifecycleInv, CopiesInv, TypeOK, ControllerTypeOK
  <1>2. CopiesInv'
    BY <1>1 DEF LifecycleInv, CopiesInv, CopyOK, Startable, CompletedStop
  <1>3. VolumeInv'
    BY <1>1, ConstantsAssumption DEF LifecycleInv, VolumeInv, VolumeOK, HasPod
  <1>4. ArchiveInv'
    BY DEF LifecycleInv, ArchiveInv
  <1>5. HelperInv'
    BY DEF LifecycleInv, HelperInv, HasPod, TypeOK, ObjectsTypeOK
  <1>6. ReleaseOnlyAfterTeardown' /\ CompletedStopHasNoCompute'
    BY DEF LifecycleInv, ReleaseOnlyAfterTeardown, CompletedStopHasNoCompute,
           HasPod, CompletedStop
  <1>7. HooksRunAtMostOnce'
    BY DEF LifecycleInv, HooksRunAtMostOnce
  <1> QED
    BY <1>2, <1>3, <1>4, <1>5, <1>6, <1>7 DEF LifecycleInv

\* Return, Goto and the reports, as instances of LocalMove.
LEMMA ReturnMove ==
  ASSUME TypeOK, LifecycleInv, pc \notin {"idle", "pick"}, Done \/ Throw,
         UNCHANGED <<rec, fresh, claim, hooks, helper, runs, archivePc>>,
         \A w \in Workspaces : (pod'[w].phase = "None") = (pod[w].phase = "None")
  PROVE  LifecycleInv'
  <1>1. /\ pc' = "pick"
        /\ UNCHANGED <<cur, left>>
        /\ list' = [list EXCEPT ![cur] = Blank]
    BY DEF Done, Throw, Return
  <1>2. StepsInv' /\ OutInv'
    BY <1>1 DEF StepsInv, OutInv, StartSteps, StoppedSteps, CollectSteps
  <1> QED
    BY <1>1, <1>2, LocalMove

LEMMA GotoMove ==
  ASSUME TypeOK, LifecycleInv, pc \notin {"idle", "pick"},
         NEW step \in Steps \ {"idle", "pick", "report"}, Goto(step),
         UNCHANGED <<rec, fresh, claim, hooks, helper, runs, archivePc>>,
         \A w \in Workspaces : (pod'[w].phase = "None") = (pod[w].phase = "None"),
         step \in CollectSteps => pc \in CollectSteps,
         StepsInv'
  PROVE  LifecycleInv'
  <1>1. /\ pc' = step
        /\ UNCHANGED <<cur, list, left, out>>
    BY DEF Goto
  <1>2. OutInv'
    BY <1>1 DEF OutInv, LifecycleInv, HasPod, TypeOK, ControllerTypeOK
  <1> QED
    BY <1>1, <1>2, LocalMove

LEMMA ReportMove ==
  ASSUME TypeOK, LifecycleInv, pc \notin {"idle", "pick"},
         NEW status, NEW forced, ReportWith(status, forced),
         UNCHANGED <<rec, fresh, claim, hooks, helper, runs, archivePc>>,
         \A w \in Workspaces : (pod'[w].phase = "None") = (pod[w].phase = "None"),
         status.res = list[cur].res,
         list[cur].teardown => status.teardown,
         list[cur].released => status.released,
         list[cur].archivedAt # NoTime => status.archivedAt = list[cur].archivedAt,
         status.phase \in {"Suspended", "Archived"} => ~HasPod(cur),
         (status.teardown /\ ~list[cur].teardown /\ cur \notin Ephemeral) =>
           hooks[cur] = "complete"
  PROVE  LifecycleInv'
  <1>1. /\ pc' = "report"
        /\ out' = status
        /\ UNCHANGED <<cur, list, left>>
    BY DEF ReportWith
  <1>2. StepsInv'
    BY <1>1 DEF StepsInv, StartSteps, StoppedSteps, CollectSteps
  <1>3. OutInv'
    BY <1>1 DEF OutInv, HasPod, TypeOK, ControllerTypeOK
  <1> QED
    BY <1>1, <1>2, <1>3, LocalMove

LEMMA SayMove ==
  ASSUME TypeOK, LifecycleInv, pc \notin {"idle", "pick"},
         NEW phase, NEW why, Say(phase, why),
         UNCHANGED <<rec, fresh, claim, hooks, helper, runs, archivePc>>,
         \A w \in Workspaces : (pod'[w].phase = "None") = (pod[w].phase = "None"),
         phase \in {"Suspended", "Archived"} => ~HasPod(cur)
  PROVE  LifecycleInv'
  <1> DEFINE status == Reported(phase, why)
  <1>1. /\ status.res = list[cur].res
        /\ status.teardown = list[cur].teardown
        /\ status.released = list[cur].released
        /\ status.archivedAt = list[cur].archivedAt
        /\ status.phase = phase
    BY DEF Reported, workspace, TypeOK, ControllerTypeOK, Record
  <1>2. ReportWith(status, FALSE)
    BY DEF Say
  <1> HIDE DEF status
  <1> QED
    BY <1>1, <1>2, ReportMove

LEMMA TornDownMove ==
  ASSUME TypeOK, LifecycleInv, pc \notin {"idle", "pick"}, TornDown,
         UNCHANGED <<rec, fresh, claim, hooks, helper, runs, archivePc>>,
         \A w \in Workspaces : (pod'[w].phase = "None") = (pod[w].phase = "None"),
         hooks[cur] = "complete"
  PROVE  LifecycleInv'
  <1> DEFINE status == [Reported("Pending", "tornDown") EXCEPT !.teardown = TRUE]
  <1>1. /\ status.res = list[cur].res
        /\ status.teardown
        /\ status.released = list[cur].released
        /\ status.archivedAt = list[cur].archivedAt
        /\ status.phase = "Pending"
    BY DEF Reported, workspace, TypeOK, ControllerTypeOK, Record
  <1>2. ReportWith(status, TRUE)
    BY DEF TornDown
  <1> HIDE DEF status
  <1> QED
    BY <1>1, <1>2, ReportMove

\* The loop itself: listing, picking, skipping, ending a pass.
LEMMA LoopInv ==
  ASSUME TypeOK, LifecycleInv, archivePc' = archivePc,
         \/ BeginPass \/ EndPass \/ StoreCallFails
         \/ \E w \in Workspaces : Pick(w) \/ SkipBackoff(w)
  PROVE  LifecycleInv'
  <1> USE DEF LifecycleInv
  <1>1. CASE BeginPass
    <2>1. /\ Pending' \subseteq Workspaces
          /\ \A w \in Pending' : list'[w] = rec[w]
      BY <1>1 DEF BeginPass, Pending
    <2>2. CopiesInv'
      BY <1>1, <2>1 DEF BeginPass, CopiesInv, CopyOK, Startable, CompletedStop
    <2>3. StepsInv' /\ OutInv'
      BY <1>1 DEF BeginPass, StepsInv, OutInv, StartSteps, StoppedSteps,
                  CollectSteps
    <2>4. VolumeInv'
      BY <1>1, <2>1 DEF BeginPass, VolumeInv, VolumeOK, HasPod
    <2>5. ArchiveInv'
      BY <1>1 DEF BeginPass, ArchiveInv
    <2> QED
      BY <1>1, <2>2, <2>3, <2>4, <2>5
      DEF BeginPass, HelperInv, ReleaseOnlyAfterTeardown, HasPod,
          CompletedStopHasNoCompute, HooksRunAtMostOnce
  <1>2. CASE EndPass
    <2>1. Pending' = {}
      BY <1>2 DEF EndPass, Goto, Pending
    <2>2. CopiesInv' /\ StepsInv' /\ OutInv'
      BY <1>2, <2>1 DEF EndPass, Goto, CopiesInv, StepsInv, OutInv, StartSteps,
                        StoppedSteps, CollectSteps
    <2>3. VolumeInv'
      BY <1>2, <2>1 DEF EndPass, VolumeInv, VolumeOK, HasPod
    <2>4. ArchiveInv'
      BY <1>2 DEF EndPass, ArchiveInv
    <2> QED
      BY <1>2, <2>2, <2>3, <2>4
      DEF EndPass, HelperInv, ReleaseOnlyAfterTeardown, HasPod,
          CompletedStopHasNoCompute, HooksRunAtMostOnce
  <1>3. CASE StoreCallFails
    BY <1>3, ReturnMove DEF StoreCallFails, clusterVars
  <1>4. ASSUME NEW w \in Workspaces, Pick(w) \/ SkipBackoff(w)
        PROVE  LifecycleInv'
    <2>1. /\ Pending' \subseteq Pending
          /\ \A v \in Pending' : list'[v] = list[v]
      BY <1>4 DEF Pick, SkipBackoff, Pending, TypeOK, ControllerTypeOK
    <2>2. CopiesInv'
      BY <1>4, <2>1 DEF Pick, SkipBackoff, CopiesInv, CopyOK, Startable, CompletedStop,
                        clusterVars
    <2>3. StepsInv' /\ OutInv'
      BY <1>4 DEF Pick, SkipBackoff, StepsInv, OutInv, StartSteps,
                  StoppedSteps, CollectSteps, Startable
    <2>4. VolumeInv'
      BY <1>4, <2>1 DEF Pick, SkipBackoff, VolumeInv, VolumeOK, HasPod, clusterVars
    <2> QED
      BY <1>4, <2>2, <2>3, <2>4
      DEF Pick, SkipBackoff, clusterVars, ArchiveInv, HelperInv,
          ReleaseOnlyAfterTeardown, HasPod, CompletedStopHasNoCompute,
          HooksRunAtMostOnce
  <1> QED
    BY <1>1, <1>2, <1>3, <1>4

\* report(): the compare-and-swap on the listed copy.
LEMMA ReportInv ==
  ASSUME TypeOK, LifecycleInv, archivePc' = archivePc, Report
  PROVE  LifecycleInv'
  <1> USE DEF LifecycleInv
  <1>1. CASE UNCHANGED <<rec, fresh, sameGeneration>> /\ (Done \/ Throw)
    BY <1>1, ReturnMove DEF Report
  <1>2. CASE PutStatus("controller", cur, out) /\ Done
    <2>1. /\ pc = "report" /\ pc' = "pick"
          /\ UNCHANGED <<cur, left, pod, claim, hooks, helper, runs>>
          /\ list' = [list EXCEPT ![cur] = Blank]
      BY <1>2 DEF Report, Done, Return
    <2>2. /\ <<"controller", cur>> \in fresh
          /\ rec'[cur] = [out EXCEPT !.res = rec[cur].res]
          /\ \A w \in Workspaces \ {cur} : rec'[w] = rec[w]
          /\ fresh' = fresh \ (Holders \X {cur})
      BY <1>2 DEF PutStatus, Stale, TypeOK, RecordsTypeOK, ControllerTypeOK
    <2>3. /\ cur \in Workspaces /\ cur \in Pending /\ cur \notin Pending'
          /\ Pending' \subseteq Pending
          /\ \A w \in Pending' : w # cur /\ list'[w] = list[w]
      BY <2>1 DEF Pending, CopiesInv, TypeOK, ControllerTypeOK
    <2>4. list[cur] = rec[cur]
      BY <2>2, <2>3 DEF CopiesInv, CopyOK
    <2>5. /\ rec'[cur].res = rec[cur].res
          /\ rec[cur].teardown => rec'[cur].teardown
          /\ rec'[cur].teardown = out.teardown
          /\ rec'[cur].phase = out.phase
          /\ rec'[cur].phase \in {"Suspended", "Archived"} => ~HasPod(cur)
          /\ (out.teardown /\ ~rec[cur].teardown /\ cur \notin Ephemeral) =>
               hooks[cur] = "complete"
      <3>1. out \in Record
        BY DEF TypeOK, ControllerTypeOK
      <3>2. /\ rec'[cur].res = rec[cur].res
            /\ rec'[cur].teardown = out.teardown
            /\ rec'[cur].phase = out.phase
        BY <2>2, <3>1 DEF Record
      <3> QED
        BY <2>1, <2>4, <3>2 DEF OutInv
    <2>6. CopiesInv'
      <3>1. ASSUME NEW w \in Pending' PROVE CopyOK(w)'
        <4>1. /\ CopyOK(w) /\ rec'[w] = rec[w] /\ list'[w] = list[w]
              /\ <<"controller", w>> \in fresh' => <<"controller", w>> \in fresh
          BY <2>2, <2>3
          DEF CopiesInv, Pending, TypeOK, ControllerTypeOK
        <4> QED
          BY <4>1 DEF CopyOK, Startable, CompletedStop
      <3> QED
        BY <2>1, <3>1 DEF CopiesInv
    <2>7. StepsInv' /\ OutInv'
      BY <2>1 DEF StepsInv, OutInv, StartSteps, StoppedSteps, CollectSteps
    <2>8. VolumeInv'
      <3>1. \A w \in Ephemeral : claim'[w] \in {"None", "Foreign"}
        BY <2>1 DEF VolumeInv
      <3>2. (rec'[cur].teardown /\ ~rec[cur].teardown /\ cur \notin Ephemeral)
              => claim[cur] = "Owned"
        BY <2>3, <2>5 DEF VolumeInv, VolumeOK, ReleaseOnlyAfterTeardown
      <3> QED
        <4> SUFFICES ASSUME NEW w \in Workspaces \ Ephemeral
                     PROVE  VolumeOK(w)'
          BY <3>1 DEF VolumeInv
        <4>1. CASE w = cur
          BY <2>1, <2>3, <2>5, <3>2, <4>1 DEF VolumeInv, VolumeOK, HasPod
        <4>2. CASE w # cur
          BY <2>1, <2>2, <2>3, <4>2 DEF VolumeInv, VolumeOK, HasPod
        <4> QED
          BY <4>1, <4>2
    <2>9. ArchiveInv'
      BY <2>1, <2>2, <2>3 DEF ArchiveInv, Holders
    <2>10. HelperInv' /\ HooksRunAtMostOnce'
      BY <2>1 DEF HelperInv, HooksRunAtMostOnce, HasPod
    <2>11. ReleaseOnlyAfterTeardown'
      BY ZenonT(60), <2>1, <2>2, <2>5 DEF ReleaseOnlyAfterTeardown, HasPod
    <2>12. CompletedStopHasNoCompute'
      BY <2>1, <2>2, <2>5 DEF CompletedStopHasNoCompute, HasPod, CompletedStop
    <2> QED
      BY <2>6, <2>7, <2>8, <2>9, <2>10, <2>11, <2>12
  <1> QED
    BY <1>1, <1>2 DEF Report, PutStatus

\* stop(): from the decision to stop to the settled report.
LEMMA StopInv ==
  ASSUME TypeOK, LifecycleInv, archivePc' = archivePc,
         \/ Stop \/ Snapshot \/ AwaitTeardown \/ DeletePod \/ ReplacePod
         \/ AwaitReader \/ DeleteRuntime
  PROVE  LifecycleInv'
  <1> USE DEF LifecycleInv
  <1> DEFINE step == {"stop", "snapshot", "await", "deletePod", "replacePod",
                      "reader", "runtime"}
             Quiet == /\ UNCHANGED <<rec, fresh, claim, hooks, helper, runs>>
                      /\ \A w \in Workspaces :
                           (pod'[w].phase = "None") = (pod[w].phase = "None")
  <1>0. pc \in step /\ pc \notin {"idle", "pick"}
    BY DEF Stop, Snapshot, AwaitTeardown, DeletePod, ReplacePod, AwaitReader,
           DeleteRuntime
  <1>1. CASE Stop
    <2>1. Quiet
      BY <1>1 DEF Stop, clusterVars
    <2>2. list[cur].res # "Running" /\ workspace = list[cur] /\ pc = "stop"
      BY <1>1 DEF Stop, StepsInv, workspace
    <2>3. ASSUME NEW s \in {"start", "snapshot", "reader", "deletePod"}, Goto(s),
                 s = "start" => Startable(list[cur]),
                 s = "reader" => /\ ~HasPod(cur)
                                 /\ list[cur].res = "Archived" => list[cur].teardown
          PROVE  LifecycleInv'
      <3>1. StepsInv'
        BY <2>1, <2>2, <2>3 DEF Goto, StepsInv, StartSteps, StoppedSteps,
           CollectSteps, Startable, HasPod, TypeOK, ControllerTypeOK
      <3> QED
        BY <1>0, <2>1, <2>3, <3>1, GotoMove DEF Steps, CollectSteps
    <2>4. ASSUME NEW why, Say("Failed", why) \/ Say("Pending", why)
          PROVE  LifecycleInv'
      BY <1>0, <2>1, <2>4, SayMove
    <2> QED
      BY <1>1, <2>2, <2>3, <2>4 DEF Stop, SuspendRefused, Startable
  <1>2. CASE Snapshot
    <2>1. Quiet
      BY <1>2 DEF Snapshot
    <2>2. PICK s \in {"teardown", "deletePod"},
               why \in {"teardownFailed", "noSnapshot"} :
            Goto(s) \/ Say("Failed", why)
      BY <1>2 DEF Snapshot
    <2>3. CASE Goto(s)
      <3>1. StepsInv'
        BY <2>3 DEF Goto, StepsInv, StartSteps, StoppedSteps, CollectSteps
      <3> QED
        BY <1>0, <2>1, <2>3, <3>1, GotoMove DEF Steps, CollectSteps
    <2> QED
      BY <1>0, <2>1, <2>2, <2>3, SayMove
  <1>3. CASE AwaitTeardown
    <2>1. Quiet
      BY <1>3 DEF AwaitTeardown, clusterVars
    <2>2. CASE TornDown /\ hooks[cur] = "complete"
      BY <1>0, <2>1, <2>2, TornDownMove
    <2> QED
      BY <1>0, <1>3, <2>1, <2>2, SayMove DEF AwaitTeardown, TeardownSucceeded
  <1>4. CASE DeletePod \/ ReplacePod
    <2>1. PICK why : RequestPodDeletion(why)
      BY <1>4 DEF DeletePod, ReplacePod
    <2>2. Quiet
      <3>1. \/ pod' = pod
            \/ pod' = [pod EXCEPT ![cur] = [pod[cur] EXCEPT !.deleting = TRUE]]
        BY <2>1 DEF RequestPodDeletion
      <3> QED
        BY <2>1, <3>1 DEF RequestPodDeletion, TypeOK, ObjectsTypeOK, Pod
    <2> QED
      BY <1>0, <2>1, <2>2, SayMove, ReturnMove DEF RequestPodDeletion
  <1>5. CASE AwaitReader
    <2>1. Quiet
      BY <1>5 DEF AwaitReader, clusterVars
    <2>2. ASSUME NEW s \in {"runtime", "settle"}, Goto(s) PROVE LifecycleInv'
      <3>1. StepsInv'
        BY <1>5, <2>1, <2>2 DEF AwaitReader, Goto, StepsInv, StartSteps,
           StoppedSteps, CollectSteps, HasPod, TypeOK, ControllerTypeOK
      <3> QED
        BY <1>0, <2>1, <2>2, <3>1, GotoMove DEF Steps, CollectSteps
    <2> QED
      BY <1>0, <1>5, <2>1, <2>2, SayMove, ReturnMove DEF AwaitReader
  <1>6. CASE DeleteRuntime
    <2>1. Quiet
      BY <1>6 DEF DeleteRuntime
    <2>2. CASE Goto("settle")
      <3>1. StepsInv'
        BY <1>6, <2>1, <2>2 DEF DeleteRuntime, Goto, StepsInv, StartSteps,
           StoppedSteps, CollectSteps, HasPod, TypeOK, ControllerTypeOK
      <3> QED
        BY <1>0, <2>1, <2>2, <3>1, GotoMove DEF Steps, CollectSteps
    <2> QED
      BY <1>0, <1>6, <2>1, <2>2, SayMove DEF DeleteRuntime
  <1> QED
    BY <1>1, <1>2, <1>3, <1>4, <1>5, <1>6

\* The helper starts the hooks: only on a volume that never saw them.
LEMMA TeardownStartsInv ==
  ASSUME TypeOK, LifecycleInv, NEW w \in Workspaces, TeardownStarts(w),
         Pending' = Pending,
         UNCHANGED <<rec, fresh, pod, claim, list>>
  PROVE  VolumeInv' /\ HelperInv' /\ ReleaseOnlyAfterTeardown' /\ HooksRunAtMostOnce'
  <1> USE DEF LifecycleInv
  <1>1. /\ HasPod(w) /\ hooks[w] = "none" /\ hooks'[w] = "started"
        /\ w \in helper'
        /\ runs'[w] = IF runs[w] = 2 THEN 2 ELSE runs[w] + 1
        /\ helper' = helper \cup {w}
        /\ \A v \in Workspaces \ {w} : hooks'[v] = hooks[v] /\ runs'[v] = runs[v]
    BY DEF TeardownStarts, CanExec, HasPod, TypeOK, ObjectsTypeOK, HistoryTypeOK
  <1>2. runs[w] \in 0..2
    BY DEF TypeOK, HistoryTypeOK
  <1>3. w \notin Ephemeral => claim[w] = "Owned" /\ ~rec[w].teardown /\ runs[w] = 0
    BY <1>1, <1>2 DEF VolumeInv, VolumeOK
  <1>4. VolumeInv'
    <2>1. ASSUME NEW v \in Workspaces \ Ephemeral PROVE VolumeOK(v)'
      <3>1. CASE v = w
        BY <1>1, <1>3, <2>1, <3>1 DEF VolumeOK
      <3>2. CASE v # w
        BY <1>1, <2>1, <3>2 DEF VolumeInv, VolumeOK, HasPod
      <3> QED
        BY <3>1, <3>2
    <2> QED
      BY <2>1 DEF VolumeInv
  <1>5. HelperInv'
    BY <1>1 DEF HelperInv, HasPod, TypeOK, ObjectsTypeOK
  <1>6. ReleaseOnlyAfterTeardown'
    BY <1>1 DEF ReleaseOnlyAfterTeardown, HasPod
  <1>7. HooksRunAtMostOnce'
    BY <1>1, <1>3 DEF HooksRunAtMostOnce
  <1> QED
    BY <1>4, <1>5, <1>6, <1>7

\* The controller's execution of the helper.
LEMMA TeardownInv ==
  ASSUME TypeOK, LifecycleInv, archivePc' = archivePc, Teardown
  PROVE  LifecycleInv'
  <1> USE DEF LifecycleInv
  <1>1. CASE TeardownStarts(cur) /\ Goto("await")
    <2>1. /\ pc = "teardown" /\ pc' = "await"
          /\ UNCHANGED <<cur, list, left, rec, fresh, pod, claim>>
      BY <1>1 DEF Teardown, Goto
    <2>2. Pending' = Pending /\ cur \in Workspaces
      BY <2>1 DEF Pending, TypeOK, ControllerTypeOK
    <2>3. VolumeInv' /\ HelperInv' /\ ReleaseOnlyAfterTeardown' /\ HooksRunAtMostOnce'
      BY <1>1, <2>1, <2>2, TeardownStartsInv
    <2>4. CopiesInv'
      BY <2>1, <2>2 DEF CopiesInv, CopyOK, Startable, CompletedStop
    <2>5. StepsInv' /\ OutInv'
      BY <2>1 DEF StepsInv, OutInv, StartSteps, StoppedSteps, CollectSteps
    <2>6. ArchiveInv'
      BY <1>1, <2>1, <2>2 DEF TeardownStarts, ArchiveInv, TypeOK, ObjectsTypeOK
    <2>7. CompletedStopHasNoCompute'
      BY <2>1 DEF CompletedStopHasNoCompute, CompletedStop, HasPod
    <2> QED
      BY <2>3, <2>4, <2>5, <2>6, <2>7
  <1>2. CASE TornDown /\ TeardownAlreadyDone(cur) /\ UNCHANGED <<hooks, helper, runs>>
    BY <1>2, TornDownMove DEF Teardown, TeardownAlreadyDone
  <1>3. CASE Say("Failed", "teardownFailed") /\ UNCHANGED <<hooks, helper, runs>>
    BY <1>3, SayMove DEF Teardown
  <1> QED
    BY <1>1, <1>2, <1>3 DEF Teardown

\* The end of stop(): stamp, collect, purge.
LEMMA CollectInv ==
  ASSUME TypeOK, LifecycleInv, archivePc' = archivePc,
         Settle \/ ReadClaim \/ CheckClaim \/ PurgeInventory
  PROVE  LifecycleInv'
  <1> USE DEF LifecycleInv
  <1>0. /\ pc \in {"settle", "claim", "checkClaim", "purge"}
        /\ UNCHANGED <<rec, fresh, claim, hooks, helper, runs, pod>>
        /\ ~HasPod(cur) /\ cur \in Workspaces /\ list[cur] \in Record
    BY DEF Settle, ReadClaim, CheckClaim, PurgeInventory, clusterVars, StepsInv,
           StoppedSteps, TypeOK, ControllerTypeOK
  <1>1. CASE Settle
    <2>1. ASSUME NEW why PROVE
            LET status == [Reported("Archived", why) EXCEPT !.archivedAt = ArchivedAt]
            IN  /\ status.res = list[cur].res
                /\ status.teardown = list[cur].teardown
                /\ status.released = list[cur].released
                /\ list[cur].archivedAt # NoTime =>
                     status.archivedAt = list[cur].archivedAt
      BY <1>0 DEF Reported, workspace, Record, ArchivedAt
    <2>2. CASE RetentionExpired
      <3> DEFINE status == [Reported("Archived", "awaitClaim")
                              EXCEPT !.archivedAt = ArchivedAt]
      <3>1. /\ pc = "settle" /\ pc' = "claim" /\ out' = status
            /\ UNCHANGED <<cur, list, left>> /\ list[cur].res = "Archived"
        BY <1>1, <2>2 DEF Settle, RetentionExpired, workspace
      <3>2. StepsInv'
        BY <1>0, <3>1 DEF StepsInv, StartSteps, StoppedSteps, CollectSteps, HasPod
      <3>3. OutInv'
        BY <1>0, <2>1, <3>1 DEF OutInv, HasPod
      <3> QED
        BY <1>0, <3>1, <3>2, <3>3, LocalMove
    <2>3. CASE ~RetentionExpired
      <3>1. PICK why :
              \/ /\ ReportWith([Reported("Archived", why) EXCEPT !.archivedAt = now], TRUE)
                 /\ list[cur].archivedAt = NoTime
              \/ Say(workspace.res, why)
        BY <1>1, <2>3 DEF Settle, workspace
      <3>2. CASE Say(workspace.res, why)
        BY <1>0, <3>2, SayMove
      <3>3. CASE /\ ReportWith([Reported("Archived", why) EXCEPT !.archivedAt = now], TRUE)
                 /\ list[cur].archivedAt = NoTime
        <4> DEFINE status == [Reported("Archived", why) EXCEPT !.archivedAt = now]
        <4>1. /\ status.res = list[cur].res
              /\ status.teardown = list[cur].teardown
              /\ status.released = list[cur].released
          BY <1>0 DEF Reported, workspace, Record
        <4>2. ReportWith(status, TRUE)
          BY <3>3
        <4> HIDE DEF status
        <4> QED
          BY <1>0, <3>3, <4>1, <4>2, ReportMove
      <3> QED
        BY <3>1, <3>2, <3>3
    <2> QED
      BY <2>2, <2>3
  <1>2. ASSUME NEW s \in {"checkClaim", "deleteClaim", "purge"}, Goto(s),
               pc \in CollectSteps
        PROVE  LifecycleInv'
    <2>1. StepsInv'
      BY <1>0, <1>2 DEF Goto, StepsInv, StartSteps, StoppedSteps, CollectSteps,
                        HasPod
    <2> QED
      BY <1>0, <1>2, <2>1, GotoMove DEF Steps
  <1>3. CASE ReadClaim
    BY <1>0, <1>2, <1>3, ReturnMove DEF ReadClaim, CollectSteps
  <1>4. ASSUME pc \in CollectSteps, NEW status, ReportWith(status, TRUE),
               \/ status = out
               \/ status = [out EXCEPT !.why = "released", !.released = TRUE]
        PROVE  LifecycleInv'
    <2>1. out \in Record
      BY DEF TypeOK, ControllerTypeOK
    <2>2. /\ status.res = out.res /\ status.teardown = out.teardown
          /\ out.released => status.released
          /\ status.archivedAt = out.archivedAt
      BY <1>4, <2>1 DEF Record
    <2> QED
      BY <1>0, <1>4, <2>2, ReportMove DEF OutInv
  <1>5. CASE CheckClaim
    BY <1>2, <1>4, <1>5 DEF CheckClaim, CollectSteps
  <1>6. CASE PurgeInventory
    BY <1>4, <1>6 DEF PurgeInventory, CollectSteps
  <1> QED
    BY <1>1, <1>3, <1>5, <1>6

\* deleteStorage: the copy says Archived and torn down, so the record does.
LEMMA DeleteClaimInv ==
  ASSUME TypeOK, LifecycleInv, archivePc' = archivePc, DeleteClaim
  PROVE  LifecycleInv'
  <1> USE DEF LifecycleInv
  <1>1. CASE Throw /\ UNCHANGED claim
    BY <1>1, ReturnMove DEF DeleteClaim
  <1>2. CASE /\ claim[cur] \in {"Owned", "Deleting"} /\ Goto("checkClaim")
             /\ claim' = [claim EXCEPT ![cur] = "Deleting"]
    <2>1. /\ pc = "deleteClaim" /\ pc' = "checkClaim" /\ cur \in Workspaces
          /\ UNCHANGED <<cur, list, left, out, rec, fresh, pod, hooks, helper, runs>>
          /\ claim'[cur] = "Deleting"
          /\ \A w \in Workspaces \ {cur} : claim'[w] = claim[w]
      BY <1>2 DEF DeleteClaim, Goto, TypeOK, ControllerTypeOK, ObjectsTypeOK
    <2>2. Pending' = Pending /\ cur \in Pending
      BY <2>1 DEF Pending
    <2>3. /\ list[cur].res = "Archived" /\ list[cur].teardown /\ ~HasPod(cur)
          /\ rec[cur].res = "Archived" /\ rec[cur].teardown
      BY <2>1, <2>2 DEF StepsInv, StoppedSteps, CollectSteps, CopiesInv, CopyOK
    <2>4. cur \notin Ephemeral /\ hooks[cur] = "complete"
      BY <1>2, <2>1, <2>3 DEF VolumeInv, VolumeOK, ReleaseOnlyAfterTeardown
    <2>5. CopiesInv'
      BY <2>1, <2>2 DEF CopiesInv, CopyOK, Startable, CompletedStop
    <2>6. StepsInv' /\ OutInv'
      BY <2>1, <2>3 DEF StepsInv, OutInv, StartSteps, StoppedSteps, CollectSteps,
                        HasPod
    <2>7. VolumeInv'
      <3>1. ASSUME NEW w \in Workspaces \ Ephemeral PROVE VolumeOK(w)'
        <4>1. CASE w = cur
          BY <2>1, <2>3, <2>4, <3>1, <4>1 DEF VolumeInv, VolumeOK, HasPod
        <4>2. CASE w # cur
          BY <2>1, <2>2, <3>1, <4>2 DEF VolumeInv, VolumeOK, HasPod
        <4> QED
          BY <4>1, <4>2
      <3>2. \A w \in Ephemeral : claim'[w] \in {"None", "Foreign"}
        BY <2>1, <2>4, ConstantsAssumption DEF VolumeInv
      <3> QED
        BY <3>1, <3>2 DEF VolumeInv
    <2>8. ReleaseOnlyAfterTeardown'
      BY <2>1, <2>3, <2>4 DEF ReleaseOnlyAfterTeardown, HasPod
    <2> QED
      BY <2>1, <2>5, <2>6, <2>7, <2>8
      DEF ArchiveInv, HelperInv, HasPod, CompletedStopHasNoCompute,
          CompletedStop, HooksRunAtMostOnce
  <1> QED
    BY <1>1, <1>2 DEF DeleteClaim

\* A copy on which the loop may start compute belongs to a record whose volume
\* was neither collected nor is about to be.
LEMMA StartableVolume ==
  ASSUME TypeOK, LifecycleInv, pc \in StartSteps, cur \notin Ephemeral
  PROVE  rec[cur].teardown => claim[cur] = "Owned"
  <1>1. cur \in Pending /\ cur \in Workspaces \ Ephemeral
    BY DEF Pending, StartSteps, TypeOK, ControllerTypeOK
  <1>2. Startable(list[cur])
    BY DEF LifecycleInv, StepsInv
  <1> QED
    BY <1>1, <1>2 DEF LifecycleInv, VolumeInv, VolumeOK, Startable

\* The steps of reconcile() that create nothing but the access Secret and the
\* Service.
LEMMA StartInv ==
  ASSUME TypeOK, LifecycleInv, archivePc' = archivePc,
         Start \/ Capacity \/ Credentials \/ EnsureService
  PROVE  LifecycleInv'
  <1> USE DEF LifecycleInv
  <1>0. /\ pc \in {"start", "capacity", "credentials", "ensureService"}
        /\ UNCHANGED <<rec, fresh, claim, hooks, helper, runs, pod>>
        /\ Startable(list[cur])
    BY DEF Start, Capacity, Credentials, EnsureService, clusterVars, StepsInv,
           StartSteps
  <1>1. ASSUME NEW s \in {"capacity", "credentials", "ensureClaim",
                          "ensureService", "ensurePod"}, Goto(s),
               s = "ensureClaim" => cur \notin Ephemeral,
               s = "ensureService" => cur \in Ephemeral,
               s = "ensurePod" => pc = "ensureService"
        PROVE  LifecycleInv'
    <2>1. StepsInv'
      BY <1>0, <1>1 DEF Goto, StepsInv, StartSteps, StoppedSteps, CollectSteps,
                        Startable
    <2> QED
      BY <1>0, <1>1, <2>1, GotoMove DEF Steps, CollectSteps
  <1>2. ASSUME NEW why, Say("Failed", why) \/ Say("Pending", why)
        PROVE  LifecycleInv'
    BY <1>0, <1>2, SayMove
  <1>3. CASE Start
    BY <1>1, <1>2, <1>3 DEF Start
  <1>4. CASE Capacity
    BY <1>1, <1>2, <1>4 DEF Capacity
  <1>5. CASE Credentials
    BY <1>1, <1>2, <1>5 DEF Credentials
  <1>6. CASE EnsureService
    BY <1>1, <1>6 DEF EnsureService
  <1> QED
    BY <1>3, <1>4, <1>5, <1>6

\* ensure() of the claim: never on a volume being collected.
LEMMA EnsureClaimInv ==
  ASSUME TypeOK, LifecycleInv, archivePc' = archivePc, EnsureClaim
  PROVE  LifecycleInv'
  <1> USE DEF LifecycleInv
  <1>1. CASE Throw /\ UNCHANGED claim
    BY <1>1, ReturnMove DEF EnsureClaim
  <1>2. CASE claim[cur] # "Foreign"
    <2>1. /\ pc = "ensureClaim" /\ pc' = "ensureService" /\ cur \in Workspaces
          /\ UNCHANGED <<cur, list, left, out, rec, fresh, pod, hooks, helper, runs>>
          /\ claim'[cur] = IF claim[cur] = "None" THEN "Owned" ELSE claim[cur]
          /\ \A w \in Workspaces \ {cur} : claim'[w] = claim[w]
          /\ claim[cur] \in Claim
      BY <1>2 DEF EnsureClaim, Goto, TypeOK, ControllerTypeOK, ObjectsTypeOK
    <2>2. /\ Pending' = Pending /\ cur \in Pending /\ cur \notin Ephemeral
          /\ Startable(list[cur])
      BY <2>1 DEF Pending, StepsInv, StartSteps
    <2>3. rec[cur].teardown => claim[cur] = "Owned"
      BY <2>1, <2>2, StartableVolume DEF StartSteps
    <2>4. claim'[cur] = "Owned" /\ claim[cur] \in {"None", "Owned"}
      BY <1>2, <2>1, <2>3 DEF Claim, ReleaseOnlyAfterTeardown
    <2>5. CopiesInv'
      BY <2>1, <2>2 DEF CopiesInv, CopyOK, Startable, CompletedStop
    <2>6. StepsInv' /\ OutInv'
      BY <2>1, <2>2, <2>4 DEF StepsInv, OutInv, StartSteps, StoppedSteps,
                              CollectSteps, Startable
    <2>7. VolumeInv'
      <3>1. ASSUME NEW w \in Workspaces \ Ephemeral PROVE VolumeOK(w)'
        <4>1. CASE w = cur
          BY <2>1, <2>2, <2>3, <2>4, <3>1, <4>1 DEF VolumeInv, VolumeOK, HasPod
        <4>2. CASE w # cur
          BY <2>1, <2>2, <3>1, <4>2 DEF VolumeInv, VolumeOK, HasPod
        <4> QED
          BY <4>1, <4>2
      <3>2. \A w \in Ephemeral : claim'[w] \in {"None", "Foreign"}
        BY <2>1, <2>2, ConstantsAssumption DEF VolumeInv
      <3> QED
        BY <3>1, <3>2 DEF VolumeInv
    <2>8. ReleaseOnlyAfterTeardown'
      BY <2>1, <2>4 DEF ReleaseOnlyAfterTeardown, HasPod
    <2> QED
      BY <2>1, <2>5, <2>6, <2>7, <2>8
      DEF ArchiveInv, HelperInv, HasPod, CompletedStopHasNoCompute,
          CompletedStop, HooksRunAtMostOnce
  <1> QED
    BY <1>1, <1>2 DEF EnsureClaim

\* ensure() of the Pod: the one place where compute comes into being.
LEMMA EnsurePodInv ==
  ASSUME TypeOK, LifecycleInv, archivePc' = archivePc, EnsurePod
  PROVE  LifecycleInv'
  <1> USE DEF LifecycleInv
  <1>0. /\ pc = "ensurePod" /\ cur \in Workspaces /\ Startable(list[cur])
        /\ UNCHANGED <<rec, fresh, claim, hooks, helper, runs>>
        /\ cur \notin Ephemeral => claim[cur] = "Owned"
        /\ list[cur] \in Record
    BY DEF EnsurePod, StepsInv, StartSteps, TypeOK, ControllerTypeOK
  <1>1. CASE CreatePod
    <2> DEFINE status == Reported("Pending", "awaitDaemon")
    <2>1. /\ pc' = "report" /\ out' = status
          /\ UNCHANGED <<cur, list, left>>
          /\ \A w \in Workspaces \ {cur} : pod'[w] = pod[w]
      BY <1>0, <1>1 DEF CreatePod, Say, ReportWith, TypeOK, ObjectsTypeOK
    <2>2. /\ status.res = list[cur].res
          /\ status.teardown = list[cur].teardown
          /\ status.released = list[cur].released
          /\ status.archivedAt = list[cur].archivedAt
          /\ status.phase = "Pending"
      BY <1>0 DEF Reported, workspace, Record
    <2>3. Pending' = Pending /\ cur \in Pending
      BY <1>0, <2>1 DEF Pending
    <2>4. CopiesInv'
      BY <1>0, <2>1, <2>3 DEF CopiesInv, CopyOK, Startable, CompletedStop
    <2>5. StepsInv' /\ OutInv'
      <3> HIDE DEF status
      <3> QED
        BY <2>1, <2>2 DEF StepsInv, OutInv, StartSteps, StoppedSteps, CollectSteps
    <2>6. VolumeInv'
      <3>1. ASSUME NEW w \in Workspaces \ Ephemeral PROVE VolumeOK(w)'
        BY <1>0, <2>1, <2>3, <3>1 DEF VolumeInv, VolumeOK, HasPod
      <3> QED
        BY <1>0, <3>1 DEF VolumeInv
    <2>7. ~CompletedStop(rec[cur])
      BY <1>0, <2>3 DEF CopiesInv, CopyOK
    <2>8. HelperInv'
      BY <1>0, <1>1, <2>1 DEF HelperInv, HasPod, CreatePod, TypeOK, ObjectsTypeOK
    <2>9. claim[cur] # "Deleting"
      BY <1>0 DEF VolumeInv
    <2>10. ReleaseOnlyAfterTeardown' /\ CompletedStopHasNoCompute'
      BY <1>0, <2>1, <2>7, <2>9
      DEF ReleaseOnlyAfterTeardown, CompletedStopHasNoCompute, CompletedStop,
          HasPod
    <2> QED
      BY <1>0, <2>4, <2>5, <2>6, <2>8, <2>10 DEF ArchiveInv, HooksRunAtMostOnce
  <1>2. CASE ObservePod
    <2>0. pod' = pod /\ pod[cur] \in Pod
      BY <1>0, <1>2 DEF ObservePod, TypeOK, ObjectsTypeOK
    <2>1. ASSUME ReportDiagnostic(pod[cur]) PROVE LifecycleInv'
      <3> DEFINE phase == IF PodReady(pod[cur]) THEN "Ready"
                          ELSE IF pod[cur].diag = "Unschedulable" THEN "Pending"
                          ELSE "Failed"
                 why == IF PodReady(pod[cur]) THEN "ready" ELSE pod[cur].diag
                 status == [Reported(phase, why) EXCEPT !.failure = pod[cur].diag]
                 forced == workspace.failure # pod[cur].diag
      <3>1. phase \notin {"Suspended", "Archived"}
        OBVIOUS
      <3>2. ReportWith(status, forced)
        BY <2>1 DEF ReportDiagnostic
      <3> HIDE DEF phase, why, forced
      <3>3. /\ status.res = list[cur].res
            /\ status.teardown = list[cur].teardown
            /\ status.released = list[cur].released
            /\ status.archivedAt = list[cur].archivedAt
            /\ status.phase = phase
        BY <1>0 DEF Reported, workspace, Record
      <3> HIDE DEF status
      <3> QED
        BY <1>0, <2>0, <3>1, <3>2, <3>3, ReportMove
    <2>2. ASSUME NEW why, Say("Failed", why) \/ Say("Pending", why) \/ Say("Ready", why)
          PROVE  LifecycleInv'
      BY <1>0, <2>0, <2>2, SayMove
    <2>3. ASSUME Goto("replacePod") PROVE LifecycleInv'
      <3>1. StepsInv'
        BY <1>0, <2>3 DEF Goto, StepsInv, StartSteps, StoppedSteps, CollectSteps,
                          Startable
      <3> QED
        BY <1>0, <2>0, <2>3, <3>1, GotoMove DEF Steps, CollectSteps
    <2> QED
      BY <1>2, <2>1, <2>2, <2>3 DEF ObservePod
  <1> QED
    BY <1>1, <1>2 DEF EnsurePod

\* Every step of the controller preserves the invariant.
LEMMA ControllerInv ==
  ASSUME TypeOK, LifecycleInv, archivePc' = archivePc, ControllerNext
  PROVE  LifecycleInv'
  BY LoopInv, ReportInv, StopInv, TeardownInv, CollectInv, DeleteClaimInv,
     StartInv, EnsureClaimInv, EnsurePodInv DEF ControllerNext

-----------------------------------------------------------------------------
(* Steps of users, the cluster, readers and archive requests.               *)

\* A spec write: an Archived record stays Archived, and a stop reported for
\* the old generation is no longer a completed stop.
LEMMA WriteResidencyInv ==
  ASSUME TypeOK, LifecycleInv, NEW w \in Workspaces, NEW r \in Residency,
         WriteResidency(w, r),
         UNCHANGED <<controllerVars, pod, claim, hooks, helper, runs>>,
         \A v \in Workspaces \ {w} : archivePc'[v] = archivePc[v]
  PROVE  LifecycleInv'
  <1> USE DEF LifecycleInv, controllerVars
  <1>1. /\ rec'[w].res = r /\ rec'[w].phase = rec[w].phase
        /\ rec'[w].teardown = rec[w].teardown
        /\ rec'[w].observed = (rec[w].observed /\ rec[w].res = r)
        /\ \A v \in Workspaces \ {w} : rec'[v] = rec[v]
        /\ rec[w].res = "Archived" => r = "Archived"
        /\ fresh' = fresh \ (Holders \X {w})
    BY DEF WriteResidency, Stale, TypeOK, RecordsTypeOK, Record
  <1>2. CompletedStop(rec'[w]) => CompletedStop(rec[w])
    BY <1>1 DEF CompletedStop
  <1>3. Pending' = Pending /\ Pending \subseteq Workspaces
    BY DEF Pending, TypeOK, ControllerTypeOK
  <1>4. CopiesInv'
    <2>1. ASSUME NEW v \in Pending PROVE CopyOK(v)'
      <3>1. CASE v = w
        BY <1>1, <1>2, <2>1, <3>1 DEF CopiesInv, CopyOK, Holders, Startable,
                                      CompletedStop
      <3>2. CASE v # w
        BY <1>1, <1>3, <2>1, <3>2 DEF CopiesInv, CopyOK, Startable, CompletedStop
      <3> QED
        BY <3>1, <3>2
    <2> QED
      BY <1>3, <2>1 DEF CopiesInv
  <1>5. StepsInv' /\ OutInv'
    BY DEF StepsInv, OutInv, Startable, HasPod
  <1>6. VolumeInv'
    <2>1. ASSUME NEW v \in Workspaces \ Ephemeral PROVE VolumeOK(v)'
      BY <1>1, <1>3, <2>1 DEF VolumeInv, VolumeOK, HasPod
    <2> QED
      BY <2>1 DEF VolumeInv
  <1>7. ArchiveInv'
    BY <1>1 DEF ArchiveInv, Holders
  <1>8. HelperInv' /\ HooksRunAtMostOnce'
    BY DEF HelperInv, HooksRunAtMostOnce, HasPod
  <1>9. ReleaseOnlyAfterTeardown'
    BY <1>1 DEF ReleaseOnlyAfterTeardown, HasPod
  <1>10. CompletedStopHasNoCompute'
    BY <1>1, <1>2 DEF CompletedStopHasNoCompute, HasPod, CompletedStop
  <1> QED
    BY <1>4, <1>5, <1>6, <1>7, <1>8, <1>9, <1>10

\* Steps of the cluster that change neither records nor local data.
LEMMA ClusterInv ==
  ASSUME TypeOK, LifecycleInv, NEW w \in Workspaces,
         UNCHANGED <<controllerVars, archiveVars>>,
         ClusterStep(w) \/ ReaderRequest(w) \/ Tick
  PROVE  LifecycleInv'
  <1> USE DEF LifecycleInv, controllerVars, archiveVars
  <1>1. Pending' = Pending /\ Pending \subseteq Workspaces
    BY DEF Pending, TypeOK, ControllerTypeOK
  <1>2. ASSUME UNCHANGED <<rec, fresh>> PROVE CopiesInv'
    BY <1>1, <1>2 DEF CopiesInv, CopyOK, Startable, CompletedStop
  \* No Pod appears, helpers may only end, markers and claims stay.
  <1>3. ASSUME UNCHANGED <<rec, fresh, claim, hooks, runs>>, helper' \subseteq helper,
               \A v \in Workspaces : pod'[v].phase # "None" => pod[v].phase # "None",
               \A v \in helper' : pod'[v].phase # "None"
        PROVE  LifecycleInv'
    <2>1. StepsInv' /\ OutInv'
      BY <1>3 DEF StepsInv, OutInv, Startable, HasPod, TypeOK, ControllerTypeOK
    <2>2. VolumeInv'
      BY <1>1, <1>3 DEF VolumeInv, VolumeOK, HasPod
    <2>3. HelperInv'
      BY <1>3 DEF HelperInv, HasPod
    <2>4. ReleaseOnlyAfterTeardown' /\ CompletedStopHasNoCompute'
      BY <1>3 DEF ReleaseOnlyAfterTeardown, CompletedStopHasNoCompute, HasPod,
                  CompletedStop
    <2> QED
      BY <1>2, <1>3, <2>1, <2>2, <2>3, <2>4 DEF ArchiveInv, HooksRunAtMostOnce
  <1>4. CASE PodBecomesReady(w) \/ PodWaits(w) \/ PodBecomesUnready(w)
             \/ PodDeletedElsewhere(w)
    <2>1. /\ UNCHANGED <<rec, fresh, claim, hooks, runs, helper>>
          /\ \A v \in Workspaces : pod'[v].phase # "None" <=> pod[v].phase # "None"
      <3>1. PICK p : ChangePod(w, p) /\ p.phase # "None" /\ pod[w].phase # "None"
        <4>1. pod[w] \in Pod
          BY DEF TypeOK, ObjectsTypeOK
        <4>2. CASE PodBecomesReady(w)
          BY <4>1, <4>2 DEF PodBecomesReady, Pod
        <4>3. CASE PodWaits(w)
          BY <4>1, <4>3 DEF PodWaits, Pod
        <4>4. CASE PodBecomesUnready(w)
          BY <4>1, <4>4 DEF PodBecomesUnready, Pod
        <4>5. CASE PodDeletedElsewhere(w)
          BY <4>1, <4>5 DEF PodDeletedElsewhere, HasPod, Pod
        <4> QED
          BY <1>4, <4>2, <4>3, <4>4, <4>5
      <3> QED
        BY <3>1 DEF ChangePod, TypeOK, ObjectsTypeOK
    <2>2. \A v \in helper' : pod'[v].phase # "None"
      BY <2>1 DEF HelperInv, HasPod, TypeOK, ObjectsTypeOK
    <2> QED
      BY <1>3, <2>1, <2>2
  <1>5. CASE PodEvicted(w)
    <2>1. /\ UNCHANGED <<rec, fresh, claim, hooks, runs>> /\ helper' = helper \ {w}
          /\ pod[w].phase # "None"
          /\ \A v \in Workspaces \ {w} : pod'[v] = pod[v]
      BY <1>5 DEF PodEvicted, TypeOK, ObjectsTypeOK
    <2>2. \A v \in helper' : pod'[v].phase # "None"
      BY <2>1 DEF HelperInv, HasPod, TypeOK, ObjectsTypeOK
    <2> QED
      BY <1>3, <2>1, <2>2
  <1>6. CASE PodGone(w)
    <2>1. /\ UNCHANGED <<rec, fresh, claim, runs>> /\ helper' = helper \ {w}
          /\ pod'[w].phase = "None"
          /\ \A v \in Workspaces \ {w} : pod'[v] = pod[v] /\ hooks'[v] = hooks[v]
          /\ w \notin Ephemeral => hooks' = hooks
      BY <1>6 DEF PodGone, NoPod, TypeOK, ObjectsTypeOK
    <2>2. StepsInv' /\ OutInv'
      BY <2>1 DEF StepsInv, OutInv, Startable, HasPod, TypeOK, ControllerTypeOK
    <2>3. VolumeInv'
      <3>1. ASSUME NEW v \in Workspaces \ Ephemeral PROVE VolumeOK(v)'
        BY <1>1, <2>1, <3>1 DEF VolumeInv, VolumeOK, HasPod
      <3> QED
        BY <2>1, <3>1 DEF VolumeInv
    <2>4. ArchiveInv'
      BY <2>1 DEF ArchiveInv
    <2>5. HelperInv'
      BY <2>1 DEF HelperInv, HasPod, TypeOK, ObjectsTypeOK
    <2>6. ReleaseOnlyAfterTeardown' /\ CompletedStopHasNoCompute'
      BY <2>1 DEF VolumeInv, ReleaseOnlyAfterTeardown, CompletedStopHasNoCompute,
                  HasPod, CompletedStop
    <2> QED
      BY <1>2, <2>1, <2>2, <2>3, <2>4, <2>5, <2>6 DEF HooksRunAtMostOnce
  <1>7. CASE ClaimGone(w)
    <2>1. /\ UNCHANGED <<rec, fresh, pod, runs, helper>> /\ ~HasPod(w)
          /\ claim[w] = "Deleting" /\ claim'[w] = "None" /\ hooks'[w] = "none"
          /\ \A v \in Workspaces \ {w} :
               claim'[v] = claim[v] /\ hooks'[v] = hooks[v]
      BY <1>7 DEF ClaimGone, TypeOK, ObjectsTypeOK
    <2>2. rec[w].res = "Archived" /\ rec[w].teardown /\ w \notin Ephemeral
      BY <2>1 DEF ReleaseOnlyAfterTeardown, VolumeInv
    <2>3. pc \notin {"idle", "pick"} /\ w = cur => list[cur].teardown
      BY <2>1, <2>2 DEF VolumeInv, VolumeOK, Pending
    <2>4. StepsInv' /\ OutInv'
      BY <2>1, <2>2, <2>3 DEF StepsInv, OutInv, Startable, HasPod, CollectSteps,
                              TypeOK, ControllerTypeOK
    <2>5. VolumeInv'
      <3>1. ASSUME NEW v \in Workspaces \ Ephemeral PROVE VolumeOK(v)'
        BY <1>1, <2>1, <2>2, <3>1 DEF VolumeInv, VolumeOK, HasPod
      <3> QED
        BY <2>1, <2>2, <3>1, ConstantsAssumption DEF VolumeInv
    <2>6. ArchiveInv'
      BY <2>1, <2>2 DEF ArchiveInv
    <2>7. HelperInv' /\ ReleaseOnlyAfterTeardown' /\ CompletedStopHasNoCompute'
      BY <2>1 DEF HelperInv, ReleaseOnlyAfterTeardown, HasPod, TypeOK,
                  ObjectsTypeOK, CompletedStopHasNoCompute, CompletedStop
    <2> QED
      BY <1>2, <2>1, <2>4, <2>5, <2>6, <2>7 DEF HooksRunAtMostOnce
  <1>8. CASE ForeignClaimAppears(w)
    <2>1. /\ UNCHANGED <<rec, fresh, pod, runs, helper, hooks>>
          /\ claim[w] = "None" /\ claim'[w] = "Foreign"
          /\ \A v \in Workspaces \ {w} : claim'[v] = claim[v]
      BY <1>8 DEF ForeignClaimAppears, TypeOK, ObjectsTypeOK
    <2>2. StepsInv' /\ OutInv'
      BY <2>1 DEF StepsInv, OutInv, Startable, HasPod, TypeOK, ControllerTypeOK
    <2>3. VolumeInv'
      <3>1. ASSUME NEW v \in Workspaces \ Ephemeral PROVE VolumeOK(v)'
        BY <1>1, <2>1, <3>1 DEF VolumeInv, VolumeOK, HasPod
      <3> QED
        BY <2>1, <3>1, ConstantsAssumption DEF VolumeInv
    <2> QED
      BY <1>2, <2>1, <2>2, <2>3
      DEF ArchiveInv, HelperInv, ReleaseOnlyAfterTeardown, HasPod,
          CompletedStopHasNoCompute, CompletedStop, HooksRunAtMostOnce
  <1>9. CASE HooksSucceed(w)
    <2>1. /\ UNCHANGED <<rec, fresh, pod, runs, claim>> /\ hooks[w] = "started"
          /\ hooks'[w] = "complete" /\ helper' = helper \ {w}
          /\ \A v \in Workspaces \ {w} : hooks'[v] = hooks[v]
      BY <1>9 DEF HooksSucceed, HelperInv, TypeOK, ObjectsTypeOK
    <2>2. StepsInv' /\ OutInv'
      BY <2>1 DEF StepsInv, OutInv, Startable, HasPod, TypeOK, ControllerTypeOK
    <2>3. VolumeInv'
      <3>1. ASSUME NEW v \in Workspaces \ Ephemeral PROVE VolumeOK(v)'
        BY <1>1, <2>1, <3>1 DEF VolumeInv, VolumeOK, HasPod
      <3> QED
        BY <2>1, <3>1 DEF VolumeInv
    <2>4. ArchiveInv' /\ HelperInv'
      BY <2>1 DEF ArchiveInv, HelperInv, HasPod, TypeOK, ObjectsTypeOK
    <2> QED
      BY <1>2, <2>1, <2>2, <2>3, <2>4
      DEF ReleaseOnlyAfterTeardown, HasPod, CompletedStopHasNoCompute,
          CompletedStop, HooksRunAtMostOnce
  <1>10. CASE HooksFail(w)
    BY <1>3, <1>10 DEF HooksFail, HelperInv, HasPod, TypeOK, ObjectsTypeOK
  <1>11. CASE ReaderRequest(w) \/ Tick
    BY <1>3, <1>11 DEF ReaderRequest, ReaderVerify, ReaderCreate, ReaderDelete,
       ReaderGone, ReaderStep, Tick, HelperInv, HasPod
  <1> QED
    BY <1>4, <1>5, <1>6, <1>7, <1>8, <1>9, <1>10, <1>11 DEF ClusterStep

\* A move of one archive request that changes no record concerns only itself.
LEMMA GoArchiveInv ==
  ASSUME TypeOK, ArchiveInv, NEW w \in Workspaces, NEW step, GoArchive(w, step),
         rec' = rec, fresh' \subseteq fresh \cup {<<"archive", w>>},
         \A v \in Workspaces \ {w} : hooks'[v] = hooks[v],
         (/\ step \in {"snapshot", "teardown", "await", "mark"}
          /\ <<"archive", w>> \in fresh') => rec[w].res = "Running",
         (step = "mark" /\ <<"archive", w>> \in fresh' /\ w \notin Ephemeral) =>
           hooks'[w] = "complete"
  PROVE  ArchiveInv'
  <1>1. /\ archivePc'[w] = step
        /\ \A v \in Workspaces \ {w} : archivePc'[v] = archivePc[v]
    BY DEF GoArchive, TypeOK, ArchiveTypeOK
  <1>2. \A v \in Workspaces \ {w} : <<"archive", v>> \in fresh' => <<"archive", v>> \in fresh
    OBVIOUS
  <1> QED
    BY <1>1, <1>2 DEF ArchiveInv

\* An archive request races the controller through fresh copies only.
LEMMA ArchiveRequestInv ==
  ASSUME TypeOK, LifecycleInv, NEW w \in Workspaces,
         UNCHANGED controllerVars, ArchiveNext(w)
  PROVE  LifecycleInv'
  <1> USE DEF LifecycleInv, controllerVars
  <1>1. Pending' = Pending /\ Pending \subseteq Workspaces
    BY DEF Pending, TypeOK, ControllerTypeOK
  \* Steps that at most renew the request's own copy.
  <1>2. ASSUME UNCHANGED <<rec, pod, claim, hooks, helper, runs>>,
               fresh' \subseteq fresh \cup {<<"archive", w>>},
               ArchiveInv'
        PROVE  LifecycleInv'
    <2>1. CopiesInv'
      BY <1>1, <1>2 DEF CopiesInv, CopyOK, Startable, CompletedStop
    <2>2. StepsInv' /\ OutInv'
      BY <1>2 DEF StepsInv, OutInv, Startable, HasPod
    <2>3. VolumeInv'
      BY <1>1, <1>2 DEF VolumeInv, VolumeOK, HasPod
    <2> QED
      BY <1>2, <2>1, <2>2, <2>3
      DEF HelperInv, ReleaseOnlyAfterTeardown, HasPod, HooksRunAtMostOnce,
          CompletedStopHasNoCompute, CompletedStop
  <1>3. CASE ArchiveBegin(w)
    <2>1. ArchiveInv'
      BY <1>3 DEF ArchiveBegin, ReadCopy, ArchiveInv, TypeOK, ArchiveTypeOK
    <2> QED
      BY <1>2, <1>3, <2>1 DEF ArchiveBegin, ReadCopy
  <1>4. CASE ArchiveResume(w)
    <2>1. CASE WriteResidency(w, "Running")
      BY <1>4, <2>1, WriteResidencyInv
      DEF ArchiveResume, GoArchive, Residency, TypeOK, ArchiveTypeOK
    <2>2. CASE GoArchive(w, "idle") /\ UNCHANGED <<rec, fresh>>
      <3>1. ArchiveInv'
        BY <1>4, <2>2 DEF ArchiveResume, GoArchive, ArchiveInv, TypeOK,
                          ArchiveTypeOK
      <3> QED
        BY <1>2, <1>4, <2>2, <3>1 DEF ArchiveResume
    <2> QED
      BY <1>4, <2>1, <2>2 DEF ArchiveResume
  <1>5. CASE ArchiveReady(w)
    <2>1. ArchiveInv'
      BY <1>5, GoArchiveInv DEF ArchiveReady, ReadCopy
    <2> QED
      BY <1>2, <1>5, <2>1 DEF ArchiveReady, ReadCopy
  <1>6. CASE ArchiveSnapshot(w)
    <2>1. ArchiveInv'
      BY <1>6 DEF ArchiveSnapshot, GoArchive, ArchiveInv, TypeOK, ArchiveTypeOK
    <2> QED
      BY <1>2, <1>6, <2>1 DEF ArchiveSnapshot
  <1>7. CASE ArchiveTeardown(w)
    <2>1. CASE TeardownStarts(w) /\ GoArchive(w, "await")
      <3>0. /\ UNCHANGED <<rec, fresh, pod, claim>>
            /\ hooks[w] = "none" /\ hooks'[w] = "started"
            /\ \A v \in Workspaces \ {w} : hooks'[v] = hooks[v]
        BY <1>7, <2>1 DEF ArchiveTeardown, TeardownStarts, TypeOK, ObjectsTypeOK
      <3>1. VolumeInv' /\ HelperInv' /\ ReleaseOnlyAfterTeardown' /\ HooksRunAtMostOnce'
        BY <1>1, <2>1, <3>0, TeardownStartsInv
      <3>2. CopiesInv' /\ StepsInv'
        BY <1>1, <3>0 DEF CopiesInv, CopyOK, StepsInv, Startable, CompletedStop, HasPod
      <3>3. OutInv'
        BY <3>0 DEF OutInv, HasPod, TypeOK, ControllerTypeOK
      <3>4. ArchiveInv'
        BY <1>7, <2>1, <3>0, GoArchiveInv DEF ArchiveTeardown, ArchiveInv
      <3>5. CompletedStopHasNoCompute'
        BY <3>0 DEF CompletedStopHasNoCompute, CompletedStop, HasPod
      <3> QED
        BY <3>1, <3>2, <3>3, <3>4, <3>5
    <2>2. CASE UNCHANGED <<hooks, helper, runs>>
      <3>1. ArchiveInv'
        <4>1. ~TeardownStarts(w)
          BY <2>2 DEF TeardownStarts, TypeOK, ObjectsTypeOK
        <4>2. PICK step : /\ GoArchive(w, step) /\ step \in {"mark", "undo"}
                          /\ step = "mark" => hooks[w] = "complete"
          BY <1>7, <4>1 DEF ArchiveTeardown, TeardownAlreadyDone
        <4> QED
          BY <1>7, <2>2, <4>2, GoArchiveInv DEF ArchiveTeardown, ArchiveInv
      <3> QED
        BY <1>2, <1>7, <2>2, <3>1 DEF ArchiveTeardown
    <2> QED
      BY <1>7, <2>1, <2>2 DEF ArchiveTeardown
  <1>8. CASE ArchiveAwait(w)
    <2>1. ArchiveInv'
      BY <1>8 DEF ArchiveAwait, TeardownSucceeded, clusterVars, GoArchive,
                  ArchiveInv, TypeOK, ArchiveTypeOK
    <2> QED
      BY <1>2, <1>8, <2>1 DEF ArchiveAwait, clusterVars
  <1>9. CASE ArchiveUndo(w)
    <2>1. CASE WriteResidency(w, "Suspended")
      BY <1>9, <2>1, WriteResidencyInv
      DEF ArchiveUndo, GoArchive, Residency, TypeOK, ArchiveTypeOK
    <2>2. CASE UNCHANGED <<rec, fresh>>
      <3>1. ArchiveInv'
        BY <1>9, <2>2 DEF ArchiveUndo, GoArchive, ArchiveInv, TypeOK,
                          ArchiveTypeOK
      <3> QED
        BY <1>2, <1>9, <2>2, <3>1 DEF ArchiveUndo
    <2> QED
      BY <1>9, <2>1, <2>2 DEF ArchiveUndo
  <1>10. CASE ArchiveMark(w)
    <2>1. CASE PutStatus("archive", w, [rec[w] EXCEPT !.teardown = TRUE])
      <3>1. /\ <<"archive", w>> \in fresh /\ archivePc[w] = "mark"
            /\ UNCHANGED <<pod, claim, hooks, helper, runs>>
            /\ rec'[w].res = rec[w].res /\ rec'[w].teardown
            /\ \A v \in Workspaces \ {w} :
                 rec'[v] = rec[v] /\ archivePc'[v] = archivePc[v]
            /\ fresh' = fresh \ (Holders \X {w})
        BY <1>10, <2>1 DEF ArchiveMark, PutStatus, Stale, GoArchive, TypeOK,
                           RecordsTypeOK, Record, ArchiveTypeOK
      <3>2. /\ rec[w].res = "Running"
            /\ w \notin Ephemeral => hooks[w] = "complete"
        BY <3>1 DEF ArchiveInv
      <3>3. w \notin Ephemeral => claim[w] = "Owned"
        BY <3>2 DEF VolumeInv, VolumeOK, ReleaseOnlyAfterTeardown
      <3>4. CopiesInv'
        <4>1. ASSUME NEW v \in Pending PROVE CopyOK(v)'
          <5>1. CASE v = w
            BY <3>1, <3>2, <4>1, <5>1
            DEF CopiesInv, CopyOK, Holders, CompletedStop
          <5>2. CASE v # w
            BY <1>1, <3>1, <4>1, <5>2
            DEF CopiesInv, CopyOK, Startable, CompletedStop
          <5> QED
            BY <5>1, <5>2
        <4> QED
          BY <1>1, <4>1 DEF CopiesInv
      <3>5. StepsInv' /\ OutInv'
        BY <3>1 DEF StepsInv, OutInv, Startable, HasPod
      <3>6. VolumeInv'
        <4>1. ASSUME NEW v \in Workspaces \ Ephemeral PROVE VolumeOK(v)'
          BY <1>1, <3>1, <3>2, <3>3, <4>1 DEF VolumeInv, VolumeOK, HasPod
        <4> QED
          BY <3>1, <4>1 DEF VolumeInv
      <3>7. ArchiveInv'
        BY <3>1 DEF ArchiveInv, Holders
      <3>8. ReleaseOnlyAfterTeardown' /\ CompletedStopHasNoCompute'
        BY <3>1, <3>2 DEF ReleaseOnlyAfterTeardown, CompletedStopHasNoCompute,
                          CompletedStop, HasPod
      <3> QED
        BY <3>1, <3>4, <3>5, <3>6, <3>7, <3>8
        DEF HelperInv, HasPod, HooksRunAtMostOnce
    <2>2. CASE UNCHANGED <<rec, fresh>> /\ GoArchive(w, "idle")
      <3>1. ArchiveInv'
        BY <1>10, <2>2 DEF ArchiveMark, GoArchive, ArchiveInv, TypeOK,
                           ArchiveTypeOK
      <3> QED
        BY <1>2, <1>10, <2>2, <3>1 DEF ArchiveMark
    <2> QED
      BY <1>10, <2>1, <2>2 DEF ArchiveMark
  <1>11. CASE ArchiveRecheck(w)
    <2>1. ArchiveInv'
      BY <1>11, GoArchiveInv DEF ArchiveRecheck, ReadCopy
    <2> QED
      BY <1>2, <1>11, <2>1 DEF ArchiveRecheck, ReadCopy
  <1>12. CASE ArchiveCommit(w)
    <2>1. CASE WriteResidency(w, "Archived")
      BY <1>12, <2>1, WriteResidencyInv
      DEF ArchiveCommit, GoArchive, Residency, TypeOK, ArchiveTypeOK
    <2>2. CASE UNCHANGED <<rec, fresh>>
      <3>1. ArchiveInv'
        BY <1>12, <2>2 DEF ArchiveCommit, GoArchive, ArchiveInv, TypeOK,
                           ArchiveTypeOK
      <3> QED
        BY <1>2, <1>12, <2>2, <3>1 DEF ArchiveCommit
    <2> QED
      BY <1>12, <2>1, <2>2 DEF ArchiveCommit
  <1> QED
    BY <1>3, <1>4, <1>5, <1>6, <1>7, <1>8, <1>9, <1>10, <1>11, <1>12
    DEF ArchiveNext

-----------------------------------------------------------------------------
(* The theorems.                                                            *)

\* Every step of the composed system preserves the invariant.
LEMMA LifecycleStep ==
  ASSUME TypeOK, LifecycleInv, [Next]_vars PROVE LifecycleInv'
  <1>1. CASE ControllerNext /\ UNCHANGED archiveVars
    BY <1>1, ControllerInv DEF archiveVars
  <1>2. ASSUME NEW w \in Workspaces, BackoffExpires(w), UNCHANGED archiveVars
        PROVE  LifecycleInv'
    BY <1>2 DEF BackoffExpires, archiveVars, clusterVars, LifecycleInv, CopiesInv,
       CopyOK, StepsInv, OutInv, VolumeInv, VolumeOK, ArchiveInv, HelperInv,
       Pending, Startable, CompletedStop, HasPod, ReleaseOnlyAfterTeardown,
       CompletedStopHasNoCompute, HooksRunAtMostOnce
  <1>3. ASSUME NEW w \in Workspaces, ArchiveNext(w), UNCHANGED controllerVars
        PROVE  LifecycleInv'
    BY <1>3, ArchiveRequestInv
  <1>4. ASSUME NEW w \in Workspaces, UserStep(w),
               UNCHANGED <<controllerVars, archiveVars>>
        PROVE  LifecycleInv'
    BY <1>4, WriteResidencyInv DEF UserStep, SetResidency, archiveVars
  <1>5. ASSUME NEW w \in Workspaces, UNCHANGED <<controllerVars, archiveVars>>,
               ClusterStep(w) \/ ReaderRequest(w) \/ Tick
        PROVE  LifecycleInv'
    BY <1>5, ClusterInv
  <1>6. CASE GatewayRestart
    <2>1. Pending' = {}
      BY <1>6 DEF GatewayRestart, Pending
    <2>2. CopiesInv' /\ StepsInv' /\ OutInv' /\ ArchiveInv'
      BY <1>6, <2>1 DEF GatewayRestart, CopiesInv, StepsInv, OutInv, ArchiveInv,
                        StartSteps, StoppedSteps, CollectSteps
    <2>3. VolumeInv'
      BY <1>6, <2>1 DEF GatewayRestart, LifecycleInv, VolumeInv, VolumeOK, HasPod
    <2> QED
      BY <1>6, <2>2, <2>3
      DEF GatewayRestart, LifecycleInv, HelperInv, ReleaseOnlyAfterTeardown,
          HasPod, CompletedStopHasNoCompute, CompletedStop, HooksRunAtMostOnce
  <1>7. CASE UNCHANGED vars
    BY <1>7 DEF vars, controllerVars, archiveVars, clusterVars, LifecycleInv,
       CopiesInv, CopyOK, StepsInv, OutInv, VolumeInv, VolumeOK, ArchiveInv,
       HelperInv, Pending, Startable, CompletedStop, HasPod,
       ReleaseOnlyAfterTeardown, CompletedStopHasNoCompute, HooksRunAtMostOnce
  <1>8. PICK w : w \in Workspaces
    BY ConstantsAssumption
  <1> QED
    BY <1>1, <1>2, <1>3, <1>4, <1>5, <1>6, <1>7, <1>8 DEF Next

\* The inductive invariant holds in every reachable state of the composed
\* system of controller, archive requests, helper, readers and cluster.
THEOREM LifecycleInductive == Spec => [](TypeOK /\ LifecycleInv)
  <1>1. Init => TypeOK /\ LifecycleInv
    BY TypeInit, LifecycleInit
  <1>2. TypeOK /\ LifecycleInv /\ [Next]_vars => TypeOK' /\ LifecycleInv'
    BY TypeStep, LifecycleStep DEF LifecycleInv
  <1> QED
    BY <1>1, <1>2, PTL DEF Spec

\* Type correctness: no step leaves the state space of the code.
THEOREM TypeCorrect == Spec => []TypeOK
  BY LifecycleInductive, PTL

\* deleteStorage reaches a volume only when the record is Archived and torn
\* down, the hooks completed on that volume and no workspace Pod exists.
THEOREM ReleaseIsSafe == Spec => []ReleaseOnlyAfterTeardown
  <1>1. TypeOK /\ LifecycleInv => ReleaseOnlyAfterTeardown
    BY DEF LifecycleInv
  <1> QED
    BY <1>1, LifecycleInductive, PTL

\* A status that reports a completed stop for the current generation is true,
\* whatever raced the report: no workspace Pod exists.
THEOREM StopIsTrue == Spec => []CompletedStopHasNoCompute
  <1>1. TypeOK /\ LifecycleInv => CompletedStopHasNoCompute
    BY DEF LifecycleInv
  <1> QED
    BY <1>1, LifecycleInductive, PTL

\* The teardown hooks of a retained workspace are started at most once.
THEOREM HooksRunOnce == Spec => []HooksRunAtMostOnce
  <1>1. TypeOK /\ LifecycleInv => HooksRunAtMostOnce
    BY DEF LifecycleInv
  <1> QED
    BY <1>1, LifecycleInductive, PTL

\* Only reports, teardown marks and spec writes change a record.
LEMMA StatusStep ==
  ASSUME TypeOK, LifecycleInv, [Next]_vars PROVE StatusKept
  <1>1. ASSUME rec' = rec PROVE StatusKept
    BY <1>1 DEF StatusKept
  <1>2. ASSUME NEW w \in Workspaces, NEW r, WriteResidency(w, r) PROVE StatusKept
    BY <1>2 DEF WriteResidency, StatusKept, TypeOK, RecordsTypeOK, Record
  <1>3. CASE Report
    <2>1. CASE PutStatus("controller", cur, out)
      <3>1. /\ out \in Record /\ cur \in Workspaces /\ rec[cur] \in Record
            /\ rec'[cur] = [out EXCEPT !.res = rec[cur].res]
            /\ \A w \in Workspaces \ {cur} : rec'[w] = rec[w]
        BY <2>1 DEF PutStatus, TypeOK, RecordsTypeOK, ControllerTypeOK
      <3>2. list[cur] = rec[cur]
        BY <1>3, <2>1, <3>1 DEF Report, PutStatus, LifecycleInv, CopiesInv, CopyOK,
                                Pending
      <3>3. /\ rec[cur].teardown => out.teardown
            /\ rec[cur].released => out.released
            /\ rec[cur].archivedAt # NoTime => out.archivedAt = rec[cur].archivedAt
        BY <1>3, <3>2 DEF Report, LifecycleInv, OutInv
      <3>4. /\ rec'[cur].teardown = out.teardown
            /\ rec'[cur].released = out.released
            /\ rec'[cur].archivedAt = out.archivedAt
        BY <3>1 DEF Record
      <3> QED
        BY <3>1, <3>3, <3>4 DEF StatusKept
    <2> QED
      BY <1>1, <1>3, <2>1 DEF Report
  <1>4. CASE ControllerNext /\ ~Report
    BY <1>1, <1>4 DEF ControllerNext, BeginPass, EndPass, StoreCallFails, Pick,
       SkipBackoff, Stop, Snapshot, Teardown, AwaitTeardown, DeletePod, ReplacePod,
       RequestPodDeletion, AwaitReader, DeleteRuntime, Settle, ReadClaim,
       DeleteClaim, CheckClaim, PurgeInventory, Start, Capacity, Credentials,
       EnsureClaim, EnsureService, EnsurePod, clusterVars
  <1>5. ASSUME NEW w \in Workspaces, ArchiveNext(w) PROVE StatusKept
    <2>1. CASE ArchiveMark(w)
      <3>1. CASE PutStatus("archive", w, [rec[w] EXCEPT !.teardown = TRUE])
        <4>1. /\ rec'[w] = [[rec[w] EXCEPT !.teardown = TRUE] EXCEPT !.res = rec[w].res]
              /\ \A v \in Workspaces \ {w} : rec'[v] = rec[v]
              /\ rec[w] \in Record
          BY <3>1 DEF PutStatus, TypeOK, RecordsTypeOK
        <4>2. /\ rec'[w].teardown
              /\ rec'[w].released = rec[w].released
              /\ rec'[w].archivedAt = rec[w].archivedAt
          BY <4>1 DEF Record
        <4> QED
          BY <4>1, <4>2 DEF StatusKept
      <3> QED
        BY <1>1, <2>1, <3>1 DEF ArchiveMark
    <2>2. CASE ArchiveResume(w) \/ ArchiveUndo(w) \/ ArchiveCommit(w)
      BY <1>1, <1>2, <2>2 DEF ArchiveResume, ArchiveUndo, ArchiveCommit
    <2> QED
      BY <1>1, <1>5, <2>1, <2>2 DEF ArchiveNext, ArchiveBegin, ArchiveReady,
         ArchiveSnapshot, ArchiveTeardown, ArchiveAwait, ArchiveRecheck, clusterVars
  <1>6. ASSUME NEW w \in Workspaces, UserStep(w) PROVE StatusKept
    BY <1>2, <1>6 DEF UserStep, SetResidency
  <1>7. ASSUME NEW w \in Workspaces,
               ClusterStep(w) \/ ReaderRequest(w) \/ Tick \/ BackoffExpires(w)
        PROVE  StatusKept
    BY <1>1, <1>7 DEF ClusterStep, PodBecomesReady, PodWaits, PodBecomesUnready,
       ChangePod, PodEvicted, PodDeletedElsewhere, PodGone, ClaimGone,
       ForeignClaimAppears, HooksSucceed, HooksFail, ReaderRequest, ReaderVerify,
       ReaderCreate, ReaderDelete, ReaderGone, ReaderStep, Tick, BackoffExpires,
       clusterVars
  <1>8. CASE GatewayRestart
    BY <1>1, <1>8 DEF GatewayRestart
  <1>9. CASE UNCHANGED vars
    BY <1>1, <1>9 DEF vars, clusterVars
  <1>10. PICK w : w \in Workspaces
    BY ConstantsAssumption
  <1> QED
    BY <1>3, <1>4, <1>5, <1>6, <1>7, <1>8, <1>9, <1>10 DEF Next

\* teardownCompletedAt, storageDeletedAt and archivedAt are never lost, however
\* controller reports, archive requests and spec writes interleave.
THEOREM StatusIsMonotone == Spec => StatusNeverForgets
  <1>1. TypeOK /\ LifecycleInv /\ [Next]_vars => [StatusKept]_vars
    BY StatusStep
  <1> QED
    BY <1>1, LifecycleInductive, PTL DEF Spec, StatusNeverForgets

-----------------------------------------------------------------------------
(* What becomes of a workspace's data, and how many workspaces run.          *)

\* Nothing is listed, stamped, collected or running initially.
LEMMA StorageInit == Init => StorageInv
  <1> SUFFICES ASSUME Init PROVE StorageInv
    OBVIOUS
  <1> USE DEF Init, ClusterInit, ControllerInit, ArchiveInit
  <1>1. ASSUME NEW w \in Workspaces PROVE RetentionOK(w)
    <2>1. /\ Pending = {} /\ rec[w].archivedAt = NoTime /\ ~rec[w].released
          /\ ~pod[w].deleting
      BY DEF Pending, NewRecord, NoPod
    <2> QED
      BY <2>1 DEF RetentionOK
  <1>2. StampOK /\ PodDeletionOK /\ RetentionHonoured
    BY DEF StampOK, CollectSteps, PodDeletionOK, RetentionHonoured
  <1> QED
    BY <1>1, <1>2 DEF StorageInv

-----------------------------------------------------------------------------
(* Frames.                                                                  *)

\* How every call inside reconcile() moves the loop: the pass goes on, and the
\* copy of the workspace is kept until reconcile() returns.
Moves ==
  /\ pc \notin {"idle", "pick"}
  /\ pc' # "idle"
  /\ UNCHANGED <<cur, left>>
  /\ list' = list \/ (pc' = "pick" /\ list' = [list EXCEPT ![cur] = Blank])

\* The steps of the loop between two reconciliations.
LoopStep ==
  BeginPass \/ EndPass \/ (\E w \in Workspaces : Pick(w) \/ SkipBackoff(w))

\* The other steps of the controller are calls inside reconcile().
LEMMA CallsMove ==
  ASSUME ControllerNext, ~LoopStep PROVE Moves
  <1>1. ASSUME NEW s, s # "idle", Goto(s), pc \notin {"idle", "pick"} PROVE Moves
    BY <1>1 DEF Goto, Moves
  <1>2. ASSUME Done \/ Throw, pc \notin {"idle", "pick"} PROVE Moves
    BY <1>2 DEF Done, Throw, Return, Moves
  <1>3. ASSUME NEW status, NEW forced, ReportWith(status, forced),
               pc \notin {"idle", "pick"}
        PROVE  Moves
    BY <1>3 DEF ReportWith, Moves
  <1>4. ASSUME NEW phase, NEW why, Say(phase, why), pc \notin {"idle", "pick"}
        PROVE  Moves
    BY <1>3, <1>4 DEF Say
  <1>5. CASE StoreCallFails \/ Report
    BY <1>2, <1>5 DEF StoreCallFails, Report
  <1>6. CASE Stop \/ Snapshot
    BY <1>1, <1>4, <1>6 DEF Stop, Snapshot
  <1>7. CASE Teardown \/ AwaitTeardown
    BY <1>1, <1>3, <1>4, <1>7 DEF Teardown, AwaitTeardown, TornDown
  <1>8. CASE DeletePod \/ ReplacePod \/ AwaitReader \/ DeleteRuntime
    BY <1>1, <1>2, <1>4, <1>8
    DEF DeletePod, ReplacePod, RequestPodDeletion, AwaitReader, DeleteRuntime
  <1>9. CASE Settle
    <2>1. CASE RetentionExpired
      BY <1>9, <2>1 DEF Settle, Moves
    <2> QED
      BY <1>3, <1>4, <1>9, <2>1 DEF Settle
  <1>10. CASE ReadClaim \/ DeleteClaim \/ CheckClaim \/ PurgeInventory
    BY <1>1, <1>2, <1>3, <1>10
    DEF ReadClaim, DeleteClaim, CheckClaim, PurgeInventory
  <1>11. CASE Start \/ Capacity \/ Credentials
    BY <1>1, <1>4, <1>11 DEF Start, Capacity, Credentials
  <1>12. CASE EnsureClaim \/ EnsureService
    BY <1>1, <1>2, <1>12 DEF EnsureClaim, EnsureService
  <1>13. CASE EnsurePod
    BY <1>1, <1>3, <1>4, <1>13
    DEF EnsurePod, CreatePod, ObservePod, ReportDiagnostic
  <1> QED
    BY <1>5, <1>6, <1>7, <1>8, <1>9, <1>10, <1>11, <1>12, <1>13
    DEF ControllerNext, LoopStep

\* The workspace being reconciled is pending, and no move lists a copy anew.
LEMMA MovesKeepCopies ==
  ASSUME TypeOK, LifecycleInv, Moves
  PROVE  /\ cur \in Workspaces /\ cur \in Pending /\ Pending' \subseteq Pending
         /\ \A w \in Pending' : list'[w] = list[w]
  BY DEF Moves, Pending, LifecycleInv, CopiesInv, TypeOK, ControllerTypeOK

\* A step that changes no timestamp, claim, inventory or copy of a workspace and
\* neither creates nor removes its Pod keeps what retention knows of it.
LEMMA RetentionFrame ==
  ASSUME NEW w \in Workspaces, RetentionOK(w), TypeOK, TypeOK', StatusKept,
         rec'[w].archivedAt = rec[w].archivedAt,
         rec'[w].released = rec[w].released,
         rec[w].res = "Archived" => rec'[w].res = "Archived",
         claim'[w] = claim[w], inventory'[w] = inventory[w],
         stoppedAt'[w] = stoppedAt[w], now' \in {now, now + 1},
         HasPod(w)' = HasPod(w), pod'[w].deleting => HasPod(w)',
         w \in Pending' => w \in Pending /\ list'[w] = list[w]
  PROVE  RetentionOK(w)'
  <1>1. now \in Nat /\ stoppedAt[w] \in Nat
    BY DEF TypeOK, HistoryTypeOK
  <1>2. stoppedAt'[w] <= now'
    BY <1>1 DEF RetentionOK
  <1>3. StoppedForGood(rec[w]) => StoppedForGood(rec'[w])
    BY DEF StoppedForGood, StatusKept
  <1> QED
    BY <1>2, <1>3 DEF RetentionOK, StoppedForGood

-----------------------------------------------------------------------------
(* What retention knows of each workspace.                                  *)

\* A Pod whose deletion is requested is a Pod.
LEMMA DeletionFrame ==
  ASSUME TypeOK, NEW w \in Workspaces, RetentionOK(w), NEW why,
         RequestPodDeletion(why)
  PROVE  /\ HasPod(w)' = HasPod(w)
         /\ pod'[w].deleting => HasPod(w)'
         /\ UNCHANGED <<rec, claim, inventory, stoppedAt, now>>
  <1>1. /\ UNCHANGED <<rec, claim, inventory, stoppedAt, now>>
        /\ \/ pod' = pod
           \/ HasPod(cur) /\ pod' = [pod EXCEPT ![cur].deleting = TRUE]
    BY DEF RequestPodDeletion
  <1> QED
    BY <1>1 DEF HasPod, RetentionOK, TypeOK, ObjectsTypeOK, ControllerTypeOK, Pod

\* The calls that leave records, volumes, inventories and Pods alone, or only
\* ask for the deletion of a Pod.
LEMMA QuietCalls ==
  ASSUME TypeOK, LifecycleInv, TypeOK', StatusKept, StorageInv,
         NEW w \in Workspaces,
         \/ StoreCallFails \/ Stop \/ Teardown \/ AwaitTeardown \/ DeletePod
         \/ ReplacePod \/ AwaitReader \/ DeleteRuntime \/ Settle \/ ReadClaim
         \/ CheckClaim \/ Start \/ Capacity \/ Credentials \/ EnsureService
  PROVE  RetentionOK(w)'
  <1>1. ControllerNext /\ ~LoopStep
    BY DEF ControllerNext, LoopStep, BeginPass, EndPass, Pick, SkipBackoff,
       StoreCallFails, Stop, Teardown, AwaitTeardown, DeletePod, ReplacePod,
       AwaitReader, DeleteRuntime, Settle, ReadClaim, CheckClaim, Start, Capacity,
       Credentials, EnsureService
  <1>2. w \in Pending' => w \in Pending /\ list'[w] = list[w]
    BY <1>1, CallsMove, MovesKeepCopies
  <1>3. RetentionOK(w)
    BY DEF StorageInv
  <1>4. CASE DeletePod \/ ReplacePod
    BY <1>2, <1>3, <1>4, DeletionFrame, RetentionFrame DEF DeletePod, ReplacePod
  <1>5. CASE UNCHANGED <<rec, claim, inventory, stoppedAt, now, pod>>
    BY <1>2, <1>3, <1>5, RetentionFrame DEF HasPod, RetentionOK
  <1> QED
    BY <1>4, <1>5
    DEF StoreCallFails, Stop, Teardown, AwaitTeardown, AwaitReader, DeleteRuntime,
        Settle, ReadClaim, CheckClaim, Start, Capacity, Credentials, EnsureService,
        clusterVars

\* Listing copies the records as they are; the other steps between two
\* reconciliations only forget copies.
LEMMA LoopRetention ==
  ASSUME TypeOK, LifecycleInv, TypeOK', StatusKept, StorageInv,
         NEW w \in Workspaces, LoopStep
  PROVE  RetentionOK(w)'
  <1>1. RetentionOK(w)
    BY DEF StorageInv
  <1>2. CASE BeginPass
    BY <1>1, <1>2 DEF BeginPass, RetentionOK, HasPod, StoppedForGood
  <1>3. CASE EndPass
    <2>1. Pending' = {}
      BY <1>3 DEF EndPass, Goto, Pending
    <2> QED
      BY <1>1, <1>3, <2>1, RetentionFrame DEF EndPass, HasPod, RetentionOK
  <1>4. ASSUME NEW v \in Workspaces, Pick(v) \/ SkipBackoff(v)
        PROVE  RetentionOK(w)'
    <2>1. w \in Pending' => w \in Pending /\ list'[w] = list[w]
      BY <1>4 DEF Pick, SkipBackoff, Pending, TypeOK, ControllerTypeOK
    <2> QED
      BY <1>1, <1>4, <2>1, RetentionFrame
      DEF Pick, SkipBackoff, clusterVars, HasPod, RetentionOK
  <1> QED
    BY <1>2, <1>3, <1>4 DEF LoopStep

\* report() stamps what the step before it found out.
LEMMA ReportRetention ==
  ASSUME TypeOK, LifecycleInv, TypeOK', LifecycleInv', StatusKept, StorageInv,
         NEW w \in Workspaces, Report
  PROVE  RetentionOK(w)'
  <1>1. RetentionOK(w) /\ StampOK
    BY DEF StorageInv
  <1>2. Moves
    BY CallsMove DEF ControllerNext, LoopStep, Report, BeginPass, EndPass, Pick,
       SkipBackoff
  <1>3. w \in Pending' => w \in Pending /\ list'[w] = list[w]
    BY <1>2, MovesKeepCopies
  <1>4. UNCHANGED <<claim, inventory, stoppedAt, now, pod>>
    BY DEF Report
  <1>5. CASE rec' = rec
    BY <1>1, <1>3, <1>4, <1>5, RetentionFrame DEF HasPod, RetentionOK
  <1>6. CASE PutStatus("controller", cur, out) /\ Done
    <2>1. /\ cur \in Workspaces /\ out \in Record
          /\ rec'[cur] = [out EXCEPT !.res = rec[cur].res]
          /\ \A v \in Workspaces \ {cur} : rec'[v] = rec[v]
          /\ list[cur] = rec[cur]
      BY <1>2, <1>6, MovesKeepCopies
      DEF PutStatus, TypeOK, RecordsTypeOK, ControllerTypeOK, LifecycleInv,
          CopiesInv, CopyOK
    <2>2. CASE w # cur
      BY <1>1, <1>3, <1>4, <2>1, <2>2, RetentionFrame DEF HasPod, RetentionOK
    <2>3. CASE w = cur
      <3>1. /\ rec'[w].res = rec[w].res
            /\ rec'[w].teardown = out.teardown
            /\ rec'[w].released = out.released
            /\ rec'[w].archivedAt = out.archivedAt
        BY <2>1, <2>3 DEF Record
      <3>2. w \notin Pending'
        BY <1>2, <1>6, <2>3 DEF Pending, Done, Return, LifecycleInv, CopiesInv, Moves
      <3>3. rec[w].teardown => rec'[w].teardown
        BY DEF StatusKept
      <3>4. pc = "report"
        BY DEF Report
      <3> QED
        BY <1>1, <1>4, <2>1, <2>3, <3>1, <3>2, <3>3, <3>4
        DEF RetentionOK, StampOK, StoppedForGood, HasPod
    <2> QED
      BY <2>2, <2>3
  <1> QED
    BY <1>5, <1>6 DEF Report
\* The calls that change the inventory, the volume or the Pods of the workspace
\* being reconciled.
LEMMA InventoryCalls ==
  ASSUME TypeOK, LifecycleInv, TypeOK', StatusKept, StorageInv,
         NEW w \in Workspaces, Snapshot \/ PurgeInventory
  PROVE  RetentionOK(w)'
  <1>1. RetentionOK(w) /\ StampOK
    BY DEF StorageInv
  <1>2. Moves
    BY CallsMove DEF ControllerNext, LoopStep, Snapshot, PurgeInventory, BeginPass,
       EndPass, Pick, SkipBackoff
  <1>3. /\ cur \in Workspaces /\ cur \in Pending
        /\ w \in Pending' => w \in Pending /\ list'[w] = list[w]
    BY <1>2, MovesKeepCopies
  <1>4. UNCHANGED <<rec, claim, stoppedAt, now, pod>>
    BY DEF Snapshot, PurgeInventory
  <1>5. CASE inventory'[w] = inventory[w]
    BY <1>1, <1>3, <1>4, <1>5, RetentionFrame DEF HasPod, RetentionOK
  <1>6. CASE Snapshot /\ inventory'[w] # inventory[w]
    <2>1. w = cur /\ CanExec(w) /\ inventory'[w] = "kept"
      BY <1>3, <1>6 DEF Snapshot, TypeOK, ObjectsTypeOK
    <2>2. HasPod(w) /\ rec[w].archivedAt = NoTime /\ ~rec[w].released
      BY <1>1, <2>1 DEF CanExec, HasPod, RetentionOK
    <2> QED
      BY <1>1, <1>3, <1>4, <2>1, <2>2 DEF RetentionOK, HasPod, StoppedForGood
  <1>7. CASE PurgeInventory /\ inventory'[w] # inventory[w]
    <2>1. w = cur /\ inventory'[w] = "purged" /\ pc = "purge"
      BY <1>3, <1>7 DEF PurgeInventory, TypeOK, ObjectsTypeOK
    <2>2. claim[w] \in {"None", "Foreign"} /\ StoppedForGood(list[w])
      BY <1>1, <2>1 DEF StampOK, CollectSteps
    <2>3. StoppedForGood(rec[w])
      BY <1>3, <2>1, <2>2 DEF StoppedForGood, LifecycleInv, CopiesInv, CopyOK
    <2> QED
      BY <1>1, <1>3, <1>4, <2>1, <2>2, <2>3
      DEF RetentionOK, HasPod, StoppedForGood
  <1> QED
    BY <1>5, <1>6, <1>7

LEMMA ClaimCalls ==
  ASSUME TypeOK, LifecycleInv, TypeOK', LifecycleInv', StatusKept, StorageInv,
         NEW w \in Workspaces, DeleteClaim \/ EnsureClaim
  PROVE  RetentionOK(w)'
  <1>1. RetentionOK(w)
    BY DEF StorageInv
  <1>2. Moves
    BY CallsMove DEF ControllerNext, LoopStep, DeleteClaim, EnsureClaim, BeginPass,
       EndPass, Pick, SkipBackoff
  <1>3. /\ cur \in Workspaces /\ cur \in Pending
        /\ w \in Pending' => w \in Pending /\ list'[w] = list[w]
    BY <1>2, MovesKeepCopies
  <1>4. UNCHANGED <<rec, inventory, stoppedAt, now, pod>>
    BY DEF DeleteClaim, EnsureClaim
  <1>5. CASE claim'[w] = claim[w]
    BY <1>1, <1>3, <1>4, <1>5, RetentionFrame DEF HasPod, RetentionOK
  <1>6. CASE claim'[w] # claim[w]
    <2>1. w = cur
      BY <1>6 DEF DeleteClaim, EnsureClaim, TypeOK, ObjectsTypeOK
    <2>2. inventory[w] # "purged"
      <3>1. CASE DeleteClaim
        BY <1>1, <1>6, <2>1, <3>1 DEF DeleteClaim, RetentionOK
      <3>2. CASE EnsureClaim
        <4>1. Startable(list[w]) /\ claim[w] = "None" /\ w \notin Ephemeral
          BY <1>3, <1>6, <2>1, <3>2
          DEF EnsureClaim, LifecycleInv, StepsInv, StartSteps, TypeOK, ObjectsTypeOK
        <4>2. rec[w].teardown => StoppedForGood(list[w])
          BY <1>3, <2>1, <4>1
          DEF LifecycleInv, VolumeInv, VolumeOK, StoppedForGood
        <4> QED
          BY <1>1, <4>1, <4>2 DEF RetentionOK, StoppedForGood, Startable
      <3> QED
        BY <3>1, <3>2
    <2> QED
      BY <1>1, <1>3, <1>4, <2>2 DEF RetentionOK, HasPod, StoppedForGood
  <1> QED
    BY <1>5, <1>6

LEMMA EnsurePodRetention ==
  ASSUME TypeOK, LifecycleInv, TypeOK', LifecycleInv', StatusKept, StorageInv,
         NEW w \in Workspaces, EnsurePod
  PROVE  RetentionOK(w)'
  <1>1. RetentionOK(w)
    BY DEF StorageInv
  <1>2. Moves
    BY CallsMove DEF ControllerNext, LoopStep, EnsurePod, BeginPass, EndPass, Pick,
       SkipBackoff
  <1>3. /\ cur \in Workspaces /\ cur \in Pending
        /\ w \in Pending' => w \in Pending /\ list'[w] = list[w]
    BY <1>2, MovesKeepCopies
  <1>4. UNCHANGED <<rec, claim, inventory, stoppedAt, now>>
    BY DEF EnsurePod
  <1>5. CASE pod'[w] = pod[w]
    BY <1>1, <1>3, <1>4, <1>5, RetentionFrame DEF HasPod, RetentionOK
  <1>6. CASE pod'[w] # pod[w]
    <2>1. w = cur /\ pod'[w] = NewPod
      BY <1>3, <1>6 DEF EnsurePod, CreatePod, ObservePod, TypeOK, ObjectsTypeOK
    <2>2. Startable(list[w])
      BY <2>1 DEF EnsurePod, LifecycleInv, StepsInv, StartSteps
    <2>3. rec[w].archivedAt = NoTime
      BY <1>1, <1>3, <2>1, <2>2 DEF RetentionOK, StoppedForGood, Startable
    <2> QED
      BY <1>1, <1>3, <1>4, <2>1, <2>3
      DEF RetentionOK, HasPod, StoppedForGood, NewPod
  <1> QED
    BY <1>5, <1>6

\* Every step of the controller.
LEMMA ControllerRetention ==
  ASSUME TypeOK, LifecycleInv, TypeOK', LifecycleInv', StatusKept, StorageInv,
         NEW w \in Workspaces, ControllerNext
  PROVE  RetentionOK(w)'
  BY QuietCalls, LoopRetention, ReportRetention, InventoryCalls, ClaimCalls,
     EnsurePodRetention DEF ControllerNext, LoopStep

\* Archive requests keep archivedAt and snapshot only a running daemon.
LEMMA ArchiveRetention ==
  ASSUME TypeOK, TypeOK', LifecycleInv', StatusKept, StorageInv,
         NEW w \in Workspaces, NEW v \in Workspaces, ArchiveNext(v),
         UNCHANGED controllerVars
  PROVE  RetentionOK(w)'
  <1>1. RetentionOK(w)
    BY DEF StorageInv
  <1>2. w \in Pending' => w \in Pending /\ list'[w] = list[w]
    BY DEF controllerVars, Pending
  <1>3. UNCHANGED <<claim, stoppedAt, now, pod>>
    BY DEF ArchiveNext, ArchiveBegin, ArchiveResume, ArchiveReady, ArchiveSnapshot,
       ArchiveTeardown, ArchiveAwait, ArchiveUndo, ArchiveMark, ArchiveRecheck,
       ArchiveCommit, clusterVars
  <1>4. CASE ArchiveSnapshot(v)
    <2>1. rec' = rec
      BY <1>4 DEF ArchiveSnapshot
    <2>2. CASE inventory'[w] = inventory[w]
      BY <1>1, <1>2, <1>3, <2>1, <2>2, RetentionFrame DEF HasPod, RetentionOK
    <2>3. CASE inventory'[w] # inventory[w]
      <3>1. w = v /\ CanExec(w) /\ inventory'[w] = "kept"
        BY <1>4, <2>3 DEF ArchiveSnapshot, TypeOK, ObjectsTypeOK
      <3>2. rec[w].archivedAt = NoTime /\ ~rec[w].released
        BY <1>1, <3>1 DEF CanExec, HasPod, RetentionOK
      <3> QED
        BY <1>1, <1>2, <1>3, <2>1, <3>1, <3>2
        DEF RetentionOK, HasPod, StoppedForGood
    <2> QED
      BY <2>2, <2>3
  <1>5. CASE ~ArchiveSnapshot(v)
    <2>1. inventory' = inventory
      BY <1>5 DEF ArchiveNext, ArchiveBegin, ArchiveResume, ArchiveReady,
         ArchiveTeardown, ArchiveAwait, ArchiveUndo, ArchiveMark, ArchiveRecheck,
         ArchiveCommit, clusterVars
    <2>2. /\ rec'[w].archivedAt = rec[w].archivedAt
          /\ rec'[w].released = rec[w].released
          /\ rec[w].res = "Archived" => rec'[w].res = "Archived"
      <3>1. CASE rec' = rec
        BY <3>1
      <3>2. ASSUME NEW r, WriteResidency(v, r)
            PROVE  /\ rec'[w].archivedAt = rec[w].archivedAt
                   /\ rec'[w].released = rec[w].released
                   /\ rec[w].res = "Archived" => rec'[w].res = "Archived"
        BY <3>2 DEF WriteResidency, TypeOK, RecordsTypeOK, Record
      <3>3. CASE PutStatus("archive", v, [rec[v] EXCEPT !.teardown = TRUE])
        <4>1. /\ rec[v] \in Record
              /\ rec' = [rec EXCEPT ![v] =
                           [[rec[v] EXCEPT !.teardown = TRUE] EXCEPT !.res = rec[v].res]]
          BY <3>3 DEF PutStatus, TypeOK, RecordsTypeOK
        <4> QED
          BY <4>1 DEF Record, TypeOK, RecordsTypeOK
      <3> QED
        BY <1>5, <3>1, <3>2, <3>3
        DEF ArchiveNext, ArchiveBegin, ArchiveResume, ArchiveReady, ArchiveTeardown,
            ArchiveAwait, ArchiveUndo, ArchiveMark, ArchiveRecheck, ArchiveCommit,
            clusterVars
    <2> QED
      BY <1>1, <1>2, <1>3, <2>1, <2>2, RetentionFrame DEF HasPod, RetentionOK
  <1> QED
    BY <1>4, <1>5
\* What the kubelet reports of a Pod, an eviction and a requested deletion leave
\* the Pod in place.
LEMMA PodStays ==
  ASSUME TypeOK, NEW w \in Workspaces, NEW v \in Workspaces,
         \/ PodBecomesReady(v) \/ PodWaits(v) \/ PodBecomesUnready(v)
         \/ PodEvicted(v) \/ PodDeletedElsewhere(v)
  PROVE  HasPod(w)' = HasPod(w)
  <1>1. pod[v] \in Pod
    BY DEF TypeOK, ObjectsTypeOK
  <1>2. CASE PodEvicted(v)
    <2> DEFINE p == [pod[v] EXCEPT !.phase = "Ended", !.diag = "Evicted"]
    <2>1. pod' = [pod EXCEPT ![v] = p] /\ pod[v].phase # "None"
      BY <1>2 DEF PodEvicted
    <2>2. p.phase # "None"
      BY <1>1 DEF Pod
    <2> QED
      BY <2>1, <2>2 DEF HasPod, TypeOK, ObjectsTypeOK
  <1>3. CASE \/ PodBecomesReady(v) \/ PodWaits(v) \/ PodBecomesUnready(v)
             \/ PodDeletedElsewhere(v)
    <2>1. PICK p : ChangePod(v, p) /\ p.phase # "None" /\ pod[v].phase # "None"
      <3>1. CASE PodBecomesReady(v)
        BY <1>1, <3>1 DEF PodBecomesReady, Pod
      <3>2. CASE PodWaits(v)
        BY <1>1, <3>2 DEF PodWaits, Pod
      <3>3. CASE PodBecomesUnready(v)
        BY <1>1, <3>3 DEF PodBecomesUnready, Pod
      <3>4. CASE PodDeletedElsewhere(v)
        BY <1>1, <3>4 DEF PodDeletedElsewhere, HasPod, Pod
      <3> QED
        BY <1>3, <3>1, <3>2, <3>3, <3>4
    <2> QED
      BY <2>1 DEF ChangePod, HasPod, TypeOK, ObjectsTypeOK
  <1> QED
    BY <1>2, <1>3

\* Users, the kubelet, the volume controller, readers and the clock.
LEMMA ClusterRetention ==
  ASSUME TypeOK, LifecycleInv, TypeOK', StatusKept, StorageInv,
         NEW w \in Workspaces, NEW v \in Workspaces,
         UserStep(v) \/ ClusterStep(v) \/ ReaderRequest(v) \/ Tick,
         UNCHANGED controllerVars
  PROVE  RetentionOK(w)'
  <1>1. RetentionOK(w)
    BY DEF StorageInv
  <1>2. w \in Pending' => w \in Pending /\ list'[w] = list[w]
    BY DEF controllerVars, Pending
  <1>3. CASE UserStep(v)
    <2>1. UNCHANGED <<pod, claim, inventory, now, stoppedAt>>
      BY <1>3 DEF UserStep, SetResidency
    <2>2. /\ rec'[w].archivedAt = rec[w].archivedAt
          /\ rec'[w].released = rec[w].released
          /\ rec[w].res = "Archived" => rec'[w].res = "Archived"
      <3>1. PICK r \in Residency : WriteResidency(v, r)
        BY <1>3 DEF UserStep, SetResidency
      <3> QED
        BY <3>1 DEF WriteResidency, TypeOK, RecordsTypeOK, Record
    <2> QED
      BY <1>1, <1>2, <2>1, <2>2, RetentionFrame DEF HasPod, RetentionOK
  <1>4. CASE ReaderRequest(v) \/ HooksSucceed(v) \/ HooksFail(v) \/ Tick
    <2>1. UNCHANGED <<rec, pod, claim, inventory, stoppedAt>> /\ now' \in {now, now + 1}
      BY <1>4 DEF ReaderRequest, ReaderVerify, ReaderCreate, ReaderDelete, ReaderGone,
         ReaderStep, HooksSucceed, HooksFail, Tick
    <2> QED
      BY <1>1, <1>2, <2>1, RetentionFrame DEF HasPod, RetentionOK
  <1>5. CASE \/ PodBecomesReady(v) \/ PodWaits(v) \/ PodBecomesUnready(v)
             \/ PodEvicted(v) \/ PodDeletedElsewhere(v)
    <2>1. UNCHANGED <<rec, claim, inventory, stoppedAt, now>>
      BY <1>5 DEF PodBecomesReady, PodWaits, PodBecomesUnready, PodEvicted,
         PodDeletedElsewhere, ChangePod
    <2>2. HasPod(w)' = HasPod(w)
      BY <1>5, PodStays
    <2>3. pod'[w].deleting => pod[w].deleting \/ HasPod(w)
      BY <1>5 DEF PodBecomesReady, PodWaits, PodBecomesUnready, PodEvicted,
         PodDeletedElsewhere, ChangePod, HasPod, TypeOK, ObjectsTypeOK, Pod
    <2> QED
      BY <1>1, <1>2, <2>1, <2>2, <2>3, RetentionFrame DEF RetentionOK
  <1>6. CASE PodGone(v)
    <2>1. UNCHANGED <<rec, claim, inventory, now>>
      BY <1>6 DEF PodGone
    <2>2. CASE w = v
      <3>1. pod'[w] = NoPod /\ stoppedAt'[w] = now /\ pod[w].deleting /\ now \in Nat
        BY <1>6, <2>2 DEF PodGone, TypeOK, ObjectsTypeOK, HistoryTypeOK
      <3>2. HasPod(w) /\ rec[w].archivedAt = NoTime
        BY <1>1, <3>1 DEF RetentionOK
      <3> QED
        BY <1>1, <1>2, <2>1, <3>1, <3>2 DEF RetentionOK, HasPod, NoPod, StoppedForGood
    <2>3. CASE w # v
      BY <1>1, <1>2, <1>6, <2>1, <2>3, RetentionFrame
      DEF PodGone, HasPod, RetentionOK
    <2> QED
      BY <2>2, <2>3
  <1>7. CASE ClaimGone(v) \/ ForeignClaimAppears(v)
    <2>1. /\ UNCHANGED <<rec, pod, inventory, stoppedAt, now>>
          /\ claim'[w] = claim[w] \/ claim'[w] \in {"None", "Foreign"}
      BY <1>7 DEF ClaimGone, ForeignClaimAppears, TypeOK, ObjectsTypeOK
    <2> QED
      BY <1>1, <1>2, <2>1 DEF RetentionOK, HasPod, StoppedForGood
  <1> QED
    BY <1>3, <1>4, <1>5, <1>6, <1>7 DEF ClusterStep

\* Every step of the composed system.
LEMMA RetentionStep ==
  ASSUME TypeOK, LifecycleInv, TypeOK', LifecycleInv', StatusKept, StorageInv,
         [Next]_vars, NEW w \in Workspaces
  PROVE  RetentionOK(w)'
  <1>1. RetentionOK(w)
    BY DEF StorageInv
  <1>2. CASE ControllerNext
    BY <1>2, ControllerRetention
  <1>3. ASSUME NEW v \in Workspaces, ArchiveNext(v), UNCHANGED controllerVars
        PROVE  RetentionOK(w)'
    BY <1>3, ArchiveRetention
  <1>4. ASSUME NEW v \in Workspaces, UNCHANGED controllerVars,
               UserStep(v) \/ ClusterStep(v) \/ ReaderRequest(v) \/ Tick
        PROVE  RetentionOK(w)'
    BY <1>4, ClusterRetention
  <1>5. ASSUME NEW v \in Workspaces, BackoffExpires(v) PROVE RetentionOK(w)'
    BY <1>1, <1>5
    DEF BackoffExpires, clusterVars, RetentionOK, HasPod, StoppedForGood, Pending
  <1>6. CASE GatewayRestart
    <2>1. Pending' = {}
      BY <1>6 DEF GatewayRestart, Pending
    <2> QED
      BY <1>1, <1>6, <2>1 DEF GatewayRestart, RetentionOK, HasPod, StoppedForGood
  <1>7. CASE UNCHANGED vars
    BY <1>1, <1>7
    DEF vars, controllerVars, clusterVars, RetentionOK, HasPod, StoppedForGood, Pending
  <1> QED
    BY <1>2, <1>3, <1>4, <1>5, <1>6, <1>7 DEF Next
-----------------------------------------------------------------------------
(* What the loop knows of the report in preparation and of the collection.  *)

\* A step of another actor removes no more than Pods and gives no volume to a
\* workspace whose Pods and volume are gone.
LEMMA StampFrame ==
  ASSUME TypeOK, StorageInv, UNCHANGED <<pc, cur, out, list>>,
         now' \in {now, now + 1},
         HasPod(cur)' => HasPod(cur),
         ~HasPod(cur) => /\ stoppedAt'[cur] = stoppedAt[cur]
                         /\ inventory'[cur] = inventory[cur],
         claim[cur] \in {"None", "Foreign"} => claim'[cur] \in {"None", "Foreign"}
  PROVE  StampOK'
  <1>1. StampOK
    BY DEF StorageInv
  <1>2. now \in Nat /\ cur \in Workspaces /\ out.archivedAt \in Nat \cup {NoTime}
    BY DEF TypeOK, HistoryTypeOK, ControllerTypeOK, Record
  <1>3. Ttl[cur] \in Nat \cup {NoTime}
    BY <1>2, ConstantsAssumption
  <1>4. pc \in CollectSteps => now' >= out.archivedAt + Ttl[cur]
    BY <1>1, <1>2, <1>3 DEF StampOK
  <1>5. /\ (pc \in CollectSteps \cup {"report"} /\ out.archivedAt # NoTime) =>
             /\ StoppedForGood(list[cur])
             /\ ~HasPod(cur)'
             /\ stoppedAt'[cur] <= out.archivedAt
        /\ (pc \in CollectSteps \cup {"report"} /\ out.released) =>
             out.archivedAt # NoTime /\ inventory'[cur] = "purged"
    BY <1>1 DEF StampOK
  <1> QED
    BY <1>1, <1>4, <1>5 DEF StampOK, StoppedForGood

\* A report that carries no new stamp says what its copy says.
LEMMA ReportStamp ==
  ASSUME TypeOK, LifecycleInv, StorageInv, pc \notin {"idle", "pick"},
         NEW status, NEW forced, ReportWith(status, forced),
         status.archivedAt = list[cur].archivedAt,
         status.released = list[cur].released,
         HasPod(cur)' => HasPod(cur) \/ Startable(list[cur]),
         UNCHANGED <<stoppedAt, inventory>>
  PROVE  StampOK'
  <1>1. /\ pc' = "report" /\ out' = status /\ UNCHANGED <<cur, list>>
        /\ cur \in Workspaces /\ cur \in Pending
    BY DEF ReportWith, Pending, TypeOK, ControllerTypeOK
  <1>2. RetentionOK(cur)
    BY <1>1 DEF StorageInv
  <1>3. list[cur].archivedAt # NoTime =>
          /\ StoppedForGood(list[cur]) /\ ~HasPod(cur)
          /\ stoppedAt[cur] <= list[cur].archivedAt
    BY <1>1, <1>2 DEF RetentionOK
  <1>4. list[cur].released =>
          list[cur].archivedAt # NoTime /\ inventory[cur] = "purged"
    BY <1>1, <1>2 DEF RetentionOK
  <1> QED
    BY <1>1, <1>3, <1>4 DEF StampOK, CollectSteps, StoppedForGood, Startable


LEMMA SayStamp ==
  ASSUME TypeOK, LifecycleInv, StorageInv, pc \notin {"idle", "pick"},
         NEW phase, NEW why, Say(phase, why),
         HasPod(cur)' => HasPod(cur) \/ Startable(list[cur]),
         UNCHANGED <<stoppedAt, inventory>>
  PROVE  StampOK'
  <1> DEFINE status == Reported(phase, why)
  <1>1. /\ status.archivedAt = list[cur].archivedAt
        /\ status.released = list[cur].released
    BY DEF Reported, workspace, TypeOK, ControllerTypeOK, Record
  <1>2. ReportWith(status, FALSE)
    BY DEF Say
  <1> HIDE DEF status
  <1> QED
    BY <1>1, <1>2, ReportStamp

\* A move to any other place of the loop leaves nothing to know.
LEMMA PassStamp ==
  ASSUME pc' \notin CollectSteps \cup {"report"} PROVE StampOK'
  BY DEF StampOK, CollectSteps

\* The calls of reconcile() up to the settled stop, and those that start compute.
LEMMA CallStamp ==
  ASSUME TypeOK, LifecycleInv, StorageInv,
         \/ Stop \/ Snapshot \/ Teardown \/ AwaitTeardown \/ DeletePod
         \/ ReplacePod \/ AwaitReader \/ DeleteRuntime
         \/ Start \/ Capacity \/ Credentials \/ EnsureClaim \/ EnsureService
  PROVE  StampOK'
  <1>1. pc \notin {"idle", "pick"} /\ UNCHANGED stoppedAt
    BY DEF Stop, Snapshot, Teardown, AwaitTeardown, DeletePod, ReplacePod,
       RequestPodDeletion, AwaitReader, DeleteRuntime, Start, Capacity, Credentials,
       EnsureClaim, EnsureService, clusterVars
  <1>2. ASSUME NEW s \in Steps \ (CollectSteps \cup {"report"}), Goto(s)
        PROVE  StampOK'
    BY <1>2, PassStamp DEF Goto
  <1>3. ASSUME Done \/ Throw PROVE StampOK'
    BY <1>3, PassStamp DEF Done, Throw, Return, CollectSteps
  <1>4. ASSUME NEW phase, NEW why, Say(phase, why), UNCHANGED inventory,
               HasPod(cur)' => HasPod(cur)
        PROVE  StampOK'
    BY <1>1, <1>4, SayStamp
  <1>5. CASE Stop
    <2>1. UNCHANGED <<inventory, pod, cur>>
      BY <1>5 DEF Stop, clusterVars, Say, ReportWith, Goto
    <2> QED
      BY <1>2, <1>4, <1>5, <2>1
      DEF Stop, clusterVars, Steps, CollectSteps, HasPod, Say, ReportWith
  <1>6. CASE Snapshot
    <2>1. \/ \E s \in {"teardown", "deletePod"} : Goto(s)
          \/ UNCHANGED <<inventory, pod, cur>> /\ \E why : Say("Failed", why)
      BY <1>6 DEF Snapshot, Say, ReportWith
    <2> QED
      BY <1>2, <1>4, <2>1 DEF Steps, CollectSteps, HasPod
  <1>7. CASE Teardown \/ AwaitTeardown
    <2>1. UNCHANGED <<inventory, pod, cur>>
      BY <1>7 DEF Teardown, AwaitTeardown, TornDown, Say, ReportWith, Goto, clusterVars
    <2>2. ASSUME TornDown PROVE StampOK'
      <3> DEFINE status == [Reported("Pending", "tornDown") EXCEPT !.teardown = TRUE]
      <3>1. /\ status.archivedAt = list[cur].archivedAt
            /\ status.released = list[cur].released
        BY DEF Reported, workspace, TypeOK, ControllerTypeOK, Record
      <3>2. ReportWith(status, TRUE)
        BY <2>2 DEF TornDown
      <3> HIDE DEF status
      <3> QED
        BY <1>1, <2>1, <3>1, <3>2, ReportStamp DEF HasPod
    <2> QED
      BY <1>2, <1>4, <1>7, <2>1, <2>2
      DEF Teardown, AwaitTeardown, Steps, CollectSteps, HasPod
  <1>8. CASE DeletePod \/ ReplacePod
    <2>1. PICK why : RequestPodDeletion(why)
      BY <1>8 DEF DeletePod, ReplacePod
    <2>2. HasPod(cur)' => HasPod(cur)
      BY <2>1 DEF RequestPodDeletion, HasPod, Say, ReportWith, Throw, Return
    <2> QED
      BY <1>3, <1>4, <2>1, <2>2 DEF RequestPodDeletion
  <1>9. CASE AwaitReader \/ DeleteRuntime
    <2>1. /\ UNCHANGED <<inventory, pod, cur>>
          /\ \/ \E s \in {"runtime", "settle"} : Goto(s)
             \/ Done
             \/ \E why : Say("Pending", why)
      BY <1>9 DEF AwaitReader, DeleteRuntime, clusterVars, Goto, Done, Return, Say,
         ReportWith
    <2> QED
      BY <1>2, <1>3, <1>4, <2>1 DEF Steps, CollectSteps, HasPod
  <1>10. CASE Start \/ Capacity \/ Credentials \/ EnsureClaim \/ EnsureService
    <2>1. /\ UNCHANGED <<inventory, pod, cur>>
          /\ \/ \E s \in StartSteps : Goto(s)
             \/ Throw
             \/ \E phase, why : Say(phase, why)
      BY <1>10 DEF Start, Capacity, Credentials, EnsureClaim, EnsureService,
         clusterVars, Goto, Throw, Return, Say, ReportWith, StartSteps
    <2> QED
      BY <1>2, <1>3, <1>4, <2>1 DEF Steps, StartSteps, CollectSteps, HasPod
  <1> QED
    BY <1>5, <1>6, <1>7, <1>8, <1>9, <1>10
\* EnsurePod starts compute only for a copy that is not stopped for good.
LEMMA EnsurePodStamp ==
  ASSUME TypeOK, LifecycleInv, StorageInv, EnsurePod PROVE StampOK'
  <1>1. /\ pc = "ensurePod" /\ UNCHANGED <<stoppedAt, inventory>>
        /\ Startable(list[cur])
    BY DEF EnsurePod, LifecycleInv, StepsInv, StartSteps
  <1>2. ASSUME NEW phase, NEW why, Say(phase, why) PROVE StampOK'
    BY <1>1, <1>2, SayStamp
  <1>3. ASSUME Goto("replacePod") PROVE StampOK'
    BY <1>3, PassStamp DEF Goto, CollectSteps
  <1>4. ASSUME ReportDiagnostic(pod[cur]) PROVE StampOK'
    <2>1. PICK phase, why, d, forced :
            ReportWith([Reported(phase, why) EXCEPT !.failure = d], forced)
      BY <1>4 DEF ReportDiagnostic
    <2> DEFINE status == [Reported(phase, why) EXCEPT !.failure = d]
    <2>2. /\ status.archivedAt = list[cur].archivedAt
          /\ status.released = list[cur].released
      BY DEF Reported, workspace, TypeOK, ControllerTypeOK, Record
    <2>3. ReportWith(status, forced)
      BY <2>1
    <2> HIDE DEF status
    <2> QED
      BY <1>1, <2>2, <2>3, ReportStamp
  <1> QED
    BY <1>2, <1>3, <1>4 DEF EnsurePod, CreatePod, ObservePod

\* Compute is stopped, for good if the workspace is Archived: the stamp is no
\* earlier than the last Pod, and collection waits for the period after it.
LEMMA SettleStamp ==
  ASSUME TypeOK, LifecycleInv, StorageInv, Settle PROVE StampOK'
  <1>1. /\ cur \in Workspaces /\ cur \in Pending /\ list[cur] \in Record
        /\ now \in Nat /\ workspace = list[cur]
        /\ UNCHANGED clusterVars /\ pc = "settle"
    BY DEF Settle, Pending, workspace, TypeOK, ControllerTypeOK, HistoryTypeOK
  <1>2. RetentionOK(cur)
    BY <1>1 DEF StorageInv
  <1>3. ~HasPod(cur) /\ (list[cur].res = "Archived" => StoppedForGood(list[cur]))
    BY <1>1 DEF LifecycleInv, StepsInv, StoppedSteps, StoppedForGood
  <1>4. /\ ArchivedAt \in Nat /\ stoppedAt[cur] <= ArchivedAt
        /\ list[cur].archivedAt # NoTime => ArchivedAt = list[cur].archivedAt
        /\ list[cur].archivedAt = NoTime => ArchivedAt = now
    BY <1>1, <1>2 DEF ArchivedAt, RetentionOK, Record
  <1>5. NoTime \notin Nat
    BY ConstantsAssumption
  <1>6. CASE RetentionExpired
    <2>1. /\ pc' = "claim" /\ UNCHANGED <<cur, list>>
          /\ out' = [Reported("Archived", "awaitClaim") EXCEPT !.archivedAt = ArchivedAt]
      BY <1>6 DEF Settle
    <2>2. out'.archivedAt = ArchivedAt /\ out'.released = list[cur].released
      BY <1>1, <2>1 DEF Reported, Record
    <2>3. /\ list[cur].res = "Archived" /\ ~list[cur].released
          /\ Ttl[cur] # NoTime /\ now >= ArchivedAt + Ttl[cur]
      BY <1>1, <1>6 DEF RetentionExpired
    <2> QED
      BY <1>1, <1>3, <1>4, <1>5, <2>1, <2>2, <2>3
      DEF StampOK, CollectSteps, StoppedForGood, HasPod, clusterVars
  <1>7. CASE ~RetentionExpired
    <2>1. ASSUME NEW phase, NEW why, Say(phase, why) PROVE StampOK'
      BY <1>1, <2>1, SayStamp DEF clusterVars, HasPod, Say, ReportWith
    <2>2. ASSUME NEW why, list[cur].res = "Archived", list[cur].archivedAt = NoTime,
                 ReportWith([Reported("Archived", why) EXCEPT !.archivedAt = now], TRUE)
          PROVE  StampOK'
      <3>1. /\ pc' = "report" /\ UNCHANGED <<cur, list>>
            /\ out' = [Reported("Archived", why) EXCEPT !.archivedAt = now]
        BY <2>2 DEF ReportWith
      <3>2. out'.archivedAt = now /\ out'.released = list[cur].released
        BY <1>1, <3>1 DEF Reported, Record
      <3>3. ~list[cur].released
        BY <1>1, <1>2, <2>2 DEF RetentionOK
      <3> QED
        BY <1>1, <1>3, <1>4, <1>5, <2>2, <3>1, <3>2, <3>3
        DEF StampOK, CollectSteps, StoppedForGood, HasPod, clusterVars
    <2> QED
      BY <1>1, <1>7, <2>1, <2>2 DEF Settle
  <1> QED
    BY <1>6, <1>7

\* From the read of the claim to the purge of the inventory.
LEMMA CollectStamp ==
  ASSUME TypeOK, LifecycleInv, StorageInv,
         ReadClaim \/ DeleteClaim \/ CheckClaim \/ PurgeInventory
  PROVE  StampOK'
  <1>1. /\ pc \in CollectSteps /\ UNCHANGED <<pod, stoppedAt, now>>
        /\ cur \in Workspaces /\ StampOK /\ out \in Record
    BY DEF ReadClaim, DeleteClaim, CheckClaim, PurgeInventory, CollectSteps,
       StorageInv, TypeOK, ControllerTypeOK, clusterVars
  <1>2. CASE Throw
    BY <1>2, PassStamp DEF Throw, Return, CollectSteps
  <1>3. ASSUME NEW s \in CollectSteps, Goto(s), UNCHANGED inventory,
               s = "purge" => claim'[cur] = "None"
        PROVE  StampOK'
    BY <1>1, <1>3 DEF Goto, StampOK, StoppedForGood, HasPod, CollectSteps
  <1>4. CASE ReadClaim \/ DeleteClaim
    BY <1>2, <1>3, <1>4 DEF ReadClaim, DeleteClaim, CollectSteps, clusterVars
  <1>5. CASE CheckClaim
    <2>1. CASE ReportWith(out, TRUE)
      BY <1>1, <1>5, <2>1
      DEF CheckClaim, ReportWith, StampOK, StoppedForGood, HasPod, CollectSteps,
          clusterVars
    <2> QED
      BY <1>3, <1>5, <2>1 DEF CheckClaim, CollectSteps, clusterVars
  <1>6. CASE PurgeInventory
    <2>1. /\ pc' = "report" /\ UNCHANGED <<cur, list>>
          /\ out' = [out EXCEPT !.why = "released", !.released = TRUE]
          /\ inventory'[cur] = "purged"
      BY <1>1, <1>6 DEF PurgeInventory, ReportWith, TypeOK, ObjectsTypeOK
    <2>2. out'.archivedAt = out.archivedAt
      BY <1>1, <2>1 DEF Record
    <2> QED
      BY <1>1, <2>1, <2>2 DEF StampOK, StoppedForGood, HasPod, CollectSteps
  <1> QED
    BY <1>4, <1>5, <1>6

\* Steps of the cluster under the collection.
LEMMA ClusterStamp ==
  ASSUME TypeOK, TypeOK', StorageInv, UNCHANGED controllerVars, NEW v \in Workspaces,
         UserStep(v) \/ ClusterStep(v) \/ ReaderRequest(v) \/ Tick \/ ArchiveNext(v)
  PROVE  StampOK'
  <1>1. cur \in Workspaces /\ RetentionOK(cur) /\ UNCHANGED <<pc, cur, out, list>>
    BY DEF TypeOK, ControllerTypeOK, StorageInv, controllerVars
  <1>2. CASE UserStep(v) \/ ReaderRequest(v) \/ HooksSucceed(v) \/ HooksFail(v) \/ Tick
    <2>1. UNCHANGED <<pod, claim, inventory, stoppedAt>> /\ now' \in {now, now + 1}
      BY <1>2 DEF UserStep, SetResidency, ReaderRequest, ReaderVerify, ReaderCreate,
         ReaderDelete, ReaderGone, ReaderStep, HooksSucceed, HooksFail, Tick
    <2> QED
      BY <1>1, <2>1, StampFrame DEF HasPod
  <1>3. CASE ArchiveNext(v)
    <2>1. /\ UNCHANGED <<pod, claim, stoppedAt, now>>
          /\ \/ inventory' = inventory
             \/ CanExec(v) /\ inventory' = [inventory EXCEPT ![v] = "kept"]
      BY <1>3 DEF ArchiveNext, ArchiveBegin, ArchiveResume, ArchiveReady,
         ArchiveSnapshot, ArchiveTeardown, ArchiveAwait, ArchiveUndo, ArchiveMark,
         ArchiveRecheck, ArchiveCommit, clusterVars
    <2>2. ~HasPod(cur) => inventory'[cur] = inventory[cur]
      BY <1>1, <2>1 DEF CanExec, HasPod, TypeOK, ObjectsTypeOK
    <2> QED
      BY <1>1, <2>1, <2>2, StampFrame DEF HasPod
  <1>4. CASE \/ PodBecomesReady(v) \/ PodWaits(v) \/ PodBecomesUnready(v)
             \/ PodEvicted(v) \/ PodDeletedElsewhere(v)
    <2>1. HasPod(cur)' = HasPod(cur)
      BY <1>1, <1>4, PodStays
    <2>2. UNCHANGED <<claim, inventory, stoppedAt, now>>
      BY <1>4 DEF PodBecomesReady, PodWaits, PodBecomesUnready, PodEvicted,
         PodDeletedElsewhere, ChangePod
    <2> QED
      BY <1>1, <2>1, <2>2, StampFrame
  <1>5. CASE PodGone(v)
    <2>1. UNCHANGED <<claim, inventory, now>> /\ (~HasPod(cur) => v # cur)
      BY <1>1, <1>5 DEF PodGone, RetentionOK
    <2>2. /\ HasPod(cur)' => HasPod(cur)
          /\ ~HasPod(cur) => stoppedAt'[cur] = stoppedAt[cur]
      BY <1>1, <1>5, <2>1
      DEF PodGone, HasPod, NoPod, TypeOK, ObjectsTypeOK, HistoryTypeOK
    <2> QED
      BY <1>1, <2>1, <2>2, StampFrame
  <1>6. CASE ClaimGone(v) \/ ForeignClaimAppears(v)
    <2>1. /\ UNCHANGED <<pod, inventory, stoppedAt, now>>
          /\ claim'[cur] = claim[cur] \/ claim'[cur] \in {"None", "Foreign"}
      BY <1>1, <1>6 DEF ClaimGone, ForeignClaimAppears, TypeOK, ObjectsTypeOK
    <2> QED
      BY <1>1, <2>1, StampFrame DEF HasPod
  <1> QED
    BY <1>2, <1>3, <1>4, <1>5, <1>6 DEF ClusterStep

LEMMA StampStep ==
  ASSUME TypeOK, LifecycleInv, TypeOK', StorageInv, [Next]_vars PROVE StampOK'
  <1>1. CASE LoopStep
    BY <1>1, PassStamp
    DEF LoopStep, BeginPass, EndPass, Goto, Pick, SkipBackoff, CollectSteps
  <1>2. CASE StoreCallFails \/ Report
    BY <1>2, PassStamp DEF StoreCallFails, Report, Done, Throw, Return, CollectSteps
  <1>3. CASE ControllerNext
    BY <1>1, <1>2, <1>3, CallStamp, EnsurePodStamp, SettleStamp, CollectStamp
    DEF ControllerNext, LoopStep
  <1>4. ASSUME NEW v \in Workspaces, UNCHANGED controllerVars,
               \/ UserStep(v) \/ ClusterStep(v) \/ ReaderRequest(v) \/ Tick
               \/ ArchiveNext(v)
        PROVE  StampOK'
    BY <1>4, ClusterStamp
  <1>5. CASE GatewayRestart
    BY <1>5, PassStamp DEF GatewayRestart, CollectSteps
  <1>6. ASSUME \/ \E v \in Workspaces : BackoffExpires(v)
               \/ UNCHANGED vars
        PROVE  StampOK'
    <2>1. UNCHANGED <<pc, cur, out, list, now, pod, stoppedAt, inventory, claim>>
      BY <1>6 DEF BackoffExpires, vars, controllerVars, clusterVars
    <2> QED
      BY <2>1, StampFrame DEF HasPod
  <1>7. PICK v : v \in Workspaces
    BY ConstantsAssumption
  <1> QED
    BY <1>3, <1>4, <1>5, <1>6, <1>7 DEF Next
-----------------------------------------------------------------------------
(* Pods of ephemeral workspaces, and the volumes under deletion.            *)

\* Only stop() and beforeArchive or beforeSuspend lead to a deletion, and
\* EnsurePod replaces the Pods of retained workspaces only.
LEMMA PodDeletionStep ==
  ASSUME TypeOK, LifecycleInv, StorageInv, [Next]_vars PROVE PodDeletionOK'
  <1>1. PodDeletionOK
    BY DEF StorageInv
  <1>2. ASSUME pc' \notin {"snapshot", "deletePod", "replacePod"} PROVE PodDeletionOK'
    BY <1>2 DEF PodDeletionOK
  <1>3. CASE Stop
    <2>1. UNCHANGED <<cur, list>> /\ list[cur].res # "Running"
      BY <1>3 DEF Stop, Say, ReportWith, Goto, LifecycleInv, StepsInv
    <2>2. list[cur].res \in Residency
      BY DEF TypeOK, ControllerTypeOK, Record
    <2>3. CASE SuspendRefused
      BY <1>2, <1>3, <2>3 DEF Stop, SuspendRefused, workspace, Say, ReportWith
    <2>4. CASE cur \notin Ephemeral
      BY <2>1, <2>4 DEF PodDeletionOK
    <2>5. CASE cur \in Ephemeral /\ ~SuspendRefused
      <3>1. list[cur].res = "Archived"
        BY <2>1, <2>2, <2>5 DEF SuspendRefused, workspace, Residency
      <3>2. pc' = "deletePod" => list[cur].teardown
        BY <1>3, <3>1 DEF Stop, workspace, Say, ReportWith, Goto
      <3>3. pc' # "replacePod"
        BY <1>3 DEF Stop, Say, ReportWith, Goto
      <3> QED
        BY <2>1, <3>1, <3>2, <3>3 DEF PodDeletionOK
    <2> QED
      BY <2>3, <2>4, <2>5
  <1>4. CASE Snapshot
    BY <1>1, <1>4 DEF Snapshot, PodDeletionOK, workspace, Say, ReportWith, Goto
  <1>5. CASE EnsurePod
    BY <1>5 DEF EnsurePod, CreatePod, ObservePod, ReportDiagnostic, PodDeletionOK, Say,
       ReportWith, Goto
  <1>6. CASE ControllerNext /\ ~Stop /\ ~Snapshot /\ ~EnsurePod
    <2>1. CASE LoopStep \/ StoreCallFails \/ Report
      BY <1>2, <2>1
      DEF LoopStep, BeginPass, EndPass, Pick, SkipBackoff, StoreCallFails, Report,
          Goto, Done, Throw, Return
    <2>2. CASE \/ Teardown \/ AwaitTeardown \/ DeletePod \/ ReplacePod \/ AwaitReader
               \/ DeleteRuntime
      BY <1>2, <2>2
      DEF Teardown, AwaitTeardown, TornDown, DeletePod, ReplacePod,
          RequestPodDeletion, AwaitReader, DeleteRuntime, Goto, Done, Throw, Return,
          Say, ReportWith
    <2>3. CASE Settle \/ ReadClaim \/ DeleteClaim \/ CheckClaim \/ PurgeInventory
      BY <1>2, <2>3
      DEF Settle, ReadClaim, DeleteClaim, CheckClaim, PurgeInventory, Goto, Throw,
          Return, Say, ReportWith
    <2>4. CASE Start \/ Capacity \/ Credentials \/ EnsureClaim \/ EnsureService
      BY <1>2, <2>4
      DEF Start, Capacity, Credentials, EnsureClaim, EnsureService, Goto, Throw,
          Return, Say, ReportWith
    <2> QED
      BY <1>6, <2>1, <2>2, <2>3, <2>4 DEF ControllerNext, LoopStep
  <1>7. CASE GatewayRestart
    BY <1>2, <1>7 DEF GatewayRestart
  <1>8. CASE UNCHANGED <<pc, cur, list>>
    BY <1>1, <1>8 DEF PodDeletionOK
  <1> QED
    BY <1>3, <1>4, <1>5, <1>6, <1>7, <1>8
    DEF Next, BackoffExpires, vars, controllerVars

\* The steps that may change a claim.
LEMMA ClaimSteps ==
  ASSUME [Next]_vars, ~DeleteClaim, ~EnsureClaim,
         \A v \in Workspaces : ~ClaimGone(v) /\ ~ForeignClaimAppears(v)
  PROVE  claim' = claim
  <1>1. CASE ControllerNext
    BY <1>1 DEF ControllerNext, BeginPass, EndPass, StoreCallFails, Pick, SkipBackoff,
       Report, Stop, Snapshot, Teardown, AwaitTeardown, DeletePod, ReplacePod,
       RequestPodDeletion, AwaitReader, DeleteRuntime, Settle, ReadClaim, CheckClaim,
       PurgeInventory, Start, Capacity, Credentials, EnsureService, EnsurePod,
       clusterVars
  <1>2. ASSUME NEW v \in Workspaces, ArchiveNext(v) PROVE claim' = claim
    BY <1>2 DEF ArchiveNext, ArchiveBegin, ArchiveResume, ArchiveReady,
       ArchiveSnapshot, ArchiveTeardown, ArchiveAwait, ArchiveUndo, ArchiveMark,
       ArchiveRecheck, ArchiveCommit, clusterVars
  <1>3. ASSUME NEW v \in Workspaces,
               UserStep(v) \/ ReaderRequest(v) \/ BackoffExpires(v) \/ ClusterStep(v)
        PROVE  claim' = claim
    BY <1>3 DEF UserStep, SetResidency, ReaderRequest, ReaderVerify, ReaderCreate,
       ReaderDelete, ReaderGone, ReaderStep, BackoffExpires, clusterVars, ClusterStep,
       PodBecomesReady, PodWaits, PodBecomesUnready, PodEvicted, PodDeletedElsewhere,
       PodGone, ChangePod, HooksSucceed, HooksFail
  <1>4. CASE Tick \/ GatewayRestart \/ UNCHANGED vars
    BY <1>4 DEF Tick, GatewayRestart, vars, clusterVars
  <1> QED
    BY <1>1, <1>2, <1>3, <1>4 DEF Next

\* A claim in deletion was in deletion before, or its deletion is requested now.
LEMMA DeletingStep ==
  ASSUME TypeOK, [Next]_vars, NEW w \in Workspaces, claim'[w] = "Deleting",
         claim[w] # "Deleting"
  PROVE  w = cur /\ DeleteClaim
  <1>1. ASSUME NEW v \in Workspaces, ClaimGone(v) \/ ForeignClaimAppears(v)
        PROVE  FALSE
    BY <1>1 DEF ClaimGone, ForeignClaimAppears, TypeOK, ObjectsTypeOK
  <1>2. ~EnsureClaim
    BY DEF EnsureClaim, TypeOK, ObjectsTypeOK
  <1>3. DeleteClaim
    BY <1>1, <1>2, ClaimSteps
  <1> QED
    BY <1>3 DEF DeleteClaim, TypeOK, ObjectsTypeOK

\* When the last Pod of a workspace was seen is known once for all while its
\* volume is being deleted, and the clock does not go back.
LEMMA StopTimeStep ==
  ASSUME TypeOK, StorageInv, [Next]_vars, NEW w \in Workspaces, ~HasPod(w)
  PROVE  stoppedAt'[w] = stoppedAt[w] /\ now' \in {now, now + 1}
  <1>1. ASSUME NEW v \in Workspaces, PodGone(v)
        PROVE  stoppedAt'[w] = stoppedAt[w] /\ now' = now
    <2>1. v # w
      BY <1>1 DEF PodGone, StorageInv, RetentionOK
    <2> QED
      BY <1>1, <2>1 DEF PodGone, TypeOK, HistoryTypeOK
  <1>2. CASE ControllerNext
    BY <1>2 DEF ControllerNext, BeginPass, EndPass, StoreCallFails, Pick, SkipBackoff,
       Report, Stop, Snapshot, Teardown, AwaitTeardown, DeletePod, ReplacePod,
       RequestPodDeletion, AwaitReader, DeleteRuntime, Settle, ReadClaim, CheckClaim,
       DeleteClaim, PurgeInventory, Start, Capacity, Credentials, EnsureClaim,
       EnsureService, EnsurePod, clusterVars
  <1>3. ASSUME NEW v \in Workspaces, ArchiveNext(v)
        PROVE  UNCHANGED <<stoppedAt, now>>
    BY <1>3 DEF ArchiveNext, ArchiveBegin, ArchiveResume, ArchiveReady,
       ArchiveSnapshot, ArchiveTeardown, ArchiveAwait, ArchiveUndo, ArchiveMark,
       ArchiveRecheck, ArchiveCommit, clusterVars
  <1>4. ASSUME NEW v \in Workspaces, ~PodGone(v),
               UserStep(v) \/ ReaderRequest(v) \/ BackoffExpires(v) \/ ClusterStep(v)
        PROVE  UNCHANGED <<stoppedAt, now>>
    BY <1>4 DEF UserStep, SetResidency, ReaderRequest, ReaderVerify, ReaderCreate,
       ReaderDelete, ReaderGone, ReaderStep, BackoffExpires, clusterVars, ClusterStep,
       PodBecomesReady, PodWaits, PodBecomesUnready, PodEvicted, PodDeletedElsewhere,
       ChangePod, HooksSucceed, HooksFail, ClaimGone, ForeignClaimAppears
  <1>5. CASE Tick \/ GatewayRestart \/ UNCHANGED vars
    BY <1>5 DEF Tick, GatewayRestart, vars, clusterVars
  <1> QED
    BY <1>1, <1>2, <1>3, <1>4, <1>5 DEF Next

\* DeleteClaim requests a deletion only after the period, and the period stays
\* over.
LEMMA HonouredStep ==
  ASSUME TypeOK, LifecycleInv, TypeOK', StorageInv, [Next]_vars
  PROVE  RetentionHonoured'
  <1> SUFFICES ASSUME NEW w \in Workspaces, claim'[w] = "Deleting"
               PROVE  Ttl[w] # NoTime /\ now' >= stoppedAt'[w] + Ttl[w]
    BY DEF RetentionHonoured
  <1>1. /\ now \in Nat /\ stoppedAt[w] \in Nat /\ Ttl[w] \in Nat \cup {NoTime}
    BY ConstantsAssumption DEF TypeOK, HistoryTypeOK
  <1>2. CASE claim[w] = "Deleting"
    <2>1. ~HasPod(w) /\ Ttl[w] # NoTime /\ now >= stoppedAt[w] + Ttl[w]
      BY <1>2 DEF LifecycleInv, ReleaseOnlyAfterTeardown, StorageInv, RetentionHonoured
    <2>2. stoppedAt'[w] = stoppedAt[w] /\ now' \in {now, now + 1}
      BY <2>1, StopTimeStep
    <2> QED
      BY <1>1, <2>1, <2>2
  <1>3. CASE claim[w] # "Deleting"
    <2>1. w = cur /\ DeleteClaim
      BY <1>3, DeletingStep
    <2>2. /\ Ttl[w] # NoTime /\ out.archivedAt # NoTime
          /\ now >= out.archivedAt + Ttl[w] /\ stoppedAt[w] <= out.archivedAt
      BY <2>1 DEF DeleteClaim, StorageInv, StampOK, CollectSteps
    <2>3. out.archivedAt \in Nat
      BY <2>2 DEF TypeOK, ControllerTypeOK, Record
    <2>4. UNCHANGED <<now, stoppedAt>>
      BY <2>1 DEF DeleteClaim
    <2> QED
      BY <1>1, <2>2, <2>3, <2>4
  <1> QED
    BY <1>2, <1>3

-----------------------------------------------------------------------------
(* The theorems about storage.                                              *)

LEMMA StorageStep ==
  ASSUME TypeOK, LifecycleInv, StorageInv, [Next]_vars PROVE StorageInv'
  <1>1. TypeOK' /\ LifecycleInv' /\ StatusKept
    BY TypeStep, LifecycleStep, StatusStep DEF LifecycleInv
  <1> QED
    BY <1>1, RetentionStep, StampStep, PodDeletionStep, HonouredStep DEF StorageInv

\* What the records, the copies and the report in preparation say of retention
\* and release holds in every reachable state.
THEOREM StorageInductive == Spec => [](TypeOK /\ LifecycleInv /\ StorageInv)
  <1>1. Init => TypeOK /\ LifecycleInv /\ StorageInv
    BY TypeInit, LifecycleInit, StorageInit
  <1>2. TypeOK /\ LifecycleInv /\ StorageInv /\ [Next]_vars
          => TypeOK' /\ LifecycleInv' /\ StorageInv'
    BY TypeStep, LifecycleStep, StorageStep DEF LifecycleInv
  <1> QED
    BY <1>1, <1>2, PTL DEF Spec

\* stop() stamps archivedAt when compute has ended and deleteStorage() waits for
\* ttlAfterArchivedSeconds after it: no volume is collected earlier than that
\* after the last Pod that mounted it.
THEOREM RetentionIsKept == Spec => []RetentionHonoured
  <1>1. TypeOK /\ LifecycleInv /\ StorageInv => RetentionHonoured
    BY DEF StorageInv
  <1> QED
    BY <1>1, StorageInductive, PTL

\* storageDeletedAt is recorded, and the cached inventory purged, only when the
\* claim of the workspace is gone, and no later pass claims storage again.
THEOREM ReleaseIsReal == Spec => []ReleasedMeansGone
  <1>1. TypeOK /\ LifecycleInv /\ StorageInv => ReleasedMeansGone
    BY DEF StorageInv, RetentionOK, ReleasedMeansGone
  <1> QED
    BY <1>1, StorageInductive, PTL

\* ensure() adopts and deleteStorage() deletes no claim of another owner.
THEOREM ForeignClaimsStay == Spec => ForeignClaimUntouched
  <1>1. TypeOK /\ [Next]_vars => ForeignClaimKept
    <2> SUFFICES ASSUME TypeOK, [Next]_vars, NEW w \in Workspaces, claim[w] = "Foreign"
                 PROVE  claim'[w] = "Foreign"
      BY DEF ForeignClaimKept
    <2>1. CASE DeleteClaim \/ EnsureClaim
      BY <2>1 DEF DeleteClaim, EnsureClaim, TypeOK, ObjectsTypeOK
    <2>2. ASSUME NEW v \in Workspaces, ClaimGone(v) \/ ForeignClaimAppears(v)
          PROVE  claim'[w] = "Foreign"
      BY <2>2 DEF ClaimGone, ForeignClaimAppears, TypeOK, ObjectsTypeOK
    <2> QED
      BY <2>1, <2>2, ClaimSteps
  <1> QED
    BY <1>1, TypeCorrect, PTL DEF Spec, ForeignClaimUntouched

\* stop() and the replacement of an ended Pod delete no Pod of an ephemeral
\* workspace, and its data with it, before the teardown is recorded.
THEOREM EphemeralPodsStopClean == Spec => EphemeralStopsAfterTeardown
  <1>1. TypeOK /\ LifecycleInv /\ StorageInv /\ [Next]_vars => EphemeralStopsClean
    <2> SUFFICES ASSUME TypeOK, LifecycleInv, StorageInv, [Next]_vars,
                        NEW w \in Ephemeral, ~pod[w].deleting, pod'[w].deleting,
                        pc' # pc
                 PROVE  rec[w].teardown
      BY DEF EphemeralStopsClean
    <2>1. w \in Workspaces
      BY ConstantsAssumption
    <2>2. CASE ReplacePod \/ DeletePod
      <3>1. w = cur /\ pc \in {"deletePod", "replacePod"}
        BY <2>1, <2>2
        DEF ReplacePod, DeletePod, RequestPodDeletion, TypeOK, ObjectsTypeOK
      <3>2. list[cur].teardown
        BY <2>2, <3>1 DEF StorageInv, PodDeletionOK
      <3>3. cur \in Pending
        BY <3>1 DEF Pending
      <3> QED
        BY <3>1, <3>2, <3>3 DEF LifecycleInv, CopiesInv, CopyOK
    <2>3. CASE EnsurePod
      BY <2>1, <2>3
      DEF EnsurePod, CreatePod, ObservePod, NewPod, TypeOK, ObjectsTypeOK
    <2>4. CASE ControllerNext /\ ~ReplacePod /\ ~DeletePod /\ ~EnsurePod
      <3>1. pod' = pod
        BY <2>4 DEF ControllerNext, BeginPass, EndPass, StoreCallFails, Pick,
           SkipBackoff, Report, Stop, Snapshot, Teardown, AwaitTeardown, AwaitReader,
           DeleteRuntime, Settle, ReadClaim, DeleteClaim, CheckClaim, PurgeInventory,
           Start, Capacity, Credentials, EnsureClaim, EnsureService, clusterVars
      <3> QED
        BY <3>1
    <2>5. CASE GatewayRestart
      BY <2>5 DEF GatewayRestart
    <2> QED
      BY <2>2, <2>3, <2>4, <2>5 DEF Next, BackoffExpires, vars, controllerVars
  <1> QED
    BY <1>1, StorageInductive, PTL DEF Spec, EphemeralStopsAfterTeardown
-----------------------------------------------------------------------------
(* Capacity.                                                                *)

LEMMA WorkspacesFinite ==
  ASSUME NEW S, S \subseteq Workspaces
  PROVE  IsFiniteSet(S) /\ Cardinality(S) \in Nat
  BY LimitsAssumption, FS_Subset, FS_CardinalityType

\* Fewer workspaces fit where more did.
LEMMA FewerFit ==
  ASSUME NEW S, S \subseteq Workspaces, Fits(S), NEW T, T \subseteq S
  PROVE  Fits(T)
  <1>1. Cardinality(T) <= Cardinality(S)
    BY WorkspacesFinite, FS_Subset
  <1>2. ASSUME NEW p \in Projects
        PROVE  Cardinality({w \in T : ProjectRef[w] = p}) <= ProjectLimit[p]
    <2> DEFINE A == {w \in T : ProjectRef[w] = p}
               B == {w \in S : ProjectRef[w] = p}
    <2>1. A \subseteq B /\ B \subseteq Workspaces /\ A \subseteq Workspaces
      OBVIOUS
    <2>2. Cardinality(B) <= ProjectLimit[p]
      BY DEF Fits
    <2> HIDE DEF A, B
    <2>3. Cardinality(A) <= Cardinality(B)
      BY <2>1, WorkspacesFinite, FS_Subset
    <2>4. Cardinality(A) <= ProjectLimit[p]
      BY <2>1, <2>2, <2>3, WorkspacesFinite, LimitsAssumption
    <2> QED
      BY <2>4 DEF A
  <1>3. Cardinality(T) <= NamespaceLimit
    BY <1>1, WorkspacesFinite, LimitsAssumption DEF Fits
  <1> QED
    BY <1>2, <1>3 DEF Fits

\* The check of the controller counts every Pod of another workspace, so that
\* one more fits when it passes.
LEMMA CapacityChecked ==
  ASSUME TypeOK, NEW S, S \subseteq Workspaces, Fits(S), \A w \in S : HasPod(w),
         ~CapacityReached
  PROVE  Fits(S \cup {cur})
  <1>1. cur \in Workspaces /\ ProjectRef[cur] \in Projects
    BY LimitsAssumption DEF TypeOK, ControllerTypeOK
  <1>2. ASSUME NEW A, NEW B, A \subseteq B \cup {cur}, B \subseteq Workspaces,
               cur \notin B, NEW n \in Nat, ~(Cardinality(B) >= n)
        PROVE  Cardinality(A) <= n
    <2>1. IsFiniteSet(B) /\ Cardinality(B) \in Nat
      BY <1>2, WorkspacesFinite
    <2>2. /\ IsFiniteSet(B \cup {cur})
          /\ Cardinality(B \cup {cur}) = Cardinality(B) + 1
      BY <1>2, <2>1, FS_AddElement
    <2>3. IsFiniteSet(A) /\ Cardinality(A) <= Cardinality(B \cup {cur})
      BY <1>2, <2>2, FS_Subset
    <2>4. Cardinality(A) \in Nat
      BY <2>3, FS_CardinalityType
    <2> QED
      BY <1>2, <2>1, <2>2, <2>3, <2>4
  <1>3. Cardinality(S \cup {cur}) <= NamespaceLimit
    <2>1. /\ S \cup {cur} \subseteq OthersWithPod \cup {cur}
          /\ OthersWithPod \subseteq Workspaces /\ cur \notin OthersWithPod
      BY DEF OthersWithPod
    <2>2. ~(Cardinality(OthersWithPod) >= NamespaceLimit)
      BY DEF CapacityReached
    <2> QED
      BY <1>2, <2>1, <2>2, LimitsAssumption
  <1>4. ASSUME NEW p \in Projects
        PROVE  Cardinality({w \in S \cup {cur} : ProjectRef[w] = p}) <= ProjectLimit[p]
    <2>1. CASE p = ProjectRef[cur]
      <3>1. /\ {w \in S \cup {cur} : ProjectRef[w] = p} \subseteq OthersInProject \cup {cur}
            /\ OthersInProject \subseteq Workspaces /\ cur \notin OthersInProject
        BY <2>1 DEF OthersInProject, OthersWithPod
      <3>2. ~(Cardinality(OthersInProject) >= ProjectLimit[p])
        BY <2>1 DEF CapacityReached
      <3>3. ProjectLimit[p] \in Nat
        BY LimitsAssumption
      <3> QED
        BY <1>2, <3>1, <3>2, <3>3
    <2>2. CASE p # ProjectRef[cur]
      <3>1. {w \in S \cup {cur} : ProjectRef[w] = p} = {w \in S : ProjectRef[w] = p}
        BY <2>2
      <3> QED
        BY <3>1 DEF Fits
    <2> QED
      BY <2>1, <2>2
  <1> QED
    BY <1>3, <1>4 DEF Fits

LEMMA CapacityInit == Init => CapacityInv
  <1> SUFFICES ASSUME Init PROVE CapacityInv
    OBVIOUS
  <1> USE DEF Init, ClusterInit, ControllerInit, ArchiveInit
  <1>1. Fits({})
    <2>1. \A p \in Projects : {w \in {} : ProjectRef[w] = p} = {}
      OBVIOUS
    <2>2. Cardinality({}) = 0
      BY FS_EmptySet
    <2> QED
      BY <2>1, <2>2, LimitsAssumption DEF Fits
  <1>2. gated = {} /\ pc = "idle" /\ \A w \in Workspaces : ~HasPod(w)
    BY DEF HasPod, NoPod
  <1> QED
    BY <1>1, <1>2 DEF CapacityInv, StartSteps

\* The places of the loop between the capacity check and the creation of the Pod.
Admitted == StartSteps \ {"start", "capacity"}

\* A step that creates no Pod, and forgets a removed one, keeps what is known.
LEMMA CapacityFrame ==
  ASSUME TypeOK, CapacityInv, gated' \subseteq gated,
         \A w \in Workspaces : HasPod(w)' => HasPod(w),
         \A w \in Workspaces : w \in gated' <=> (w \in gated /\ HasPod(w)'),
         \A w \in Workspaces : rec[w].res = "Archived" => rec'[w].res = "Archived",
         \A w \in Pending' : \/ w \in Pending /\ list'[w] = list[w]
                             \/ list'[w] = rec[w],
         pc' \in Admitted /\ list'[cur'].res = "Running" => Fits(gated' \cup {cur'})
  PROVE  CapacityInv'
  <1>1. gated \subseteq Workspaces
    BY DEF TypeOK, HistoryTypeOK
  <1>2. Fits(gated')
    BY <1>1, FewerFit DEF CapacityInv
  <1>3. \A w \in gated' : HasPod(w)'
    BY <1>1
  <1>4. \A w \in Workspaces \ gated' :
          HasPod(w)' => /\ rec'[w].res = "Archived"
                        /\ w \in Pending' => list'[w].res = "Archived"
    BY DEF CapacityInv
  <1> QED
    BY <1>2, <1>3, <1>4 DEF CapacityInv, Fits, Admitted
\* An Archived workspace stays Archived: the CRD's rule, which every writer of
\* the spec meets, and status writes leave the spec alone.
LEMMA ArchivedStays ==
  ASSUME TypeOK, [Next]_vars, NEW w \in Workspaces, rec[w].res = "Archived"
  PROVE  rec'[w].res = "Archived"
  <1>1. CASE rec' = rec
    BY <1>1
  <1>2. ASSUME NEW v \in Workspaces, NEW r, WriteResidency(v, r)
        PROVE  rec'[w].res = "Archived"
    BY <1>2 DEF WriteResidency, TypeOK, RecordsTypeOK, Record
  <1>3. ASSUME NEW v \in Workspaces, NEW h, NEW r \in Record, PutStatus(h, v, r)
        PROVE  rec'[w].res = "Archived"
    BY <1>3 DEF PutStatus, TypeOK, RecordsTypeOK, Record
  <1>4. CASE Report
    BY <1>1, <1>3, <1>4 DEF Report, TypeOK, ControllerTypeOK
  <1>5. CASE ControllerNext /\ ~Report
    BY <1>1, <1>5 DEF ControllerNext, BeginPass, EndPass, StoreCallFails, Pick,
       SkipBackoff, Stop, Snapshot, Teardown, AwaitTeardown, DeletePod, ReplacePod,
       RequestPodDeletion, AwaitReader, DeleteRuntime, Settle, ReadClaim,
       DeleteClaim, CheckClaim, PurgeInventory, Start, Capacity, Credentials,
       EnsureClaim, EnsureService, EnsurePod, clusterVars
  <1>6. ASSUME NEW v \in Workspaces, ArchiveNext(v) PROVE rec'[w].res = "Archived"
    <2>1. CASE ArchiveMark(v)
      <3>1. [rec[v] EXCEPT !.teardown = TRUE] \in Record
        BY TeardownUpdate DEF TypeOK, RecordsTypeOK
      <3> QED
        BY <1>1, <1>3, <2>1, <3>1 DEF ArchiveMark
    <2>2. CASE ArchiveResume(v) \/ ArchiveUndo(v) \/ ArchiveCommit(v)
      BY <1>1, <1>2, <2>2 DEF ArchiveResume, ArchiveUndo, ArchiveCommit
    <2> QED
      BY <1>1, <1>6, <2>1, <2>2 DEF ArchiveNext, ArchiveBegin, ArchiveReady,
         ArchiveSnapshot, ArchiveTeardown, ArchiveAwait, ArchiveRecheck, clusterVars
  <1>7. ASSUME NEW v \in Workspaces, UserStep(v) PROVE rec'[w].res = "Archived"
    BY <1>2, <1>7 DEF UserStep, SetResidency
  <1>8. ASSUME NEW v \in Workspaces,
               ClusterStep(v) \/ ReaderRequest(v) \/ BackoffExpires(v)
        PROVE  rec'[w].res = "Archived"
    BY <1>1, <1>8 DEF ClusterStep, PodBecomesReady, PodWaits, PodBecomesUnready,
       ChangePod, PodEvicted, PodDeletedElsewhere, PodGone, ClaimGone,
       ForeignClaimAppears, HooksSucceed, HooksFail, ReaderRequest, ReaderVerify,
       ReaderCreate, ReaderDelete, ReaderGone, ReaderStep, BackoffExpires, clusterVars
  <1>9. CASE Tick \/ GatewayRestart \/ UNCHANGED vars
    BY <1>1, <1>9 DEF Tick, GatewayRestart, vars, clusterVars
  <1> QED
    BY <1>4, <1>5, <1>6, <1>7, <1>8, <1>9 DEF Next

\* Only EnsurePod creates Pods, and a Pod is forgotten when it disappears.
LEMMA PodsStep ==
  ASSUME TypeOK, CapacityInv, StorageInv, [Next]_vars, ~EnsurePod
  PROVE  /\ gated' \subseteq gated
         /\ \A w \in Workspaces : HasPod(w)' => HasPod(w)
         /\ \A w \in Workspaces : w \in gated' <=> (w \in gated /\ HasPod(w)')
  <1> DEFINE Goal == /\ gated' \subseteq gated
                     /\ \A w \in Workspaces : HasPod(w)' => HasPod(w)
                     /\ \A w \in Workspaces :
                          w \in gated' <=> (w \in gated /\ HasPod(w)')
  <1>1. ASSUME gated' = gated, \A w \in Workspaces : HasPod(w)' = HasPod(w)
        PROVE  Goal
    BY <1>1 DEF CapacityInv
  <1>2. ASSUME UNCHANGED <<gated, pod>> PROVE Goal
    <2>1. \A w \in Workspaces : HasPod(w)' = HasPod(w)
      BY <1>2 DEF HasPod
    <2> QED
      BY <1>1, <1>2, <2>1
  <1>3. CASE DeletePod \/ ReplacePod
    <2>1. PICK why : RequestPodDeletion(why)
      BY <1>3 DEF DeletePod, ReplacePod
    <2>2. \A w \in Workspaces : HasPod(w)' = HasPod(w)
      BY <2>1, DeletionFrame DEF StorageInv
    <2> QED
      BY <1>1, <2>1, <2>2 DEF RequestPodDeletion
  <1>4. CASE ControllerNext /\ ~DeletePod /\ ~ReplacePod
    <2>1. UNCHANGED <<gated, pod>>
      BY <1>4 DEF ControllerNext, BeginPass, EndPass, StoreCallFails, Pick,
         SkipBackoff, Report, Stop, Snapshot, Teardown, AwaitTeardown, AwaitReader,
         DeleteRuntime, Settle, ReadClaim, DeleteClaim, CheckClaim, PurgeInventory,
         Start, Capacity, Credentials, EnsureClaim, EnsureService, clusterVars
    <2> QED
      BY <1>2, <2>1
  <1>5. ASSUME NEW v \in Workspaces, ArchiveNext(v) PROVE Goal
    <2>1. UNCHANGED <<gated, pod>>
      BY <1>5 DEF ArchiveNext, ArchiveBegin, ArchiveResume, ArchiveReady,
         ArchiveSnapshot, ArchiveTeardown, ArchiveAwait, ArchiveUndo, ArchiveMark,
         ArchiveRecheck, ArchiveCommit, clusterVars
    <2> QED
      BY <1>2, <2>1
  <1>6. ASSUME NEW v \in Workspaces,
               \/ PodBecomesReady(v) \/ PodWaits(v) \/ PodBecomesUnready(v)
               \/ PodEvicted(v) \/ PodDeletedElsewhere(v)
        PROVE  Goal
    <2>1. gated' = gated
      BY <1>6 DEF PodBecomesReady, PodWaits, PodBecomesUnready, PodEvicted,
         PodDeletedElsewhere, ChangePod
    <2>2. \A w \in Workspaces : HasPod(w)' = HasPod(w)
      BY <1>6, PodStays
    <2> QED
      BY <1>1, <2>1, <2>2
  <1>7. ASSUME NEW v \in Workspaces, PodGone(v) PROVE Goal
    BY <1>7 DEF PodGone, NoPod, HasPod, CapacityInv, TypeOK, ObjectsTypeOK
  <1>8. ASSUME NEW v \in Workspaces,
               \/ UserStep(v) \/ ReaderRequest(v) \/ BackoffExpires(v)
               \/ ClaimGone(v) \/ ForeignClaimAppears(v) \/ HooksSucceed(v)
               \/ HooksFail(v)
        PROVE  Goal
    <2>1. UNCHANGED <<gated, pod>>
      BY <1>8 DEF UserStep, SetResidency, ReaderRequest, ReaderVerify, ReaderCreate,
         ReaderDelete, ReaderGone, ReaderStep, BackoffExpires, ClaimGone,
         ForeignClaimAppears, HooksSucceed, HooksFail, clusterVars
    <2> QED
      BY <1>2, <2>1
  <1>9. CASE Tick \/ GatewayRestart \/ UNCHANGED vars
    <2>1. UNCHANGED <<gated, pod>>
      BY <1>9 DEF Tick, GatewayRestart, vars, clusterVars
    <2> QED
      BY <1>2, <2>1
  <1>10. ASSUME NEW v \in Workspaces, ClusterStep(v) PROVE Goal
    BY <1>6, <1>7, <1>8, <1>10 DEF ClusterStep
  <1> QED
    BY <1>3, <1>4, <1>5, <1>8, <1>9, <1>10 DEF Next

\* A copy in use was kept or is the record as the pass began.
LEMMA CopiesStep ==
  ASSUME TypeOK, LifecycleInv, [Next]_vars, NEW w \in Pending'
  PROVE  \/ w \in Pending /\ list'[w] = list[w]
         \/ list'[w] = rec[w]
  <1>1. CASE BeginPass
    BY <1>1 DEF BeginPass
  <1>2. CASE EndPass \/ GatewayRestart
    BY <1>2 DEF EndPass, Goto, GatewayRestart, Pending
  <1>3. CASE \E v \in Workspaces : Pick(v) \/ SkipBackoff(v)
    BY <1>3 DEF Pick, SkipBackoff, Pending, TypeOK, ControllerTypeOK
  <1>4. CASE ControllerNext
    BY <1>1, <1>2, <1>3, <1>4, CallsMove, MovesKeepCopies DEF LoopStep
  <1>5. CASE UNCHANGED <<pc, cur, left, list>>
    BY <1>5 DEF Pending
  <1> QED
    BY <1>2, <1>4, <1>5 DEF Next, BackoffExpires, vars, controllerVars

\* The loop goes on towards a Pod of a Running workspace only when its Pod fits:
\* one that had passed the check exists, or the check is passed now.
LEMMA AdmittedStep ==
  ASSUME TypeOK, LifecycleInv, StorageInv, CapacityInv, [Next]_vars, ~EnsurePod,
         pc' \in Admitted, list'[cur'].res = "Running"
  PROVE  Fits(gated' \cup {cur'})
  <1>1. gated' \subseteq gated /\ gated \subseteq Workspaces /\ cur \in Workspaces
    BY PodsStep DEF TypeOK, HistoryTypeOK, ControllerTypeOK
  <1>2. ASSUME cur' = cur, Fits(gated \cup {cur}) PROVE Fits(gated' \cup {cur'})
    BY <1>1, <1>2, FewerFit, gated' \cup {cur} \subseteq gated \cup {cur},
       gated \cup {cur} \subseteq Workspaces
  <1>3. CASE pc \in Admitted /\ UNCHANGED <<cur, list>>
    BY <1>2, <1>3 DEF CapacityInv, Admitted
  <1>4. CASE Start
    <2>1. UNCHANGED <<cur, list>> /\ HasPod(cur) /\ cur \in Pending
      BY <1>4 DEF Start, Say, ReportWith, Goto, Admitted, StartSteps, workspace, Pending
    <2>2. cur \in gated
      BY <1>1, <2>1 DEF CapacityInv
    <2>3. Fits(gated \cup {cur})
      BY <2>2, gated \cup {cur} = gated DEF CapacityInv
    <2> QED
      BY <1>2, <2>1, <2>3
  <1>5. CASE Capacity
    <2>1. cur' = cur /\ ~CapacityReached
      BY <1>5 DEF Capacity, Say, ReportWith, Goto, Admitted, StartSteps
    <2>2. Fits(gated \cup {cur})
      BY <1>1, <2>1, CapacityChecked DEF CapacityInv
    <2> QED
      BY <1>2, <2>1, <2>2
  <1>6. CASE Credentials \/ EnsureClaim \/ EnsureService
    <2>1. pc \in Admitted
      BY <1>6 DEF Credentials, EnsureClaim, EnsureService, Admitted, StartSteps
    <2>2. UNCHANGED <<cur, list>>
      BY <1>6 DEF Credentials, EnsureClaim, EnsureService, Goto, Say, ReportWith,
         Throw, Return, Admitted, StartSteps
    <2> QED
      BY <1>3, <2>1, <2>2
  <1>7. CASE LoopStep \/ StoreCallFails \/ Report
    BY <1>7 DEF LoopStep, BeginPass, EndPass, Goto, Pick, SkipBackoff, StoreCallFails,
       Report, Done, Throw, Return, Admitted, StartSteps
  <1>8. CASE \/ Stop \/ Snapshot \/ Teardown \/ AwaitTeardown \/ DeletePod \/ ReplacePod
             \/ AwaitReader \/ DeleteRuntime
    BY <1>8 DEF Stop, Snapshot, Teardown, AwaitTeardown, TornDown, DeletePod,
       ReplacePod, RequestPodDeletion, AwaitReader, DeleteRuntime, Goto, Done, Throw,
       Return, Say, ReportWith, Admitted, StartSteps
  <1>9. CASE Settle \/ ReadClaim \/ DeleteClaim \/ CheckClaim \/ PurgeInventory
    BY <1>9 DEF Settle, ReadClaim, DeleteClaim, CheckClaim, PurgeInventory, Goto,
       Throw, Return, Say, ReportWith, Admitted, StartSteps
  <1>10. CASE ControllerNext
    BY <1>4, <1>5, <1>6, <1>7, <1>8, <1>9, <1>10 DEF ControllerNext, LoopStep
  <1>11. CASE GatewayRestart
    BY <1>11 DEF GatewayRestart, Admitted, StartSteps
  <1>12. CASE UNCHANGED <<pc, cur, list>>
    BY <1>3, <1>12
  <1> QED
    BY <1>10, <1>11, <1>12 DEF Next, BackoffExpires, vars, controllerVars

LEMMA EnsurePodFits ==
  ASSUME TypeOK, LifecycleInv, LifecycleInv', CapacityInv, EnsurePod
  PROVE  CapacityInv'
  <1>1. /\ pc = "ensurePod" /\ cur \in Workspaces /\ cur \in Pending
        /\ rec' = rec /\ gated \subseteq Workspaces
        /\ Startable(list[cur])
    BY DEF EnsurePod, Pending, TypeOK, ControllerTypeOK, HistoryTypeOK, LifecycleInv,
       StepsInv, StartSteps
  <1>2. Moves
    BY CallsMove DEF ControllerNext, LoopStep, EnsurePod, BeginPass, EndPass, Pick,
       SkipBackoff
  <1>3. \A w \in Pending' : w \in Pending /\ list'[w] = list[w]
    BY <1>2, MovesKeepCopies
  <1>4. list[cur].res = "Running" => Fits(gated \cup {cur})
    BY <1>1 DEF CapacityInv, StartSteps
  <1>5. CASE CreatePod
    <2>1. /\ pc' = "report" /\ UNCHANGED <<cur, list>>
          /\ \A w \in Workspaces : HasPod(w)' <=> (HasPod(w) \/ w = cur)
          /\ gated' = IF list[cur].res = "Running" THEN gated \cup {cur} ELSE gated
      BY <1>1, <1>5 DEF CreatePod, Say, ReportWith, workspace, NewPod, HasPod, TypeOK,
         ObjectsTypeOK
    <2>2. Fits(gated')
      BY <1>4, <2>1 DEF CapacityInv
    <2>3. list[cur].res = "Archived" => rec[cur].res = "Archived"
      BY <1>1 DEF LifecycleInv, CopiesInv, CopyOK
    <2>4. list[cur].res \in {"Running", "Archived"}
      BY <1>1 DEF Startable
    <2>5. \A w \in gated' : HasPod(w)'
      BY <1>1, <2>1 DEF CapacityInv
    <2>6. \A w \in Workspaces \ gated' :
            HasPod(w)' => /\ rec'[w].res = "Archived"
                          /\ w \in Pending' => list'[w].res = "Archived"
      BY <1>1, <1>3, <2>1, <2>3, <2>4 DEF CapacityInv
    <2>7. pc' \notin StartSteps
      BY <2>1 DEF StartSteps
    <2> QED
      BY <2>2, <2>5, <2>6, <2>7 DEF CapacityInv, Fits
  <1>6. CASE ObservePod
    <2>1. UNCHANGED <<pod, gated>>
      BY <1>6 DEF ObservePod
    <2>2. pc' \in Admitted => UNCHANGED <<cur, list>>
      BY <1>6 DEF ObservePod, ReportDiagnostic, Say, ReportWith, Goto, Admitted,
         StartSteps
    <2>3. pc' \in Admitted /\ list'[cur'].res = "Running" => Fits(gated' \cup {cur'})
      BY <1>4, <2>1, <2>2 DEF Fits
    <2> QED
      BY <1>1, <1>3, <2>1, <2>3, CapacityFrame DEF CapacityInv, HasPod
  <1> QED
    BY <1>5, <1>6 DEF EnsurePod

LEMMA CapacityStep ==
  ASSUME TypeOK, LifecycleInv, LifecycleInv', StorageInv, CapacityInv, [Next]_vars
  PROVE  CapacityInv'
  <1>1. CASE EnsurePod
    BY <1>1, EnsurePodFits
  <1>2. CASE ~EnsurePod
    <2>1. \A w \in Pending' : \/ w \in Pending /\ list'[w] = list[w]
                              \/ list'[w] = rec[w]
      BY CopiesStep
    <2>2. pc' \in Admitted /\ list'[cur'].res = "Running" => Fits(gated' \cup {cur'})
      BY <1>2, AdmittedStep
    <2> QED
      BY <1>2, <2>1, <2>2, PodsStep, ArchivedStays, CapacityFrame
  <1> QED
    BY <1>1, <1>2

\* runningWorkspaces() is read once and a Pod is created several calls later,
\* while others come and go: the Pods that passed the check of
\* MAX_RUNNING_WORKSPACES and maxRunningWorkspaces still never exceed them.
THEOREM CapacityIsRespected == Spec => []GatedPodsWithinCapacity
  <1> DEFINE Inv == TypeOK /\ LifecycleInv /\ StorageInv /\ CapacityInv
  <1>1. Init => Inv
    BY TypeInit, LifecycleInit, StorageInit, CapacityInit
  <1>2. Inv /\ [Next]_vars => Inv'
    BY TypeStep, LifecycleStep, StorageStep, CapacityStep DEF LifecycleInv
  <1>3. Inv => GatedPodsWithinCapacity
    BY DEF CapacityInv, Fits, GatedPodsWithinCapacity
  <1> HIDE DEF Inv
  <1> QED
    BY <1>1, <1>2, <1>3, PTL DEF Spec
=============================================================================
