------------------------------ MODULE MCGateway ------------------------------
(***************************************************************************)
(* The components of the gateway that share no state are checked side by   *)
(* side: a behaviour picks one of them and runs it while the others stay   *)
(* at their (one) initial state, so that TLC explores the union of their   *)
(* state graphs and one run answers for all of them.  Their fairness is    *)
(* repeated here, of the component that runs.                              *)
(***************************************************************************)
EXTENDS
  CodexBroker, GitHubBroker, ProviderCatalog, ProjectRefs, RetainedHistory,
  AgentIdentity, BackendConnections, FileSubscriptions, UploadStaging,
  Downloads, PermissionChannel, HistoryReader, AgentDirectory,
  ScopedDiscovery, ProviderInterests, WorkspaceLabels, TimelineSubscription, TLC

\* Model values of the configurations.
CONSTANTS p1, p2, g1, g2, j1, j2, a1, a2, s1, s2, x1, x2, y1, y2

CONSTANT Explored      \* the components of a run

VARIABLE component     \* the one that runs

Components ==
  {"codex", "github", "probes", "refs", "history", "identity", "backends",
   "files", "uploads", "downloads", "permissions", "readers", "agents",
   "discovery", "interests", "labels", "timelines"}

ASSUME ExploredAssumption == Explored \subseteq Components

CodexRuns ==
  /\ component = "codex" /\ CodexNext
  /\ UNCHANGED <<component, gitVars, catalogVars, refVars, historyVars, idVars,
                  connVars, fileVars, uploadVars, downloadVars, permVars,
                  readerVars, directoryVars, discoveryVars, interestVars,
                  labelVars, timelineVars>>

GitRuns ==
  /\ component = "github" /\ GitNext
  /\ UNCHANGED <<component, codexVars, catalogVars, refVars, historyVars, idVars,
                  connVars, fileVars, uploadVars, downloadVars, permVars,
                  readerVars, directoryVars, discoveryVars, interestVars,
                  labelVars, timelineVars>>

CatalogRuns ==
  /\ component = "probes" /\ CatalogNext
  /\ UNCHANGED <<component, codexVars, gitVars, refVars, historyVars, idVars, connVars,
                  fileVars, uploadVars, downloadVars, permVars, readerVars,
                  directoryVars, discoveryVars, interestVars, labelVars, timelineVars>>

RefRuns ==
  /\ component = "refs" /\ RefNext
  /\ UNCHANGED <<component, codexVars, gitVars, catalogVars, historyVars, idVars,
                  connVars, fileVars, uploadVars, downloadVars, permVars,
                  readerVars, directoryVars, discoveryVars, interestVars,
                  labelVars, timelineVars>>

HistoryRuns ==
  /\ component = "history" /\ HistoryNext
  /\ UNCHANGED <<component, codexVars, gitVars, catalogVars, refVars, idVars, connVars,
                  fileVars, uploadVars, downloadVars, permVars, readerVars,
                  directoryVars, discoveryVars, interestVars, labelVars, timelineVars>>

IdentityRuns ==
  /\ component = "identity" /\ IdentityNext
  /\ UNCHANGED <<component, codexVars, gitVars, catalogVars, refVars, historyVars,
                  connVars, fileVars, uploadVars, downloadVars, permVars,
                  readerVars, directoryVars, discoveryVars, interestVars,
                  labelVars, timelineVars>>

ConnRuns ==
  /\ component = "backends" /\ ConnNext
  /\ UNCHANGED <<component, codexVars, gitVars, catalogVars, refVars, historyVars,
                  idVars, fileVars, uploadVars, downloadVars, permVars,
                  readerVars, directoryVars, discoveryVars, interestVars,
                  labelVars, timelineVars>>

FileRuns ==
  /\ component = "files" /\ FileNext
  /\ UNCHANGED <<component, codexVars, gitVars, catalogVars, refVars, historyVars,
                  idVars, connVars, uploadVars, downloadVars, permVars,
                  readerVars, directoryVars, discoveryVars, interestVars,
                  labelVars, timelineVars>>

UploadRuns ==
  /\ component = "uploads" /\ UploadNext
  /\ UNCHANGED <<component, codexVars, gitVars, catalogVars, refVars, historyVars,
                  idVars, connVars, fileVars, downloadVars, permVars,
                  readerVars, directoryVars, discoveryVars, interestVars,
                  labelVars, timelineVars>>

DownloadRuns ==
  /\ component = "downloads" /\ DownloadNext
  /\ UNCHANGED <<component, codexVars, gitVars, catalogVars, refVars, historyVars,
                  idVars, connVars, fileVars, uploadVars, permVars,
                  readerVars, directoryVars, discoveryVars, interestVars,
                  labelVars, timelineVars>>

PermRuns ==
  /\ component = "permissions" /\ PermNext
  /\ UNCHANGED <<component, codexVars, gitVars, catalogVars, refVars, historyVars,
                  idVars, connVars, fileVars, uploadVars, downloadVars,
                  readerVars, directoryVars, discoveryVars, interestVars,
                  labelVars, timelineVars>>

ReaderRuns ==
  /\ component = "readers" /\ ReaderNext
  /\ UNCHANGED <<component, codexVars, gitVars, catalogVars, refVars, historyVars,
                  idVars, connVars, fileVars, uploadVars, downloadVars,
                  permVars, directoryVars, discoveryVars, interestVars,
                  labelVars, timelineVars>>

DirectoryRuns ==
  /\ component = "agents" /\ DirectoryNext
  /\ UNCHANGED <<component, codexVars, gitVars, catalogVars, refVars, historyVars,
                  idVars, connVars, fileVars, uploadVars, downloadVars,
                  permVars, readerVars, discoveryVars, interestVars, labelVars, timelineVars>>

DiscoveryRuns ==
  /\ component = "discovery" /\ DiscoveryNext
  /\ UNCHANGED <<component, codexVars, gitVars, catalogVars, refVars, historyVars,
                  idVars, connVars, fileVars, uploadVars, downloadVars,
                  permVars, readerVars, directoryVars, interestVars, labelVars, timelineVars>>

InterestRuns ==
  /\ component = "interests" /\ InterestNext
  /\ UNCHANGED <<component, codexVars, gitVars, catalogVars, refVars, historyVars,
                  idVars, connVars, fileVars, uploadVars, downloadVars,
                  permVars, readerVars, directoryVars, discoveryVars,
                  labelVars, timelineVars>>

LabelsRuns ==
  /\ component = "labels" /\ LabelsNext
  /\ UNCHANGED <<component, codexVars, gitVars, catalogVars, refVars, historyVars,
                  idVars, connVars, fileVars, uploadVars, downloadVars,
                  permVars, readerVars, directoryVars, discoveryVars,
                  interestVars, timelineVars>>

TimelineRuns ==
  /\ component = "timelines" /\ TimelineNext
  /\ UNCHANGED <<component, codexVars, gitVars, catalogVars, refVars, historyVars,
                  idVars, connVars, fileVars, uploadVars, downloadVars,
                  permVars, readerVars, directoryVars, discoveryVars,
                  interestVars, labelVars>>

Init ==
  /\ component \in Explored
  /\ CodexInit
  /\ GitInit
  /\ CatalogInit
  /\ RefInit
  /\ HistoryInit
  /\ IdentityInit
  /\ ConnInit
  /\ FileInit
  /\ UploadInit
  /\ DownloadInit
  /\ PermInit
  /\ ReaderInit
  /\ DirectoryInit
  /\ DiscoveryInit
  /\ InterestInit
  /\ LabelsInit
  /\ TimelineInit
  /\ component # "codex" => access = Unread
  /\ component # "codex" => renewer = [b \in CodexProcesses |-> Resting(CHOOSE p \in CodexProfiles : TRUE)]
  /\ component # "github" => tokenSecret = AbsentSecret
  /\ component # "probes" => home = CHOOSE h \in JobHomes : TRUE

Next ==
  \/ CodexRuns \/ GitRuns \/ CatalogRuns \/ RefRuns
  \/ HistoryRuns \/ IdentityRuns \/ ConnRuns \/ FileRuns
  \/ UploadRuns \/ DownloadRuns \/ PermRuns \/ ReaderRuns
  \/ DirectoryRuns \/ DiscoveryRuns \/ InterestRuns \/ LabelsRuns
  \/ TimelineRuns

vars == <<component, codexVars, gitVars, catalogVars, refVars, historyVars, idVars,
           connVars, fileVars, uploadVars, downloadVars, permVars,
           readerVars, directoryVars, discoveryVars, interestVars,
           labelVars, timelineVars>>

GatewaySpec == Init /\ [][Next]_vars

Fairness ==
  /\ \A b \in CodexProcesses : WF_codexVars(component = "codex" /\ RenewStep(b))
  /\ WF_codexVars(component = "codex" /\ CodexTick)
  /\ \A b \in Minters : WF_gitVars(component = "github" /\ MintStep(b))
  /\ WF_gitVars(component = "github" /\ GitTick)
  /\ \A j \in CatalogJobs :
       /\ WF_catalogVars(component = "probes" /\ JobStep(j) /\ UNCHANGED home)
       /\ WF_catalogVars(component = "probes" /\ SnapshotBegins(j, FALSE) /\ UNCHANGED home)
  /\ \A run \in ProbeRuns :
       WF_catalogVars(component = "probes" /\ ObjectGone(run) /\ UNCHANGED home)
  /\ \A g \in CatalogGateways :
       WF_catalogVars(component = "probes" /\ OtherRunEnds(g) /\ UNCHANGED home)
  /\ WF_catalogVars(component = "probes" /\ CatalogTick /\ UNCHANGED home)
  /\ \A q \in RefQueries :
       /\ WF_refVars(component = "refs" /\ RunRefs(q))
       /\ WF_refVars(component = "refs" /\ InspectPodGone(q))
       /\ WF_refVars(component = "refs" /\ ReceiptExpires(q))
  /\ WF_refVars(component = "refs" /\ Recover)
  /\ \A l \in Lookups : WF_idVars(component = "identity" /\ Advance(l))
  /\ \A b \in Backends : WF_connVars(component = "backends" /\ OpenBackend(b))
  /\ \A h \in Handlers : WF_connVars(component = "backends" /\ HandlerStep(h))
  /\ WF_connVars(component = "backends" /\ RefreshStep)
  /\ WF_connVars(component = "backends" /\ CloseStep)
  /\ WF_uploadVars(component = "uploads" /\ UploadTick)
  /\ \A s \in UploadSessions : WF_uploadVars(component = "uploads" /\ TimerTicks(s))
  /\ \A m \in Messages : WF_uploadVars(component = "uploads" /\ ReplaceStep(m))
  /\ \A d \in Downloaders :
       /\ WF_downloadVars(component = "downloads" /\ Authorize(d))
       /\ WF_downloadVars(component = "downloads" /\ RevokeCheck(d))
       /\ WF_downloadVars(/\ component = "downloads"
                          /\ download[d].step = "aborted" /\ TransferEnds(d))
  /\ \A d \in Decisions :
       WF_permVars(component = "permissions" /\ (Handled(d) \/ Finish(d)))
  /\ WF_permVars(component = "permissions" /\ CloseEvent)
  /\ WF_permVars(component = "permissions" /\ GraceEnds)
  /\ \A r \in Reads :
       /\ WF_readerVars(component = "readers" /\ ReadStep(r))
       /\ WF_readerVars(component = "readers" /\ CreateLands(r))
       /\ WF_readerVars(component = "readers" /\ ReadIsLate(r))
  /\ WF_readerVars(component = "readers" /\ readerPod.phase = "terminating" /\ ReaderPodStep)
  /\ WF_readerVars(component = "readers" /\ CleanupReaders)
  /\ WF_readerVars(component = "readers" /\ ControllerChecksReader)
  /\ WF_readerVars(component = "readers" /\ ControllerStartsPod)
  /\ \A q \in Asks : /\ WF_discoveryVars(component = "discovery" /\ AskStep(q))
                    /\ WF_discoveryVars(component = "discovery" /\ TimerAnswers(q))
  /\ \A n \in Names :
       /\ WF_interestVars(component = "interests" /\ WaitEnds(n))
       /\ WF_interestVars(component = "interests" /\ InterestAges(n))
       /\ WF_interestVars(component = "interests" /\ RefreshDrops(n))
       /\ \A i \in Serials :
            WF_interestVars(component = "interests" /\ PublisherStep(n, i))

FairGatewaySpec == GatewaySpec /\ Fairness

-----------------------------------------------------------------------------
(* What the components promise together.                                    *)

\* Every variable of every component has the shape the code gives it.
GatewayTypeOK ==
  /\ CodexTypeOK /\ GitTypeOK /\ CatalogTypeOK /\ RefTypeOK /\ HistoryTypeOK
  /\ IdentityTypeOK /\ ConnTypeOK /\ FileTypeOK /\ UploadTypeOK
  /\ DownloadTypeOK /\ PermTypeOK /\ ReaderTypeOK /\ DirectoryTypeOK
  /\ DiscoveryTypeOK /\ InterestTypeOK /\ LabelsTypeOK /\ TimelineTypeOK

\* The invariants are evaluated for the component that runs: the others are at
\* their initial state, where each was evaluated in a behaviour of its own.

\* No Pod, Service, permit or slot of a probe or an inspection is lost sight
\* of: whatever fails, somebody holds it or a record leads to it.
DisposablesAccounted ==
  /\ component = "probes" => ProbesAccounted
  /\ component = "refs" => InspectionsAccounted

\* What names an agent or a workspace leads to one workspace: a GUID to the one
\* its route was claimed for, a request to the one it was validated for.
RoutesHold ==
  /\ component = "identity" => RoutesAgree
  /\ component = "backends" => RequestsReachTheirWorkspace

\* Files on their way through the gateway: bytes, rows, handles and transfers
\* are counted exactly and each is used once.
TransfersAccounted ==
  /\ component = "uploads" => StagingAccounted
  /\ component = "downloads" => HandlesAccounted

\* What a session sends unasked fits what was asked for: a pending catalog goes
\* out by one publisher for the interest in place, and the updates of labels
\* build on what the follower was shown.
UpdatesFit == InterestsServed /\ []ShownIsSeen

\* Everything that is under way ends: rotations whose process died, locks,
\* probes, queued queries, claims, transfers of withdrawn access, and requests
\* with their timers.
OperationsEnd ==
  /\ AmbiguousAccessCleared /\ StaleLockTakenOver
  /\ ProbingEnds /\ ConfigurationCatalogued /\ QueuedQueriesServed
  /\ LookupsEnd /\ RevokedTransfersEnd /\ AsksAnswered

\* Nothing stays behind: inspection Pods and their receipts, staged files,
\* channels, reader Pods and interests are gone in the end.
NothingLeftBehind ==
  /\ InspectionsLeaveNothing /\ StagingReleased /\ ChannelsClosed
  /\ ReadersLeave /\ InterestsEnd

-----------------------------------------------------------------------------
(* Values of the constants.                                                 *)

MCTwoConfigs == [p \in CodexProfiles |-> 2]
MCOneConfig == [p \in CodexProfiles |-> 1]
MCHomes == {[j \in CatalogJobs |-> g1], (j1 :> g1) @@ (j2 :> g2)}
MCOneHome == {[j \in CatalogJobs |-> g1]}
MCTimelineHome == [a \in TimelineAgents |-> IF a = a2 THEN s2 ELSE s1]
MCHomeOf == [a \in Agents |-> IF a = a2 THEN s2 ELSE s1]
MCTwins == Permutations({x1, x2})

=============================================================================
