---------------------------- MODULE GatewayProofs ----------------------------
(***************************************************************************)
(* What the runs check of the components side by side, proved for every    *)
(* value of the constants: a behaviour of the gateway's specification is,  *)
(* for each component, a behaviour of that component's own specification,  *)
(* so that what the modules of those components prove holds of it.          *)
(***************************************************************************)
EXTENDS MCGateway, SessionProofs, TransferProofs, CredentialProofs, DisposableProofs

\* The component that runs takes a step of its own and the others stutter.
LEMMA EveryComponentSteps ==
  [Next]_vars => /\ [IdentityNext]_idVars /\ [ConnNext]_connVars
                 /\ [DownloadNext]_downloadVars /\ [PermNext]_permVars
                 /\ [CodexNext]_codexVars /\ [GitNext]_gitVars
                 /\ [CatalogNext]_catalogVars /\ [RefNext]_refVars
                 /\ [UploadNext]_uploadVars /\ [ReaderNext]_readerVars
                 /\ [DirectoryNext]_directoryVars /\ [DiscoveryNext]_discoveryVars
                 /\ [InterestNext]_interestVars /\ [LabelsNext]_labelVars
                 /\ [TimelineNext]_timelineVars /\ [HistoryNext]_historyVars
                 /\ [FileNext]_fileVars
  <1> SUFFICES ASSUME [Next]_vars
               PROVE  /\ [IdentityNext]_idVars /\ [ConnNext]_connVars
                      /\ [DownloadNext]_downloadVars /\ [PermNext]_permVars
                      /\ [CodexNext]_codexVars /\ [GitNext]_gitVars
                      /\ [CatalogNext]_catalogVars /\ [RefNext]_refVars
                      /\ [UploadNext]_uploadVars /\ [ReaderNext]_readerVars
                      /\ [DirectoryNext]_directoryVars /\ [DiscoveryNext]_discoveryVars
                      /\ [InterestNext]_interestVars /\ [LabelsNext]_labelVars
                      /\ [TimelineNext]_timelineVars /\ [HistoryNext]_historyVars
                      /\ [FileNext]_fileVars
    OBVIOUS
  <1>1. CASE IdentityRuns
    BY <1>1 DEF IdentityRuns
  <1>2. CASE ConnRuns
    BY <1>2 DEF ConnRuns
  <1>3. CASE DownloadRuns
    BY <1>3 DEF DownloadRuns
  <1>4. CASE PermRuns
    BY <1>4 DEF PermRuns
  <1>5. CASE CodexRuns
    BY <1>5 DEF CodexRuns
  <1>6. CASE GitRuns
    BY <1>6 DEF GitRuns
  <1>7. CASE CatalogRuns
    BY <1>7 DEF CatalogRuns
  <1>8. CASE RefRuns
    BY <1>8 DEF RefRuns
  <1>9. CASE HistoryRuns
    BY <1>9 DEF HistoryRuns
  <1>10. CASE FileRuns
    BY <1>10 DEF FileRuns
  <1>11. CASE UploadRuns
    BY <1>11 DEF UploadRuns
  <1>12. CASE ReaderRuns
    BY <1>12 DEF ReaderRuns
  <1>13. CASE DirectoryRuns
    BY <1>13 DEF DirectoryRuns
  <1>14. CASE DiscoveryRuns
    BY <1>14 DEF DiscoveryRuns
  <1>15. CASE InterestRuns
    BY <1>15 DEF InterestRuns
  <1>16. CASE LabelsRuns
    BY <1>16 DEF LabelsRuns
  <1>17. CASE TimelineRuns
    BY <1>17 DEF TimelineRuns
  <1>18. CASE UNCHANGED vars
    BY <1>18 DEF vars
  <1> QED
    BY <1>1, <1>2, <1>3, <1>4, <1>5, <1>6, <1>7, <1>8, <1>9, <1>10, <1>11, <1>12,
       <1>13, <1>14, <1>15, <1>16, <1>17, <1>18 DEF Next

\* A GUID leads to the workspace its route was claimed for and a request to the
\* one it was validated for (AgentIdentityRegistry, AgentRouting and forward()
\* of session.ts).
THEOREM RoutesAlwaysHold == GatewaySpec => []RoutesHold
  <1>1. Init => IdentityIInv /\ ConnIInv
    BY IdentityInitial, ConnInitial DEF Init
  <1>2. IdentityIInv /\ ConnIInv /\ [Next]_vars => IdentityIInv' /\ ConnIInv'
    BY EveryComponentSteps, IdentityInductive, ConnInductive
  <1>3. IdentityIInv /\ ConnIInv => RoutesHold
    BY DEF IdentityIInv, ConnIInv, ConnTypeOK, RoutesHold, RequestsReachTheirWorkspace,
           InUseByName, InUseByUid, Procs
  <1> QED
    BY <1>1, <1>2, <1>3, PTL DEF GatewaySpec

\* A decision accepted from a client that closes cleanly is sent unless it is
\* excused, beside whatever else the gateway does (PermissionChannel).
THEOREM DecisionsReachTheAgent == GatewaySpec => []DecisionsSent
  <1>1. Init => PermIInv
    BY PermInitial DEF Init
  <1>2. PermIInv /\ [Next]_vars => PermIInv'
    BY EveryComponentSteps, PermInductive
  <1>3. PermIInv => DecisionsSent
    BY DEF PermIInv
  <1> QED
    BY <1>1, <1>2, <1>3, PTL DEF GatewaySpec

\* "Never retry an ambiguous refresh token": what CodexSubscriptionBroker owes
\* the authority and the workspaces, in the composed specification.
THEOREM AuthorityAlwaysHolds == GatewaySpec => AuthorityHolds
  <1>1. Init => CodexIInv
    BY CodexInitial DEF Init
  <1>2. CodexIInv /\ [Next]_vars => CodexIInv'
    BY EveryComponentSteps, CodexInductive
  <1>3. CodexIInv => RefreshTokenUsedOnce /\ SpentTokenFenced
    BY DEF CodexIInv
  <1>4. [Next]_vars => [CodexNext]_codexVars
    BY EveryComponentSteps
  <1> QED
    BY <1>1, <1>2, <1>3, <1>4, CodexStep, PTL
       DEF GatewaySpec, AuthorityHolds, AccessNeverRegresses, CodexOwnersKept

\* What the lock of the App token is for (GitHubAppBroker), in the composed
\* specification.
THEOREM AppTokenAlwaysHolds == GatewaySpec => AppTokenHolds
  <1>1. Init => GitIInv
    BY GitInitial DEF Init
  <1>2. GitIInv /\ [Next]_vars => GitIInv'
    BY EveryComponentSteps, GitInductive
  <1>3. GitIInv => TokenMatchesConfig /\ OneMintAtATime
    BY DEF GitIInv, MintsSound, MintSound, OneMintAtATime
  <1>4. [Next]_vars => [GitNext]_gitVars
    BY EveryComponentSteps
  <1> QED
    BY <1>1, <1>2, <1>3, <1>4, GitStep, PTL
       DEF GatewaySpec, AppTokenHolds, TokenNeverShortened

\* No Pod, Service, permit or slot of a probe or an inspection is lost sight of
\* (ProviderCatalogService and ProjectRefInspector), when a create call that
\* failed has made nothing.
THEOREM DisposablesAreAccounted ==
  ASSUME NoAckLost
  PROVE  GatewaySpec => []DisposablesAccounted
  <1>1. Init => CatalogIInv /\ RefIInv
    BY CatalogInitial, RefInitial DEF Init
  <1>2. CatalogIInv /\ RefIInv /\ [Next]_vars => CatalogIInv' /\ RefIInv'
    BY EveryComponentSteps, CatalogInductive, RefInductive
  <1>3. CatalogIInv /\ RefIInv => DisposablesAccounted
    <2>1. RefIInv => InspectionsAccounted
      BY SlotsConserved DEF RefIInv, InspectionsAccounted
    <2> QED
      BY <2>1, CatalogAccounts DEF DisposablesAccounted
  <1> QED
    BY <1>1, <1>2, <1>3, PTL DEF GatewaySpec

\* Bytes and rows of staged uploads, handles and transfers of downloads are
\* counted exactly, beside whatever else the gateway does (UploadStaging and
\* Downloads).
THEOREM TransfersAreAccounted == GatewaySpec => []TransfersAccounted
  <1>1. Init => UploadIInv /\ DownloadIInv
    BY UploadInitial, DownloadInitial DEF Init
  <1>2. UploadIInv /\ DownloadIInv /\ [Next]_vars => UploadIInv' /\ DownloadIInv'
    BY EveryComponentSteps, UploadInductive, DownloadInductive
  <1>3. UploadIInv /\ DownloadIInv => TransfersAccounted
    BY UploadAccounts DEF DownloadIInv, TransfersAccounted
  <1> QED
    BY <1>1, <1>2, <1>3, PTL DEF GatewaySpec

\* One request at a time reads a stopped workspace, and a client is shown the
\* transcript of the present stop alone, in the composed specification.
THEOREM ReadersAlwaysSafe == GatewaySpec => ReadersSafe
  <1>1. Init => ReaderIInv
    BY ReaderInitial DEF Init
  <1>2. ReaderIInv /\ [Next]_vars => ReaderIInv'
    BY EveryComponentSteps, ReaderInductive
  <1>3. [Next]_vars => [ReaderNext]_readerVars
    BY EveryComponentSteps
  <1>4. ReaderIInv /\ [ReaderNext]_readerVars =>
          [\A r \in Reads : read[r].shown # read'[r].shown =>
              /\ stoppable.stopped /\ stoppable.stored /\ compute = "none"
              /\ read'[r].shown = stoppable.generation]_readerVars
    BY ReaderShows DEF ShownRightly
  <1> QED
    BY <1>1, <1>2, <1>3, <1>4, ReadersKeepTheLine, PTL
       DEF GatewaySpec, ReadersSafe, ShownHistoryIsCurrent

\* A repeated ask is answered like the first, and none with another project's
\* answer (scoped discovery of session.ts), in the composed specification.
THEOREM AsksAlwaysAnsweredRightly == GatewaySpec => AsksAnsweredRightly
  <1>1. Init => DiscoveryIInv
    BY DiscoveryInitial DEF Init
  <1>2. DiscoveryIInv /\ [Next]_vars => DiscoveryIInv'
    BY EveryComponentSteps, DiscoveryInductive
  <1>3. [Next]_vars => [DiscoveryNext]_discoveryVars
    BY EveryComponentSteps
  <1> QED
    BY <1>1, <1>2, <1>3, DiscoveryStep, DiscoverySafe, PTL
       DEF GatewaySpec, AsksAnsweredRightly, AnswerFitsProject

\* A published catalog fits the interest in place and an update of labels what
\* its follower was shown (updateProviderInterest() of session.ts and
\* WorkspaceLabelService), in the composed specification.
THEOREM UpdatesAlwaysFit == GatewaySpec => UpdatesFit
  <1> DEFINE Fits ==
        \A n \in Names : \A i \in Serials : updates'[n][i] # updates[n][i] =>
          /\ updates[n][i] # "complete"
          /\ interest[n].serial = i /\ ~interest[n].old
          /\ publisher[n][i].scope = target[n].scope
  <1>1. Init => InterestIInv /\ LabelsIInv
    BY InterestInitial, LabelsInitial DEF Init
  <1>2. InterestIInv /\ LabelsIInv /\ [Next]_vars => InterestIInv' /\ LabelsIInv'
    BY EveryComponentSteps, InterestInductive, LabelsInductive
  <1>3. InterestIInv /\ LabelsIInv => PublishersMatchInterests /\ ShownIsSeen
    BY DEF InterestIInv, RunFits, PublishersMatchInterests, LabelsIInv
  <1>4. InterestIInv /\ [Next]_vars => [Fits]_interestVars
    BY EveryComponentSteps, InterestStep
  <1> HIDE DEF Fits
  <1>5. GatewaySpec => []PublishersMatchInterests /\ []ShownIsSeen /\ [][Fits]_interestVars
    BY <1>1, <1>2, <1>3, <1>4, PTL DEF GatewaySpec
  <1> QED
    BY <1>5 DEF Fits, UpdatesFit, InterestsServed, UpdatesFitInterest

\* Only an edit that takes a label off takes it off a living workspace, and
\* every label worn is defined (WorkspaceLabelService), in the composed
\* specification.
THEOREM LabelsAlwaysKept == GatewaySpec => LabelsKept
  <1>1. Init => LabelsIInv
    BY LabelsInitial DEF Init
  <1>2. LabelsIInv /\ [Next]_vars => LabelsIInv'
    BY EveryComponentSteps, LabelsInductive
  <1>3. LabelsIInv => WornLabelsDefined
    BY DEF LabelsIInv, Defined, WornLabelsDefined
  <1>4. [Next]_vars => [LabelsNext]_labelVars
    BY EveryComponentSteps
  <1>5. LabelsIInv /\ [LabelsNext]_labelVars =>
          \A w \in {v \in Targets : wearer[v].living} :
            LET before == LabelsFor(catalog, wearer, w)
                after == LabelsFor(catalog', wearer, w)
            IN \A n \in before \ after : \E e \in LabelEdits : TakesOff(e, w, n)
    BY LabelsStep
  <1> QED
    BY <1>1, <1>2, <1>3, <1>4, <1>5, PTL DEF GatewaySpec, LabelsKept, AssignmentsKept

\* What a client is told of its timelines is what the backends were asked to
\* follow (the subscriptions of session.ts), in the composed specification.
THEOREM AcknowledgementsAlwaysTrue == GatewaySpec => AcknowledgedIsFollowed
  <1> DEFINE Honest ==
        \A q \in Subscribers \ disturbed : EndFollow(q) /\ Acknowledges(q) =>
          \A s \in TimelineSpaces :
            /\ link[s] # NoLink /\ Runs(follow[q].view[s]) =>
                 link[s].members = MembersAt(q, s)
            /\ MembersAt(q, s) # {} => link[s] # NoLink
  <1>1. Init => TimelineIInv
    BY TimelineInitial DEF Init
  <1>2. TimelineIInv /\ [Next]_vars => TimelineIInv'
    BY EveryComponentSteps, TimelineInductive
  <1>3. TimelineIInv => Honest
    BY TimelineStepIsRight
  <1> QED
    BY <1>1, <1>2, <1>3, PTL DEF GatewaySpec, AcknowledgedIsFollowed

\* With one listing under way at a time, a listing shows what its sources
\* answered and keeps what those that did not answer had shown (the directory
\* of session.ts), in the composed specification.
THEOREM ListingsAlwaysHonest ==
  ASSUME OneFetch
  PROVE  GatewaySpec => ListingsHonest
  <1>1. Init => DirectoryIInv
    BY DirectoryInitial DEF Init
  <1>2. DirectoryIInv /\ [Next]_vars => DirectoryIInv'
    BY EveryComponentSteps, DirectoryInductive
  <1>3. [Next]_vars => [DirectoryNext]_directoryVars
    BY EveryComponentSteps
  <1>4. DirectoryIInv /\ [DirectoryNext]_directoryVars =>
          \A f \in Fetches : Answers(f) =>
            {a \in shown' : HomeOf[a] \notin fetch[f].unknown} = fetch[f].entries
    BY GhostsGone
  <1> QED
    BY <1>1, <1>2, <1>3, <1>4, UnknownKept, PTL
       DEF GatewaySpec, ListingsHonest, UnknownSourcesKept, NoGhosts

\* The receipt only advances, the file it names is not pruned and what is stored
\* is an unbroken piece of one transcript (RetainedHistoryService), in the
\* composed specification.
THEOREM HistoryAlwaysKept == GatewaySpec => HistoryKept
  <1>1. Init => HistoryIInv
    BY HistoryInitial DEF Init
  <1>2. HistoryIInv /\ [Next]_vars => HistoryIInv'
    BY EveryComponentSteps, HistoryInductive
  <1>3. [Next]_vars => [HistoryNext]_historyVars
    BY EveryComponentSteps
  <1>4. HistoryIInv /\ [HistoryNext]_historyVars =>
          [historyReceipt # NoFile /\ historyReceipt' # historyReceipt
             => NotNewer(historyReceipt, historyReceipt')]_historyVars
    BY HistoryStep
  <1> QED
    BY <1>1, <1>2, <1>3, <1>4, HistorySafe, PTL
       DEF GatewaySpec, HistoryKept, ReceiptOnlyAdvances

\* A subscriber of a file ends up with its newest version, hears of it only
\* while it subscribes, and leaves no watcher behind (forward() and onMessage()
\* of session.ts), in the composed specification.
THEOREM WatchersAlwaysServed == GatewaySpec => WatchersServed
  <1> DEFINE Told == \A s \in FileSlots :
                       client'[s].version # client[s].version /\ client'[s].version # 0
                         => client'[s].subscribed
  <1>1. Init => FileIInv
    BY FileInitial DEF Init
  <1>2. FileIInv /\ [Next]_vars => FileIInv'
    BY EveryComponentSteps, FileInductive
  <1>3. FileIInv /\ [Next]_vars => [Told]_fileVars
    BY EveryComponentSteps, FileStep
  <1> HIDE DEF Told
  <1>4. GatewaySpec => [](NewestVersionSeen /\ WatchersAgree) /\ [][Told]_fileVars
    BY <1>1, <1>2, <1>3, FileSafe, PTL DEF GatewaySpec
  <1> QED
    BY <1>4 DEF Told, WatchersServed, UpdatesWithinSubscription

\* The types of the components whose invariants state them in a form of their
\* own.
LEMMA DiscoveryTypes == DiscoveryIInv => DiscoveryTypeOK
  <1> SUFFICES ASSUME DiscoveryIInv PROVE DiscoveryTypeOK
    OBVIOUS
  <1>1. MaxScope \in Nat /\ scope.uid \in Nat /\ scope.uid <= MaxScope + 1
    BY DiscoveryAssumption DEF DiscoveryIInv, ProjectSound, Changes
  <1>2. 0 .. scope.uid \subseteq 0 .. MaxScope + 1 /\ 1 .. scope.uid \subseteq 1 .. MaxScope + 1
    BY <1>1
  <1> QED
    BY <1>2 DEF DiscoveryIInv, DiscoveryTypeOK, AskRecord
LEMMA LabelsTypes == LabelsIInv => LabelsTypeOK
  BY DEF LabelsIInv, LabelsTypeOK, Wearers, LabelRecord, EditRecord, FollowerRecord

\* Every variable of every component has the shape the code gives it, in the
\* composed specification, whatever fails.
THEOREM TypesAlwaysRight == GatewaySpec => []GatewayTypeOK
  <1> DEFINE AllHold ==
        /\ CodexIInv /\ GitIInv /\ CatalogIInv /\ RefIInv /\ HistoryIInv
        /\ IdentityIInv /\ ConnIInv /\ FileIInv /\ UploadIInv
        /\ DownloadIInv /\ PermIInv /\ ReaderIInv /\ DirectoryIInv
        /\ DiscoveryIInv /\ InterestIInv /\ LabelsIInv /\ TimelineIInv
  <1>1. Init => AllHold
    BY CodexInitial, GitInitial, CatalogInitial, RefInitial, HistoryInitial,
       IdentityInitial, ConnInitial, FileInitial, UploadInitial, DownloadInitial,
       PermInitial, ReaderInitial, DirectoryInitial, DiscoveryInitial,
       InterestInitial, LabelsInitial, TimelineInitial DEF Init
  <1>2. AllHold /\ [Next]_vars => AllHold'
    BY EveryComponentSteps, CodexInductive, GitInductive, CatalogInductive,
       RefInductive, HistoryInductive, IdentityInductive, ConnInductive,
       FileInductive, UploadInductive, DownloadInductive, PermInductive,
       ReaderInductive, DirectoryInductive, DiscoveryInductive,
       InterestInductive, LabelsInductive, TimelineInductive
  <1>3. AllHold => GatewayTypeOK
    <2>1. CodexIInv /\ GitIInv => CodexTypeOK /\ GitTypeOK
      BY DEF CodexIInv, GitIInv
    <2>2. CatalogIInv /\ RefIInv => CatalogTypeOK /\ RefTypeOK
      BY DEF CatalogIInv, RefIInv
    <2>3. IdentityIInv /\ ConnIInv /\ DownloadIInv /\ PermIInv =>
            IdentityTypeOK /\ ConnTypeOK /\ DownloadTypeOK /\ PermTypeOK
      BY DEF IdentityIInv, ConnIInv, DownloadIInv, PermIInv
    <2>4. HistoryIInv /\ FileIInv /\ UploadIInv /\ ReaderIInv /\ InterestIInv =>
            /\ HistoryTypeOK /\ FileTypeOK /\ UploadTypeOK /\ ReaderTypeOK
            /\ InterestTypeOK
      BY DEF HistoryIInv, FileIInv, UploadIInv, ReaderIInv, InterestIInv
    <2>5. DirectoryIInv /\ TimelineIInv => DirectoryTypeOK /\ TimelineTypeOK
      BY DEF DirectoryIInv, TimelineIInv
    <2> QED
      BY <2>1, <2>2, <2>3, <2>4, <2>5, DiscoveryTypes, LabelsTypes DEF GatewayTypeOK
  <1> HIDE DEF AllHold
  <1> QED
    BY <1>1, <1>2, <1>3, PTL DEF GatewaySpec
=============================================================================
