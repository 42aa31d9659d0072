---------------------------- MODULE SessionProofs ----------------------------
(***************************************************************************)
(* What a client session promises, for every number of workspaces, agents, *)
(* processes, decisions, channels, handles and requests: a request reaches *)
(* the workspace it was validated for and a GUID leads to the workspace    *)
(* its durable route names, permission decisions are sent, a download      *)
(* handle serves one request under an exact count of transfers, a repeated *)
(* ask is answered like the first, listings are honest, labels are kept,   *)
(* and what is acknowledged of timelines is what is followed.              *)
(***************************************************************************)
EXTENDS
  BackendConnections, AgentIdentity, PermissionChannel, Downloads, ScopedDiscovery,
  AgentDirectory, WorkspaceLabels, TimelineSubscription,
  FiniteSetTheorems, TLAPS

-----------------------------------------------------------------------------
(* Backend connections of a session.                                        *)

\* The map leads from a name to a connection of that name.
TrackedByName ==
  \A n \in ConnNames : connections[n] # 0 =>
    backend[connections[n]] # Unused /\ backend[connections[n]].name = n

\* Whoever waits for a connection or uses one refers to one of its workspace's
\* name: Free keeps connection() from reusing the object underneath it.
InUseByName ==
  \A p \in Procs : proc[p].step \in {"await", "validate", "send", "reply"} =>
    backend[proc[p].on] # Unused /\ backend[proc[p].on].name = proc[p].name

\* Past the check of the UID the connection is one of that UID.
InUseByUid ==
  \A p \in Procs : proc[p].step \in {"validate", "send", "reply"} =>
    backend[proc[p].on].uid = proc[p].uid

\* The connections that a failed refresh has still to close were made once.
ToDiscard ==
  \A p \in Procs : proc[p].step \in {"settle", "discard"} =>
    \A b \in proc[p].on : backend[b] # Unused

ConnIInv == ConnTypeOK /\ TrackedByName /\ InUseByName /\ InUseByUid /\ ToDiscard

LEMMA ConnInitial == ConnInit => ConnIInv
  <1> SUFFICES ASSUME ConnInit PROVE ConnIInv
    OBVIOUS
  <1> USE ConnectionAssumption DEF ConnInit, Procs, ProcIdle
  <1>1. ConnTypeOK
    BY DEF ConnTypeOK, Backend, Refreshing, Forwarding
  <1>2. TrackedByName /\ InUseByName /\ InUseByUid /\ ToDiscard
    BY DEF TrackedByName, InUseByName, InUseByUid, ToDiscard
  <1> QED
    BY <1>1, <1>2 DEF ConnIInv

\* Closing a connection leaves it one of its name and UID.
LEMMA RetireType ==
  ASSUME ConnTypeOK, NEW b \in Backends, backend[b] # Unused
  PROVE  Retire(b) \in [Backends -> Backend]
  BY DEF ConnTypeOK, Retire, Backend, BackendStates, Unused

\* A connection made, or joined, is one of the workspace it is made for.
LEMMA ConnectStep ==
  ASSUME ConnIInv, NEW p \in Procs, NEW n \in ConnNames, NEW u \in 1 .. MaxWorkspaceUid,
         Connect(p, n, u), UNCHANGED <<wsUid, wsReady, closer, refreshFailures>>
  PROVE  ConnIInv'
  <1> DEFINE Waits(b) == [step |-> "await", name |-> n, uid |-> u, on |-> b]
  <1> USE ConnectionAssumption DEF ConnIInv, ConnTypeOK, Procs
  <1>1. CASE connections[n] # 0
    <2>1. /\ proc' = [proc EXCEPT ![p] = Waits(connections[n])]
          /\ UNCHANGED <<connections, backend>>
      BY <1>1 DEF Connect
    <2>2. ConnTypeOK'
      BY <1>1, <2>1 DEF Refreshing, Forwarding
    <2>3. (TrackedByName /\ InUseByName /\ InUseByUid /\ ToDiscard)'
      BY <1>1, <2>1 DEF TrackedByName, InUseByName, InUseByUid, ToDiscard
    <2> QED
      BY <2>2, <2>3
  <1>2. CASE connections[n] = 0 /\ Free = {}
    <2>1. proc' = [proc EXCEPT ![p] = ProcIdle] /\ UNCHANGED <<connections, backend>>
      BY <1>2 DEF Connect, ProcRests
    <2>2. ConnTypeOK'
      BY <2>1 DEF Refreshing, Forwarding
    <2>3. (TrackedByName /\ InUseByName /\ InUseByUid /\ ToDiscard)'
      BY <2>1 DEF TrackedByName, InUseByName, InUseByUid, ToDiscard, ProcIdle
    <2> QED
      BY <2>2, <2>3
  <1>3. CASE connections[n] = 0 /\ Free # {}
    <2>1. PICK b \in Free :
            /\ backend' = [backend EXCEPT ![b] =
                 [state |-> "opening", name |-> n, uid |-> u]]
            /\ connections' = [connections EXCEPT ![n] = b]
            /\ proc' = [proc EXCEPT ![p] = Waits(b)]
      BY <1>3 DEF Connect
    <2>2. b \in Backends /\ b # 0
      BY DEF Free, Backends
    <2>3. ConnTypeOK'
      BY <2>1, <2>2 DEF Refreshing, Forwarding, Backend, BackendStates
    <2>4. backend'[b] # Unused /\ backend'[b].name = n /\ backend'[b].uid = u
      BY <2>1, <2>2 DEF Unused
    <2>5. \A m \in ConnNames \ {n} : connections[m] # 0 => connections[m] # b
      BY DEF Free, TrackedByName, Tracked
    <2>6. TrackedByName'
      BY <2>1, <2>2, <2>4, <2>5 DEF TrackedByName
    <2>7. \A q \in Procs : proc[q].step \in {"await", "validate", "send", "reply"}
                             => proc[q].on # b
      BY DEF Free, InUseByName
    <2>8. (InUseByName /\ InUseByUid /\ ToDiscard)'
      BY <2>1, <2>2, <2>4, <2>7 DEF InUseByName, InUseByUid, ToDiscard
    <2> QED
      BY <2>3, <2>6, <2>8
  <1> QED
    BY <1>1, <1>2, <1>3

LEMMA ConnInductive == ConnIInv /\ [ConnNext]_connVars => ConnIInv'
  <1> SUFFICES ASSUME ConnIInv, [ConnNext]_connVars PROVE ConnIInv'
    OBVIOUS
  <1> USE ConnectionAssumption DEF ConnIInv, ConnTypeOK, Procs, ProcIdle
  <1>1. ASSUME NEW n \in ConnNames, WorkspaceChanges(n)
        PROVE  ConnIInv'
    <2>1. wsUid' \in [ConnNames -> 1 .. MaxWorkspaceUid]
      BY <1>1 DEF WorkspaceChanges
    <2>2. wsReady' \in [ConnNames -> BOOLEAN]
      BY <1>1, Zenon DEF WorkspaceChanges
    <2>3. UNCHANGED <<connections, backend, proc, closer, refreshFailures>>
      BY <1>1 DEF WorkspaceChanges
    <2> QED
      BY <2>1, <2>2, <2>3 DEF TrackedByName, InUseByName, InUseByUid, ToDiscard
  <1>2. ASSUME NEW b \in Backends, OpenBackend(b)
        PROVE  ConnIInv'
    <2>1. ConnTypeOK'
      BY <1>2 DEF OpenBackend, Refreshing, Forwarding, Backend, BackendStates, Unused
    <2>2. (TrackedByName /\ InUseByName /\ InUseByUid /\ ToDiscard)'
      BY <1>2 DEF OpenBackend, TrackedByName, InUseByName, InUseByUid, ToDiscard, Backend, Unused, Refreshing, Forwarding
    <2> QED
      BY <2>1, <2>2
  <1>3. ASSUME NEW b \in Backends, BackendLost(b)
        PROVE  ConnIInv'
    <2>1. ConnTypeOK'
      BY <1>3 DEF BackendLost, Refreshing, Forwarding, Backend, BackendStates, Unused
    <2>2. (TrackedByName /\ InUseByName /\ InUseByUid /\ ToDiscard)'
      BY <1>3 DEF BackendLost, TrackedByName, InUseByName, InUseByUid, ToDiscard, Backend, Unused, Refreshing, Forwarding
    <2> QED
      BY <2>1, <2>2
  <1>4. ASSUME NEW h \in Handlers, BeginForward(h)
        PROVE  ConnIInv'
    <2>1. ConnTypeOK'
      BY <1>4 DEF BeginForward, Refreshing, Forwarding, Backend, BackendStates, Unused
    <2>2. (TrackedByName /\ InUseByName /\ InUseByUid /\ ToDiscard)'
      BY <1>4 DEF BeginForward, TrackedByName, InUseByName, InUseByUid, ToDiscard, Backend, Unused, Refreshing, Forwarding
    <2> QED
      BY <2>1, <2>2
  <1>5. ASSUME NEW h \in Handlers, ForwardConnects(h)
        PROVE  ConnIInv'
    <2>1. CASE Closed
      <3>1. ConnTypeOK'
        BY <1>5, <2>1 DEF ForwardConnects, ProcRests, Refreshing, Forwarding
      <3>2. (TrackedByName /\ InUseByName /\ InUseByUid /\ ToDiscard)'
        BY <1>5, <2>1 DEF ForwardConnects, ProcRests, TrackedByName, InUseByName, InUseByUid, ToDiscard
      <3> QED
        BY <3>1, <3>2
    <2>2. CASE ~Closed
      <3>1. proc[h].name \in ConnNames /\ proc[h].uid \in 1 .. MaxWorkspaceUid
        BY <1>5 DEF ForwardConnects, Forwarding
      <3> QED
        BY <1>5, <2>2, <3>1, ConnectStep DEF ForwardConnects
    <2> QED
      BY <2>1, <2>2
  <1>6. ASSUME NEW p \in Procs, Awaited(p)
        PROVE  ConnIInv'
    <2>1. ConnTypeOK'
      BY <1>6 DEF Awaited, Retire, ProcGoes, ProcRests, Tracked, Fulfilled, Refreshing, Forwarding, Backend, BackendStates, Unused
    <2>2. (TrackedByName /\ InUseByName /\ InUseByUid /\ ToDiscard)'
      BY <1>6 DEF Awaited, Retire, ProcGoes, ProcRests, Tracked, Fulfilled, TrackedByName, InUseByName, InUseByUid, ToDiscard, Backend, Unused, Refreshing, Forwarding
    <2> QED
      BY <2>1, <2>2
  <1>7. ASSUME NEW p \in Procs, RetiredPrevious(p)
        PROVE  ConnIInv'
    <2>1. ConnTypeOK'
      BY <1>7 DEF RetiredPrevious, ProcRests, Refreshing, Forwarding, Backend, BackendStates, Unused
    <2>2. (TrackedByName /\ InUseByName /\ InUseByUid /\ ToDiscard)'
      BY <1>7 DEF RetiredPrevious, ProcRests, TrackedByName, InUseByName, InUseByUid, ToDiscard, Backend, Unused, Refreshing, Forwarding
    <2> QED
      BY <2>1, <2>2
  <1>8. ASSUME NEW h \in Handlers, Validate(h)
        PROVE  ConnIInv'
    <2>1. ConnTypeOK'
      BY <1>8 DEF Validate, ProcGoes, ProcRests, Refreshing, Forwarding, Backend, BackendStates, Unused
    <2>2. (TrackedByName /\ InUseByName /\ InUseByUid /\ ToDiscard)'
      BY <1>8 DEF Validate, ProcGoes, ProcRests, TrackedByName, InUseByName, InUseByUid, ToDiscard, Backend, Unused, Refreshing, Forwarding
    <2> QED
      BY <2>1, <2>2
  <1>9. ASSUME NEW h \in Handlers, SendRequest(h)
        PROVE  ConnIInv'
    <2>1. ConnTypeOK'
      BY <1>9 DEF SendRequest, ProcGoes, ProcRests, Refreshing, Forwarding, Backend, BackendStates, Unused
    <2>2. (TrackedByName /\ InUseByName /\ InUseByUid /\ ToDiscard)'
      BY <1>9 DEF SendRequest, ProcGoes, ProcRests, TrackedByName, InUseByName, InUseByUid, ToDiscard, Backend, Unused, Refreshing, Forwarding
    <2> QED
      BY <2>1, <2>2
  <1>10. ASSUME NEW h \in Handlers, RequestEnds(h)
        PROVE  ConnIInv'
    <2>1. ConnTypeOK'
      BY <1>10 DEF RequestEnds, ProcRests, Refreshing, Forwarding, Backend, BackendStates, Unused
    <2>2. (TrackedByName /\ InUseByName /\ InUseByUid /\ ToDiscard)'
      BY <1>10 DEF RequestEnds, ProcRests, TrackedByName, InUseByName, InUseByUid, ToDiscard, Backend, Unused, Refreshing, Forwarding
    <2> QED
      BY <2>1, <2>2
  <1>11. CASE BeginRefresh
    <2>1. ConnTypeOK'
      BY <1>11 DEF BeginRefresh, Tracked, View, Refreshing, Forwarding, Backend, BackendStates, Unused
    <2>2. (TrackedByName /\ InUseByName /\ InUseByUid /\ ToDiscard)'
      BY <1>11 DEF BeginRefresh, Tracked, View, TrackedByName, InUseByName, InUseByUid, ToDiscard, Backend, Unused, Refreshing, Forwarding
    <2> QED
      BY <2>1, <2>2
  <1>12. CASE VisitNext
    <2>1. ConnTypeOK'
      BY <1>12 DEF VisitNext, Refreshing, Forwarding, Backend, BackendStates, Unused
    <2>2. (TrackedByName /\ InUseByName /\ InUseByUid /\ ToDiscard)'
      BY <1>12 DEF VisitNext, TrackedByName, InUseByName, InUseByUid, ToDiscard, Backend, Unused, Refreshing, Forwarding
    <2> QED
      BY <2>1, <2>2
  <1>13. CASE Inspect
    <2>1. backend' \in [Backends -> Backend]
      BY <1>13, RetireType DEF Inspect, ProcGoes, Fulfilled, Refreshing, Forwarding, Unused
    <2>2. ConnTypeOK'
      BY <1>13, <2>1 DEF Inspect, ProcGoes, Fulfilled, Refreshing, Forwarding
    <2>3. (TrackedByName /\ InUseByName /\ InUseByUid /\ ToDiscard)'
      BY <1>13 DEF Inspect, Retire, ProcGoes, TrackedByName, InUseByName, InUseByUid, ToDiscard, Backend, Unused, Refreshing, Forwarding
    <2> QED
      BY <2>2, <2>3
  <1>14. CASE Dropped
    <2>1. ConnTypeOK'
      BY <1>14 DEF Dropped, Refreshing, Forwarding, Backend, BackendStates, Unused
    <2>2. (TrackedByName /\ InUseByName /\ InUseByUid /\ ToDiscard)'
      BY <1>14 DEF Dropped, TrackedByName, InUseByName, InUseByUid, ToDiscard, Backend, Unused, Refreshing, Forwarding
    <2> QED
      BY <2>1, <2>2
  <1>15. CASE AfterVisits
    <2>1. CASE proc' = ProcRests(Refresher) /\ UNCHANGED <<connections, backend>>
      <3>1. ConnTypeOK'
        BY <1>15, <2>1 DEF AfterVisits, ProcRests, Refreshing, Forwarding
      <3>2. (TrackedByName /\ InUseByName /\ InUseByUid /\ ToDiscard)'
        BY <1>15, <2>1 DEF AfterVisits, ProcRests, TrackedByName, InUseByName, InUseByUid, ToDiscard
      <3> QED
        BY <3>1, <3>2
    <2>2. CASE /\ proc' = [proc EXCEPT ![Refresher] = [step |-> "settle", on |-> Tracked]]
               /\ UNCHANGED <<connections, backend>>
      <3>1. ConnTypeOK'
        BY <1>15, <2>2 DEF AfterVisits, Tracked, Refreshing, Forwarding
      <3>2. (TrackedByName /\ InUseByName /\ InUseByUid /\ ToDiscard)'
        BY <1>15, <2>2 DEF AfterVisits, Tracked, TrackedByName, InUseByName, InUseByUid, ToDiscard
      <3> QED
        BY <3>1, <3>2
    <2>3. ASSUME NEW n \in ConnNames, Connect(Refresher, n, proc[Refresher].view[n].uid)
          PROVE  ConnIInv'
      <3>1. proc[Refresher].view[n].uid \in 1 .. MaxWorkspaceUid
        BY <1>15 DEF AfterVisits, Refreshing, Forwarding, View
      <3> QED
        BY <1>15, <2>3, <3>1, ConnectStep DEF AfterVisits
    <2> QED
      BY <1>15, <2>1, <2>2, <2>3 DEF AfterVisits
  <1>16. CASE RefreshFailed
    <2>1. ConnTypeOK'
      BY <1>16 DEF RefreshFailed, Refreshing, Forwarding, Backend, BackendStates, Unused
    <2>2. (TrackedByName /\ InUseByName /\ InUseByUid /\ ToDiscard)'
      BY <1>16 DEF RefreshFailed, TrackedByName, InUseByName, InUseByUid, ToDiscard, Backend, Unused, Refreshing, Forwarding
    <2> QED
      BY <2>1, <2>2
  <1>17. CASE Discard
    <2>1. backend' \in [Backends -> Backend]
      BY <1>17, RetireType DEF Discard, ProcRests, ToDiscard, Refreshing, Forwarding, Unused
    <2>2. ConnTypeOK'
      BY <1>17, <2>1 DEF Discard, ProcRests, ToDiscard, Refreshing, Forwarding
    <2>3. (TrackedByName /\ InUseByName /\ InUseByUid /\ ToDiscard)'
      BY <1>17 DEF Discard, Retire, ProcRests, TrackedByName, InUseByName, InUseByUid, ToDiscard, Backend, Unused, Refreshing, Forwarding
    <2> QED
      BY <2>2, <2>3
  <1>18. CASE BeginClose
    <2>1. ConnTypeOK'
      BY <1>18 DEF BeginClose, Tracked, Refreshing, Forwarding, Backend, BackendStates, Unused
    <2>2. (TrackedByName /\ InUseByName /\ InUseByUid /\ ToDiscard)'
      BY <1>18 DEF BeginClose, Tracked, TrackedByName, InUseByName, InUseByUid, ToDiscard, Backend, Unused, Refreshing, Forwarding
    <2> QED
      BY <2>1, <2>2
  <1>19. CASE CloseOne
    <2>1. backend' \in [Backends -> Backend]
      BY <1>19, RetireType DEF CloseOne, Fulfilled, Refreshing, Forwarding, Unused
    <2>2. ConnTypeOK'
      BY <1>19, <2>1 DEF CloseOne, Fulfilled, Refreshing, Forwarding
    <2>3. (TrackedByName /\ InUseByName /\ InUseByUid /\ ToDiscard)'
      BY <1>19 DEF CloseOne, Retire, TrackedByName, InUseByName, InUseByUid, ToDiscard, Backend, Unused, Refreshing, Forwarding
    <2> QED
      BY <2>2, <2>3
  <1>20. CASE EndClose
    <2>1. ConnTypeOK'
      BY <1>20 DEF EndClose, Refreshing, Forwarding, Backend, BackendStates, Unused
    <2>2. (TrackedByName /\ InUseByName /\ InUseByUid /\ ToDiscard)'
      BY <1>20 DEF EndClose, TrackedByName, InUseByName, InUseByUid, ToDiscard, Backend, Unused, Refreshing, Forwarding
    <2> QED
      BY <2>1, <2>2
  <1>21. CASE UNCHANGED connVars
    <2>1. ConnTypeOK'
      BY <1>21 DEF connVars, Refreshing, Forwarding, Backend, BackendStates, Unused
    <2>2. (TrackedByName /\ InUseByName /\ InUseByUid /\ ToDiscard)'
      BY <1>21 DEF connVars, TrackedByName, InUseByName, InUseByUid, ToDiscard, Backend, Unused, Refreshing, Forwarding
    <2> QED
      BY <2>1, <2>2
  <1> QED
    BY <1>1, <1>2, <1>3, <1>4, <1>5, <1>6, <1>7, <1>8, <1>9, <1>10, <1>11, <1>12, <1>13, <1>14, <1>15, <1>16, <1>17, <1>18, <1>19, <1>20, <1>21
    DEF ConnNext, HandlerStep, RefreshStep, CloseStep

\* A request goes out over a connection of the workspace it was validated for,
\* by name and UID, whoever retires, drops or replaces connections meanwhile
\* (forward() of session.ts).
THEOREM RequestsAreRoutedRight == ConnSpec => []RequestsReachTheirWorkspace
  <1>1. ConnIInv => RequestsReachTheirWorkspace
    BY DEF ConnIInv, ConnTypeOK, RequestsReachTheirWorkspace, InUseByName, InUseByUid, Procs
  <1> QED
    BY <1>1, ConnInitial, ConnInductive, PTL DEF ConnSpec
-----------------------------------------------------------------------------
(* Agent identities.                                                        *)

\* What was shown or routed is what the durable route says, then and ever after.
ServedByRoute ==
  \A p \in served : agentRoute[p[1]] # Unknown /\ agentRoute[p[1]].uid = p[2]

\* A call that came after the quarantine runs under it.
LateIsQuarantined ==
  \A l \in Lookups : lookup[l].step # "idle" /\ lookup[l].late =>
    agentRoute[lookup[l].guid].state = "collision"

\* A message under way has the workspace of its route, which no later state of
\* the record changes, and came before a quarantine.
RoutedByRoute ==
  \A l \in Lookups : lookup[l].step \in {"resolve", "send"} =>
    /\ agentRoute[lookup[l].guid] # Unknown
    /\ agentRoute[lookup[l].guid].uid = lookup[l].uid
    /\ ~lookup[l].late

\* The line for a permit holds calls of the process that are queued, each once.
WaitersAreQueued ==
  \A r \in Registries :
    /\ \A i \in 1 .. Len(claimWaiters[r]) :
         lookup[claimWaiters[r][i]].step = "queued" /\ lookup[claimWaiters[r][i]].at = r
    /\ \A i, j \in 1 .. Len(claimWaiters[r]) :
         claimWaiters[r][i] = claimWaiters[r][j] => i = j

IdentityIInv ==
  /\ IdentityTypeOK /\ ServedByRoute /\ LateIsQuarantined /\ RoutedByRoute
  /\ WaitersAreQueued /\ RoutesAgree

LEMMA IdentityInitial == IdentityInit => IdentityIInv
  <1> SUFFICES ASSUME IdentityInit PROVE IdentityIInv
    OBVIOUS
  <1> USE IdentityAssumption DEF IdentityInit, LookupResting
  <1>1. IdentityTypeOK
    BY DEF IdentityTypeOK, RouteRecord, Lookup
  <1>2. ServedByRoute /\ LateIsQuarantined /\ RoutedByRoute /\ WaitersAreQueued
    BY DEF ServedByRoute, LateIsQuarantined, RoutedByRoute, WaitersAreQueued
  <1>3. \A r \in Registries : PermitHolders(r) = {}
    BY DEF PermitHolders
  <1>4. RoutesAgree
    BY <1>3, FS_EmptySet
    DEF RoutesAgree, GuidNamesOneWorkspace, QuarantineHolds, ClaimPermitsConserved
  <1> QED
    BY <1>1, <1>2, <1>4 DEF IdentityIInv

LEMMA HoldersFinite == \A r \in Registries : IsFiniteSet(PermitHolders(r))
  BY IdentityAssumption, FS_Subset DEF PermitHolders
-----------------------------------------------------------------------------

\* A record keeps its workspace and a quarantine is for ever.
RoutesOnlyAge ==
  \A g \in Guids : agentRoute[g] # Unknown =>
    /\ agentRoute'[g] # Unknown /\ agentRoute'[g].uid = agentRoute[g].uid
    /\ agentRoute[g].state = "collision" => agentRoute'[g].state = "collision"

\* A call that goes on is the call it was, and not yet routed.
CallsGoOn ==
  \A m \in Lookups : lookup'[m].step # "idle" =>
    /\ lookup[m].step # "idle" /\ lookup'[m].guid = lookup[m].guid
    /\ lookup'[m].uid = lookup[m].uid /\ lookup'[m].late = lookup[m].late
    /\ lookup'[m].step \in {"resolve", "send"} => lookup[m].step \in {"resolve", "send"}

RoutePart ==
  /\ ServedByRoute /\ LateIsQuarantined /\ RoutedByRoute
  /\ GuidNamesOneWorkspace /\ QuarantineHolds
PermitPart ==
  /\ lookup \in [Lookups -> Lookup]
  /\ activeClaims \in [Registries -> 0 .. MaxConcurrentClaims]
  /\ claimWaiters \in [Registries -> Seq(Lookups)]
  /\ WaitersAreQueued /\ ClaimPermitsConserved

LEMMA IdentityParts ==
  IdentityIInv <=> /\ RoutePart /\ PermitPart
                   /\ agentRoute \in [Guids -> RouteRecord]
                   /\ claims \in [Registries -> SUBSET (Guids \X AgentUids)]
                   /\ served \subseteq Guids \X AgentUids \X BOOLEAN
                   /\ identityFaults \in 0 .. MaxIdentityFaults
  BY DEF IdentityIInv, IdentityTypeOK, RoutePart, PermitPart, RoutesAgree

\* The routes' part of the invariant needs no more than these two.
LEMMA RoutePartKept ==
  ASSUME RoutePart, lookup \in [Lookups -> Lookup], served \subseteq Guids \X AgentUids \X BOOLEAN,
         RoutesOnlyAge, CallsGoOn, UNCHANGED served
  PROVE  RoutePart'
  <1> USE DEF RoutePart
  <1>1. ServedByRoute' /\ GuidNamesOneWorkspace' /\ QuarantineHolds'
    BY DEF ServedByRoute, RoutesOnlyAge, GuidNamesOneWorkspace, QuarantineHolds
  <1>2. \A m \in Lookups : lookup[m].step # "idle" => lookup[m].guid \in Guids
    BY DEF Lookup, LookupResting
  <1>3. LateIsQuarantined'
    BY <1>2 DEF LateIsQuarantined, RoutesOnlyAge, CallsGoOn, Unknown
  <1>4. RoutedByRoute'
    BY <1>2 DEF RoutedByRoute, RoutesOnlyAge, CallsGoOn
  <1> QED
    BY <1>1, <1>3, <1>4

\* A call that ends its claim gives its permit to the next in line, or back.
LEMMA SettleStep ==
  ASSUME PermitPart, NEW l \in Lookups, NEW step \in {"idle", "verify"},
         lookup[l].step \in {"create", "read", "quarantine"},
         NEW r, r = lookup[l].at, SettleLookup(l, step)
  PROVE  PermitPart' /\ CallsGoOn
  <1> DEFINE joined == {m \in Lookups : /\ lookup[m].step = "pending"
                                        /\ lookup[m].at = r /\ Key(m) = Key(l)}
             moved == [m \in Lookups |-> IF m \in joined \cup {l}
                         THEN At(lookup[m], step) ELSE lookup[m]]
             line(q) == 1 .. Len(claimWaiters[q])
  <1>1. /\ lookup \in [Lookups -> Lookup]
        /\ activeClaims \in [Registries -> 0 .. MaxConcurrentClaims]
        /\ claimWaiters \in [Registries -> Seq(Lookups)]
    BY DEF PermitPart
  <1>2. /\ \A q \in Registries : \A i \in line(q) :
             lookup[claimWaiters[q][i]].step = "queued" /\ lookup[claimWaiters[q][i]].at = q
        /\ \A q \in Registries : \A i, j \in line(q) :
             claimWaiters[q][i] = claimWaiters[q][j] => i = j
    BY DEF PermitPart, WaitersAreQueued
  <1>3. \A q \in Registries :
          /\ activeClaims[q] = Cardinality(PermitHolders(q))
          /\ claimWaiters[q] # <<>> => activeClaims[q] = MaxConcurrentClaims
    BY DEF PermitPart, ClaimPermitsConserved
  <1>4. r \in Registries /\ l \in PermitHolders(r)
    BY <1>1 DEF Lookup, LookupResting, PermitHolders
  <1>5. \A m \in joined \cup {l} :
          /\ lookup[m] \in Lookup \ {LookupResting} /\ lookup[m].step # "queued"
          /\ m # l => lookup[m].step = "pending"
          /\ moved[m] \in Lookup /\ moved[m].step \in {"idle", "verify"}
    <2>1. \A m \in joined \cup {l} : lookup[m] \in Lookup \ {LookupResting}
      BY <1>1 DEF LookupResting
    <2>2. \A m \in joined \cup {l} : At(lookup[m], step) \in Lookup
                                    /\ At(lookup[m], step).step \in {"idle", "verify"}
      BY <2>1 DEF Lookup, LookupSteps, LookupResting, At
    <2> QED
      BY <2>1, <2>2
  <1>6. \A m \in Lookups : m \notin joined \cup {l} => moved[m] = lookup[m]
    OBVIOUS
  <1>7. moved \in [Lookups -> Lookup]
    BY <1>1, <1>5
  <1>8. \A m \in Lookups : moved[m].step # "idle" =>
          /\ lookup[m].step # "idle" /\ moved[m].guid = lookup[m].guid
          /\ moved[m].uid = lookup[m].uid /\ moved[m].late = lookup[m].late
          /\ moved[m].step \in {"resolve", "send"} => lookup[m].step \in {"resolve", "send"}
    BY <1>1, <1>5 DEF At, Lookup, LookupResting
  <1>9. l \in joined \cup {l} /\ joined \cup {l} \subseteq Lookups
    OBVIOUS
  <1>10. \A q \in Registries : {m \in Lookups :
             moved[m].step \in {"create", "read", "quarantine"} /\ moved[m].at = q}
           = PermitHolders(q) \ {l}
    <2> SUFFICES ASSUME NEW q \in Registries, NEW m \in Lookups
                 PROVE  moved[m].step \in {"create", "read", "quarantine"} /\ moved[m].at = q
                          <=> m \in PermitHolders(q) \ {l}
      BY DEF PermitHolders
    <2>1. CASE m \in joined \cup {l}
      <3>1. moved[m].step \notin {"create", "read", "quarantine"}
        BY <1>5, <2>1
      <3>2. m \notin PermitHolders(q) \ {l}
        BY <1>5, <2>1 DEF PermitHolders
      <3> QED
        BY <3>1, <3>2
    <2>2. CASE m \notin joined \cup {l}
      BY <1>6, <2>2 DEF PermitHolders
    <2> QED
      BY <2>1, <2>2
  <1>11. \A q \in Registries : \A i \in line(q) :
           /\ claimWaiters[q][i] \in Lookups
           /\ moved[claimWaiters[q][i]] = lookup[claimWaiters[q][i]]
    BY <1>1, <1>2, <1>5, <1>6
  <1>12. IsFiniteSet(PermitHolders(r)) /\ Cardinality(PermitHolders(r)) \in Nat
    BY <1>4, HoldersFinite, FS_CardinalityType
  <1>13. /\ IsFiniteSet(PermitHolders(r) \ {l})
         /\ Cardinality(PermitHolders(r) \ {l}) = Cardinality(PermitHolders(r)) - 1
         /\ Cardinality(PermitHolders(r) \ {l}) \in Nat
    BY <1>4, <1>12, FS_RemoveElement, FS_CardinalityType
  <1>14. CASE claimWaiters[r] = <<>>
    <2>1. /\ lookup' = moved /\ UNCHANGED claimWaiters
          /\ activeClaims' = [activeClaims EXCEPT ![r] = @ - 1]
      BY <1>14 DEF SettleLookup
    <2> HIDE DEF joined, moved
    <2>2. \A q \in Registries : PermitHolders(q)' = PermitHolders(q) \ {l}
      BY <1>10, <2>1 DEF PermitHolders
    <2>3. \A q \in Registries \ {r} : PermitHolders(q)' = PermitHolders(q)
      BY <1>4, <2>2 DEF PermitHolders
    <2>4. Cardinality(PermitHolders(r)') = Cardinality(PermitHolders(r)) - 1
      BY <1>4, <1>13, <2>2
    <2>5. ClaimPermitsConserved'
      BY <1>1, <1>3, <1>4, <1>14, <2>1, <2>3, <2>4 DEF ClaimPermitsConserved
    <2>6. activeClaims' \in [Registries -> 0 .. MaxConcurrentClaims]
      BY <1>1, <1>3, <1>4, <1>13, <2>1, IdentityAssumption
    <2>7. WaitersAreQueued'
      BY <1>2, <1>11, <2>1 DEF WaitersAreQueued
    <2>8. CallsGoOn
      BY <1>8, <2>1 DEF CallsGoOn
    <2> QED
      BY <1>1, <1>7, <2>1, <2>5, <2>6, <2>7, <2>8 DEF PermitPart
  <1>15. CASE claimWaiters[r] # <<>>
    <2>1. PICK h : h = Head(claimWaiters[r])
      OBVIOUS
    <2>2. /\ lookup' = [moved EXCEPT ![h].step = "create"] /\ UNCHANGED activeClaims
          /\ claimWaiters' = [claimWaiters EXCEPT ![r] = Tail(@)]
      BY ZenonT(60), <1>15, <2>1 DEF SettleLookup
    <2> HIDE DEF joined, moved
    <2>3. Len(claimWaiters[r]) \in Nat \ {0} /\ h = claimWaiters[r][1] /\ h \in Lookups
      BY <1>1, <1>4, <1>15, <2>1
    <2>4. lookup[h].step = "queued" /\ lookup[h].at = r /\ moved[h] = lookup[h]
      BY <1>2, <1>4, <1>11, <2>3
    <2>5. /\ lookup'[h] = [lookup[h] EXCEPT !.step = "create"]
          /\ \A m \in Lookups \ {h} : lookup'[m] = moved[m]
      BY <1>7, <2>2, <2>3, <2>4
    <2>6. lookup'[h] \in Lookup /\ lookup'[h].step = "create" /\ lookup'[h].at = r
          /\ lookup'[h].guid = lookup[h].guid /\ lookup'[h].uid = lookup[h].uid
          /\ lookup'[h].late = lookup[h].late
      <3>1. lookup[h] \in Lookup \ {LookupResting}
        BY <1>1, <2>3, <2>4 DEF LookupResting
      <3> QED
        BY <2>4, <2>5, <3>1 DEF Lookup, LookupSteps
    <2>7. lookup' \in [Lookups -> Lookup]
      BY <1>7, <2>2, <2>3, <2>5, <2>6
    <2>8. ASSUME NEW q \in Registries
          PROVE  PermitHolders(q)' = (PermitHolders(q) \ {l}) \cup (IF q = r THEN {h} ELSE {})
      <3>1. PermitHolders(q)' =
              {m \in Lookups : lookup'[m].step \in {"create", "read", "quarantine"}
                                 /\ lookup'[m].at = q}
        BY DEF PermitHolders
      <3>2. \A m \in Lookups \ {h} : m \in PermitHolders(q)' <=> m \in PermitHolders(q) \ {l}
        BY <1>10, <2>5, <3>1
      <3>3. h \in PermitHolders(q)' <=> q = r
        BY <2>3, <2>6, <3>1
      <3>4. h \notin PermitHolders(q)
        BY <2>4 DEF PermitHolders
      <3>5. PermitHolders(q) \subseteq Lookups /\ PermitHolders(q)' \subseteq Lookups
        BY <3>1 DEF PermitHolders
      <3> QED
        BY <2>3, <3>2, <3>3, <3>4, <3>5
    <2>9. /\ PermitHolders(r)' = (PermitHolders(r) \ {l}) \cup {h}
          /\ \A q \in Registries \ {r} : PermitHolders(q)' = PermitHolders(q)
      <3>1. \A q \in Registries \ {r} : l \notin PermitHolders(q)
        BY <1>4 DEF PermitHolders
      <3> QED
        BY <1>4, <2>8, <3>1
    <2>10. h \notin PermitHolders(r) \ {l}
      BY <2>4 DEF PermitHolders
    <2>11. Cardinality(PermitHolders(r)') = Cardinality(PermitHolders(r))
      <3>1. Cardinality((PermitHolders(r) \ {l}) \cup {h})
              = Cardinality(PermitHolders(r) \ {l}) + 1
        BY <1>13, <2>10, FS_AddElement
      <3> QED
        BY <1>12, <1>13, <2>9, <3>1
    <2>12. claimWaiters' \in [Registries -> Seq(Lookups)]
      BY <1>1, <1>4, <1>15, <2>2
    <2>13. ClaimPermitsConserved'
      BY <1>1, <1>3, <1>4, <1>15, <2>2, <2>9, <2>11 DEF ClaimPermitsConserved
    <2>14. \A q \in Registries \ {r} : claimWaiters'[q] = claimWaiters[q]
      BY <1>1, <2>2
    <2>15. \A i \in 1 .. Len(claimWaiters'[r]) :
             /\ i + 1 \in line(r) /\ i + 1 # 1 /\ claimWaiters'[r][i] = claimWaiters[r][i + 1]
      BY <1>1, <1>4, <1>15, <2>2, <2>3
    <2>16. \A q \in Registries : \A i \in 1 .. Len(claimWaiters'[q]) :
             /\ lookup'[claimWaiters'[q][i]].step = "queued"
             /\ lookup'[claimWaiters'[q][i]].at = q
      <3>1. ASSUME NEW i \in 1 .. Len(claimWaiters'[r])
            PROVE  /\ lookup'[claimWaiters'[r][i]].step = "queued"
                   /\ lookup'[claimWaiters'[r][i]].at = r
        <4>1. PICK k \in line(r) : k # 1 /\ claimWaiters'[r][i] = claimWaiters[r][k]
          BY <2>15
        <4>2. 1 \in line(r)
          BY <2>3
        <4>3. claimWaiters[r][k] # h
          BY <1>2, <1>4, <2>3, <4>1, <4>2
        <4> QED
          BY <1>2, <1>4, <1>11, <2>5, <4>1, <4>3
      <3>2. ASSUME NEW q \in Registries \ {r}, NEW i \in line(q)
            PROVE  /\ lookup'[claimWaiters[q][i]].step = "queued"
                   /\ lookup'[claimWaiters[q][i]].at = q
        <4>1. claimWaiters[q][i] # h
          BY <1>2, <2>4
        <4> QED
          BY <1>2, <1>11, <2>5, <4>1
      <3> QED
        BY <2>14, <3>1, <3>2
    <2>17. \A q \in Registries : \A i, j \in 1 .. Len(claimWaiters'[q]) :
             claimWaiters'[q][i] = claimWaiters'[q][j] => i = j
      <3>1. ASSUME NEW i \in 1 .. Len(claimWaiters'[r]), NEW j \in 1 .. Len(claimWaiters'[r]),
                   claimWaiters'[r][i] = claimWaiters'[r][j]
            PROVE  i = j
        <4>1. /\ i + 1 \in line(r) /\ j + 1 \in line(r)
              /\ claimWaiters[r][i + 1] = claimWaiters[r][j + 1]
          BY <2>15, <3>1
        <4>2. i + 1 = j + 1
          BY <1>2, <1>4, <4>1
        <4> QED
          BY <4>2
      <3> QED
        BY <1>2, <2>14, <3>1
    <2>18. CallsGoOn
      <3>1. /\ lookup[h].step # "idle" /\ lookup'[h].step \notin {"resolve", "send"}
            /\ lookup'[h].guid = lookup[h].guid /\ lookup'[h].uid = lookup[h].uid
            /\ lookup'[h].late = lookup[h].late
        BY <2>4, <2>6
      <3>2. \A m \in Lookups \ {h} : lookup'[m].step # "idle" =>
              /\ lookup[m].step # "idle" /\ lookup'[m].guid = lookup[m].guid
              /\ lookup'[m].uid = lookup[m].uid /\ lookup'[m].late = lookup[m].late
              /\ lookup'[m].step \in {"resolve", "send"} => lookup[m].step \in {"resolve", "send"}
        BY <1>8, <2>5
      <3> QED
        BY <3>1, <3>2, Zenon DEF CallsGoOn
    <2> QED
      BY <1>1, <2>2, <2>7, <2>12, <2>13, <2>16, <2>17, <2>18 DEF PermitPart, WaitersAreQueued
  <1> QED
    BY <1>14, <1>15

\* A call that goes on by itself holds the permit it held.
LEMMA GoStep ==
  ASSUME PermitPart, NEW l \in Lookups, NEW step \in {"idle", "read", "quarantine", "send"},
         \/ lookup[l].step \in {"create", "read", "quarantine"} /\ step \in {"read", "quarantine"}
         \/ lookup[l].step \in {"verify", "send"} /\ step = "idle"
         \/ lookup[l].step = "resolve" /\ step \in {"idle", "send"},
         lookup' = LookupGoes(l, step), UNCHANGED <<activeClaims, claimWaiters>>
  PROVE  PermitPart' /\ CallsGoOn
  <1>1. lookup \in [Lookups -> Lookup] /\ claimWaiters \in [Registries -> Seq(Lookups)]
    BY DEF PermitPart
  <1>2. lookup[l] \in Lookup \ {LookupResting}
    BY <1>1 DEF LookupResting
  <1>3. \A m \in Lookups : lookup'[m] = IF m = l THEN At(lookup[l], step) ELSE lookup[m]
    BY <1>1 DEF LookupGoes
  <1>4. At(lookup[l], step) \in Lookup
    BY <1>2 DEF At, Lookup, LookupSteps
  <1>5. lookup' \in [Lookups -> Lookup]
    BY <1>1, <1>4 DEF LookupGoes
  <1>6. At(lookup[l], step) = LookupResting
          \/ /\ At(lookup[l], step).step = step /\ At(lookup[l], step).guid = lookup[l].guid
             /\ At(lookup[l], step).uid = lookup[l].uid /\ At(lookup[l], step).at = lookup[l].at
             /\ At(lookup[l], step).late = lookup[l].late
    BY <1>2 DEF At, Lookup, LookupResting
  <1>7. At(lookup[l], step) = LookupResting <=> step = "idle"
    BY <1>2 DEF At, Lookup, LookupResting
  <1>8. \A q \in Registries : PermitHolders(q)' = PermitHolders(q)
    BY <1>3, <1>6, <1>7 DEF PermitHolders, LookupResting
  <1>9. ClaimPermitsConserved'
    BY <1>8 DEF PermitPart, ClaimPermitsConserved
  <1>10. \A q \in Registries : \A i \in 1 .. Len(claimWaiters[q]) :
           claimWaiters[q][i] \in Lookups /\ claimWaiters[q][i] # l
    BY <1>1 DEF PermitPart, WaitersAreQueued
  <1>11. WaitersAreQueued'
    <2>1. claimWaiters' = claimWaiters
      OBVIOUS
    <2>2. \A q \in Registries : \A i \in 1 .. Len(claimWaiters[q]) :
            lookup'[claimWaiters[q][i]] = lookup[claimWaiters[q][i]]
      BY <1>3, <1>10
    <2>3. WaitersAreQueued
      BY DEF PermitPart
    <2> QED
      BY <2>1, <2>2, <2>3 DEF WaitersAreQueued
  <1>12. CallsGoOn
    <2>1. lookup'[l].step # "idle" =>
            /\ lookup'[l].guid = lookup[l].guid /\ lookup'[l].uid = lookup[l].uid
            /\ lookup'[l].late = lookup[l].late /\ lookup[l].step # "idle"
            /\ lookup'[l].step \in {"resolve", "send"} => lookup[l].step \in {"resolve", "send"}
      BY <1>3, <1>6, <1>7 DEF LookupResting
    <2>2. \A m \in Lookups \ {l} : lookup'[m] = lookup[m]
      BY <1>3
    <2> QED
      BY <2>1, <2>2 DEF CallsGoOn
  <1> QED
    BY <1>5, <1>9, <1>11, <1>12 DEF PermitPart

\* A call that starts takes a free permit or the last place in the line.
LEMMA TakeStep ==
  ASSUME PermitPart, NEW l \in Lookups, lookup[l].step = "idle",
         NEW r \in Registries, NEW call \in Lookup \ {LookupResting}, call.at = r,
         TakePermit(l, call)
  PROVE  PermitPart'
  <1>1. /\ lookup \in [Lookups -> Lookup]
        /\ activeClaims \in [Registries -> 0 .. MaxConcurrentClaims]
        /\ claimWaiters \in [Registries -> Seq(Lookups)]
    BY DEF PermitPart
  <1>2. \A q \in Registries : \A i \in 1 .. Len(claimWaiters[q]) :
          claimWaiters[q][i] \in Lookups /\ claimWaiters[q][i] # l
    BY <1>1 DEF PermitPart, WaitersAreQueued
  <1>3. \A q \in Registries : l \notin PermitHolders(q)
    BY DEF PermitHolders
  <1>4. CASE activeClaims[r] >= MaxConcurrentClaims
    <2>1. /\ lookup' = [lookup EXCEPT ![l] = [call EXCEPT !.step = "queued"]]
          /\ claimWaiters' = [claimWaiters EXCEPT ![r] = Append(@, l)] /\ UNCHANGED activeClaims
      BY <1>4 DEF TakePermit
    <2>2. [call EXCEPT !.step = "queued"] \in Lookup
          /\ [call EXCEPT !.step = "queued"].step = "queued"
          /\ [call EXCEPT !.step = "queued"].at = r
      BY DEF Lookup, LookupSteps
    <2>3. lookup' \in [Lookups -> Lookup] /\ claimWaiters' \in [Registries -> Seq(Lookups)]
      BY <1>1, <2>1, <2>2
    <2>4. /\ lookup'[l].step = "queued" /\ lookup'[l].at = r
          /\ \A m \in Lookups \ {l} : lookup'[m] = lookup[m]
      BY <1>1, <2>1, <2>2
    <2>5. \A q \in Registries : PermitHolders(q)' = PermitHolders(q)
      BY <1>3, <2>4 DEF PermitHolders
    <2>6. activeClaims[r] = MaxConcurrentClaims
      BY <1>1, <1>4, IdentityAssumption
    <2>7. ClaimPermitsConserved'
      BY <1>1, <2>1, <2>5, <2>6 DEF PermitPart, ClaimPermitsConserved
    <2>8. \A q \in Registries \ {r} : claimWaiters'[q] = claimWaiters[q]
      BY <1>1, <2>1
    <2>9. /\ Len(claimWaiters'[r]) = Len(claimWaiters[r]) + 1 /\ Len(claimWaiters[r]) \in Nat
          /\ \A i \in 1 .. Len(claimWaiters[r]) : claimWaiters'[r][i] = claimWaiters[r][i]
          /\ claimWaiters'[r][Len(claimWaiters[r]) + 1] = l
      BY <1>1, <2>1
    <2>10. WaitersAreQueued'
      <3>1. \A q \in Registries : \A i \in 1 .. Len(claimWaiters[q]) :
              /\ lookup'[claimWaiters[q][i]].step = "queued"
              /\ lookup'[claimWaiters[q][i]].at = q
        BY <1>2, <2>4 DEF PermitPart, WaitersAreQueued
      <3>2. \A i \in 1 .. Len(claimWaiters'[r]) :
              i \in 1 .. Len(claimWaiters[r]) \/ i = Len(claimWaiters[r]) + 1
        BY <2>9
      <3>3. \A i \in 1 .. Len(claimWaiters'[r]) :
              /\ lookup'[claimWaiters'[r][i]].step = "queued"
              /\ lookup'[claimWaiters'[r][i]].at = r
        BY <2>4, <2>9, <3>1, <3>2
      <3>4. \A i, j \in 1 .. Len(claimWaiters'[r]) :
              claimWaiters'[r][i] = claimWaiters'[r][j] => i = j
        BY <1>2, <2>9, <3>2 DEF PermitPart, WaitersAreQueued
      <3>5. \A q \in Registries \ {r} : \A i, j \in 1 .. Len(claimWaiters[q]) :
              claimWaiters[q][i] = claimWaiters[q][j] => i = j
        BY DEF PermitPart, WaitersAreQueued
      <3>6. ASSUME NEW q \in Registries
            PROVE  /\ \A i \in 1 .. Len(claimWaiters'[q]) :
                        /\ lookup'[claimWaiters'[q][i]].step = "queued"
                        /\ lookup'[claimWaiters'[q][i]].at = q
                   /\ \A i, j \in 1 .. Len(claimWaiters'[q]) :
                        claimWaiters'[q][i] = claimWaiters'[q][j] => i = j
        <4>1. CASE q = r
          BY <3>3, <3>4, <4>1
        <4>2. CASE q # r
          BY <2>8, <3>1, <3>5, <4>2
        <4> QED
          BY <4>1, <4>2
      <3> QED
        BY <3>6 DEF WaitersAreQueued
    <2> QED
      BY <1>1, <2>1, <2>3, <2>7, <2>10 DEF PermitPart
  <1>5. CASE activeClaims[r] < MaxConcurrentClaims
    <2>1. /\ lookup' = [lookup EXCEPT ![l] = [call EXCEPT !.step = "create"]]
          /\ activeClaims' = [activeClaims EXCEPT ![r] = @ + 1] /\ UNCHANGED claimWaiters
      BY <1>1, <1>5, IdentityAssumption DEF TakePermit
    <2>2. [call EXCEPT !.step = "create"] \in Lookup
          /\ [call EXCEPT !.step = "create"].step = "create"
          /\ [call EXCEPT !.step = "create"].at = r
      BY DEF Lookup, LookupSteps
    <2>3. /\ lookup' \in [Lookups -> Lookup]
          /\ activeClaims' \in [Registries -> 0 .. MaxConcurrentClaims]
      BY <1>1, <1>5, <2>1, <2>2, IdentityAssumption
    <2>4. /\ lookup'[l].step = "create" /\ lookup'[l].at = r
          /\ \A m \in Lookups \ {l} : lookup'[m] = lookup[m]
      BY <1>1, <2>1, <2>2
    <2>5. \A q \in Registries \ {r} : PermitHolders(q)' = PermitHolders(q)
      BY <1>3, <2>4 DEF PermitHolders
    <2>6. PermitHolders(r)' = PermitHolders(r) \cup {l}
      BY <2>4 DEF PermitHolders
    <2>7. Cardinality(PermitHolders(r)') = Cardinality(PermitHolders(r)) + 1
      BY <1>3, <2>6, HoldersFinite, FS_AddElement
    <2>8. claimWaiters[r] = <<>>
      BY <1>1, <1>5, IdentityAssumption DEF PermitPart, ClaimPermitsConserved
    <2>9. ClaimPermitsConserved'
      BY <1>1, <2>1, <2>5, <2>7, <2>8 DEF PermitPart, ClaimPermitsConserved
    <2>10. WaitersAreQueued'
      BY <1>2, <2>1, <2>4 DEF PermitPart, WaitersAreQueued
    <2> QED
      BY <1>1, <2>1, <2>3, <2>9, <2>10 DEF PermitPart
  <1> QED
    BY <1>1, <1>4, <1>5, IdentityAssumption

\* A new call knows of the quarantine, and one that routes has read the record.
LEMMA NewCallRoute ==
  ASSUME RoutePart, lookup \in [Lookups -> Lookup], agentRoute \in [Guids -> RouteRecord],
         NEW l \in Lookups, NEW call \in Lookup \ {LookupResting},
         lookup' = [lookup EXCEPT ![l] = call],
         call.late <=> agentRoute[call.guid].state = "collision",
         call.step # "send",
         call.step = "resolve" => /\ agentRoute[call.guid].state = "active"
                                  /\ agentRoute[call.guid].uid = call.uid,
         UNCHANGED <<agentRoute, served>>
  PROVE  RoutePart'
  <1>1. lookup'[l] = call /\ \A m \in Lookups \ {l} : lookup'[m] = lookup[m]
    OBVIOUS
  <1>2. LateIsQuarantined'
    BY <1>1 DEF RoutePart, LateIsQuarantined
  <1>3. RoutedByRoute'
    BY <1>1 DEF RoutePart, RoutedByRoute, Unknown
  <1> QED
    BY <1>2, <1>3
    DEF RoutePart, ServedByRoute, GuidNamesOneWorkspace, QuarantineHolds

\* A call that starts without a permit leaves the permits alone.
LEMMA EnterStep ==
  ASSUME PermitPart, NEW l \in Lookups, lookup[l].step = "idle",
         NEW call \in Lookup \ {LookupResting},
         call.step \in {"pending", "verify", "resolve"},
         lookup' = [lookup EXCEPT ![l] = call], UNCHANGED <<activeClaims, claimWaiters>>
  PROVE  PermitPart'
  <1>1. /\ lookup \in [Lookups -> Lookup] /\ claimWaiters \in [Registries -> Seq(Lookups)]
    BY DEF PermitPart
  <1>2. lookup' \in [Lookups -> Lookup] /\ lookup'[l] = call
        /\ \A m \in Lookups \ {l} : lookup'[m] = lookup[m]
    BY <1>1
  <1>3. \A q \in Registries : PermitHolders(q)' = PermitHolders(q)
    BY <1>2 DEF PermitHolders
  <1>4. ClaimPermitsConserved'
    BY <1>3 DEF PermitPart, ClaimPermitsConserved
  <1>5. \A q \in Registries : \A i \in 1 .. Len(claimWaiters[q]) :
          claimWaiters[q][i] \in Lookups /\ claimWaiters[q][i] # l
    BY <1>1 DEF PermitPart, WaitersAreQueued
  <1>6. WaitersAreQueued'
    BY <1>2, <1>5 DEF PermitPart, WaitersAreQueued
  <1> QED
    BY <1>2, <1>4, <1>6 DEF PermitPart

\* What a call is when it starts.
LEMMA CallIs ==
  ASSUME NEW l, NEW kind \in LookupKinds, NEW r \in Registries, NEW g \in Guids,
         NEW u \in AgentUids, NEW step \in LookupSteps
  PROVE  /\ Call(l, kind, r, g, u) \in Lookup \ {LookupResting}
         /\ Call(l, kind, r, g, u).at = r /\ Call(l, kind, r, g, u).guid = g
         /\ Call(l, kind, r, g, u).uid = u
         /\ Call(l, kind, r, g, u).late <=> agentRoute[g].state = "collision"
         /\ [Call(l, kind, r, g, u) EXCEPT !.step = step] \in Lookup \ {LookupResting}
         /\ [Call(l, kind, r, g, u) EXCEPT !.step = step].step = step
         /\ [Call(l, kind, r, g, u) EXCEPT !.step = step].guid = g
         /\ [Call(l, kind, r, g, u) EXCEPT !.step = step].uid = u
         /\ [Call(l, kind, r, g, u) EXCEPT !.step = step].late
              <=> agentRoute[g].state = "collision"
  <1>1. (agentRoute[g].state = "collision") \in BOOLEAN
    OBVIOUS
  <1> QED
    BY <1>1 DEF Call, Lookup, LookupSteps, LookupResting

\* A call that takes a permit or a place in the line is a new call.
LEMMA TakeRoute ==
  ASSUME RoutePart, PermitPart, agentRoute \in [Guids -> RouteRecord],
         NEW l \in Lookups, lookup[l].step = "idle",
         NEW kind \in LookupKinds, NEW r \in Registries, NEW g \in Guids, NEW u \in AgentUids,
         TakePermit(l, Call(l, kind, r, g, u)), UNCHANGED <<agentRoute, served>>
  PROVE  RoutePart' /\ PermitPart'
  <1> DEFINE call == Call(l, kind, r, g, u)
  <1>1. call \in Lookup \ {LookupResting} /\ call.at = r
    <2>1. (agentRoute[g].state = "collision") \in BOOLEAN
      OBVIOUS
    <2> QED
      BY <2>1 DEF Call, Lookup, LookupSteps, LookupResting
  <1>2. PermitPart'
    <2>1. TakePermit(l, call)
      OBVIOUS
    <2> HIDE DEF call
    <2> QED
      BY <1>1, <2>1, TakeStep
  <1>3. PICK step \in {"queued", "create"} : lookup' = [lookup EXCEPT ![l] = [call EXCEPT !.step = step]]
    BY DEF TakePermit
  <1>4. PICK new \in Lookup \ {LookupResting} :
          /\ new = [call EXCEPT !.step = step] /\ new.step = step
          /\ new.late <=> agentRoute[new.guid].state = "collision"
    <2>1. step \in LookupSteps
      BY DEF LookupSteps
    <2>2. [call EXCEPT !.step = step] \in Lookup \ {LookupResting}
          /\ [call EXCEPT !.step = step].step = step
          /\ [call EXCEPT !.step = step].guid = g
          /\ ([call EXCEPT !.step = step].late <=> agentRoute[g].state = "collision")
      BY <2>1, CallIs
    <2> DEFINE new == [call EXCEPT !.step = step]
    <2>3. new.late <=> agentRoute[new.guid].state = "collision"
      BY <2>2
    <2> QED
      BY <2>2, <2>3
  <1>5. lookup' = [lookup EXCEPT ![l] = new] /\ lookup \in [Lookups -> Lookup]
    BY <1>3, <1>4 DEF PermitPart
  <1>6. RoutePart'
    <2> HIDE DEF call
    <2> QED
      BY <1>4, <1>5, NewCallRoute
  <1> QED
    BY <1>2, <1>6

\* A step that leaves the records, the calls and the permits alone.
LEMMA IdentityKept ==
  ASSUME RoutePart, PermitPart,
         UNCHANGED <<agentRoute, lookup, activeClaims, claimWaiters, served>>
  PROVE  RoutePart' /\ PermitPart'
  <1>1. RoutePart'
    BY DEF RoutePart, ServedByRoute, LateIsQuarantined, RoutedByRoute,
           GuidNamesOneWorkspace, QuarantineHolds
  <1>2. \A q \in Registries : PermitHolders(q)' = PermitHolders(q)
    BY DEF PermitHolders
  <1>3. ClaimPermitsConserved'
    BY <1>2 DEF PermitPart, ClaimPermitsConserved
  <1>4. WaitersAreQueued'
    BY DEF PermitPart, WaitersAreQueued
  <1> QED
    BY <1>1, <1>3, <1>4 DEF PermitPart

LEMMA IdentityInductive == IdentityIInv /\ [IdentityNext]_idVars => IdentityIInv'
  <1> SUFFICES ASSUME IdentityIInv, [IdentityNext]_idVars PROVE IdentityIInv'
    OBVIOUS
  <1>1. /\ RoutePart /\ PermitPart
        /\ agentRoute \in [Guids -> RouteRecord]
        /\ claims \in [Registries -> SUBSET (Guids \X AgentUids)]
        /\ served \subseteq Guids \X AgentUids \X BOOLEAN
        /\ identityFaults \in 0 .. MaxIdentityFaults
        /\ lookup \in [Lookups -> Lookup]
    BY IdentityParts DEF PermitPart
  <1>2. ASSUME RoutePart', PermitPart', agentRoute' \in [Guids -> RouteRecord],
               claims' \in [Registries -> SUBSET (Guids \X AgentUids)],
               served' \subseteq Guids \X AgentUids \X BOOLEAN,
               identityFaults' \in 0 .. MaxIdentityFaults
        PROVE  IdentityIInv'
    BY <1>2 DEF IdentityIInv, IdentityTypeOK, RoutePart, PermitPart, RoutesAgree
  \* A call that has begun: what it is about, and where.
  <1>3. ASSUME NEW l \in Lookups, lookup[l].step # "idle"
        PROVE  /\ lookup[l].guid \in Guids /\ lookup[l].uid \in AgentUids
               /\ lookup[l].at \in Registries /\ lookup[l].late \in BOOLEAN
               /\ Key(l) \in Guids \X AgentUids /\ Bound(l) \in RouteRecord
               /\ Bound(l) # Unknown /\ Bound(l).state = "active" /\ Bound(l).uid = lookup[l].uid
    <2>1. lookup[l] \in Lookup \ {LookupResting}
      BY <1>1, <1>3 DEF LookupResting
    <2> QED
      BY <2>1 DEF Lookup, Key, Bound, RouteRecord, Unknown
  \* The steps of a call that claims: the records age, and it settles or goes on.
  <1>4. ASSUME NEW l \in Lookups, lookup[l].step \in {"create", "read", "quarantine"},
               NEW step \in {"idle", "verify"}, SettleLookup(l, step)
        PROVE  PermitPart' /\ CallsGoOn
    BY <1>1, <1>4, SettleStep
  <1>5. ASSUME NEW l \in Lookups, lookup[l].step \in {"create", "read", "quarantine"},
               NEW step \in {"read", "quarantine"}, lookup' = LookupGoes(l, step),
               UNCHANGED <<activeClaims, claimWaiters>>
        PROVE  PermitPart' /\ CallsGoOn
    BY <1>1, <1>5, GoStep
  <1>6. ASSUME UNCHANGED agentRoute PROVE RoutesOnlyAge
    BY <1>6 DEF RoutesOnlyAge
  <1>7. ASSUME NEW l \in Lookups, lookup[l].step # "idle",
               agentRoute[lookup[l].guid] = Unknown,
               agentRoute' = [agentRoute EXCEPT ![lookup[l].guid] = Bound(l)]
        PROVE  RoutesOnlyAge /\ agentRoute' \in [Guids -> RouteRecord]
    BY <1>1, <1>3, <1>7 DEF RoutesOnlyAge
  <1>8. ASSUME NEW l \in Lookups, lookup[l].step # "idle", Remember(l)
        PROVE  claims' \in [Registries -> SUBSET (Guids \X AgentUids)]
    BY <1>1, <1>3, <1>8 DEF Remember
  <1>9. ASSUME RoutesOnlyAge, CallsGoOn, UNCHANGED served PROVE RoutePart'
    BY <1>1, <1>9, RoutePartKept
  <1>10. ASSUME NEW l \in Lookups, CreateRoute(l) PROVE IdentityIInv'
    <2>1. lookup[l].step = "create" /\ UNCHANGED <<served, identityFaults>>
      BY <1>10 DEF CreateRoute
    <2>2. CASE /\ agentRoute[lookup[l].guid] = Unknown
               /\ agentRoute' = [agentRoute EXCEPT ![lookup[l].guid] = Bound(l)]
               /\ Remember(l)
               /\ SettleLookup(l, IF lookup[l].kind = "reserve" THEN "idle" ELSE "verify")
      <3>1. PermitPart' /\ CallsGoOn
        BY <1>4, <2>1, <2>2
      <3>2. /\ RoutesOnlyAge /\ agentRoute' \in [Guids -> RouteRecord]
            /\ claims' \in [Registries -> SUBSET (Guids \X AgentUids)]
        BY <1>7, <1>8, <2>1, <2>2
      <3> QED
        BY <1>1, <1>2, <1>9, <2>1, <3>1, <3>2
    <2>3. CASE SettleLookup(l, "idle") /\ UNCHANGED <<agentRoute, claims>>
      <3>1. PermitPart' /\ CallsGoOn
        BY <1>4, <2>1, <2>3
      <3> QED
        BY <1>1, <1>2, <1>6, <1>9, <2>1, <2>3, <3>1
    <2>4. CASE /\ lookup' = LookupGoes(l, "read")
               /\ UNCHANGED <<agentRoute, claims, activeClaims, claimWaiters>>
      <3>1. PermitPart' /\ CallsGoOn
        BY <1>5, <2>1, <2>4
      <3> QED
        BY <1>1, <1>2, <1>6, <1>9, <2>1, <2>4, <3>1
    <2> QED
      BY <1>10, <2>2, <2>3, <2>4 DEF CreateRoute
  <1>11. ASSUME NEW l \in Lookups, ClaimCreateFails(l) PROVE IdentityIInv'
    <2>1. /\ lookup[l].step = "create" /\ UNCHANGED <<claims, served>>
          /\ SettleLookup(l, "idle")
      BY <1>11 DEF ClaimCreateFails
    <2>2. identityFaults' \in 0 .. MaxIdentityFaults
      BY <1>1, <1>11, IdentityAssumption DEF ClaimCreateFails
    <2>3. PermitPart' /\ CallsGoOn
      BY <1>4, <2>1
    <2>4. RoutesOnlyAge /\ agentRoute' \in [Guids -> RouteRecord]
      BY <1>1, <1>6, <1>7, <1>11, <2>1 DEF ClaimCreateFails
    <2> QED
      BY <1>1, <1>2, <1>9, <2>1, <2>2, <2>3, <2>4
  <1>12. ASSUME NEW l \in Lookups, ReadRoute(l) PROVE IdentityIInv'
    <2>1. lookup[l].step = "read" /\ UNCHANGED <<agentRoute, served, identityFaults>>
      BY <1>12 DEF ReadRoute
    <2>2. CASE Remember(l) /\ SettleLookup(l, "verify")
      BY <1>1, <1>2, <1>4, <1>6, <1>8, <1>9, <2>1, <2>2
    <2>3. CASE SettleLookup(l, "idle") /\ UNCHANGED claims
      BY <1>1, <1>2, <1>4, <1>6, <1>9, <2>1, <2>3
    <2>4. CASE /\ claims' = [claims EXCEPT ![lookup[l].at] =
                              @ \ {<<lookup[l].guid, agentRoute[lookup[l].guid].uid>>}]
               /\ lookup' = LookupGoes(l, "quarantine")
               /\ UNCHANGED <<activeClaims, claimWaiters>>
      <3>1. claims' \in [Registries -> SUBSET (Guids \X AgentUids)]
        BY <1>1, <2>4
      <3>2. PermitPart' /\ CallsGoOn
        BY <1>5, <2>1, <2>4
      <3> QED
        BY <1>1, <1>2, <1>6, <1>9, <2>1, <3>1, <3>2
    <2> QED
      BY <1>12, <2>2, <2>3, <2>4 DEF ReadRoute
  <1>13. ASSUME NEW l \in Lookups, Quarantine(l) PROVE IdentityIInv'
    <2>1. lookup[l].step = "quarantine" /\ UNCHANGED <<claims, served, identityFaults>>
      BY <1>13 DEF Quarantine
    <2>2. PICK g \in Guids : g = lookup[l].guid
      BY <1>3, <2>1
    <2>3. CASE agentRoute[g].state = "active"
      <3>1. SettleLookup(l, "idle") /\ agentRoute' = [agentRoute EXCEPT ![g].state = "collision"]
        BY <1>13, <2>2, <2>3 DEF Quarantine
      <3>2. /\ agentRoute[g] \in [state : {"active", "collision"}, uid : AgentUids]
        BY <1>1, <2>3 DEF RouteRecord, Unknown
      <3>3. /\ RoutesOnlyAge /\ agentRoute' \in [Guids -> RouteRecord]
        BY <1>1, <3>1, <3>2 DEF RoutesOnlyAge, RouteRecord, Unknown
      <3> QED
        BY <1>1, <1>2, <1>4, <1>9, <2>1, <3>1, <3>3
    <2>4. CASE agentRoute[g].state # "active"
      <3>1. lookup' = LookupGoes(l, "read") /\ UNCHANGED <<agentRoute, activeClaims, claimWaiters>>
        BY <1>13, <2>2, <2>4 DEF Quarantine
      <3> QED
        BY <1>1, <1>2, <1>5, <1>6, <1>9, <2>1, <3>1
    <2> QED
      BY <2>3, <2>4
  \* The steps that look a call up once more, and the ones that answer.
  <1>14. ASSUME NEW l \in Lookups, Serve(l), lookup[l].step # "idle", CallsGoOn, UNCHANGED agentRoute,
                agentRoute[lookup[l].guid] # Unknown,
                agentRoute[lookup[l].guid].uid = lookup[l].uid, ~lookup[l].late
         PROVE  RoutePart' /\ served' \subseteq Guids \X AgentUids \X BOOLEAN
    <2> DEFINE p == <<lookup[l].guid, lookup[l].uid, lookup[l].late>>
    <2>1. served' = served \cup {p} /\ p \in Guids \X AgentUids \X BOOLEAN
          /\ p[1] = lookup[l].guid /\ p[2] = lookup[l].uid /\ ~p[3]
      BY <1>3, <1>14 DEF Serve
    <2>2. ServedByRoute'
      <3> HIDE DEF p
      <3> QED
        BY <1>1, <1>14, <2>1 DEF RoutePart, ServedByRoute
    <2>3. GuidNamesOneWorkspace' /\ QuarantineHolds'
      <3> HIDE DEF p
      <3> QED
        BY <1>1, <1>14, <2>1, <2>2 DEF RoutePart, ServedByRoute, GuidNamesOneWorkspace, QuarantineHolds
    <2>4. \A m \in Lookups : lookup[m].step # "idle" => lookup[m].guid \in Guids
      BY <1>3
    <2>5. LateIsQuarantined' /\ RoutedByRoute'
      BY <1>1, <1>14, <2>4 DEF RoutePart, LateIsQuarantined, RoutedByRoute, CallsGoOn
    <2> QED
      BY <1>1, <2>1, <2>2, <2>3, <2>5 DEF RoutePart
  <1>15. ASSUME NEW l \in Lookups, Verify(l) PROVE IdentityIInv'
    <2>1. /\ lookup[l].step = "verify" /\ lookup' = LookupGoes(l, "idle")
          /\ UNCHANGED <<agentRoute, claims, activeClaims, claimWaiters, identityFaults>>
      BY <1>15 DEF Verify
    <2>2. PermitPart' /\ CallsGoOn
      BY <1>1, <2>1, GoStep
    <2>3. CASE Serve(l) /\ agentRoute[lookup[l].guid] = Bound(l)
      <3>1. /\ agentRoute[lookup[l].guid] # Unknown
            /\ agentRoute[lookup[l].guid].uid = lookup[l].uid
            /\ agentRoute[lookup[l].guid].state # "collision"
        BY <1>3, <2>1, <2>3
      <3>2. ~lookup[l].late
        BY <1>1, <2>1, <3>1 DEF RoutePart, LateIsQuarantined
      <3> QED
        BY <1>1, <1>2, <1>14, <2>1, <2>2, <2>3, <3>1, <3>2
    <2>4. CASE UNCHANGED served
      BY <1>1, <1>2, <1>6, <1>9, <2>1, <2>2, <2>4
    <2> QED
      BY <1>15, <2>3, <2>4 DEF Verify
  <1>16. ASSUME NEW l \in Lookups, RouteAgain(l) PROVE IdentityIInv'
    <2>1. PICK step \in {"idle", "send"} :
            /\ lookup[l].step = "resolve" /\ lookup' = LookupGoes(l, step)
            /\ UNCHANGED <<agentRoute, claims, activeClaims, claimWaiters, served, identityFaults>>
      BY <1>16 DEF RouteAgain
    <2>2. PermitPart' /\ CallsGoOn
      BY <1>1, <2>1, GoStep
    <2> QED
      BY <1>1, <1>2, <1>6, <1>9, <2>1, <2>2
  <1>17. ASSUME NEW l \in Lookups, SendRouted(l) PROVE IdentityIInv'
    <2>1. /\ lookup[l].step = "send" /\ lookup' = LookupGoes(l, "idle") /\ Serve(l)
          /\ UNCHANGED <<agentRoute, claims, activeClaims, claimWaiters, identityFaults>>
      BY <1>17 DEF SendRouted
    <2>2. PermitPart' /\ CallsGoOn
      BY <1>1, <2>1, GoStep
    <2>3. /\ agentRoute[lookup[l].guid] # Unknown
          /\ agentRoute[lookup[l].guid].uid = lookup[l].uid /\ ~lookup[l].late
      BY <1>1, <2>1 DEF RoutePart, RoutedByRoute
    <2> QED
      BY <1>1, <1>2, <1>14, <2>1, <2>2, <2>3
  \* The steps that start a call.
  <1>18. ASSUME NEW l \in Lookups, lookup[l].step = "idle",
                NEW kind \in LookupKinds, NEW r \in Registries, NEW g \in Guids, NEW u \in AgentUids,
                NEW step \in {"pending", "verify", "resolve"},
                step = "resolve" => agentRoute[g].state = "active" /\ agentRoute[g].uid = u,
                lookup' = [lookup EXCEPT ![l] = [Call(l, kind, r, g, u) EXCEPT !.step = step]],
                UNCHANGED <<activeClaims, claimWaiters, agentRoute, served>>
         PROVE  RoutePart' /\ PermitPart'
    <2>1. PICK new \in Lookup \ {LookupResting} :
            /\ new = [Call(l, kind, r, g, u) EXCEPT !.step = step]
            /\ new.step = step /\ new.guid = g /\ new.uid = u
            /\ new.late <=> agentRoute[g].state = "collision"
      <3>1. step \in LookupSteps
        BY DEF LookupSteps
      <3>2. /\ [Call(l, kind, r, g, u) EXCEPT !.step = step] \in Lookup \ {LookupResting}
            /\ [Call(l, kind, r, g, u) EXCEPT !.step = step].step = step
            /\ [Call(l, kind, r, g, u) EXCEPT !.step = step].guid = g
            /\ [Call(l, kind, r, g, u) EXCEPT !.step = step].uid = u
            /\ ([Call(l, kind, r, g, u) EXCEPT !.step = step].late
                  <=> agentRoute[g].state = "collision")
        BY <3>1, CallIs
      <3> QED
        BY <3>2
    <2>2. /\ lookup' = [lookup EXCEPT ![l] = new]
          /\ UNCHANGED <<activeClaims, claimWaiters>> /\ UNCHANGED <<agentRoute, served>>
      BY <1>18, <2>1
    <2>3. /\ new.step \in {"pending", "verify", "resolve"} /\ new.step # "send"
          /\ new.late <=> agentRoute[new.guid].state = "collision"
      BY <2>1
    <2>4. new.step = "resolve" => /\ agentRoute[new.guid].state = "active"
                                  /\ agentRoute[new.guid].uid = new.uid
      BY <1>18, <2>1
    <2>5. PermitPart'
      BY <1>1, <1>18, <2>2, <2>3, EnterStep
    <2>6. RoutePart'
      BY <1>1, <2>2, <2>3, <2>4, NewCallRoute
    <2> QED
      BY <2>5, <2>6
  <1>19. ASSUME NEW l \in Lookups, NEW r \in Registries, NEW g \in Guids, NEW u \in AgentUids,
                Project(l, r, g, u)
         PROVE  IdentityIInv'
    <2>1. lookup[l].step = "idle" /\ UNCHANGED <<agentRoute, claims, served, identityFaults>>
      BY <1>19 DEF Project
    <2>2. CASE TakePermit(l, Call(l, "project", r, g, u))
      <3>1. RoutePart' /\ PermitPart'
        BY <1>1, <2>1, <2>2, TakeRoute DEF LookupKinds
      <3> QED
        BY <1>1, <1>2, <2>1, <3>1
    <2>3. ASSUME NEW step \in {"pending", "verify"},
                 lookup' = [lookup EXCEPT ![l] = [Call(l, "project", r, g, u) EXCEPT !.step = step]],
                 UNCHANGED <<activeClaims, claimWaiters>>
          PROVE  IdentityIInv'
      <3>1. RoutePart' /\ PermitPart'
        BY <1>18, <2>1, <2>3 DEF LookupKinds
      <3> QED
        BY <1>1, <1>2, <2>1, <3>1
    <2> QED
      BY <1>19, <2>2, <2>3 DEF Project
  <1>20. ASSUME NEW l \in Lookups, NEW r \in Registries, NEW g \in Guids, NEW u \in AgentUids,
                Reserve(l, r, g, u)
         PROVE  IdentityIInv'
    <2>1. /\ lookup[l].step = "idle" /\ UNCHANGED <<agentRoute, claims, served, identityFaults>>
          /\ TakePermit(l, Call(l, "reserve", r, g, u))
      BY <1>20 DEF Reserve
    <2>2. RoutePart' /\ PermitPart'
      BY <1>1, <2>1, TakeRoute DEF LookupKinds
    <2> QED
      BY <1>1, <1>2, <2>1, <2>2
  <1>21. ASSUME NEW l \in Lookups, NEW r \in Registries, NEW g \in Guids, Route(l, r, g)
         PROVE  IdentityIInv'
    <2>1. PICK u \in AgentUids : u = agentRoute[g].uid /\ agentRoute[g].state = "active"
      BY <1>1, <1>21 DEF Route, RouteRecord, Unknown
    <2>2. /\ lookup[l].step = "idle"
          /\ lookup' = [lookup EXCEPT ![l] = [Call(l, "route", r, g, u) EXCEPT !.step = "resolve"]]
          /\ UNCHANGED <<agentRoute, claims, activeClaims, claimWaiters, served, identityFaults>>
      BY <1>21, <2>1 DEF Route
    <2>3. RoutePart' /\ PermitPart'
      BY <1>18, <2>1, <2>2 DEF LookupKinds
    <2> QED
      BY <1>1, <1>2, <2>2, <2>3
  <1>22. ASSUME NEW r \in Registries, ClaimExpires(r) PROVE IdentityIInv'
    <2>1. PICK key \in claims[r] : claims' = [claims EXCEPT ![r] = @ \ {key}]
      BY <1>22 DEF ClaimExpires
    <2>2. UNCHANGED <<agentRoute, lookup, activeClaims, claimWaiters, served, identityFaults>>
      BY <1>22 DEF ClaimExpires
    <2>3. claims' \in [Registries -> SUBSET (Guids \X AgentUids)]
      BY <1>1, <2>1
    <2>4. RoutePart' /\ PermitPart'
      BY <1>1, <2>2, IdentityKept
    <2> QED
      BY <1>1, <1>2, <2>2, <2>3, <2>4
  <1>23. ASSUME UNCHANGED idVars PROVE IdentityIInv'
    <2>1. UNCHANGED <<agentRoute, claims, lookup, activeClaims, claimWaiters, served, identityFaults>>
      BY <1>23 DEF idVars
    <2>2. RoutePart' /\ PermitPart'
      BY <1>1, <2>1, IdentityKept
    <2> QED
      BY <1>1, <1>2, <2>1, <2>2
  <1> QED
    BY <1>10, <1>11, <1>12, <1>13, <1>15, <1>16, <1>17, <1>19, <1>20, <1>21, <1>22, <1>23
    DEF IdentityNext, Start, Advance

\* Whatever workspaces report a GUID, and to whichever gateway process, it is
\* shown and routed as the agent of one workspace, never again after its
\* quarantine, and every permit is held by a claim (AgentIdentityRegistry and
\* AgentRouting).
THEOREM GuidsAreRoutedRight == IdentitySpec => []RoutesAgree
  <1>1. IdentityIInv => RoutesAgree
    BY DEF IdentityIInv
  <1> QED
    BY <1>1, IdentityInitial, IdentityInductive, PTL DEF IdentitySpec


-----------------------------------------------------------------------------
(* Permission decisions.                                                    *)

\* finish() and the close handler look at pendingPermissions only, so it has
\* to hold exactly the decisions that are under way.
PendingIsUnderWay == pendingPermissions = {d \in Decisions : decision[d] # NoDecision}

\* A socket that is not open was closed cleanly or for a reason that excuses.
ClosedForAReason ==
  /\ socket # "open" => cleanClose \/ excused
  /\ policyClosing \/ shuttingDown => excused

\* Until its close event the socket's channel is live, short of a shutdown.
CurrentIsLive ==
  socket \in {"open", "closing"} /\ current # NoChannel /\ ~shuttingDown
    => channel[current] = "live"

\* A decision that may not be lost travels in a live channel.
AcceptedIsLive ==
  ~excused => \A d \in Decisions :
    decision[d].step = "accepted" => channel[decision[d].target] = "live"

PermIInv ==
  /\ PermTypeOK /\ PendingIsUnderWay /\ ClosedForAReason /\ CurrentIsLive
  /\ AcceptedIsLive /\ DecisionsSent

LEMMA PermInitial == PermInit => PermIInv
  <1> SUFFICES ASSUME PermInit PROVE PermIInv
    OBVIOUS
  <1> USE PermissionAssumption DEF PermInit, NoDecision
  <1>1. PermTypeOK
    <2>1. /\ socket \in {"open", "closing", "grace", "over"}
          /\ channel \in [Channels -> ChannelStates]
          /\ current \in Channels \cup {NoChannel} /\ pendingPermissions \subseteq Decisions
          /\ decision \in [Decisions -> Decision] /\ losses \in 0 .. MaxLosses
      BY DEF Decision, ChannelStates
    <2> QED
      BY <2>1 DEF PermTypeOK
  <1>2. PendingIsUnderWay
    BY DEF PendingIsUnderWay
  <1>3. ClosedForAReason
    BY DEF ClosedForAReason
  <1>4. CurrentIsLive
    BY DEF CurrentIsLive
  <1>5. AcceptedIsLive
    BY DEF AcceptedIsLive
  <1>6. DecisionsSent
    BY DEF DecisionsSent, AcceptedDecisionSent, IdleCloseKeepsClient
  <1> QED
    BY <1>1, <1>2, <1>3, <1>4, <1>5, <1>6 DEF PermIInv

LEMMA PermInductive == PermIInv /\ [PermNext]_permVars => PermIInv'
  <1> SUFFICES ASSUME PermIInv, [PermNext]_permVars PROVE PermIInv'
    OBVIOUS
  <1> USE PermissionAssumption
      DEF PermIInv, PermTypeOK, PendingIsUnderWay, ClosedForAReason, CurrentIsLive,
          AcceptedIsLive, NoDecision, Decision, ChannelStates
  <1>1. ASSUME NEW d \in Decisions, Accept(d) PROVE PermIInv'
    <2>1. PermTypeOK'
      BY <1>1 DEF Accept, ChannelIdle
    <2>2. (PendingIsUnderWay /\ ClosedForAReason /\ CurrentIsLive /\ AcceptedIsLive)'
      BY <1>1 DEF Accept, ChannelIdle
    <2>3. DecisionsSent'
      BY <1>1 DEF Accept, ChannelIdle, DecisionsSent, AcceptedDecisionSent, IdleCloseKeepsClient
    <2> QED
      BY <2>1, <2>2, <2>3
  <1>2. ASSUME NEW d \in Decisions, Handled(d) PROVE PermIInv'
    <2>1. PermTypeOK'
      BY <1>2 DEF Handled
    <2>2. (PendingIsUnderWay /\ ClosedForAReason /\ CurrentIsLive /\ AcceptedIsLive)'
      BY <1>2 DEF Handled
    <2>3. DecisionsSent'
      BY <1>2 DEF Handled, DecisionsSent, AcceptedDecisionSent, IdleCloseKeepsClient
    <2> QED
      BY <2>1, <2>2, <2>3
  <1>3. ASSUME NEW d \in Decisions, Finish(d) PROVE PermIInv'
    <2>1. PermTypeOK'
      BY <1>3 DEF Finish, CloseChannel
    <2>2. (PendingIsUnderWay /\ ClosedForAReason /\ CurrentIsLive /\ AcceptedIsLive)'
      BY <1>3 DEF Finish, CloseChannel
    <2>3. DecisionsSent'
      BY <1>3 DEF Finish, CloseChannel, DecisionsSent, AcceptedDecisionSent, IdleCloseKeepsClient
    <2> QED
      BY <2>1, <2>2, <2>3
  <1>4. ASSUME NEW c \in Channels, ChannelGone(c) PROVE PermIInv'
    <2>1. PermTypeOK'
      BY <1>4 DEF ChannelGone
    <2>2. (PendingIsUnderWay /\ ClosedForAReason /\ CurrentIsLive /\ AcceptedIsLive)'
      BY <1>4 DEF ChannelGone
    <2>3. DecisionsSent'
      BY <1>4 DEF ChannelGone, DecisionsSent, AcceptedDecisionSent, IdleCloseKeepsClient
    <2> QED
      BY <2>1, <2>2, <2>3
  <1>5. CASE PermissionBackendLost
    <2>1. PermTypeOK'
      BY <1>5 DEF PermissionBackendLost
    <2>2. (PendingIsUnderWay /\ ClosedForAReason /\ CurrentIsLive /\ AcceptedIsLive)'
      BY <1>5 DEF PermissionBackendLost
    <2>3. DecisionsSent'
      BY <1>5 DEF PermissionBackendLost, DecisionsSent, AcceptedDecisionSent, IdleCloseKeepsClient
    <2> QED
      BY <2>1, <2>2, <2>3
  <1>6. CASE SocketCloses
    <2>1. PermTypeOK'
      BY <1>6 DEF SocketCloses
    <2>2. (PendingIsUnderWay /\ ClosedForAReason /\ CurrentIsLive /\ AcceptedIsLive)'
      BY <1>6 DEF SocketCloses
    <2>3. DecisionsSent'
      BY <1>6 DEF SocketCloses, DecisionsSent, AcceptedDecisionSent, IdleCloseKeepsClient
    <2> QED
      BY <2>1, <2>2, <2>3
  <1>7. CASE CloseEvent
    <2>1. PermTypeOK'
      BY <1>7 DEF CloseEvent, CloseChannel
    <2>2. (PendingIsUnderWay /\ ClosedForAReason /\ CurrentIsLive /\ AcceptedIsLive)'
      BY <1>7 DEF CloseEvent, CloseChannel
    <2>3. DecisionsSent'
      BY <1>7 DEF CloseEvent, CloseChannel, DecisionsSent, AcceptedDecisionSent, IdleCloseKeepsClient
    <2> QED
      BY <2>1, <2>2, <2>3
  <1>8. CASE GraceEnds
    <2>1. PermTypeOK'
      BY <1>8 DEF GraceEnds, CloseChannel
    <2>2. (PendingIsUnderWay /\ ClosedForAReason /\ CurrentIsLive /\ AcceptedIsLive)'
      BY <1>8 DEF GraceEnds, CloseChannel
    <2>3. DecisionsSent'
      BY <1>8 DEF GraceEnds, CloseChannel, DecisionsSent, AcceptedDecisionSent, IdleCloseKeepsClient
    <2> QED
      BY <2>1, <2>2, <2>3
  <1>9. CASE Shutdown
    <2>1. PermTypeOK'
      BY <1>9 DEF Shutdown
    <2>2. (PendingIsUnderWay /\ ClosedForAReason /\ CurrentIsLive /\ AcceptedIsLive)'
      BY <1>9 DEF Shutdown
    <2>3. DecisionsSent'
      BY <1>9 DEF Shutdown, DecisionsSent, AcceptedDecisionSent, IdleCloseKeepsClient
    <2> QED
      BY <2>1, <2>2, <2>3
  <1>10. CASE Reconnect
    <2>1. PermTypeOK'
      BY <1>10 DEF Reconnect
    <2>2. (PendingIsUnderWay /\ ClosedForAReason /\ CurrentIsLive /\ AcceptedIsLive)'
      BY <1>10 DEF Reconnect
    <2>3. DecisionsSent'
      BY <1>10 DEF Reconnect, DecisionsSent, AcceptedDecisionSent, IdleCloseKeepsClient
    <2> QED
      BY <2>1, <2>2, <2>3
  <1>11. CASE UNCHANGED permVars
    <2>1. PermTypeOK'
      BY <1>11 DEF permVars
    <2>2. (PendingIsUnderWay /\ ClosedForAReason /\ CurrentIsLive /\ AcceptedIsLive)'
      BY <1>11 DEF permVars
    <2>3. DecisionsSent'
      BY <1>11 DEF permVars, DecisionsSent, AcceptedDecisionSent, IdleCloseKeepsClient
    <2> QED
      BY <2>1, <2>2, <2>3
  <1> QED
    BY <1>1, <1>2, <1>3, <1>4, <1>5, <1>6, <1>7, <1>8, <1>9, <1>10, <1>11 DEF PermNext

\* A decision accepted from a client that closes cleanly is sent, unless an
\* error, a policy, a lost backend, the end of the grace period or a shutdown
\* excuses it, and no retired channel disconnects a client (startGateway()).
THEOREM DecisionsAreSent == PermSpec => []DecisionsSent
  <1>1. PermIInv => DecisionsSent
    BY DEF PermIInv
  <1> QED
    BY <1>1, PermInitial, PermInductive, PTL DEF PermSpec

-----------------------------------------------------------------------------
(* Download handles.                                                        *)

\* handle() consumes a handle before it awaits anything, so one that is in the
\* map has not been accepted since it was issued.
MappedIsUnused == \A h \in Handles : handle[h] # "none" => redeemed[h] = 0

DownloadIInv == DownloadTypeOK /\ MappedIsUnused /\ HandlesAccounted

LEMMA TransferringFinite == IsFiniteSet(Transferring)
  BY DownloadAssumption, FS_Subset DEF Transferring

LEMMA DownloadInitial == DownloadInit => DownloadIInv
  <1> SUFFICES ASSUME DownloadInit PROVE DownloadIInv
    OBVIOUS
  <1>1. Transferring = {}
    BY DEF DownloadInit, Transferring, NoDownload
  <1> QED
    BY <1>1, FS_EmptySet, DownloadAssumption
    DEF DownloadInit, DownloadIInv, DownloadTypeOK, MappedIsUnused, HandlesAccounted,
        HandleRedeemedOnce, DownloadsCounted, NoDownload, Download, Accesses

\* Of one request at most the membership among the transfers changes.
LEMMA DownloadInductive == DownloadIInv /\ [DownloadNext]_downloadVars => DownloadIInv'
  <1> SUFFICES ASSUME DownloadIInv, [DownloadNext]_downloadVars PROVE DownloadIInv'
    OBVIOUS
  <1> USE DownloadAssumption
      DEF DownloadIInv, DownloadTypeOK, MappedIsUnused, HandlesAccounted,
          HandleRedeemedOnce, DownloadsCounted, NoDownload, Download, Accesses
  <1>1. CASE AccessChanges
    BY <1>1 DEF AccessChanges, Transferring
  <1>2. ASSUME NEW h \in Handles, Issue(h) PROVE DownloadIInv'
    BY <1>2 DEF Issue, HandleUnused, Transferring
  <1>3. ASSUME NEW h \in Handles, HandleExpires(h) PROVE DownloadIInv'
    BY <1>3 DEF HandleExpires, Transferring
  <1>4. ASSUME NEW d \in Downloaders, NEW h \in Handles, Redeem(d, h)
        PROVE  DownloadIInv'
    <2>1. Transferring' = Transferring
      BY <1>4 DEF Redeem, Transferring
    <2> QED
      BY <1>4, <2>1 DEF Redeem
  <1>5. ASSUME NEW d \in Downloaders, Authorize(d) PROVE DownloadIInv'
    <2>1. d \notin Transferring
      BY <1>5 DEF Authorize, Transferring
    <2>2. CASE readAccess = "good" /\ active < MaxDownloads
      <3>1. Transferring' = Transferring \cup {d}
        BY <1>5, <2>2 DEF Authorize, Transferring, DownloadGoes
      <3>2. Cardinality(Transferring') = Cardinality(Transferring) + 1
        BY <2>1, <3>1, TransferringFinite, FS_AddElement
      <3> QED
        BY <1>5, <2>2, <3>2 DEF Authorize, DownloadGoes
    <2>3. CASE ~(readAccess = "good" /\ active < MaxDownloads)
      <3>1. Transferring' = Transferring
        BY <1>5, <2>3 DEF Authorize, Transferring, DownloadRests
      <3> QED
        BY <1>5, <2>3, <3>1 DEF Authorize, DownloadRests
    <2> QED
      BY <2>2, <2>3
  <1>6. ASSUME NEW d \in Downloaders, RevokeCheck(d) \/ RevokeReadFails(d)
        PROVE  DownloadIInv'
    <2>1. Transferring' = Transferring
      BY <1>6 DEF RevokeCheck, RevokeReadFails, Transferring, DownloadGoes
    <2> QED
      BY <1>6, <2>1 DEF RevokeCheck, RevokeReadFails, DownloadGoes
  <1>7. ASSUME NEW d \in Downloaders, TransferEnds(d) PROVE DownloadIInv'
    <2>1. d \in Transferring /\ Transferring' = Transferring \ {d}
      BY <1>7 DEF TransferEnds, Transferring, DownloadRests
    <2>2. Cardinality(Transferring') = Cardinality(Transferring) - 1
      BY <2>1, TransferringFinite, FS_RemoveElement
    <2>3. Cardinality(Transferring') \in Nat
      BY <2>1, TransferringFinite, FS_RemoveElement, FS_CardinalityType
    <2> QED
      BY <1>7, <2>2, <2>3 DEF TransferEnds, DownloadRests
  <1>8. CASE UNCHANGED downloadVars
    BY <1>8 DEF downloadVars, Transferring
  <1> QED
    BY <1>1, <1>2, <1>3, <1>4, <1>5, <1>6, <1>7, <1>8 DEF DownloadNext

\* One handle serves one request whatever becomes of it, and the limit of
\* concurrent transfers counts exactly the transfers there are (downloads.ts).
THEOREM HandlesAreAccounted == DownloadSpec => []HandlesAccounted
  <1>1. DownloadIInv => HandlesAccounted
    BY DEF DownloadIInv
  <1> QED
    BY <1>1, DownloadInitial, DownloadInductive, PTL DEF DownloadSpec

-----------------------------------------------------------------------------
(* Discovery: what a session answers about a project (session.ts).          *)

Fingerprints == [uid : Nat, spec : Nat, secret : Nat]
AskRecord ==
  [step : AskSteps, kind : AskKinds, print : Fingerprints, data : Fingerprints,
   current : Fingerprints, late : BOOLEAN, replies : {<<>>, <<"ok">>, <<"error">>}]

ProjectSound ==
  /\ scope \in [uid : Nat \ {0}, spec : Nat \ {0}, secret : Nat \ {0}, granted : BOOLEAN]
  /\ Changes <= MaxScope

\* A request is answered before its work ends by its timer only.
AnswerSound(a) ==
  /\ a.late => a.kind = "deadline" /\ a.step # "none"
  /\ a.replies # <<>> /\ a.step # "done" => a.late

\* What each read leaves for the ones after it: the credentials, which are only
\* ever renewed, were read for the print before they were read for the data.
\* With the print unchanged at the end they are the same.
WorkSound(a, now) ==
  /\ a.step \in {"work", "access", "again", "final"} => a.print.secret <= now.secret
  /\ a.step \in {"work", "final"} =>
       a.current.uid = a.print.uid /\ a.current.spec = a.print.spec
  /\ a.step \in {"access", "again", "final"} =>
       /\ a.data.uid = a.print.uid /\ a.data.spec = a.print.spec
       /\ a.print.secret <= a.data.secret /\ a.data.secret <= now.secret
  /\ a.step = "final" => a.data = a.print

DiscoveryIInv ==
  /\ ProjectSound
  /\ ask \in [Asks -> AskRecord]
  /\ \A q \in Asks : AnswerSound(ask[q]) /\ WorkSound(ask[q], scope)
  /\ watchedUid \in 0 .. scope.uid
  /\ listening \subseteq 1 .. scope.uid

LEMMA SameFingerprint ==
  ASSUME NEW x \in Fingerprints, NEW y \in Fingerprints,
         x.uid = y.uid, x.spec = y.spec, x.secret = y.secret
  PROVE  x = y
  BY DEF Fingerprints

LEMMA DiscoveryInitial == DiscoveryInit => DiscoveryIInv
  <1> SUFFICES ASSUME DiscoveryInit PROVE DiscoveryIInv
    OBVIOUS
  <1>1. NewAsk \in AskRecord /\ AnswerSound(NewAsk) /\ WorkSound(NewAsk, scope)
    BY DEF NewAsk, NoScope, AskRecord, AskSteps, AskKinds, Fingerprints, AnswerSound,
       WorkSound
  <1> QED
    BY <1>1, DiscoveryAssumption
       DEF DiscoveryInit, DiscoveryIInv, ProjectSound, Changes

\* One request moves to the record a and nothing else changes but the watch.
LEMMA OneAskMoves ==
  ASSUME DiscoveryIInv, NEW q \in Asks, NEW a \in AskRecord,
         AnswerSound(a), WorkSound(a, scope),
         ask' = [ask EXCEPT ![q] = a], UNCHANGED scope,
         watchedUid' \in 0 .. scope.uid, listening' \subseteq 1 .. scope.uid
  PROVE  DiscoveryIInv'
  <1>1. \A r \in Asks : ask'[r] \in {a, ask[r]}
    BY DEF DiscoveryIInv
  <1> QED
    BY <1>1 DEF DiscoveryIInv, ProjectSound, Changes

\* The record of a request that ends, with the answers it has or with an error.
LEMMA EndedAsk ==
  ASSUME NEW a \in AskRecord, NEW replies \in {<<>>, <<"ok">>, <<"error">>},
         NEW now
  PROVE  LET e == [NewAsk EXCEPT !.step = "done", !.kind = a.kind, !.replies = replies]
         IN  e \in AskRecord /\ AnswerSound(e) /\ WorkSound(e, now)
  BY DEF NewAsk, NoScope, AskRecord, AskSteps, AskKinds, Fingerprints, AnswerSound, WorkSound

LEMMA FailedAsk ==
  ASSUME DiscoveryIInv, NEW q \in Asks, ask' = Fails(q), UNCHANGED scope,
         watchedUid' \in 0 .. scope.uid, listening' \subseteq 1 .. scope.uid
  PROVE  DiscoveryIInv'
  <1>1. PICK replies \in {<<>>, <<"ok">>, <<"error">>} : ask' = AskEnds(q, replies)
    BY DEF Fails, DiscoveryIInv, AskRecord
  <1> DEFINE e == [NewAsk EXCEPT !.step = "done", !.kind = ask[q].kind, !.replies = replies]
  <1>2. ask[q] \in AskRecord
    BY DEF DiscoveryIInv
  <1>3. e \in AskRecord /\ AnswerSound(e) /\ WorkSound(e, scope)
    BY <1>2, EndedAsk
  <1>4. ask' = [ask EXCEPT ![q] = e]
    BY <1>1 DEF AskEnds
  <1> HIDE DEF e
  <1> QED
    BY <1>3, <1>4, OneAskMoves

\* A step of a request, a move of it to a record that the reads so far support.
LEMMA AskKeeps ==
  ASSUME DiscoveryIInv, NEW q \in Asks, AskStep(q) \/ DeadlinePasses(q) \/ TimerAnswers(q)
  PROVE  DiscoveryIInv'
  <1> DEFINE Supported(a) ==
               /\ a \in AskRecord /\ AnswerSound(a) /\ WorkSound(a, scope)
               /\ ask' = [ask EXCEPT ![q] = a]
  <1>1. /\ ask[q] \in AskRecord /\ AnswerSound(ask[q]) /\ WorkSound(ask[q], scope)
        /\ ask \in [Asks -> AskRecord]
        /\ scope.uid \in Nat /\ scope.spec \in Nat /\ scope.secret \in Nat
        /\ watchedUid \in 0 .. scope.uid /\ listening \subseteq 1 .. scope.uid
        /\ scope.uid >= 1
    BY DEF DiscoveryIInv, ProjectSound
  <1>2. ASSUME NEW a, Supported(a), UNCHANGED scope,
               watchedUid' \in 0 .. scope.uid, listening' \subseteq 1 .. scope.uid
        PROVE  DiscoveryIInv'
    BY <1>2, OneAskMoves
  <1> USE DEF AskRecord, AskSteps, AskKinds, Fingerprints
  <1>3. /\ Identity(q) \in Fingerprints /\ Identity(q).secret = scope.secret
         /\ Identity(q).uid = ask[q].current.uid /\ Identity(q).spec = ask[q].current.spec
    BY <1>1 DEF Identity
  <1>4. CASE ReadRecords(q)
    <2>1. /\ UNCHANGED scope /\ ask[q].step = "records"
          /\ watchedUid' \in 0 .. scope.uid /\ listening' \subseteq 1 .. scope.uid
      BY <1>1, <1>4 DEF ReadRecords
    <2>2. CASE ask' = Fails(q)
      BY <2>1, <2>2, FailedAsk
    <2>3. CASE ask' # Fails(q)
      <3>1. Supported([ask[q] EXCEPT !.step = "identity", !.current = Fingerprint(scope)])
        BY <1>1, <1>4, <2>1, <2>3
           DEF ReadRecords, AskGoes, Fingerprint, AnswerSound, WorkSound
      <3> QED
        BY <1>2, <2>1, <3>1
    <2> QED
      BY <2>2, <2>3
  <1>5. CASE ReadIdentity(q)
    <2>1. CASE ask' = Fails(q)
      BY <1>1, <1>5, <2>1, FailedAsk DEF ReadIdentity
    <2>2. CASE ask' # Fails(q)
      <3>1. PICK print \in Fingerprints : print = Identity(q)
        BY <1>3
      <3>2. /\ ask[q].step = "identity"
            /\ ask' = [ask EXCEPT ![q] = [ask[q] EXCEPT !.step = "work", !.print = print]]
        BY <1>1, <1>5, <2>2, <3>1 DEF ReadIdentity, AskGoes
      <3> DEFINE a == [ask[q] EXCEPT !.step = "work", !.print = print]
      <3>3. a \in AskRecord
        BY <1>1, <3>1
      <3>4. /\ a.step = "work" /\ a.late = ask[q].late /\ a.kind = ask[q].kind
            /\ a.replies = ask[q].replies /\ a.current = ask[q].current
            /\ a.print = print /\ a.data = ask[q].data
        BY <1>1
      <3>5. AnswerSound(a)
        BY <1>1, <3>2, <3>4 DEF AnswerSound
      <3>6. WorkSound(a, scope)
        BY <1>1, <1>3, <3>1, <3>2, <3>4 DEF WorkSound
      <3>7. Supported(a)
        BY <3>2, <3>3, <3>5, <3>6
      <3> QED
        BY <1>1, <1>2, <1>5, <3>7 DEF ReadIdentity
    <2> QED
      BY <2>1, <2>2
  <1>6. CASE ScopedWork(q)
    <2>1. CASE ask' = Fails(q)
      BY <1>1, <1>6, <2>1, FailedAsk DEF ScopedWork
    <2>2. CASE ask' # Fails(q)
      <3>1. PICK data \in Fingerprints : data = Identity(q)
        BY <1>3
      <3>2. /\ ask[q].step = "work"
            /\ ask' = [ask EXCEPT ![q] = [ask[q] EXCEPT !.step = "access", !.data = data]]
        BY <1>1, <1>6, <2>2, <3>1 DEF ScopedWork, AskGoes
      <3> DEFINE a == [ask[q] EXCEPT !.step = "access", !.data = data]
      <3>3. a \in AskRecord
        BY <1>1, <3>1
      <3>4. /\ a.step = "access" /\ a.late = ask[q].late /\ a.kind = ask[q].kind
            /\ a.replies = ask[q].replies /\ a.current = ask[q].current
            /\ a.data = data /\ a.print = ask[q].print
        BY <1>1
      <3>5. AnswerSound(a)
        BY <1>1, <3>2, <3>4 DEF AnswerSound
      <3>6. WorkSound(a, scope)
        BY <1>1, <1>3, <3>1, <3>2, <3>4 DEF WorkSound
      <3>7. Supported(a)
        BY <3>2, <3>3, <3>5, <3>6
      <3> QED
        BY <1>1, <1>2, <1>6, <3>7 DEF ScopedWork
    <2> QED
      BY <2>1, <2>2
  <1>7. CASE ReadAccess(q)
    <2>1. CASE ask' = Fails(q)
      BY <1>1, <1>7, <2>1, FailedAsk DEF ReadAccess
    <2>2. CASE ask' # Fails(q)
      <3>1. Supported([ask[q] EXCEPT !.step = "again", !.current = Fingerprint(scope)])
        BY <1>1, <1>7, <2>2 DEF ReadAccess, AskGoes, Fingerprint, AnswerSound, WorkSound
      <3> QED
        BY <1>1, <1>2, <1>7, <3>1 DEF ReadAccess
    <2> QED
      BY <2>1, <2>2
  <1>8. CASE ReadIdentityAgain(q)
    <2>1. CASE ask' = Fails(q)
      BY <1>1, <1>8, <2>1, FailedAsk DEF ReadIdentityAgain
    <2>2. CASE ask' # Fails(q)
      <3>1. /\ ask[q].step = "again" /\ Identity(q) = ask[q].print
            /\ ask' = AskGoes(q, "final")
        BY <1>8, <2>2 DEF ReadIdentityAgain
      <3>2. /\ ask[q].current.uid = ask[q].print.uid /\ ask[q].current.spec = ask[q].print.spec
            /\ scope.secret = ask[q].print.secret
        BY <1>1, <3>1 DEF Identity
      <3>3. ask[q].data = ask[q].print
        <4>1. /\ ask[q].data.uid = ask[q].print.uid /\ ask[q].data.spec = ask[q].print.spec
              /\ ask[q].data.secret = ask[q].print.secret
          BY <1>1, <3>1, <3>2 DEF WorkSound
        <4>2. ask[q].data \in Fingerprints /\ ask[q].print \in Fingerprints
          BY <1>1
        <4> QED
          BY <4>1, <4>2, SameFingerprint
      <3>4. Supported([ask[q] EXCEPT !.step = "final"])
        BY <1>1, <3>1, <3>2, <3>3 DEF AskGoes, AnswerSound, WorkSound
      <3> QED
        BY <1>1, <1>2, <1>8, <3>4 DEF ReadIdentityAgain
    <2> QED
      BY <2>1, <2>2
  <1>9. CASE AnswerAsk(q)
    <2>1. CASE ask' = Fails(q)
      BY <1>1, <1>9, <2>1, FailedAsk DEF AnswerAsk
    <2>2. CASE ask' # Fails(q)
      <3>1. ask[q].replies = <<>>
        BY <1>1, <1>9, <2>2 DEF AnswerAsk, AnswerSound
      <3>2. PICK replies \in {<<>>, <<"ok">>, <<"error">>} : ask' = AskEnds(q, replies)
        BY <1>9, <2>2, <3>1 DEF AnswerAsk
      <3> DEFINE e == [NewAsk EXCEPT !.step = "done", !.kind = ask[q].kind, !.replies = replies]
      <3>3. e \in AskRecord /\ AnswerSound(e) /\ WorkSound(e, scope)
        BY ZenonT(60), <1>1, EndedAsk
      <3>4. Supported(e)
        BY <3>2, <3>3 DEF AskEnds
      <3> QED
        BY <1>1, <1>2, <1>9, <3>4 DEF AnswerAsk
    <2> QED
      BY <2>1, <2>2
  <1>10. CASE DeadlinePasses(q)
    <2>1. Supported([ask[q] EXCEPT !.late = TRUE])
      BY <1>1, <1>10 DEF DeadlinePasses, AnswerSound, WorkSound
    <2> QED
      BY <1>1, <1>2, <1>10, <2>1 DEF DeadlinePasses
  <1>11. CASE TimerAnswers(q)
    <2>1. Supported([ask[q] EXCEPT !.replies = <<"error">>])
      BY <1>1, <1>11 DEF TimerAnswers, AnswerSound, WorkSound
    <2> QED
      BY <1>1, <1>2, <1>11, <2>1 DEF TimerAnswers
  <1> QED
    BY <1>4, <1>5, <1>6, <1>7, <1>8, <1>9, <1>10, <1>11 DEF AskStep

LEMMA DiscoveryInductive == DiscoveryIInv /\ [DiscoveryNext]_discoveryVars => DiscoveryIInv'
  <1> SUFFICES ASSUME DiscoveryIInv, [DiscoveryNext]_discoveryVars PROVE DiscoveryIInv'
    OBVIOUS
  <1>1. CASE ScopeChanges
    <2>1. /\ scope'.uid >= scope.uid /\ scope'.secret >= scope.secret /\ ProjectSound'
          /\ scope'.uid \in Nat
      BY <1>1, DiscoveryAssumption DEF ScopeChanges, DiscoveryIInv, ProjectSound, Changes
    <2>2. \A q \in Asks : WorkSound(ask[q], scope)'
      BY <1>1, <2>1 DEF ScopeChanges, DiscoveryIInv, WorkSound, AskRecord, Fingerprints,
         ProjectSound
    <2> QED
      BY <1>1, <2>1, <2>2 DEF ScopeChanges, DiscoveryIInv, AnswerSound, ProjectSound
  <1>2. CASE GrantChanges
    <2>1. /\ scope'.uid = scope.uid /\ scope'.secret = scope.secret /\ ProjectSound'
      BY <1>2 DEF GrantChanges, DiscoveryIInv, ProjectSound, Changes
    <2> QED
      BY <1>2, <2>1 DEF GrantChanges, DiscoveryIInv, AnswerSound, WorkSound
  <1>3. CASE CloseDiscovery
    BY <1>3 DEF CloseDiscovery, DiscoveryIInv, AnswerSound, WorkSound, ProjectSound, Changes
  <1>4. ASSUME NEW q \in Asks, NEW kind \in AskKinds, Ask(q, kind) PROVE DiscoveryIInv'
    <2>1. PICK uid \in listening \cup {0} :
            ask' = [ask EXCEPT ![q] = [ask[q] EXCEPT !.step = "records", !.kind = kind,
                                                     !.current.uid = uid]]
      <3>1. PICK uid \in listening \cup {0} :
              ask' = [AskGoes(q, "records") EXCEPT ![q].kind = kind, ![q].current.uid = uid]
        BY <1>4 DEF Ask
      <3>2. ask \in [Asks -> AskRecord]
        BY DEF DiscoveryIInv
      <3> QED
        BY <3>1, <3>2 DEF AskGoes, AskRecord
    <2> DEFINE a == [ask[q] EXCEPT !.step = "records", !.kind = kind, !.current.uid = uid]
    <2>2. /\ ask[q] \in AskRecord /\ ask[q].step = "none" /\ AnswerSound(ask[q])
          /\ uid \in Nat
      BY <1>4 DEF Ask, DiscoveryIInv, ProjectSound
    <2>3. ~ask[q].late
      BY <2>2 DEF AnswerSound
    <2>4. a \in AskRecord /\ AnswerSound(a) /\ WorkSound(a, scope)
      BY <2>2, <2>3 DEF AskRecord, AskSteps, Fingerprints, AnswerSound, WorkSound
    <2> HIDE DEF a
    <2> QED
      BY <1>4, <2>1, <2>4, OneAskMoves DEF Ask, DiscoveryIInv, a
  <1>5. CASE UNCHANGED discoveryVars
    BY <1>5 DEF discoveryVars, DiscoveryIInv, AnswerSound, WorkSound, ProjectSound, Changes
  <1> QED
    BY <1>1, <1>2, <1>3, <1>4, <1>5, AskKeeps DEF DiscoveryNext

\* Only the last step of a request answers it with what it has found.
LEMMA DiscoveryStep ==
  DiscoveryIInv /\ [DiscoveryNext]_discoveryVars =>
    \A q \in Asks : ask'[q].replies # ask[q].replies /\ ask'[q].replies[1] = "ok" =>
      /\ scope.granted
      /\ ask[q].data = ask[q].print
      /\ ask[q].data.uid = scope.uid /\ ask[q].data.spec = scope.spec
  <1> SUFFICES ASSUME DiscoveryIInv, [DiscoveryNext]_discoveryVars, NEW q \in Asks,
                      ask'[q].replies # ask[q].replies, ask'[q].replies[1] = "ok"
               PROVE  /\ scope.granted
                      /\ ask[q].data = ask[q].print
                      /\ ask[q].data.uid = scope.uid /\ ask[q].data.spec = scope.spec
    OBVIOUS
  <1>1. ask \in [Asks -> AskRecord]
    BY DEF DiscoveryIInv
  <1>2. <<"error">>[1] # "ok"
    OBVIOUS
  <1>3. ASSUME NEW r \in Asks PROVE ask' # Fails(r)
    <2>1. SUFFICES ASSUME NEW replies \in {ask[r].replies, <<"error">>},
                          ask' = AskEnds(r, replies)
                   PROVE  FALSE
      BY DEF Fails
    <2>2. ask'[q].replies \in {ask[q].replies, <<"error">>}
      BY <1>1, <2>1 DEF AskEnds, NewAsk, AskRecord
    <2> QED
      BY <1>2, <2>2
  <1>4. ASSUME NEW r \in Asks, NEW step PROVE ask' # AskGoes(r, step)
    BY <1>1 DEF AskGoes, AskRecord
  <1>5. ASSUME NEW r \in Asks, AskStep(r) PROVE AnswerAsk(r)
    BY <1>1, <1>3, <1>4, <1>5 DEF AskStep, ReadRecords, ReadIdentity, ScopedWork, ReadAccess,
       ReadIdentityAgain, AskGoes, AskRecord
  <1>6. ASSUME NEW r \in Asks, AnswerAsk(r)
        PROVE  q = r /\ SameProject(q) /\ ask[q].step = "final"
    BY <1>1, <1>3, <1>6 DEF AnswerAsk, AskEnds, AskRecord
  <1>7. PICK r \in Asks : AskStep(r)
    <2>1. ~\E r \in Asks : TimerAnswers(r)
      BY <1>1, <1>2 DEF TimerAnswers, AskRecord
    <2>2. ~\E r \in Asks : DeadlinePasses(r) \/ \E kind \in AskKinds : Ask(r, kind)
      <3>1. ASSUME NEW r \in Asks, NEW kind \in AskKinds, NEW uid,
                   ask' = [AskGoes(r, "records") EXCEPT ![r].kind = kind,
                                                        ![r].current.uid = uid]
            PROVE  FALSE
        BY <1>1, <3>1 DEF AskGoes, AskRecord
      <3>2. ~\E r \in Asks : DeadlinePasses(r)
        BY <1>1 DEF DeadlinePasses, AskRecord
      <3> QED
        BY ZenonT(60), <3>1, <3>2 DEF Ask
    <2>3. ~(ScopeChanges \/ GrantChanges \/ CloseDiscovery \/ UNCHANGED discoveryVars)
      BY DEF ScopeChanges, GrantChanges, CloseDiscovery, discoveryVars
    <2> QED
      BY <2>1, <2>2, <2>3 DEF DiscoveryNext
  <1>8. SameProject(q) /\ ask[q].step = "final"
    BY <1>5, <1>6, <1>7
  <1> QED
    BY <1>8 DEF SameProject, DiscoveryIInv, WorkSound

LEMMA DiscoverySafe == DiscoveryIInv => DiscoveryTypeOK /\ AnsweredOnce
  <1> SUFFICES ASSUME DiscoveryIInv PROVE DiscoveryTypeOK /\ AnsweredOnce
    OBVIOUS
  <1>1. scope.uid <= MaxScope + 1 /\ scope.uid \in Nat
    BY DiscoveryAssumption DEF DiscoveryIInv, ProjectSound, Changes
  <1>2. DiscoveryTypeOK
    BY <1>1, DiscoveryAssumption DEF DiscoveryTypeOK, DiscoveryIInv, AskRecord
  <1>3. Len(<<>>) <= 1 /\ Len(<<"ok">>) <= 1 /\ Len(<<"error">>) <= 1
    OBVIOUS
  <1> QED
    BY <1>2, <1>3 DEF AnsweredOnce, DiscoveryIInv, AskRecord

\* "A timed-out checkout RPC is not allowed to emit a late success": a request
\* is answered once, and what it is answered fits the project it is answered
\* for, whatever was edited, replaced or withdrawn between the reads of
\* handle().
THEOREM AsksAreAnsweredRightly == DiscoverySpec => AsksAnsweredRightly
  BY DiscoveryInitial, DiscoveryInductive, DiscoveryStep, DiscoverySafe, PTL
     DEF DiscoverySpec, AsksAnsweredRightly, AnswerFitsProject

-----------------------------------------------------------------------------
(* The listing of agents (session.ts with agent-inventory.ts).              *)

FetchRecord ==
  [step : {"idle", "list", "fence"}, seen : [Spaces -> Lives], todo : SUBSET Spaces,
   entries : SUBSET Agents, unknown : SUBSET Spaces, removals : SUBSET Agents,
   next : SUBSET Agents]

\* A listing has the agents of the workspaces it has learned of, and takes none
\* away of those it has not.
ListingSound(g) ==
  /\ \A s \in g.todo \cup g.unknown : Listed(g.seen[s])
  /\ g.todo \cap g.unknown = {}
  /\ \A a \in g.entries : HomeOf[a] \notin g.todo \cup g.unknown
  /\ g.step = "fence" => \A a \in g.removals : HomeOf[a] \notin g.unknown

\* What a listing will say of the agents the session has told of.
ListingComplete(g) ==
  g.step = "fence" =>
    /\ g.next = IF g.unknown = {} THEN g.entries
                ELSE {a \in lastActive : HomeOf[a] \in g.unknown} \cup g.entries
    /\ g.unknown # {} =>
         \A a \in lastActive \ g.entries : HomeOf[a] \notin g.unknown => a \in g.removals

\* The client waits for one listing before it asks for the next.
OneFetch == \A f, g \in Fetches : f = g

DirectoryIInv ==
  /\ DirectoryTypeOK
  /\ fetch \in [Fetches -> FetchRecord]
  /\ inventory \in [Spaces -> [known : BOOLEAN, agents : SUBSET Agents]]
  /\ \A f \in Fetches : ListingSound(fetch[f])
  /\ OneFetch => /\ shown \subseteq lastActive
                 /\ \A f \in Fetches : ListingComplete(fetch[f])

LEMMA DirectoryInitial == DirectoryInit => DirectoryIInv
  <1> SUFFICES ASSUME DirectoryInit PROVE DirectoryIInv
    OBVIOUS
  <1>1. /\ NoFetch \in FetchRecord /\ ListingSound(NoFetch) /\ ListingComplete(NoFetch)
    BY DEF NoFetch, FetchRecord, Lives, ListingSound, ListingComplete
  <1>2. NoInventory \in [known : BOOLEAN, agents : SUBSET Agents] /\ NoInventory.agents = {}
    BY DEF NoInventory
  <1>3. DirectoryTypeOK
    BY <1>1, <1>2, DirectoryAssumption DEF DirectoryInit, DirectoryTypeOK, FetchRecord, Lives,
       NoFetch
  <1> QED
    BY <1>1, <1>2, <1>3 DEF DirectoryInit, DirectoryIInv

\* The workspaces and their agents change while listings are under way.
LEMMA SpacesKeep ==
  ASSUME DirectoryIInv,
         \/ \E a \in Agents : AgentCreated(a) \/ AgentDeleted(a)
         \/ \E s \in Spaces : \/ SpaceMoves(s) \/ ReleaseSpace(s)
                              \/ StopSpace(s, "suspended") \/ StopSpace(s, "archived")
  PROVE  DirectoryIInv'
  <1> USE DirectoryAssumption DEF Lives
  <1>1. /\ UNCHANGED <<fetch, lastActive, shown, dirFaults>>
    BY DEF AgentCreated, AgentDeleted, SpaceMoves, SpaceBecomes, ReleaseSpace, StopSpace
  <1>2. /\ space' \in [Spaces -> Lives] /\ moves' \in 0 .. MaxMoves
        /\ living' \subseteq Agents \ unborn' /\ unborn' \subseteq Agents
    BY DEF AgentCreated, AgentDeleted, SpaceMoves, SpaceBecomes, ReleaseSpace, StopSpace,
       DirectoryIInv, DirectoryTypeOK
  <1>3. /\ inventory' \in [Spaces -> [known : BOOLEAN, agents : SUBSET Agents]]
        /\ \A s \in Spaces : inventory'[s].agents \subseteq AgentsOf(s)
    <2>1. ASSUME NEW s \in Spaces
          PROVE  /\ Captured(s) \in [known : BOOLEAN, agents : SUBSET Agents]
                 /\ Captured(s).agents \subseteq AgentsOf(s)
                 /\ NoInventory \in [known : BOOLEAN, agents : SUBSET Agents]
                 /\ NoInventory.agents = {}
      BY DEF Captured, NoInventory, AgentsOf
    <2>2. \/ inventory' = inventory
          \/ \E s \in Spaces : inventory' = [inventory EXCEPT ![s] = Captured(s)]
          \/ \E s \in Spaces : inventory' = [inventory EXCEPT ![s] = NoInventory]
      BY DEF AgentCreated, AgentDeleted, SpaceMoves, ReleaseSpace, StopSpace
    <2> QED
      BY <2>1, <2>2 DEF DirectoryIInv, DirectoryTypeOK
  <1>4. DirectoryTypeOK'
    BY <1>1, <1>2, <1>3 DEF DirectoryIInv, DirectoryTypeOK
  <1> QED
    BY <1>1, <1>3, <1>4 DEF DirectoryIInv, ListingComplete

\* One listing moves to the record g and the rest stays.
LEMMA OneFetchMoves ==
  ASSUME DirectoryIInv, NEW f \in Fetches, NEW g \in FetchRecord, ListingSound(g),
         OneFetch => ListingComplete(g), fetch' = [fetch EXCEPT ![f] = g],
         dirFaults' \in 0 .. MaxDirFaults,
         UNCHANGED <<space, living, unborn, inventory, lastActive, shown, moves>>
  PROVE  DirectoryIInv'
  <1>1. \A h \in Fetches : fetch'[h] \in {g, fetch[h]}
    BY DEF DirectoryIInv
  <1>2. fetch' \in [Fetches -> FetchRecord]
    BY DEF DirectoryIInv
  <1>3. DirectoryTypeOK'
    BY <1>2 DEF DirectoryIInv, DirectoryTypeOK, FetchRecord
  <1>4. OneFetch => \A h \in Fetches : ListingComplete(fetch[h])'
    BY <1>1 DEF DirectoryIInv, ListingComplete
  <1> QED
    BY <1>1, <1>2, <1>3, <1>4 DEF DirectoryIInv

\* Learning a workspace, or learning nothing about it.
LEMMA ListsKeep ==
  ASSUME DirectoryIInv, NEW f \in Fetches, NEW s \in Spaces,
         ListDaemon(f, s) \/ ListInventory(f, s)
  PROVE  DirectoryIInv'
  <1>1. /\ fetch[f] \in FetchRecord /\ ListingSound(fetch[f]) /\ fetch[f].step = "list"
        /\ s \in fetch[f].todo /\ fetch \in [Fetches -> FetchRecord]
    BY DEF DirectoryIInv, ListDaemon, ListInventory
  <1>2. /\ dirFaults' \in 0 .. MaxDirFaults
        /\ UNCHANGED <<space, living, unborn, inventory, lastActive, shown, moves>>
    BY DirectoryAssumption DEF DirectoryIInv, DirectoryTypeOK, ListDaemon, ListInventory
  <1>3. ASSUME NEW agents \in SUBSET AgentsOf(s), fetch' = Learned(f, s, agents)
        PROVE  DirectoryIInv'
    <2> DEFINE g == [fetch[f] EXCEPT !.todo = @ \ {s}, !.entries = @ \cup agents]
    <2>1. g \in FetchRecord
      BY <1>1 DEF FetchRecord, AgentsOf
    <2>2. ListingSound(g) /\ ListingComplete(g)
      BY <1>1 DEF ListingSound, ListingComplete, FetchRecord, AgentsOf
    <2>3. fetch' = [fetch EXCEPT ![f] = g]
      BY <1>1, <1>3 DEF Learned
    <2> HIDE DEF g
    <2> QED
      BY <1>2, <2>1, <2>2, <2>3, OneFetchMoves
  <1>4. CASE fetch' = [fetch EXCEPT ![f].todo = @ \ {s}, ![f].unknown = @ \cup {s}]
    <2> DEFINE g == [fetch[f] EXCEPT !.todo = @ \ {s}, !.unknown = @ \cup {s}]
    <2>1. g \in FetchRecord
      BY <1>1 DEF FetchRecord
    <2>2. ListingSound(g) /\ ListingComplete(g)
      BY <1>1 DEF ListingSound, ListingComplete, FetchRecord
    <2>3. fetch' = [fetch EXCEPT ![f] = g]
      BY <1>1, <1>4
    <2> HIDE DEF g
    <2> QED
      BY <1>2, <2>1, <2>2, <2>3, OneFetchMoves
  <1>5. CASE ListDaemon(f, s)
    <2>1. living \cap AgentsOf(s) \in SUBSET AgentsOf(s)
      OBVIOUS
    <2> QED
      BY <1>3, <1>5, <2>1 DEF ListDaemon
  <1>6. CASE ListInventory(f, s)
    <2>1. inventory[s].agents \in SUBSET AgentsOf(s)
      BY DEF DirectoryIInv, DirectoryTypeOK
    <2>2. \/ fetch' = Learned(f, s, inventory[s].agents)
          \/ fetch' = [fetch EXCEPT ![f].todo = @ \ {s}, ![f].unknown = @ \cup {s}]
      BY <1>6 DEF ListInventory
    <2> QED
      BY <1>3, <1>4, <2>1, <2>2
  <1> QED
    BY <1>5, <1>6

LEMMA FetchKeeps ==
  ASSUME DirectoryIInv, NEW f \in Fetches, StartFetch(f) \/ ConcludeFetch(f) \/ AnswerFetch(f)
  PROVE  DirectoryIInv'
  <1>1. /\ fetch[f] \in FetchRecord /\ ListingSound(fetch[f])
        /\ fetch \in [Fetches -> FetchRecord] /\ space \in [Spaces -> Lives]
        /\ dirFaults \in 0 .. MaxDirFaults /\ lastActive \subseteq Agents
    BY DEF DirectoryIInv, DirectoryTypeOK
  <1>2. NoFetch \in FetchRecord /\ ListingSound(NoFetch) /\ ListingComplete(NoFetch)
    BY DEF NoFetch, FetchRecord, Lives, ListingSound, ListingComplete
  <1>3. CASE StartFetch(f)
    <2> DEFINE g == [NoFetch EXCEPT !.step = "list", !.seen = space,
                                    !.todo = {s \in Spaces : Listed(space[s])}]
    <2>1. g \in FetchRecord /\ ListingSound(g) /\ ListingComplete(g)
      BY <1>1 DEF NoFetch, FetchRecord, ListingSound, ListingComplete
    <2>2. fetch' = [fetch EXCEPT ![f] = g]
      BY <1>3 DEF StartFetch
    <2> HIDE DEF g
    <2> QED
      BY <1>1, <1>3, <2>1, <2>2, OneFetchMoves DEF StartFetch
  <1>4. CASE ConcludeFetch(f)
    <2>1. PICK removals : removals = IF fetch[f].unknown = {} THEN {}
                                     ELSE Tombstones(f) \cup Vanished(f)
      OBVIOUS
    <2>2. PICK next : next = IF fetch[f].unknown = {} THEN fetch[f].entries ELSE NextActive(f)
      OBVIOUS
    <2> DEFINE g == [fetch[f] EXCEPT !.step = "fence", !.removals = removals, !.next = next]
    <2>3. /\ fetch[f].step = "list" /\ fetch[f].todo = {}
          /\ fetch' \in {[fetch EXCEPT ![f] = NoFetch], [fetch EXCEPT ![f] = g]}
      BY <1>1, <1>4, <2>1, <2>2 DEF ConcludeFetch
    <2>4. removals \subseteq Agents /\ \A a \in removals : HomeOf[a] \notin fetch[f].unknown
      <3>1. ASSUME NEW a \in Tombstones(f)
            PROVE  a \in Agents /\ HomeOf[a] \notin fetch[f].unknown
        <4>1. PICK s \in Spaces : fetch[f].seen[s] = "archived" /\ a \in inventory[s].agents
          BY DEF Tombstones
        <4>2. a \in Agents /\ HomeOf[a] = s
          BY <4>1 DEF DirectoryIInv, DirectoryTypeOK, AgentsOf
        <4> QED
          BY <1>1, <4>1, <4>2 DEF ListingSound, Listed
      <3> QED
        BY <1>1, <2>1, <3>1 DEF Vanished
    <2>5. g \in FetchRecord
      <3>1. next \in SUBSET Agents
        BY <1>1, <2>2 DEF NextActive, FetchRecord
      <3> QED
        BY <1>1, <2>4, <3>1 DEF FetchRecord
    <2>6. ListingSound(g)
      BY <1>1, <2>3, <2>4 DEF ListingSound, FetchRecord
    <2>7. ListingComplete(g)
      BY <1>1, <2>1, <2>2 DEF ListingComplete, FetchRecord, NextActive, Vanished
    <2> HIDE DEF g
    <2> QED
      BY <1>1, <1>2, <1>4, <2>3, <2>5, <2>6, <2>7, OneFetchMoves DEF ConcludeFetch
  <1>5. CASE AnswerFetch(f)
    <2>1. /\ fetch[f].step = "fence" /\ fetch' = [fetch EXCEPT ![f] = NoFetch]
          /\ UNCHANGED <<space, living, unborn, inventory, moves, dirFaults>>
          /\ \/ UNCHANGED <<lastActive, shown>>
             \/ /\ lastActive' = fetch[f].next
                /\ shown' = IF fetch[f].unknown = {} THEN fetch[f].entries
                            ELSE (shown \ fetch[f].removals) \cup fetch[f].entries
      BY <1>5 DEF AnswerFetch
    <2>2. CASE UNCHANGED <<lastActive, shown>>
      BY <1>1, <1>2, <2>1, <2>2, OneFetchMoves
    <2>3. CASE ~UNCHANGED <<lastActive, shown>>
      <3>1. lastActive' \subseteq Agents /\ shown' \subseteq Agents
        BY <1>1, <2>1, <2>3 DEF FetchRecord, DirectoryIInv, DirectoryTypeOK
      <3>2. fetch' \in [Fetches -> FetchRecord] /\ \A h \in Fetches : fetch'[h] \in {NoFetch, fetch[h]}
        BY <1>1, <1>2, <2>1
      <3>3. DirectoryTypeOK'
        BY <2>1, <3>1, <3>2 DEF DirectoryIInv, DirectoryTypeOK, FetchRecord
      <3>4. OneFetch => shown' \subseteq lastActive'
        <4> SUFFICES ASSUME OneFetch PROVE shown' \subseteq lastActive'
          OBVIOUS
        <4>1. shown \subseteq lastActive /\ ListingComplete(fetch[f])
          BY DEF DirectoryIInv
        <4> QED
          BY <1>1, <2>1, <2>3, <4>1 DEF ListingComplete, DirectoryIInv, DirectoryTypeOK, FetchRecord
      <3>5. OneFetch => \A h \in Fetches : ListingComplete(fetch[h])'
        BY <1>1, <2>1 DEF OneFetch, ListingComplete, NoFetch
      <3> QED
        BY <1>2, <2>1, <3>2, <3>3, <3>4, <3>5 DEF DirectoryIInv
    <2> QED
      BY <2>2, <2>3
  <1> QED
    BY <1>3, <1>4, <1>5

LEMMA DirectoryInductive == DirectoryIInv /\ [DirectoryNext]_directoryVars => DirectoryIInv'
  <1> SUFFICES ASSUME DirectoryIInv, [DirectoryNext]_directoryVars PROVE DirectoryIInv'
    OBVIOUS
  <1>1. CASE UNCHANGED directoryVars
    BY <1>1 DEF directoryVars, DirectoryIInv, DirectoryTypeOK, ListingComplete
  <1> QED
    BY <1>1, SpacesKeep, ListsKeep, FetchKeeps DEF DirectoryNext

\* Only an answer changes what the client shows.
LEMMA AnswersAreSent ==
  ASSUME DirectoryIInv, [DirectoryNext]_directoryVars, NEW f \in Fetches, Answers(f)
  PROVE  /\ fetch[f] \in FetchRecord /\ ListingSound(fetch[f])
         /\ fetch[f].step = "fence"
         /\ shown' = IF fetch[f].unknown = {} THEN fetch[f].entries
                     ELSE (shown \ fetch[f].removals) \cup fetch[f].entries
  <1>1. fetch \in [Fetches -> FetchRecord] /\ shown' # shown /\ fetch[f].step = "fence"
        /\ fetch'[f].step = "idle" /\ ListingSound(fetch[f])
    BY DEF Answers, DirectoryIInv
  <1>2. PICK g \in Fetches : AnswerFetch(g)
    BY <1>1 DEF DirectoryNext, directoryVars, AgentCreated, AgentDeleted, SpaceMoves, ReleaseSpace,
       StopSpace, StartFetch, ConcludeFetch, ListDaemon, ListInventory
  <1>3. g = f
    BY <1>1, <1>2 DEF AnswerFetch
  <1> QED
    BY <1>1, <1>2, <1>3 DEF AnswerFetch

LEMMA UnknownKept ==
  ASSUME DirectoryIInv, [DirectoryNext]_directoryVars
  PROVE  \A f \in Fetches : Answers(f) =>
           {a \in shown \ shown' : HomeOf[a] \in fetch[f].unknown} = {}
  BY AnswersAreSent DEF ListingSound

LEMMA GhostsGone ==
  ASSUME OneFetch, DirectoryIInv, [DirectoryNext]_directoryVars
  PROVE  \A f \in Fetches : Answers(f) =>
           {a \in shown' : HomeOf[a] \notin fetch[f].unknown} = fetch[f].entries
  <1> SUFFICES ASSUME NEW f \in Fetches, Answers(f)
               PROVE  {a \in shown' : HomeOf[a] \notin fetch[f].unknown} = fetch[f].entries
    OBVIOUS
  <1>1. /\ shown \subseteq lastActive /\ ListingComplete(fetch[f])
    BY DEF DirectoryIInv
  <1> QED
    BY <1>1, AnswersAreSent DEF ListingSound, ListingComplete

\* "A partial response must never assert that an unknown source is empty": an
\* answer takes no agent of a workspace away whose agents it could not learn,
\* however many listings overlap (fetch_agents_request of session.ts).
THEOREM UnknownSourcesAreKept == DirectorySpec => UnknownSourcesKept
  BY DirectoryInitial, DirectoryInductive, UnknownKept, PTL
     DEF DirectorySpec, UnknownSourcesKept

\* And it keeps none that it knows to be gone, for a client that waits for one
\* listing before it asks for the next.
THEOREM ListingsAreHonest ==
  ASSUME OneFetch
  PROVE  DirectorySpec => ListingsHonest
  <1>1. DirectoryIInv /\ [DirectoryNext]_directoryVars =>
          \A f \in Fetches : Answers(f) =>
            {a \in shown' : HomeOf[a] \notin fetch[f].unknown} = fetch[f].entries
    BY GhostsGone
  <1> QED
    BY <1>1, DirectoryInitial, DirectoryInductive, UnknownKept, PTL
       DEF DirectorySpec, ListingsHonest, UnknownSourcesKept, NoGhosts

-----------------------------------------------------------------------------
(* The label catalog every session shares (workspace-labels.ts).            *)

Wearers == [uid : 0 .. MaxTargetUid, living : BOOLEAN]
LabelRecord ==
  [colour : Palette, worn : [Targets -> [uid : 0 .. MaxTargetUid, names : SUBSET LabelNames]]]
EditKinds == {"assign", "unassign", "update", "delete"}
EditRequest ==
  [kind : EditKinds, target : Wearers, at : Targets \cup {"none"},
   name : LabelNames \cup {"none"}, next : LabelNames \cup {"none"}, colour : 0 .. MaxColour]
EditRecord ==
  [step : {"none", "list", "read", "write", "publish", "tell"}, request : EditRequest,
   attempt : 0 .. MaxAttempts, fresh : BOOLEAN, list : [Targets -> Wearers],
   base : LabelRecord, told : SUBSET Followers]
FollowerRecord ==
  [step : {"off", "list", "on"}, principal : Targets \cup {"owner"},
   uid : 0 .. MaxTargetUid, list : [Targets -> Wearers], seen : Palette, shown : Palette]

\* The four requests have the fields they use.
RequestSound(r) ==
  /\ r.name \in LabelNames
  /\ r.kind \in {"assign", "unassign"} => r.at \in Targets /\ r.colour # 0
  /\ r.kind = "update" => r.next \in LabelNames
  /\ r.kind \in {"update", "delete"} => r.at = "none"

\* Whoever wears a label in a record wears one the record defines.
Defined(state) == \A w \in Targets : \A n \in state.worn[w].names : state.colour[n] # 0

\* A request's change is of a sound record, and, while nobody else has changed
\* it, of the record there is.
EditSound(d) ==
  /\ d.step \in {"list", "read", "write"} => RequestSound(d.request)
  /\ d.step = "write" => Defined(d.base)
  /\ d.step = "write" /\ d.fresh =>
       /\ d.base = Edited(Purged(catalog, d.list), d.request)
       /\ ~Refused(d.request, d.list, Purged(catalog, d.list))

LabelsIInv ==
  /\ wearer \in [Targets -> Wearers]
  /\ catalog \in LabelRecord
  /\ edit \in [LabelEdits -> EditRecord]
  /\ follower \in [Followers -> FollowerRecord]
  /\ Defined(catalog)
  /\ \A e \in LabelEdits : EditSound(edit[e])
  /\ ShownIsSeen

LEMMA RestingEdits ==
  /\ NoTarget \in Wearers /\ Blank \in Palette /\ EmptyCatalog \in LabelRecord
  /\ Defined(EmptyCatalog) /\ NoEdit \in EditRequest
  /\ IdleEdit \in EditRecord /\ IdleEdit.step = "none"
  /\ NoFollower \in FollowerRecord /\ NoFollower.shown = NoFollower.seen
  <1> USE LabelsAssumption
  <1>1. NoTarget \in Wearers /\ Blank \in Palette
    BY DEF NoTarget, Wearers, Blank, Palette
  <1>2. EmptyCatalog \in LabelRecord /\ Defined(EmptyCatalog)
    BY <1>1 DEF EmptyCatalog, LabelRecord, NoWearer, Defined
  <1>3. NoEdit \in EditRequest
    BY <1>1 DEF NoEdit, EditRequest, EditKinds
  <1>4. IdleEdit \in EditRecord /\ IdleEdit.step = "none"
    BY <1>1, <1>2, <1>3 DEF IdleEdit, EditRecord
  <1>5. NoFollower \in FollowerRecord /\ NoFollower.shown = NoFollower.seen
    BY <1>1 DEF NoFollower, FollowerRecord
  <1> QED
    BY <1>1, <1>2, <1>3, <1>4, <1>5

LEMMA LabelsInitial == LabelsInit => LabelsIInv
  BY RestingEdits DEF LabelsInit, LabelsIInv, EditSound, ShownIsSeen

\* Dropping the assignments of workspaces that are not listed.
LEMMA PurgedIs ==
  ASSUME NEW state \in LabelRecord, NEW list \in [Targets -> Wearers]
  PROVE  /\ Purged(state, list) \in LabelRecord
         /\ Purged(state, list).colour = state.colour
         /\ \A w \in Targets :
              \/ Purged(state, list).worn[w] = state.worn[w]
              \/ /\ Purged(state, list).worn[w] = NoWearer
                 /\ ~(list[w].living /\ list[w].uid = state.worn[w].uid)
         /\ Defined(state) => Defined(Purged(state, list))
  <1> USE LabelsAssumption DEF LabelRecord
  <1>1. NoWearer \in [uid : 0 .. MaxTargetUid, names : SUBSET LabelNames] /\ NoWearer.names = {}
    BY DEF NoWearer
  <1>2. /\ Purged(state, list) \in LabelRecord
        /\ Purged(state, list).colour = state.colour
        /\ \A w \in Targets :
             \/ Purged(state, list).worn[w] = state.worn[w]
             \/ /\ Purged(state, list).worn[w] = NoWearer
                /\ ~(list[w].living /\ list[w].uid = state.worn[w].uid)
    BY <1>1 DEF Purged
  <1> QED
    BY <1>1, <1>2 DEF Defined

\* What the change of a request makes of the assignments and of the colours.
LEMMA EditedIs ==
  ASSUME NEW state \in LabelRecord, NEW r \in EditRequest, RequestSound(r),
         NEW list \in [Targets -> Wearers], ~Refused(r, list, state)
  PROVE  /\ Edited(state, r) \in LabelRecord
         /\ Defined(state) => Defined(Edited(state, r))
         /\ \A w \in Targets : \A n \in state.worn[w].names :
              \/ n \in Edited(state, r).worn[w].names
              \/ r.name = n /\ r.kind # "assign"
         /\ \A w \in Targets : \/ Edited(state, r).worn[w].uid = state.worn[w].uid
                               \/ Edited(state, r).worn[w].uid = list[w].uid
                               \/ Edited(state, r).worn[w].names = {}
  <1> DEFINE Worn == [uid : 0 .. MaxTargetUid, names : SUBSET LabelNames]
  <1> USE LabelsAssumption DEF LabelRecord, Palette
  <1>1. NoWearer \in Worn /\ NoWearer.names = {}
    BY DEF NoWearer
  <1>2. CASE r.kind \in {"assign", "unassign"}
    <2>1. /\ r.at \in Targets /\ r.name \in LabelNames /\ r.target = list[r.at]
          /\ r.colour \in 0 .. MaxColour /\ r.colour # 0 /\ r.target.uid \in 0 .. MaxTargetUid
          /\ r.at # "none"
      BY <1>2 DEF RequestSound, EditRequest, Refused, Wearers
    <2>2. Edited(state, r) = Assigned(state, r)
      BY <1>2 DEF Edited
    <2>3. CASE r.kind = "assign"
      <3> DEFINE names == state.worn[r.at].names \cup {r.name}
      <3>1. Edited(state, r) =
              [state EXCEPT !.colour[r.name] = r.colour,
                            !.worn[r.at] = [uid |-> r.target.uid, names |-> names]]
        BY <2>2, <2>3 DEF Assigned, Wears
      <3>2. [uid |-> r.target.uid, names |-> names] \in Worn
        BY <2>1
      <3> DEFINE s == [state EXCEPT !.colour[r.name] = r.colour,
                                    !.worn[r.at] = [uid |-> r.target.uid, names |-> names]]
      <3>3. /\ s \in LabelRecord
            /\ s.worn[r.at].uid = list[r.at].uid /\ s.worn[r.at].names = names
            /\ \A w \in Targets \ {r.at} : s.worn[w] = state.worn[w]
            /\ s.colour[r.name] # 0
            /\ \A n \in LabelNames \ {r.name} : s.colour[n] = state.colour[n]
        BY <2>1, <3>2
      <3> HIDE DEF s
      <3>4. \A w \in Targets : state.worn[w].names \subseteq LabelNames
        OBVIOUS
      <3>5. Defined(state) => Defined(s)
        BY <2>1, <3>3, <3>4 DEF Defined
      <3>6. /\ \A w \in Targets : \A n \in state.worn[w].names : n \in s.worn[w].names
            /\ \A w \in Targets : \/ s.worn[w].uid = state.worn[w].uid
                                  \/ s.worn[w].uid = list[w].uid
        BY <3>3
      <3>7. Edited(state, r) = s
        BY <3>1 DEF s
      <3> QED
        BY <3>3, <3>5, <3>6, <3>7
    <2>4. CASE r.kind = "unassign"
      <3> DEFINE names == state.worn[r.at].names \ {r.name}
      <3> DEFINE worn == IF names = {} THEN NoWearer
                         ELSE [uid |-> r.target.uid, names |-> names]
      <3>1. Edited(state, r) = [state EXCEPT !.worn[r.at] = worn]
        BY <2>2, <2>4 DEF Assigned, Wears
      <3>2. worn \in Worn /\ worn.names = names /\ (worn.uid = r.target.uid \/ names = {})
        BY <1>1, <2>1
      <3>3. worn \in Worn /\ worn.names = names
        BY <1>1, <2>1
      <3> HIDE DEF worn
      <3> QED
        BY <2>1, <2>4, <3>1, <3>2, <3>3 DEF Defined
    <2> QED
      BY <1>2, <2>3, <2>4
  <1>3. CASE r.kind = "update"
    <2>1. /\ r.name \in LabelNames /\ r.next \in LabelNames /\ r.colour \in 0 .. MaxColour
          /\ r.colour = 0 => state.colour[r.name] # 0
      BY <1>3 DEF RequestSound, EditRequest, Refused
    <2> DEFINE colour == IF r.colour = 0 THEN state.colour[r.name] ELSE r.colour
    <2> DEFINE renamed(names) == IF r.name \in names THEN (names \ {r.name}) \cup {r.next}
                                 ELSE names
    <2> DEFINE worn == [w \in Targets |-> [uid |-> state.worn[w].uid,
                                           names |-> renamed(state.worn[w].names)]]
    <2> DEFINE colours == [[state.colour EXCEPT ![r.name] = 0] EXCEPT ![r.next] = colour]
    <2>2. Edited(state, r) = [state EXCEPT !.worn = worn, !.colour = colours]
      <3>1. Renamed(state, r.name, r.next) = [state EXCEPT !.worn = worn]
        BY DEF Renamed
      <3>2. [state EXCEPT !.worn = worn].colour = state.colour
        OBVIOUS
      <3>3. Edited(state, r) = Recoloured(state, r)
        BY <1>3 DEF Edited
      <3> HIDE DEF worn
      <3>4. Recoloured(state, r) = [[state EXCEPT !.worn = worn] EXCEPT !.colour = colours]
        BY <3>1, <3>2 DEF Recoloured
      <3> HIDE DEF colours
      <3> QED
        BY <3>3, <3>4
    <2>3. colour \in 0 .. MaxColour /\ colour # 0
      BY <2>1
    <2>4. worn \in [Targets -> Worn] /\ colours \in [LabelNames -> 0 .. MaxColour]
      BY <2>1, <2>3
    <2>5. \A w \in Targets :
            /\ worn[w].uid = state.worn[w].uid
            /\ worn[w].names = renamed(state.worn[w].names)
      OBVIOUS
    <2>6. \A n \in LabelNames : IF n = r.next THEN colours[n] # 0
                                ELSE IF n = r.name THEN TRUE ELSE colours[n] = state.colour[n]
      BY <2>1, <2>3
    <2> HIDE DEF worn, colours
    <2>7. Edited(state, r) \in LabelRecord /\ Edited(state, r).worn = worn
          /\ Edited(state, r).colour = colours
      BY <2>2, <2>4
    <2> HIDE DEF LabelRecord
    <2>8. \A w \in Targets : state.worn[w].names \subseteq LabelNames
      BY DEF LabelRecord
    <2>9. Defined(state) => Defined(Edited(state, r))
      <3>1. SUFFICES ASSUME Defined(state), NEW w \in Targets, NEW n \in worn[w].names,
                            n # r.next
                     PROVE  colours[n] # 0
        BY <2>1, <2>6, <2>7 DEF Defined
      <3>2. n \in state.worn[w].names /\ n # r.name
        BY <2>5, <3>1
      <3>3. state.colour[n] # 0 /\ n \in LabelNames
        BY <2>8, <3>1, <3>2 DEF Defined
      <3> QED
        BY <2>6, <3>1, <3>2, <3>3
    <2> QED
      BY <1>3, <2>5, <2>7, <2>9
  <1>4. CASE r.kind = "delete"
    <2>1. r.name \in LabelNames
      BY DEF RequestSound
    <2> DEFINE worn == [w \in Targets |-> [uid |-> state.worn[w].uid,
                                           names |-> state.worn[w].names \ {r.name}]]
    <2> DEFINE colours == [state.colour EXCEPT ![r.name] = 0]
    <2>2. Edited(state, r) = [colour |-> colours, worn |-> worn]
      BY <1>4 DEF Edited, Erased
    <2>3. Edited(state, r) \in LabelRecord
      <3>1. worn \in [Targets -> Worn] /\ colours \in [LabelNames -> 0 .. MaxColour]
        BY <2>1
      <3> HIDE DEF worn, colours
      <3> QED
        BY <2>2, <3>1
    <2>4. \A w \in Targets : /\ Edited(state, r).worn[w].uid = state.worn[w].uid
                             /\ Edited(state, r).worn[w].names
                                  = state.worn[w].names \ {r.name}
      BY <2>2
    <2>5. \A n \in LabelNames \ {r.name} : Edited(state, r).colour[n] = state.colour[n]
      BY <2>1, <2>2
    <2>6. Defined(state) => Defined(Edited(state, r))
      BY <2>3, <2>4, <2>5 DEF Defined
    <2> QED
      BY <1>4, <2>3, <2>4, <2>6
  <1> QED
    BY <1>2, <1>3, <1>4 DEF EditRequest, EditKinds

\* One request moves to the record d and nothing else changes.
LEMMA OneEditMoves ==
  ASSUME LabelsIInv, NEW e \in LabelEdits, NEW d \in EditRecord, EditSound(d),
         edit' = [edit EXCEPT ![e] = d], UNCHANGED <<wearer, catalog, follower>>
  PROVE  LabelsIInv'
  <1>1. \A c \in LabelEdits : edit'[c] \in {d, edit[c]}
    BY DEF LabelsIInv
  <1>2. \A c \in LabelEdits : EditSound(edit[c])'
    BY <1>1 DEF LabelsIInv, EditSound
  <1> QED
    BY <1>1, <1>2 DEF LabelsIInv, ShownIsSeen

LEMMA WritesKeep ==
  ASSUME LabelsIInv, NEW e \in LabelEdits, WriteCatalog(e)
  PROVE  LabelsIInv'
  <1>1. edit[e] \in EditRecord /\ Defined(edit[e].base) /\ edit \in [LabelEdits -> EditRecord]
    BY DEF LabelsIInv, EditSound, WriteCatalog
  <1>2. catalog' \in LabelRecord /\ Defined(catalog)' /\ UNCHANGED <<wearer, follower>>
    BY <1>1 DEF WriteCatalog, EditRecord, Defined
  <1>3. ASSUME NEW d \in LabelEdits
        PROVE  edit'[d] \in EditRecord /\ EditSound(edit[d])'
    <2>1. CASE d = e
      <3>1. edit'[e] \in {IdleEdit, [IdleEdit EXCEPT !.step = "publish"]}
        BY DEF WriteCatalog
      <3>2. [IdleEdit EXCEPT !.step = "publish"] \in EditRecord
            /\ [IdleEdit EXCEPT !.step = "publish"].step = "publish"
        BY RestingEdits DEF EditRecord
      <3> QED
        BY <2>1, <3>1, <3>2, RestingEdits DEF EditSound
    <2>2. CASE d # e
      <3>1. edit'[d] = [edit[d] EXCEPT !.fresh = FALSE]
        BY <2>2 DEF WriteCatalog
      <3>2. edit[d] \in EditRecord /\ EditSound(edit[d])
        BY DEF LabelsIInv
      <3>3. /\ edit'[d] \in EditRecord /\ ~edit'[d].fresh /\ edit'[d].step = edit[d].step
            /\ edit'[d].request = edit[d].request /\ edit'[d].base = edit[d].base
        BY <3>1, <3>2 DEF EditRecord
      <3> QED
        BY <3>2, <3>3 DEF EditSound
    <2> QED
      BY <2>1, <2>2
  <1>4. edit' \in [LabelEdits -> EditRecord]
    <2>1. PICK answered \in BOOLEAN :
            edit' = [d \in LabelEdits |->
                       CASE d # e -> [edit[d] EXCEPT !.fresh = FALSE]
                         [] d = e /\ answered -> [IdleEdit EXCEPT !.step = "publish"]
                         [] OTHER -> IdleEdit]
      BY DEF WriteCatalog
    <2> QED
      BY <1>3, <2>1
  <1> QED
    BY <1>2, <1>3, <1>4 DEF LabelsIInv, ShownIsSeen

\* The record is read and changed in memory: of the record there is.
LEMMA ReadsKeep ==
  ASSUME LabelsIInv, NEW e \in LabelEdits, ReadCatalog(e)
  PROVE  LabelsIInv'
  <1>1. /\ edit[e] \in EditRecord /\ RequestSound(edit[e].request)
        /\ catalog \in LabelRecord /\ Defined(catalog)
        /\ edit[e].step = "read" /\ UNCHANGED <<wearer, catalog, follower>>
    BY DEF LabelsIInv, EditSound, ReadCatalog
  <1>2. PICK list \in [Targets -> Wearers] : list = edit[e].list
    BY <1>1 DEF EditRecord
  <1>3. PICK r \in EditRequest : r = edit[e].request
    BY <1>1 DEF EditRecord
  <1>4. PICK state \in LabelRecord : state = Purged(catalog, list) /\ Defined(state)
    BY <1>1, PurgedIs
  <1>5. edit' = [edit EXCEPT ![e] =
                   IF Refused(r, list, state) THEN IdleEdit
                   ELSE [edit[e] EXCEPT !.step = "write", !.fresh = TRUE,
                                        !.base = Edited(state, r)]]
    BY <1>2, <1>3, <1>4 DEF ReadCatalog
  <1>6. CASE Refused(r, list, state)
    BY <1>1, <1>5, <1>6, RestingEdits, OneEditMoves DEF EditSound
  <1>7. CASE ~Refused(r, list, state)
    <2>1. PICK base \in LabelRecord : base = Edited(state, r) /\ Defined(base)
      BY <1>1, <1>3, <1>4, <1>7, EditedIs
    <2> DEFINE d == [edit[e] EXCEPT !.step = "write", !.fresh = TRUE, !.base = base]
    <2>2. /\ d \in EditRecord /\ d.step = "write" /\ d.request = r /\ d.list = list
          /\ d.base = base
      BY <1>1, <1>2, <1>3 DEF EditRecord
    <2>3. edit' = [edit EXCEPT ![e] = d]
      BY <1>5, <1>7, <2>1
    <2> HIDE DEF d
    <2>4. EditSound(d)
      BY <1>1, <1>3, <1>4, <1>7, <2>1, <2>2 DEF EditSound
    <2> QED
      BY <1>1, <2>2, <2>3, <2>4, OneEditMoves
  <1> QED
    BY <1>6, <1>7

LEMMA EditsKeep ==
  ASSUME LabelsIInv, NEW e \in LabelEdits,
         \/ ListTargets(e) \/ WriteConflicts(e) \/ ReadToPublish(e) \/ AllTold(e)
         \/ \E r \in Requests : AskEdit(e, r)
  PROVE  LabelsIInv'
  <1>1. /\ edit[e] \in EditRecord /\ EditSound(edit[e]) /\ edit \in [LabelEdits -> EditRecord]
        /\ wearer \in [Targets -> Wearers] /\ catalog \in LabelRecord
        /\ UNCHANGED <<wearer, catalog, follower>>
    BY DEF LabelsIInv, ListTargets, WriteConflicts, ReadToPublish, AllTold, AskEdit
  <1>2. ASSUME NEW d, d \in EditRecord, EditSound(d), edit' = [edit EXCEPT ![e] = d]
        PROVE  LabelsIInv'
    BY <1>1, <1>2, OneEditMoves
  <1>3. CASE ListTargets(e)
    <2> DEFINE d == [edit[e] EXCEPT !.step = "read", !.list = wearer]
    <2>1. d \in EditRecord /\ EditSound(d)
      BY <1>1, <1>3 DEF ListTargets, EditRecord, EditSound
    <2>2. edit' = [edit EXCEPT ![e] = d]
      BY <1>1, <1>3 DEF ListTargets
    <2> QED
      BY <1>2, <2>1, <2>2
  <1>4. CASE WriteConflicts(e)
    <2>1. CASE edit[e].attempt = MaxAttempts
      BY <1>2, <1>4, <2>1, RestingEdits DEF WriteConflicts, EditSound
    <2>2. CASE edit[e].attempt # MaxAttempts
      <3> DEFINE d == [edit[e] EXCEPT !.step = "list", !.attempt = @ + 1,
                                      !.base = EmptyCatalog, !.list = IdleEdit.list]
      <3>1. edit[e].attempt + 1 \in 0 .. MaxAttempts
        <4>1. edit[e].attempt \in 0 .. MaxAttempts
          BY <1>1 DEF EditRecord
        <4> QED
          BY <2>2, <4>1, LabelsAssumption
      <3>2. IdleEdit.list \in [Targets -> Wearers]
        BY RestingEdits DEF EditRecord
      <3>3. d \in EditRecord /\ d.step = "list" /\ d.request = edit[e].request
        BY <1>1, <3>1, <3>2, RestingEdits DEF EditRecord
      <3>4. EditSound(d)
        BY <1>1, <1>4, <3>3 DEF WriteConflicts, EditSound
      <3>5. edit' = [edit EXCEPT ![e] = d]
        BY <1>1, <1>4, <2>2 DEF WriteConflicts
      <3> QED
        BY <1>2, <3>3, <3>4, <3>5
    <2> QED
      BY <2>1, <2>2
  <1>5. CASE ReadToPublish(e)
    <2> DEFINE d == [IdleEdit EXCEPT !.step = "tell", !.base = catalog]
    <2>1. d \in EditRecord /\ EditSound(d)
      BY <1>1, RestingEdits DEF EditRecord, EditSound
    <2>2. edit' = [edit EXCEPT ![e] = d]
      BY <1>5 DEF ReadToPublish
    <2> QED
      BY <1>2, <2>1, <2>2
  <1>6. CASE AllTold(e)
    BY <1>2, <1>6, RestingEdits DEF AllTold, EditSound
  <1>7. ASSUME NEW r \in Requests, AskEdit(e, r) PROVE LabelsIInv'
    <2>1. PICK chosen \in Wearers : chosen = IF r.at = "none" THEN NoTarget ELSE wearer[r.at]
      BY <1>1, RestingEdits DEF Requests
    <2> DEFINE request == [kind |-> r.kind, at |-> r.at, name |-> r.name, next |-> r.next,
                           colour |-> r.colour, target |-> chosen]
    <2>2. request \in EditRequest /\ RequestSound(request)
      BY LabelsAssumption DEF Requests, EditRequest, EditKinds, RequestSound
    <2>3. edit' = [edit EXCEPT ![e] =
                     [IdleEdit EXCEPT !.step = "list", !.attempt = 1, !.request = request]]
      BY <1>7, <2>1 DEF AskEdit
    <2> HIDE DEF request
    <2> DEFINE d == [IdleEdit EXCEPT !.step = "list", !.attempt = 1, !.request = request]
    <2>4. d \in EditRecord /\ d.step = "list" /\ d.request = request
      <3>1. 1 \in 0 .. MaxAttempts
        BY LabelsAssumption
      <3> QED
        BY <2>2, <3>1, RestingEdits DEF EditRecord
    <2>5. EditSound(d)
      BY <2>2, <2>4 DEF EditSound
    <2> QED
      BY <1>2, <2>3, <2>4, <2>5
  <1> QED
    BY <1>3, <1>4, <1>5, <1>6, <1>7

\* What a follower may see is a palette.
LEMMA VisibleIs ==
  ASSUME LabelsIInv, NEW f, NEW state \in LabelRecord, NEW list
  PROVE  Visible(f, state, list) \in Palette
  BY LabelsAssumption DEF Visible, LabelRecord, Palette

\* The updates computed from what was shown lead to what is visible now.
LEMMA ShownCatchesUp ==
  ASSUME NEW seen \in Palette, NEW now \in Palette
  PROVE  Shown(seen, seen, now) = now
  <1>1. Shown(seen, seen, now) = [n \in LabelNames |-> now[n]]
    BY DEF Shown, Upserts, Removals
  <1> QED
    BY <1>1 DEF Palette

LEMMA FollowersKeep ==
  ASSUME LabelsIInv, NEW f \in Followers,
         \/ Registers(f) \/ Unfollow(f) \/ \E p \in {"owner"} \cup Targets : Follow(f, p)
         \/ \E e \in LabelEdits : Tell(e, f)
  PROVE  LabelsIInv'
  <1>1. /\ wearer \in [Targets -> Wearers] /\ catalog \in LabelRecord
        /\ edit \in [LabelEdits -> EditRecord] /\ follower \in [Followers -> FollowerRecord]
        /\ follower[f] \in FollowerRecord
        /\ \A g \in Followers : follower[g].shown = follower[g].seen
        /\ UNCHANGED <<wearer, catalog>>
    BY DEF LabelsIInv, ShownIsSeen, Registers, Unfollow, Follow, Tell
  <1>2. /\ edit' \in [LabelEdits -> EditRecord]
        /\ \A d \in LabelEdits : EditSound(edit[d])'
    <2>1. ASSUME NEW d \in LabelEdits, NEW told \in SUBSET Followers
          PROVE  /\ [edit[d] EXCEPT !.told = told] \in EditRecord
                 /\ EditSound([edit[d] EXCEPT !.told = told])
      <3>1. edit[d] \in EditRecord /\ EditSound(edit[d])
        BY DEF LabelsIInv
      <3> DEFINE c == [edit[d] EXCEPT !.told = told]
      <3>2. /\ c \in EditRecord /\ c.step = edit[d].step /\ c.request = edit[d].request
            /\ c.base = edit[d].base /\ c.list = edit[d].list /\ c.fresh = edit[d].fresh
        BY <3>1 DEF EditRecord
      <3> HIDE DEF c
      <3>3. EditSound(c)
        BY <3>1, <3>2 DEF EditSound
      <3> QED
        BY <3>2, <3>3 DEF c
    <2>2. CASE Registers(f)
      <3>1. edit' = [d \in LabelEdits |-> [edit[d] EXCEPT !.told = edit[d].told \ {f}]]
        BY <2>2 DEF Registers
      <3>2. \A d \in LabelEdits : edit[d].told \ {f} \in SUBSET Followers
        BY <1>1 DEF EditRecord
      <3>3. \A d \in LabelEdits : edit'[d] \in EditRecord /\ EditSound(edit'[d])
        BY <2>1, <3>1, <3>2
      <3> QED
        BY <1>1, <3>1, <3>3 DEF EditSound
    <2>3. ASSUME NEW e \in LabelEdits, Tell(e, f)
          PROVE  /\ edit' \in [LabelEdits -> EditRecord]
                 /\ \A d \in LabelEdits : EditSound(edit[d])'
      <3>1. edit' = [edit EXCEPT ![e] = [edit[e] EXCEPT !.told = edit[e].told \cup {f}]]
        BY <1>1, <2>3 DEF Tell
      <3>2. edit[e].told \cup {f} \in SUBSET Followers
        BY <1>1 DEF EditRecord
      <3>3. \A d \in LabelEdits : edit'[d] \in EditRecord /\ EditSound(edit'[d])
        BY <1>1, <2>1, <3>1, <3>2 DEF LabelsIInv
      <3> QED
        BY <1>1, <3>1, <3>3 DEF EditSound
    <2>4. CASE UNCHANGED edit
      BY <1>1, <2>4 DEF LabelsIInv, EditSound
    <2> QED
      BY <2>2, <2>3, <2>4 DEF Unfollow, Follow
  <1>3. ASSUME NEW g, g \in FollowerRecord, g.shown = g.seen,
               follower' = [follower EXCEPT ![f] = g]
        PROVE  LabelsIInv'
    <2>1. /\ follower' \in [Followers -> FollowerRecord]
          /\ \A h \in Followers : follower'[h] \in {g, follower[h]}
      BY <1>1, <1>3
    <2> QED
      BY <1>1, <1>2, <1>3, <2>1 DEF LabelsIInv, ShownIsSeen
  <1>4. CASE Unfollow(f)
    BY <1>3, <1>4, RestingEdits DEF Unfollow
  <1>5. ASSUME NEW p \in {"owner"} \cup Targets, Follow(f, p) PROVE LabelsIInv'
    <2> DEFINE uid == IF p = "owner" THEN 0 ELSE wearer[p].uid
    <2> DEFINE g == [NoFollower EXCEPT !.step = "list", !.principal = p, !.list = wearer,
                                       !.uid = uid]
    <2>1. follower' = [follower EXCEPT ![f] = g]
      BY <1>5 DEF Follow
    <2>2. uid \in 0 .. MaxTargetUid
      BY <1>1, LabelsAssumption DEF Wearers
    <2> HIDE DEF uid
    <2>3. g \in FollowerRecord /\ g.shown = g.seen
      BY <1>1, <2>2, RestingEdits DEF FollowerRecord
    <2> QED
      BY <1>3, <2>1, <2>3
  <1>6. CASE Registers(f)
    <2>1. PICK labels \in Palette : labels = Visible(f, catalog, follower[f].list)
      BY <1>1, VisibleIs
    <2> DEFINE g == [follower[f] EXCEPT !.step = "on", !.seen = labels, !.shown = labels,
                                        !.list = NoFollower.list]
    <2>2. follower' = [follower EXCEPT ![f] = g]
      BY <1>6, <2>1 DEF Registers
    <2>3. NoFollower.list \in [Targets -> Wearers]
      BY RestingEdits DEF FollowerRecord
    <2>4. g \in FollowerRecord /\ g.shown = g.seen
      BY <1>1, <2>1, <2>3 DEF FollowerRecord
    <2> QED
      BY <1>3, <2>2, <2>4
  <1>7. ASSUME NEW e \in LabelEdits, Tell(e, f) PROVE LabelsIInv'
    <2>1. CASE Active(f, wearer)
      <3>1. edit[e].base \in LabelRecord
        BY <1>1 DEF EditRecord
      <3>2. PICK now \in Palette : now = Visible(f, edit[e].base, wearer)
        BY <3>1, VisibleIs
      <3> DEFINE g == [follower[f] EXCEPT !.seen = now, !.shown = now]
      <3>3. Shown(follower[f].shown, follower[f].seen, now) = now
        BY <1>1, <3>2, ShownCatchesUp DEF FollowerRecord
      <3>4. follower' = [follower EXCEPT ![f] = g]
        <4>1. follower' = [follower EXCEPT ![f] =
                [follower[f] EXCEPT !.seen = now,
                   !.shown = Shown(follower[f].shown, follower[f].seen, now)]]
          BY <1>7, <2>1, <3>2 DEF Tell
        <4> QED
          BY <3>3, <4>1
      <3>5. g \in FollowerRecord /\ g.shown = g.seen
        BY <1>1, <3>2 DEF FollowerRecord
      <3> QED
        BY <1>3, <3>4, <3>5
    <2>2. CASE ~Active(f, wearer)
      BY <1>3, <1>7, <2>2, RestingEdits DEF Tell
    <2> QED
      BY <2>1, <2>2
  <1> QED
    BY <1>4, <1>5, <1>6, <1>7

LEMMA LabelsInductive == LabelsIInv /\ [LabelsNext]_labelVars => LabelsIInv'
  <1> SUFFICES ASSUME LabelsIInv, [LabelsNext]_labelVars PROVE LabelsIInv'
    OBVIOUS
  <1>1. ASSUME NEW w \in Targets, TargetStarts(w) \/ TargetStops(w) PROVE LabelsIInv'
    <2>1. wearer' \in [Targets -> Wearers] /\ UNCHANGED <<catalog, edit, follower>>
      <3>1. UNCHANGED <<catalog, edit, follower>> /\ wearer \in [Targets -> Wearers]
        BY <1>1 DEF TargetStarts, TargetStops, LabelsIInv
      <3>2. CASE TargetStarts(w)
        <4>1. wearer[w].uid + 1 \in 0 .. MaxTargetUid
          BY <3>1, <3>2, LabelsAssumption DEF TargetStarts, Wearers
        <4>2. [uid |-> wearer[w].uid + 1, living |-> TRUE] \in Wearers
          BY <4>1 DEF Wearers
        <4>3. wearer' = [wearer EXCEPT ![w] = [uid |-> wearer[w].uid + 1, living |-> TRUE]]
          BY <3>1, <3>2 DEF TargetStarts
        <4> QED
          BY <3>1, <4>2, <4>3
      <3>3. CASE TargetStops(w)
        BY <3>1, <3>3 DEF TargetStops, Wearers
      <3> QED
        BY <1>1, <3>1, <3>2, <3>3
    <2> QED
      BY <2>1 DEF LabelsIInv, EditSound, ShownIsSeen
  <1>2. CASE UNCHANGED labelVars
    BY <1>2 DEF labelVars, LabelsIInv, EditSound, ShownIsSeen
  <1> QED
    BY <1>1, <1>2, WritesKeep, ReadsKeep, EditsKeep, FollowersKeep DEF LabelsNext, EditStep

\* Only a swap takes a label off, and only one that may.
LEMMA LabelsStep ==
  ASSUME LabelsIInv, [LabelsNext]_labelVars
  PROVE  \A w \in {v \in Targets : wearer[v].living} :
           LET before == LabelsFor(catalog, wearer, w)
               after == LabelsFor(catalog', wearer, w)
           IN \A n \in before \ after : \E e \in LabelEdits : TakesOff(e, w, n)
  <1> SUFFICES ASSUME NEW w \in Targets, wearer[w].living,
                      NEW n \in LabelsFor(catalog, wearer, w) \ LabelsFor(catalog', wearer, w)
               PROVE  \E e \in LabelEdits : TakesOff(e, w, n)
    OBVIOUS
  <1>1. catalog' # catalog
    OBVIOUS
  <1>2. PICK e \in LabelEdits : WriteCatalog(e)
    BY <1>1 DEF LabelsNext, EditStep, ListTargets, ReadCatalog, WriteConflicts, ReadToPublish,
       AllTold, Tell, AskEdit, TargetStarts, TargetStops, Registers, Unfollow, Follow, labelVars
  <1>3. /\ edit[e] \in EditRecord /\ catalog \in LabelRecord /\ edit[e].step = "write"
        /\ edit[e].fresh /\ EditSound(edit[e]) /\ catalog' = edit[e].base
    BY <1>2 DEF LabelsIInv, WriteCatalog, Swappable
  <1>4. edit'[e].step # "write"
    BY <1>2, RestingEdits DEF WriteCatalog, EditRecord
  <1>5. SUFFICES ASSUME edit[e].list[w] = wearer[w]
                 PROVE  edit[e].request.name = n /\ edit[e].request.kind # "assign"
    BY <1>3, <1>4 DEF TakesOff
  <1>6. PICK list \in [Targets -> Wearers] : list = edit[e].list
    BY <1>3 DEF EditRecord
  <1>7. PICK r \in EditRequest : r = edit[e].request
    BY <1>3 DEF EditRecord
  <1>8. PICK state \in LabelRecord : state = Purged(catalog, list)
    BY <1>3, PurgedIs
  <1>9. catalog' = Edited(state, r) /\ ~Refused(r, list, state) /\ RequestSound(r)
    BY <1>3, <1>6, <1>7, <1>8 DEF EditSound
  <1>10. catalog.worn[w].uid = wearer[w].uid /\ n \in catalog.worn[w].names
    BY DEF LabelsFor
  <1>11. state.worn[w] = catalog.worn[w]
    BY <1>3, <1>5, <1>6, <1>8, <1>10, PurgedIs
  <1>12. n \notin catalog'.worn[w].names \/ catalog'.worn[w].uid # wearer[w].uid
    BY DEF LabelsFor
  <1>13. \/ n \in Edited(state, r).worn[w].names
         \/ r.name = n /\ r.kind # "assign"
    BY <1>9, <1>10, <1>11, EditedIs
  <1>14. \/ Edited(state, r).worn[w].uid = state.worn[w].uid
         \/ Edited(state, r).worn[w].uid = list[w].uid
         \/ Edited(state, r).worn[w].names = {}
    BY <1>9, EditedIs
  <1> QED
    BY <1>5, <1>6, <1>7, <1>9, <1>10, <1>11, <1>12, <1>13, <1>14

\* Labels in use stay defined and assigned, and what a follower was shown is
\* what publish() computes its updates from, whatever requests are swapped in
\* between (workspace-labels.ts).
THEOREM LabelsAreKept == LabelsSpec => LabelsKept /\ []ShownIsSeen
  <1>1. LabelsIInv => WornLabelsDefined /\ ShownIsSeen
    BY DEF LabelsIInv, Defined, WornLabelsDefined
  <1>2. LabelsIInv /\ [LabelsNext]_labelVars =>
          \A w \in {v \in Targets : wearer[v].living} :
            LET before == LabelsFor(catalog, wearer, w)
                after == LabelsFor(catalog', wearer, w)
            IN \A n \in before \ after : \E e \in LabelEdits : TakesOff(e, w, n)
    BY LabelsStep
  <1> QED
    BY <1>1, <1>2, LabelsInitial, LabelsInductive, PTL
       DEF LabelsSpec, LabelsKept, AssignmentsKept

-----------------------------------------------------------------------------
(* Timeline subscriptions (agent.timeline.set_subscription of session.ts).  *)

VisitSteps == {"visit", "fence", "send", "refence", "routes", "final"}
LaterSteps == {"retained"} \cup VisitSteps
VisitRecord == Follows(VisitSteps, TimelineSpaces)
LaterRecord == Follows({"retained"}, TimelineAgents) \cup VisitRecord

\* The agents of s the request g is for.
MembersOf(g, s) ==
  {a \in g.accepted : Runs(g.view[TimelineHome[a]]) /\ TimelineHome[a] = s}

\* The backend of s sends what the request g asks for.
FollowedAt(g, s) ==
  /\ link[s] # NoLink /\ Runs(g.view[s]) => link[s].members = MembersOf(g, s)
  /\ MembersOf(g, s) # {} => link[s] # NoLink

\* The backends whose sets are yet to be replaced.
Outstanding(g) ==
  CASE g.step = "visit" -> g.todo
    [] g.step \in {"fence", "send"} -> g.todo \cup {g.at}
    [] OTHER -> {}

\* The other backends send what is asked for.
SetsReplaced(g) ==
  g.step \in VisitSteps =>
    \A s \in TimelineSpaces \ Outstanding(g) : FollowedAt(g, s)

\* The backend that is being visited is connected.
VisitedIsOpen(g) == g.step \in {"fence", "send"} => link[g.at] # NoLink

Alone(q) == \A r \in Subscribers \ {q} : ~Busy(r)

TimelineIInv ==
  /\ TimelineTypeOK
  /\ \A q \in Subscribers : VisitedIsOpen(follow[q])
  /\ \A q \in Subscribers \ disturbed : Busy(q) => Alone(q) /\ SetsReplaced(follow[q])

LEMMA FollowShapes ==
  ASSUME NEW g \in FollowRecord
  PROVE  /\ g.step \in VisitSteps => g \in VisitRecord
         /\ g.step = "retained" => g \in Follows({"retained"}, TimelineAgents)
         /\ g.step = "idle" => g = FollowIdle
         /\ g.step = "resolve" => /\ g.wanted \in SUBSET TimelineAgents
                                  /\ g.view \in [TimelineSpaces -> Place]
         /\ g.step \in LaterSteps \cup {"idle", "resolve"}
  BY DEF FollowRecord, LaterSteps, VisitSteps, VisitRecord, Follows, FollowIdle

LEMMA LaterIsFollow == FollowIdle \in FollowRecord /\ LaterRecord \subseteq FollowRecord
  BY DEF FollowRecord, LaterRecord, VisitRecord, VisitSteps

LEMMA TimelineInitial == TimelineInit => TimelineIInv
  <1> SUFFICES ASSUME TimelineInit PROVE TimelineIInv
    OBVIOUS
  <1>1. [uid |-> 1, state |-> "ready"] \in Place /\ NoLink \in Link
    BY DEF Place, PlaceStates, Link
  <1> QED
    BY <1>1, LaterIsFollow, TimelineAssumption
       DEF TimelineInit, TimelineIInv, TimelineTypeOK, Busy, VisitedIsOpen, FollowIdle

\* Whoever visits a backend whose connection is dropped is set back.
LEMMA OneDropFails ==
  ASSUME link \in [TimelineSpaces -> Link], follow \in [Subscribers -> FollowRecord],
         NEW s \in TimelineSpaces, link' = [link EXCEPT ![s] = NoLink],
         NEW f \in [Subscribers -> FollowRecord], follow' = FailsHolders(s, f),
         NEW r \in Subscribers, VisitedIsOpen(f[r])
  PROVE  VisitedIsOpen(follow[r])'
  <1>1. CASE f[r].step \in {"fence", "send"} /\ f[r].at = s
    BY <1>1 DEF FailsHolders, VisitedIsOpen, FollowIdle
  <1>2. CASE ~(f[r].step \in {"fence", "send"} /\ f[r].at = s)
    <2>1. follow'[r] = f[r]
      BY <1>2 DEF FailsHolders
    <2>2. f[r].step \in {"fence", "send"} => f[r].at \in TimelineSpaces
      BY FollowShapes DEF VisitSteps, VisitRecord, Follows
    <2> QED
      BY <1>2, <2>1, <2>2 DEF VisitedIsOpen
  <1> QED
    BY <1>1, <1>2

\* What changes around the requests: a connection that is made has no set yet,
\* and one that is dropped disturbs whoever is under way.
LEMMA TimelineWorldKeeps ==
  ASSUME TimelineIInv,
         \/ \E s \in TimelineSpaces : OtherConnects(s) \/ RefreshDropsLink(s) \/ PlaceChanges(s)
         \/ \E a \in TimelineAgents : RouteWithdrawn(a)
         \/ UNCHANGED timelineVars
  PROVE  TimelineIInv'
  <1> USE DEF Place, PlaceStates
  <1>1. CASE \/ \E s \in TimelineSpaces : PlaceChanges(s)
             \/ \E a \in TimelineAgents : RouteWithdrawn(a)
             \/ UNCHANGED timelineVars
    <2>1. UNCHANGED <<link, follow, disturbed>>
      BY <1>1 DEF PlaceChanges, RouteWithdrawn, timelineVars
    <2>2. TimelineTypeOK'
      <3>1. routed' \subseteq TimelineAgents
        BY <1>1 DEF PlaceChanges, RouteWithdrawn, timelineVars, TimelineIInv, TimelineTypeOK
      <3>2. timelineChanges' \in 0 .. MaxTimelineChanges
        BY <1>1, TimelineAssumption
           DEF PlaceChanges, RouteWithdrawn, timelineVars, TimelineIInv, TimelineTypeOK
      <3>3. place' \in [TimelineSpaces -> Place]
        BY <1>1 DEF PlaceChanges, RouteWithdrawn, timelineVars, TimelineIInv, TimelineTypeOK
      <3> QED
        BY <2>1, <3>1, <3>2, <3>3 DEF TimelineIInv, TimelineTypeOK
    <2> QED
      BY <2>1, <2>2 DEF TimelineIInv, Busy, Alone, SetsReplaced, FollowedAt, VisitedIsOpen
  <1>2. ASSUME NEW s \in TimelineSpaces, OtherConnects(s) PROVE TimelineIInv'
    <2>1. /\ link[s] = NoLink /\ link \in [TimelineSpaces -> Link]
          /\ place[s].uid \in 1 .. 2
          /\ link' = [link EXCEPT ![s] = [uid |-> place[s].uid, members |-> {}]]
          /\ UNCHANGED <<place, routed, follow, disturbed, timelineChanges>>
      BY <1>2 DEF OtherConnects, TimelineIInv, TimelineTypeOK
    <2>2. link' \in [TimelineSpaces -> Link] /\ link'[s] # NoLink /\ link'[s].members = {}
          /\ \A t \in TimelineSpaces \ {s} : link'[t] = link[t]
      BY <2>1 DEF Link, NoLink
    <2>3. TimelineTypeOK'
      BY <2>1, <2>2 DEF TimelineIInv, TimelineTypeOK
    <2>4. ASSUME NEW g, NEW t \in TimelineSpaces, FollowedAt(g, t) PROVE FollowedAt(g, t)'
      BY <2>1, <2>2, <2>4 DEF FollowedAt
    <2>5. ASSUME NEW q \in Subscribers \ disturbed, Busy(q) PROVE SetsReplaced(follow[q])'
      <3>1. SetsReplaced(follow[q])
        BY <2>5 DEF TimelineIInv
      <3> QED
        BY <2>1, <2>4, <3>1 DEF SetsReplaced
    <2>6. ASSUME NEW q \in Subscribers PROVE VisitedIsOpen(follow[q])'
      <3>1. VisitedIsOpen(follow[q]) /\ follow[q] \in FollowRecord
        BY DEF TimelineIInv, TimelineTypeOK
      <3>2. follow[q].step \in {"fence", "send"} => follow[q].at \in TimelineSpaces
        BY <3>1, FollowShapes DEF VisitSteps, VisitRecord, Follows
      <3> QED
        BY <2>1, <2>2, <3>1, <3>2 DEF VisitedIsOpen
    <2> QED
      BY <2>1, <2>3, <2>5, <2>6 DEF TimelineIInv, Busy, Alone
  <1>3. ASSUME NEW s \in TimelineSpaces, RefreshDropsLink(s) PROVE TimelineIInv'
    <2>1. \A q \in Subscribers : follow'[q] \in {follow[q], FollowIdle}
      BY <1>3 DEF RefreshDropsLink, FailsHolders
    <2>2. TimelineTypeOK'
      BY <1>3, <2>1, LaterIsFollow
         DEF RefreshDropsLink, FailsHolders, TimelineIInv, TimelineTypeOK, Link
    <2>3. ASSUME NEW q \in Subscribers PROVE VisitedIsOpen(follow[q])'
      BY <1>3, OneDropFails DEF RefreshDropsLink, TimelineIInv, TimelineTypeOK
    <2> QED
      BY <1>3, <2>1, <2>2, <2>3 DEF RefreshDropsLink, TimelineIInv, Busy
  <1> QED
    BY <1>1, <1>2, <1>3

\* A request that is disturbed by none is alone from its start.
LEMMA BeginsAlone ==
  ASSUME TimelineIInv, NEW r \in Subscribers, BeginFollow(r)
  PROVE  TimelineIInv'
  <1>1. PICK g \in FollowRecord : g.step = "resolve" /\ follow' = [follow EXCEPT ![r] = g]
    BY DEF BeginFollow, TimelineIInv, TimelineTypeOK, FollowRecord
  <1>2. /\ follow \in [Subscribers -> FollowRecord] /\ follow'[r] = g
        /\ \A q \in Subscribers \ {r} : follow'[q] = follow[q]
    BY <1>1 DEF TimelineIInv, TimelineTypeOK
  <1>3. TimelineTypeOK'
    BY <1>1, <1>2 DEF BeginFollow, TimelineIInv, TimelineTypeOK
  <1>4. ASSUME NEW q \in Subscribers \ disturbed', Busy(q)' PROVE (Alone(q) /\ SetsReplaced(follow[q]))'
    <2>1. q = r
      BY <1>2, <1>4 DEF BeginFollow, Busy
    <2>2. {p \in Subscribers \ {r} : Busy(p)} = {}
      BY <1>4, <2>1 DEF BeginFollow
    <2> QED
      BY <1>1, <1>2, <2>1, <2>2 DEF Alone, Busy, SetsReplaced, VisitSteps
  <1>5. \A q \in Subscribers : VisitedIsOpen(follow[q])'
    BY <1>1, <1>2 DEF BeginFollow, TimelineIInv, VisitedIsOpen
  <1> QED
    BY <1>3, <1>4, <1>5 DEF TimelineIInv

\* A step of a request: the record it becomes and the connections there are
\* then, with whoever holds a dropped connection set back.
LEMMA StepMoves ==
  ASSUME TimelineIInv, NEW q \in Subscribers, NEW g \in FollowRecord,
         Busy(q), follow'[q] = g, follow' \in [Subscribers -> FollowRecord],
         \A r \in Subscribers \ {q} : follow'[r] \in {follow[r], FollowIdle},
         link' \in [TimelineSpaces -> Link],
         UNCHANGED <<place, routed, disturbed, timelineChanges>>,
         \A r \in Subscribers : VisitedIsOpen(follow[r])',
         q \notin disturbed /\ g # FollowIdle => SetsReplaced(g)'
  PROVE  TimelineIInv'
  <1>1. TimelineTypeOK'
    BY DEF TimelineIInv, TimelineTypeOK
  <1>2. ASSUME NEW p \in Subscribers \ disturbed', Busy(p)'
        PROVE  (Alone(p) /\ SetsReplaced(follow[p]))'
    <2>1. p = q
      BY <1>2 DEF TimelineIInv, Busy, Alone
    <2> QED
      BY <1>2, <2>1 DEF TimelineIInv, Busy, Alone
  <1> QED
    BY <1>1, <1>2 DEF TimelineIInv

\* A request that moves on or is rejected, with the connections as they are.
LEMMA RequestMoves ==
  ASSUME TimelineIInv, NEW q \in Subscribers, NEW g, g \in LaterRecord \/ g = FollowIdle,
         Busy(q), follow' = [follow EXCEPT ![q] = g],
         UNCHANGED <<link, place, routed, disturbed, timelineChanges>>,
         VisitedIsOpen(g),
         q \notin disturbed /\ g # FollowIdle => SetsReplaced(g)
  PROVE  TimelineIInv'
  <1>1. /\ g \in FollowRecord /\ follow \in [Subscribers -> FollowRecord]
        /\ link \in [TimelineSpaces -> Link]
    BY LaterIsFollow DEF TimelineIInv, TimelineTypeOK
  <1>2. SetsReplaced(g)' = SetsReplaced(g)
    BY DEF SetsReplaced, FollowedAt
  <1>3. \A r \in Subscribers : VisitedIsOpen(follow[r])'
    BY <1>1 DEF TimelineIInv, VisitedIsOpen
  <1> QED
    BY <1>1, <1>2, <1>3, StepMoves

LEMMA MembersAre ==
  ASSUME NEW q \in Subscribers, NEW s
  PROVE  MembersAt(q, s) = MembersOf(follow[q], s)
  BY DEF MembersAt, Grouped, MembersOf

\* The requests' own steps that replace no set.
LEMMA ReadsOfTimelines ==
  ASSUME TimelineIInv, NEW q \in Subscribers,
         \/ ResolveFollowed(q) \/ CheckRetained(q) \/ FenceBackend(q) \/ FenceRetained(q)
         \/ FenceRoutes(q) \/ EndFollow(q)
  PROVE  TimelineIInv'
  <1>1. /\ follow[q] \in FollowRecord /\ follow \in [Subscribers -> FollowRecord] /\ Busy(q)
        /\ UNCHANGED <<link, place, routed, disturbed, timelineChanges>>
        /\ VisitedIsOpen(follow[q])
        /\ q \notin disturbed => SetsReplaced(follow[q])
    BY DEF TimelineIInv, TimelineTypeOK, ResolveFollowed, CheckRetained, FenceBackend,
       FenceRetained, FenceRoutes, EndFollow, Busy, FollowIdle
  <1>2. ASSUME follow' = [follow EXCEPT ![q] = FollowIdle] PROVE TimelineIInv'
    BY <1>1, <1>2, RequestMoves DEF VisitedIsOpen, FollowIdle
  <1>3. ASSUME NEW g \in LaterRecord, follow' = [follow EXCEPT ![q] = g],
               VisitedIsOpen(g),
               q \notin disturbed => SetsReplaced(g)
        PROVE  TimelineIInv'
    BY <1>1, <1>3, RequestMoves
  <1>4. CASE ResolveFollowed(q)
    <2>1. follow[q].wanted \in SUBSET TimelineAgents /\ follow[q].view \in [TimelineSpaces -> Place]
      BY <1>1, <1>4, FollowShapes DEF ResolveFollowed
    <2>2. (CHOOSE s \in TimelineSpaces : TRUE) \in TimelineSpaces
      BY TimelineAssumption
    <2> DEFINE g == [step |-> "retained", view |-> follow[q].view,
                     accepted |-> follow[q].wanted \cap routed,
                     todo |-> {a \in follow[q].wanted \cap routed :
                                 ~Runs(follow[q].view[TimelineHome[a]])},
                     at |-> CHOOSE s \in TimelineSpaces : TRUE]
    <2>3. g \in LaterRecord /\ SetsReplaced(g) /\ VisitedIsOpen(g)
      BY <2>1, <2>2 DEF LaterRecord, Follows, VisitSteps, SetsReplaced, VisitedIsOpen
    <2> QED
      BY <1>3, <1>4, <2>3 DEF ResolveFollowed
  <1>5. CASE CheckRetained(q)
    <2>1. follow[q] \in Follows({"retained"}, TimelineAgents)
      BY <1>1, <1>5, FollowShapes DEF CheckRetained
    <2>2. CASE follow[q].todo = {}
      <3> DEFINE g == [follow[q] EXCEPT !.step = "visit", !.todo = BackendsOf(q)]
      <3>1. BackendsOf(q) \subseteq TimelineSpaces
        BY <2>1, TimelineAssumption DEF BackendsOf, Grouped, Follows
      <3>2. /\ g \in VisitRecord /\ g.step = "visit" /\ g.todo = BackendsOf(q)
            /\ g.view = follow[q].view /\ g.accepted = follow[q].accepted
        BY <2>1, <3>1 DEF VisitRecord, Follows, VisitSteps
      <3>3. follow' = [follow EXCEPT ![q] = g]
        BY <1>1, <1>5, <2>2 DEF CheckRetained
      <3> HIDE DEF g
      <3>4. \A s \in TimelineSpaces \ BackendsOf(q) : link[s] = NoLink /\ MembersOf(g, s) = {}
        BY <3>2 DEF BackendsOf, Grouped, MembersOf
      <3>5. SetsReplaced(g)
        BY <3>1, <3>2, <3>4 DEF SetsReplaced, Outstanding, FollowedAt
      <3>6. g \in LaterRecord /\ VisitedIsOpen(g)
        BY <3>2 DEF LaterRecord, VisitedIsOpen
      <3> QED
        BY <1>3, <3>3, <3>5, <3>6
    <2>3. ASSUME NEW a \in follow[q].todo, follow' = [follow EXCEPT ![q].todo = @ \ {a}]
          PROVE  TimelineIInv'
      <3> DEFINE g == [follow[q] EXCEPT !.todo = follow[q].todo \ {a}]
      <3>1. g \in LaterRecord /\ g.step = "retained"
        BY <2>1 DEF LaterRecord, Follows
      <3>2. SetsReplaced(g) /\ VisitedIsOpen(g)
        BY <3>1 DEF SetsReplaced, VisitedIsOpen, VisitSteps
      <3>3. follow' = [follow EXCEPT ![q] = g]
        BY <1>1, <2>3
      <3> QED
        BY <1>3, <3>1, <3>2, <3>3
    <2> QED
      BY <1>2, <1>5, <2>2, <2>3 DEF CheckRetained, Rejects
  <1>6. CASE FenceBackend(q)
    <2>1. follow[q] \in VisitRecord /\ follow[q].step = "fence"
      BY <1>1, <1>6, FollowShapes DEF FenceBackend, VisitSteps
    <2> DEFINE g == [follow[q] EXCEPT !.step = "send"]
    <2>2. /\ g \in VisitRecord /\ g.step = "send" /\ g.todo = follow[q].todo
          /\ g.at = follow[q].at /\ g.view = follow[q].view /\ g.accepted = follow[q].accepted
      BY <2>1 DEF VisitRecord, Follows, VisitSteps
    <2>3. follow' \in {[follow EXCEPT ![q] = g], [follow EXCEPT ![q] = FollowIdle]}
      BY <1>1, <1>6 DEF FenceBackend, Goes, Rejects
    <2> HIDE DEF g
    <2>4. q \notin disturbed => SetsReplaced(g)
      BY <1>1, <2>1, <2>2 DEF SetsReplaced, Outstanding, FollowedAt, MembersOf, VisitSteps
    <2>5. g \in LaterRecord /\ VisitedIsOpen(g)
      BY <1>1, <2>1, <2>2 DEF LaterRecord, VisitedIsOpen
    <2> QED
      BY <1>2, <1>3, <2>3, <2>4, <2>5
  <1>7. CASE FenceRetained(q) \/ FenceRoutes(q) \/ EndFollow(q)
    <2>1. /\ follow[q] \in VisitRecord /\ follow[q].step \in {"visit", "refence", "routes", "final"}
          /\ follow[q].step = "visit" => follow[q].todo = {}
      BY <1>1, <1>7, FollowShapes DEF FenceRetained, FenceRoutes, EndFollow, VisitSteps
    <2>2. \/ follow' = [follow EXCEPT ![q] = FollowIdle]
          \/ \E step \in {"refence", "routes", "final"} :
               follow' = [follow EXCEPT ![q] = [follow[q] EXCEPT !.step = step]]
      BY <1>1, <1>7 DEF FenceRetained, FenceRoutes, EndFollow, Goes, Rejects
    <2>3. ASSUME NEW step \in {"refence", "routes", "final"},
                 follow' = [follow EXCEPT ![q] = [follow[q] EXCEPT !.step = step]]
          PROVE  TimelineIInv'
      <3> DEFINE g == [follow[q] EXCEPT !.step = step]
      <3>1. /\ g \in VisitRecord /\ g.step = step
            /\ g.view = follow[q].view /\ g.accepted = follow[q].accepted
        BY <2>1 DEF VisitRecord, Follows, VisitSteps
      <3>2. follow' = [follow EXCEPT ![q] = g]
        BY <2>3
      <3> HIDE DEF g
      <3>3. q \notin disturbed => SetsReplaced(g)
        BY <1>1, <2>1, <3>1 DEF SetsReplaced, Outstanding, FollowedAt, MembersOf, VisitSteps
      <3>4. g \in LaterRecord /\ VisitedIsOpen(g)
        BY <3>1 DEF LaterRecord, VisitedIsOpen
      <3> QED
        BY <1>3, <3>2, <3>3, <3>4
    <2> QED
      BY <1>2, <2>2, <2>3
  <1> QED
    BY <1>4, <1>5, <1>6, <1>7

\* A connection that is made, has its set replaced, or is dropped.
LEMMA LinkShapes ==
  ASSUME NEW uid \in 1 .. 2, NEW members \in SUBSET TimelineAgents
  PROVE  [uid |-> uid, members |-> members] \in Link /\ [uid |-> uid, members |-> members] # NoLink
  BY DEF Link, NoLink

\* connection(): the backend that is visited is connected, or was not running.
LEMMA VisitsOfTimelines ==
  ASSUME TimelineIInv, NEW q \in Subscribers, VisitBackend(q)
  PROVE  TimelineIInv'
  <1>1. /\ follow[q] \in VisitRecord /\ follow[q].step = "visit" /\ Busy(q)
        /\ follow \in [Subscribers -> FollowRecord] /\ link \in [TimelineSpaces -> Link]
        /\ UNCHANGED <<place, routed, disturbed, timelineChanges>>
        /\ VisitedIsOpen(follow[q])
        /\ q \notin disturbed => SetsReplaced(follow[q])
    BY FollowShapes
       DEF TimelineIInv, TimelineTypeOK, VisitBackend, Busy, FollowIdle, VisitSteps
  <1>2. PICK s \in follow[q].todo :
          LET seen == follow[q].view[s]
              rest == follow[q].todo \ {s}
              takes == [follow EXCEPT ![q].step = "fence", ![q].todo = rest, ![q].at = s]
          IN \/ /\ ~Runs(seen)
                /\ follow' = [follow EXCEPT ![q].todo = rest]
                /\ UNCHANGED link
             \/ /\ seen.state = "waiting"
                /\ follow' = Rejects(q) /\ UNCHANGED link
             \/ /\ seen.state = "ready" /\ link[s].uid = seen.uid
                /\ follow' = takes /\ UNCHANGED link
             \/ /\ seen.state = "ready" /\ link[s].uid \notin {0, seen.uid}
                /\ link' = [link EXCEPT ![s] = NoLink]
                /\ follow' = FailsHolders(s, Rejects(q))
             \/ /\ seen.state = "ready" /\ link[s] = NoLink /\ Agrees(q, s)
                /\ link' = [link EXCEPT ![s] = [uid |-> seen.uid, members |-> {}]]
                /\ follow' = takes
             \/ /\ seen.state = "ready" /\ link[s] = NoLink
                /\ follow' = Rejects(q) /\ UNCHANGED link
    BY DEF VisitBackend
  <1>3. /\ s \in TimelineSpaces /\ follow[q].todo \subseteq TimelineSpaces
        /\ follow[q].view[s] \in Place /\ link[s] \in Link
    BY <1>1 DEF VisitRecord, Follows
  <1> DEFINE seen == follow[q].view[s]
  <1>4. PICK rest : rest = follow[q].todo \ {s}
    OBVIOUS
  <1>5. CASE /\ ~Runs(seen)
             /\ follow' = [follow EXCEPT ![q].todo = rest] /\ UNCHANGED link
    <2> DEFINE g == [follow[q] EXCEPT !.todo = rest]
    <2>1. /\ g \in VisitRecord /\ g.step = "visit" /\ g.todo = rest
          /\ g.view = follow[q].view /\ g.accepted = follow[q].accepted
      BY <1>1, <1>4 DEF VisitRecord, Follows
    <2>2. follow' = [follow EXCEPT ![q] = g]
      BY <1>1, <1>5
    <2> HIDE DEF g
    <2>3. FollowedAt(g, s)
      BY <1>5, <2>1 DEF FollowedAt, MembersOf
    <2>4. ASSUME q \notin disturbed PROVE SetsReplaced(g)
      <3>1. \A t \in TimelineSpaces \ follow[q].todo : FollowedAt(follow[q], t)
        BY <1>1, <2>4 DEF SetsReplaced, Outstanding, VisitSteps
      <3>2. \A t \in TimelineSpaces \ follow[q].todo : FollowedAt(g, t)
        BY <2>1, <3>1 DEF FollowedAt, MembersOf
      <3> QED
        BY <1>4, <2>1, <2>3, <3>2 DEF SetsReplaced, Outstanding
    <2>5. g \in LaterRecord /\ VisitedIsOpen(g)
      BY <2>1 DEF LaterRecord, VisitedIsOpen
    <2> QED
      BY <1>1, <1>5, <2>2, <2>4, <2>5, RequestMoves
  <1>6. CASE follow' = Rejects(q) /\ UNCHANGED link
    BY <1>1, <1>6, RequestMoves DEF Rejects, VisitedIsOpen, FollowIdle
  <1>7. PICK h : h = [follow[q] EXCEPT !.step = "fence", !.todo = rest, !.at = s]
    OBVIOUS
  <1>8. /\ h \in VisitRecord /\ h.step = "fence" /\ h.todo = rest /\ h.at = s
        /\ h.view = follow[q].view /\ h.accepted = follow[q].accepted
    BY <1>1, <1>3, <1>4, <1>7 DEF VisitRecord, Follows, VisitSteps
  <1>9. [follow EXCEPT ![q].step = "fence", ![q].todo = rest, ![q].at = s]
          = [follow EXCEPT ![q] = h]
    BY <1>1, <1>3, <1>7 DEF VisitRecord, Follows, VisitSteps
  <1>10. ASSUME q \notin disturbed
        PROVE  \A t \in TimelineSpaces \ ({s} \cup rest) : FollowedAt(h, t)
    <2>1. \A t \in TimelineSpaces \ follow[q].todo : FollowedAt(follow[q], t)
      BY <1>1, <1>10 DEF SetsReplaced, Outstanding, VisitSteps
    <2> QED
      BY <1>8, <1>4, <2>1 DEF FollowedAt, MembersOf
  <1>11. CASE /\ seen.state = "ready" /\ link[s].uid = seen.uid
             /\ follow' = [follow EXCEPT ![q] = h] /\ UNCHANGED link
    <2>1. link[s] # NoLink
      BY <1>3, <1>11 DEF Place, NoLink
    <2>2. q \notin disturbed => SetsReplaced(h)
      BY <1>8, <1>10, <2>1 DEF SetsReplaced, Outstanding
    <2> QED
      BY <1>1, <1>8, <1>11, <2>1, <2>2, RequestMoves DEF LaterRecord, VisitedIsOpen
  <1>12. CASE /\ link' = [link EXCEPT ![s] = NoLink]
              /\ follow' = FailsHolders(s, Rejects(q))
    <2>1. /\ follow'[q] = FollowIdle
          /\ \A r \in Subscribers \ {q} : follow'[r] \in {follow[r], FollowIdle}
          /\ follow' \in [Subscribers -> FollowRecord]
      BY <1>1, <1>12, LaterIsFollow DEF FailsHolders, Rejects
    <2>2. link' \in [TimelineSpaces -> Link]
      BY <1>1, <1>12 DEF Link
    <2>3. /\ Rejects(q) \in [Subscribers -> FollowRecord]
          /\ \A r \in Subscribers : VisitedIsOpen(Rejects(q)[r])
      BY <1>1, LaterIsFollow DEF Rejects, TimelineIInv, VisitedIsOpen, FollowIdle
    <2>4. \A r \in Subscribers : VisitedIsOpen(follow[r])'
      BY <1>1, <1>3, <1>12, <2>3, OneDropFails
    <2> QED
      BY <1>1, <2>1, <2>2, <2>4, LaterIsFollow, StepMoves
  <1>13. CASE /\ link[s] = NoLink
              /\ link' = [link EXCEPT ![s] = [uid |-> seen.uid, members |-> {}]]
              /\ follow' = [follow EXCEPT ![q] = h]
    <2> DEFINE made == [uid |-> seen.uid, members |-> {}]
    <2>1. made \in Link /\ made # NoLink
      BY <1>3, LinkShapes DEF Place
    <2>2. link' = [link EXCEPT ![s] = made]
      BY <1>13
    <2> HIDE DEF made
    <2>3. link' \in [TimelineSpaces -> Link] /\ link'[s] = made
          /\ \A t \in TimelineSpaces \ {s} : link'[t] = link[t]
      BY <1>1, <1>3, <2>1, <2>2
    <2>4. ASSUME q \notin disturbed PROVE SetsReplaced(h)'
      <3>1. \A t \in TimelineSpaces \ ({s} \cup rest) : FollowedAt(h, t)'
        BY <1>10, <2>3, <2>4 DEF FollowedAt, MembersOf
      <3>2. link'[h.at] # NoLink
        BY <1>8, <2>1, <2>3
      <3> QED
        BY <1>8, <3>1, <3>2 DEF SetsReplaced, Outstanding
    <2>5. h \in FollowRecord /\ follow'[q] = h /\ follow' \in [Subscribers -> FollowRecord]
          /\ \A r \in Subscribers \ {q} : follow'[r] = follow[r]
      BY <1>1, <1>8, <1>13, LaterIsFollow DEF LaterRecord
    <2>6. \A r \in Subscribers : VisitedIsOpen(follow[r])'
      <3>1. VisitedIsOpen(follow[q])'
        BY <1>8, <2>1, <2>3, <2>5 DEF VisitedIsOpen
      <3>2. ASSUME NEW r \in Subscribers \ {q} PROVE VisitedIsOpen(follow[r])'
        <4>1. follow'[r] = follow[r] /\ VisitedIsOpen(follow[r]) /\ follow[r] \in FollowRecord
          BY <1>1, <2>5 DEF TimelineIInv
        <4>2. follow[r].step \in {"fence", "send"} => follow[r].at \in TimelineSpaces
          BY <4>1, FollowShapes DEF VisitSteps, VisitRecord, Follows
        <4> QED
          BY <2>1, <2>3, <4>1, <4>2 DEF VisitedIsOpen
      <3> QED
        BY <3>1, <3>2
    <2> QED
      BY <1>1, <2>3, <2>4, <2>5, <2>6, StepMoves
  <1> QED
    BY <1>2, <1>4, <1>5, <1>6, <1>9, <1>11, <1>12, <1>13

\* One that was being visited has its set replaced, whether or not the answer
\* arrives.
LEMMA ReplacesSet ==
  ASSUME TimelineIInv, NEW q \in Subscribers, ReplaceSet(q)
  PROVE  TimelineIInv'
  <1>1. /\ follow[q] \in VisitRecord /\ follow[q].step = "send" /\ Busy(q)
        /\ follow \in [Subscribers -> FollowRecord] /\ link \in [TimelineSpaces -> Link]
        /\ UNCHANGED <<place, routed, disturbed, timelineChanges>>
        /\ VisitedIsOpen(follow[q])
        /\ q \notin disturbed => SetsReplaced(follow[q])
    BY FollowShapes
       DEF TimelineIInv, TimelineTypeOK, ReplaceSet, Busy, FollowIdle, VisitSteps
  <1>2. PICK s : s = follow[q].at
    OBVIOUS
  <1>3. PICK asked : asked = MembersAt(q, s)
    OBVIOUS
  <1>4. s \in TimelineSpaces /\ asked \in SUBSET TimelineAgents
    BY <1>1, <1>2, <1>3 DEF VisitRecord, Follows, MembersAt, Grouped
  <1>5. link' = [link EXCEPT ![s].members = asked]
    BY <1>2, <1>3 DEF ReplaceSet
  <1>6. link[s] # NoLink /\ link[s] \in Link
    BY <1>1, <1>2, <1>4 DEF VisitedIsOpen
  <1> DEFINE sent == [link[s] EXCEPT !.members = asked]
  <1>7. sent \in Link /\ sent # NoLink /\ sent.members = asked
    BY <1>4, <1>6 DEF Link, NoLink
  <1>8. link' = [link EXCEPT ![s] = sent]
    BY <1>1, <1>4, <1>5
  <1> HIDE DEF sent
  <1>9. /\ link' \in [TimelineSpaces -> Link] /\ link'[s] = sent
        /\ \A t \in TimelineSpaces \ {s} : link'[t] = link[t]
    BY <1>1, <1>4, <1>7, <1>8
  <1>10. PICK g : g = [follow[q] EXCEPT !.step = "visit"]
    OBVIOUS
  <1>11. /\ g \in VisitRecord /\ g.step = "visit" /\ g.todo = follow[q].todo
         /\ g.view = follow[q].view /\ g.accepted = follow[q].accepted
    BY <1>1, <1>10 DEF VisitRecord, Follows, VisitSteps
  <1>12. follow' \in {[follow EXCEPT ![q] = g], [follow EXCEPT ![q] = FollowIdle]}
    BY <1>1, <1>10 DEF ReplaceSet, Goes, Rejects
  <1>13. PICK todo : todo = follow[q].todo
    OBVIOUS
  <1>14. /\ g \in FollowRecord /\ FollowIdle \in FollowRecord
         /\ VisitedIsOpen(g)' /\ VisitedIsOpen(FollowIdle)'
    BY <1>11, LaterIsFollow DEF LaterRecord, VisitedIsOpen, FollowIdle
  <1>15. ASSUME q \notin disturbed PROVE SetsReplaced(g)'
    <2>1. \A t \in TimelineSpaces \ ({s} \cup todo) : FollowedAt(follow[q], t)
      BY <1>1, <1>2, <1>13, <1>15 DEF SetsReplaced, Outstanding, VisitSteps
    <2>2. \A t \in TimelineSpaces \ ({s} \cup todo) : FollowedAt(g, t)'
      BY <1>9, <1>11, <2>1 DEF FollowedAt, MembersOf
    <2>3. asked = MembersOf(g, s)
      BY <1>3, <1>11 DEF MembersAt, Grouped, MembersOf
    <2>4. FollowedAt(g, s)'
      BY <1>7, <1>9, <2>3 DEF FollowedAt, MembersOf
    <2> QED
      BY <1>11, <1>13, <2>2, <2>4 DEF SetsReplaced, Outstanding
  <1>16. \A r \in Subscribers : VisitedIsOpen(follow[r])'
    <2>1. VisitedIsOpen(follow[q])'
      BY <1>1, <1>12, <1>14 DEF VisitedIsOpen
    <2>2. ASSUME NEW r \in Subscribers \ {q} PROVE VisitedIsOpen(follow[r])'
      <3>1. follow'[r] = follow[r] /\ VisitedIsOpen(follow[r]) /\ follow[r] \in FollowRecord
        BY <1>1, <1>12 DEF TimelineIInv
      <3>2. follow[r].step \in {"fence", "send"} => follow[r].at \in TimelineSpaces
        BY <3>1, FollowShapes DEF VisitSteps, VisitRecord, Follows
      <3> QED
        BY <1>7, <1>9, <3>1, <3>2 DEF VisitedIsOpen
    <2> QED
      BY <2>1, <2>2
  <1>17. \A r \in Subscribers \ {q} : follow'[r] = follow[r]
    BY <1>1, <1>12
  <1>18. CASE follow'[q] = g
    BY <1>1, <1>9, <1>12, <1>14, <1>15, <1>16, <1>17, <1>18, StepMoves
  <1>19. CASE follow'[q] = FollowIdle
    BY <1>1, <1>9, <1>12, <1>14, <1>16, <1>17, <1>19, StepMoves
  <1> QED
    BY <1>1, <1>12, <1>18, <1>19

LEMMA TimelineInductive == TimelineIInv /\ [TimelineNext]_timelineVars => TimelineIInv'
  BY TimelineWorldKeeps, BeginsAlone, ReadsOfTimelines, VisitsOfTimelines, ReplacesSet
     DEF TimelineNext, TimelineStep

LEMMA TimelineStepIsRight ==
  ASSUME TimelineIInv, NEW q \in Subscribers \ disturbed, EndFollow(q),
         NEW s \in TimelineSpaces
  PROVE  /\ link[s] # NoLink /\ Runs(follow[q].view[s]) =>
              link[s].members = MembersAt(q, s)
         /\ MembersAt(q, s) # {} => link[s] # NoLink
  <1>1. follow[q].step = "final" /\ SetsReplaced(follow[q])
    BY DEF EndFollow, TimelineIInv, Busy, FollowIdle
  <1>2. FollowedAt(follow[q], s)
    BY <1>1 DEF SetsReplaced, Outstanding, VisitSteps
  <1> QED
    BY <1>2 DEF FollowedAt, MembersOf, MembersAt, Grouped

\* What is acknowledged is what the backends send, also in workspaces that the
\* request no longer names, unless another request overlapped or a connection
\* was dropped (handle(), case agent.timeline.set_subscription.request).
THEOREM AcknowledgementsAreTrue == TimelineSpec => AcknowledgedIsFollowed
  <1> DEFINE Honest ==
        \A q \in Subscribers \ disturbed : EndFollow(q) /\ Acknowledges(q) =>
          \A s \in TimelineSpaces :
            /\ link[s] # NoLink /\ Runs(follow[q].view[s]) =>
                 link[s].members = MembersAt(q, s)
            /\ MembersAt(q, s) # {} => link[s] # NoLink
  <1>1. TimelineIInv => Honest
    BY TimelineStepIsRight
  <1>2. TimelineInit => TimelineIInv
    BY TimelineInitial
  <1>3. TimelineIInv /\ [TimelineNext]_timelineVars => TimelineIInv'
    BY TimelineInductive
  <1> QED
    BY <1>1, <1>2, <1>3, PTL DEF TimelineSpec, AcknowledgedIsFollowed
=============================================================================
