------------------------- MODULE BackendConnections -------------------------
(***************************************************************************)
(* The backend connections of one client session: connection(), forward(), *)
(* refreshDirectory() and close() of GatewaySession in                     *)
(* src/gateway/session.ts, with the requests of PaseoBackend in            *)
(* src/gateway/backend.ts.                                                 *)
(*                                                                         *)
(* `connections` maps a workspace name to a promise; here it holds the     *)
(* backend object the promise is for, and the backend's state tells        *)
(* whether the promise is pending, fulfilled or rejected.  Every await of  *)
(* the code ends a step, so that handlers, the refresh and close() meet    *)
(* between any two of them.                                                *)
(***************************************************************************)
EXTENDS Naturals, FiniteSets

CONSTANTS
  ConnNames,          \* workspace names
  Handlers,           \* requests of the client handled at once
  Refresher,          \* the periodic refreshDirectory()
  MaxBackends,        \* bound: backend objects somebody still refers to
  MaxWorkspaceUid,    \* bound: UIDs a name is given, one after the other
  MaxRefreshFailures  \* bound: refreshes whose records() fails

ASSUME ConnectionAssumption ==
  /\ Refresher \notin Handlers
  /\ MaxBackends \in Nat \ {0} /\ MaxWorkspaceUid \in Nat \ {0}
  /\ MaxRefreshFailures \in Nat

VARIABLES
  wsUid,        \* the UID of each workspace in the cluster
  wsReady,      \* Running and Ready
  connections,  \* name -> backend, 0 where the map has no entry
  backend,      \* the backend objects
  proc,         \* handlers and refresh
  closer,       \* close(): "open", "closing", "closed", and what it awaits
  refreshFailures

connVars == <<wsUid, wsReady, connections, backend, proc, closer, refreshFailures>>

Backends == 1 .. MaxBackends
Procs == Handlers \cup {Refresher}
\* The promise is pending while "opening", "registering" and "failing".
BackendStates == {"opening", "registering", "failing", "failed", "open", "closed"}
Unused == [state |-> "unused"]
Backend == {Unused} \cup
  [state : BackendStates, name : ConnNames, uid : 1 .. MaxWorkspaceUid]
ProcIdle == [step |-> "idle"]
View == [ConnNames -> [uid : 1 .. MaxWorkspaceUid, ready : BOOLEAN]]
\* What a handler, or the refresh while it connects, keeps between two awaits.
Forwarding ==
  {ProcIdle}
  \cup [step : {"connect"}, name : ConnNames, uid : 1 .. MaxWorkspaceUid]
  \cup [step : {"await", "retire", "validate", "send", "reply"}, name : ConnNames,
         uid : 1 .. MaxWorkspaceUid, on : Backends]
Refreshing ==
  Forwarding
  \cup [step : {"visit"}, seen : SUBSET Backends, view : View]
  \cup [step : {"inspect", "drop"}, name : ConnNames, on : Backends, view : View,
         seen : SUBSET Backends]
  \cup [step : {"settle", "discard"}, on : SUBSET Backends]

ConnInit ==
  /\ wsUid = [n \in ConnNames |-> 1] /\ wsReady = [n \in ConnNames |-> TRUE]
  /\ connections = [n \in ConnNames |-> 0]
  /\ backend = [b \in Backends |-> Unused]
  /\ proc = [p \in Procs |-> ProcIdle]
  /\ closer = [step |-> "open"]
  /\ refreshFailures = 0

-----------------------------------------------------------------------------

Closed == closer.step # "open"
Settled(b) == backend[b].state \in {"failed", "open", "closed"}
Fulfilled(b) == backend[b].state \in {"open", "closed"}
\* retire() silences the events of the backend, and close() follows at once.
Retire(b) == [backend EXCEPT ![b].state = "closed"]
Tracked == {connections[n] : n \in ConnNames} \ {0}
ProcRests(p) == [proc EXCEPT ![p] = ProcIdle]
ProcGoes(p, step) == [proc EXCEPT ![p].step = step]

\* The cluster: a workspace stops, starts, or is replaced under its name.
WorkspaceChanges(n) ==
  /\ \/ wsReady' = [wsReady EXCEPT ![n] = ~@] /\ UNCHANGED wsUid
     \/ /\ wsUid[n] < MaxWorkspaceUid
        /\ wsUid' = [wsUid EXCEPT ![n] = @ + 1] /\ UNCHANGED wsReady
  /\ UNCHANGED <<connections, backend, proc, closer, refreshFailures>>

-----------------------------------------------------------------------------
(* connection() *)

\* The objects nobody refers to any more, for a new connection to use.
Free ==
  {b \in Backends :
     \/ backend[b] = Unused
     \/ /\ backend[b].state \in {"failed", "closed"} /\ b \notin Tracked
        /\ Closed => closer.step = "closed" \/ b \notin closer.on
        /\ \A p \in Procs :
             /\ proc[p].step \in {"await", "validate", "send", "reply", "inspect"}
                  => proc[p].on # b
             /\ proc[p].step \in {"settle", "discard"} => b \notin proc[p].on
             /\ proc[p].step \in {"visit", "inspect", "drop"}
                  => b \notin proc[p].seen}

\* The synchronous part: it takes the promise that is there, or makes one.
Connect(p, name, uid) ==
  LET waits(b) == [step |-> "await", name |-> name, uid |-> uid, on |-> b]
  IN  IF connections[name] # 0
      THEN /\ proc' = [proc EXCEPT ![p] = waits(connections[name])]
           /\ UNCHANGED <<connections, backend>>
      ELSE IF Free = {} THEN proc' = ProcRests(p) /\ UNCHANGED <<connections, backend>>
      ELSE LET b == CHOOSE c \in Free : TRUE
           IN
             /\ backend' = [backend EXCEPT ![b] =
                  [state |-> "opening", name |-> name, uid |-> uid]]
             /\ connections' = [connections EXCEPT ![name] = b]
             /\ proc' = [proc EXCEPT ![p] = waits(b)]

\* The promise: connect, register the checkout, subscribe, or close and reject.
\* Its handler removes the entry of its name, whatever that entry is by then.
OpenBackend(b) ==
  /\ \/ /\ backend[b].state = "opening" /\ ~Closed
        /\ backend' = [backend EXCEPT ![b].state = "registering"]
        /\ UNCHANGED connections
     \/ /\ backend[b].state = "registering"
        /\ backend' = [backend EXCEPT ![b].state = "open"]
        /\ UNCHANGED connections
     \/ /\ backend[b].state \in {"opening", "registering"}
        /\ backend' = [backend EXCEPT ![b].state = "failing"]
        /\ UNCHANGED connections
     \/ /\ backend[b].state = "failing"
        /\ backend' = [backend EXCEPT ![b].state = "failed"]
        /\ connections' = [connections EXCEPT ![backend[b].name] = 0]
  /\ UNCHANGED <<wsUid, wsReady, proc, closer, refreshFailures>>

\* The daemon ends a connection.
BackendLost(b) ==
  /\ backend[b].state = "open"
  /\ backend' = [backend EXCEPT ![b].state = "closed"]
  /\ UNCHANGED <<wsUid, wsReady, connections, proc, closer, refreshFailures>>

\* The promise settled: another UID's connection is retired and closed first.
Awaited(p) ==
  LET me == proc[p]
  IN  /\ me.step = "await" /\ Settled(me.on)
      /\ \/ /\ ~Fulfilled(me.on) /\ UNCHANGED backend
            /\ proc' = IF p = Refresher
                       THEN [proc EXCEPT ![p] = [step |-> "settle", on |-> Tracked]]
                       ELSE ProcRests(p)
         \/ /\ Fulfilled(me.on) /\ backend[me.on].uid # me.uid
            /\ backend' = Retire(me.on) /\ proc' = ProcGoes(p, "retire")
         \/ /\ Fulfilled(me.on) /\ backend[me.on].uid = me.uid /\ UNCHANGED backend
            /\ proc' = IF p = Refresher THEN ProcRests(p)
                       ELSE [proc EXCEPT ![p] = [step |-> "validate",
                               name |-> me.name, uid |-> me.uid, on |-> me.on]]
      /\ UNCHANGED <<wsUid, wsReady, connections, closer, refreshFailures>>

\* The close has ended; the entry goes and the call fails.
RetiredPrevious(p) ==
  /\ proc[p].step = "retire"
  /\ connections' = [connections EXCEPT ![proc[p].name] = 0]
  /\ proc' = IF p = Refresher
             THEN [proc EXCEPT ![p] = [step |-> "settle", on |->
                     {connections[n] : n \in ConnNames \ {proc[p].name}} \ {0}]]
             ELSE ProcRests(p)
  /\ UNCHANGED <<wsUid, wsReady, backend, closer, refreshFailures>>

-----------------------------------------------------------------------------
(* forward() *)

BeginForward(h) ==
  /\ proc[h] = ProcIdle /\ ~Closed
  /\ \E n \in ConnNames :
       /\ wsReady[n]
       /\ proc' = [proc EXCEPT ![h] =
                     [step |-> "connect", name |-> n, uid |-> wsUid[n]]]
  /\ UNCHANGED <<wsUid, wsReady, connections, backend, closer, refreshFailures>>

ForwardConnects(h) ==
  /\ proc[h].step = "connect"
  /\ IF Closed THEN proc' = ProcRests(h) /\ UNCHANGED <<connections, backend>>
     ELSE Connect(h, proc[h].name, proc[h].uid)
  /\ UNCHANGED <<wsUid, wsReady, closer, refreshFailures>>

\* validate(): the same UID, Running and Ready, as read after every await.
Validate(h) ==
  LET me == proc[h]
  IN  /\ me.step = "validate"
      /\ proc' = IF ~Closed /\ wsReady[me.name] /\ wsUid[me.name] = me.uid
                 THEN ProcGoes(h, "send") ELSE ProcRests(h)
      /\ UNCHANGED <<wsUid, wsReady, connections, backend, closer,
                     refreshFailures>>

\* request(): a transport that is gone refuses, nothing is sent again.
SendRequest(h) ==
  /\ proc[h].step = "send"
  /\ proc' = IF backend[proc[h].on].state = "open"
             THEN ProcGoes(h, "reply") ELSE ProcRests(h)
  /\ UNCHANGED <<wsUid, wsReady, connections, backend, closer, refreshFailures>>

\* The response, the timeout, or the rejection when the backend closes.
RequestEnds(h) ==
  /\ proc[h].step = "reply" /\ proc' = ProcRests(h)
  /\ UNCHANGED <<wsUid, wsReady, connections, backend, closer, refreshFailures>>

-----------------------------------------------------------------------------
(* refreshDirectory(), guarded by `refreshing` *)

BeginRefresh ==
  /\ proc[Refresher] = ProcIdle /\ ~Closed
  /\ \/ /\ proc' = [proc EXCEPT ![Refresher] =
             [step |-> "visit", seen |-> {}, view |-> [n \in ConnNames |->
                [uid |-> wsUid[n], ready |-> wsReady[n]]]]]
        /\ UNCHANGED refreshFailures
     \/ /\ refreshFailures < MaxRefreshFailures
        /\ refreshFailures' = refreshFailures + 1
        /\ proc' = [proc EXCEPT ![Refresher] = [step |-> "settle", on |-> Tracked]]
  /\ UNCHANGED <<wsUid, wsReady, connections, backend, closer>>

\* The loop over the map awaits each promise.
VisitNext ==
  LET me == proc[Refresher]
  IN  /\ me.step = "visit"
      /\ \E n \in ConnNames :
           /\ connections[n] # 0 /\ connections[n] \notin me.seen
           /\ proc' = [proc EXCEPT ![Refresher] =
                [step |-> "inspect", name |-> n, on |-> connections[n],
                 view |-> me.view, seen |-> me.seen \cup {connections[n]}]]
      /\ UNCHANGED <<wsUid, wsReady, connections, backend, closer,
                     refreshFailures>>

\* A connection of a stopped or replaced workspace, or one that failed, leaves
\* the map by its name.
Inspect ==
  LET me == proc[Refresher]
      visit == [step |-> "visit", seen |-> me.seen, view |-> me.view]
      stays == /\ Fulfilled(me.on) /\ me.view[me.name].ready
               /\ backend[me.on].uid = me.view[me.name].uid
  IN  /\ me.step = "inspect" /\ Settled(me.on)
      /\ \/ /\ stays /\ proc' = [proc EXCEPT ![Refresher] = visit]
            /\ UNCHANGED <<connections, backend>>
         \/ /\ ~stays
            /\ connections' = [connections EXCEPT ![me.name] = 0]
            /\ IF Fulfilled(me.on)
               THEN backend' = Retire(me.on) /\ proc' = ProcGoes(Refresher, "drop")
               ELSE proc' = [proc EXCEPT ![Refresher] = visit] /\ UNCHANGED backend
      /\ UNCHANGED <<wsUid, wsReady, closer, refreshFailures>>

\* The close of a dropped connection has ended.
Dropped ==
  LET me == proc[Refresher]
  IN  /\ me.step = "drop"
      /\ proc' = [proc EXCEPT ![Refresher] =
                    [step |-> "visit", seen |-> me.seen, view |-> me.view]]
      /\ UNCHANGED <<wsUid, wsReady, connections, backend, closer,
                     refreshFailures>>

\* The loop is over: it ends, or connects a workspace of its view that is
\* ready, which the client watches; on a closed session that throws.
AfterVisits ==
  LET me == proc[Refresher]
  IN  /\ me.step = "visit" /\ Tracked \subseteq me.seen
      /\ \/ /\ proc' = ProcRests(Refresher) /\ UNCHANGED <<connections, backend>>
         \/ \E n \in ConnNames :
              /\ me.view[n].ready
              /\ IF Closed
                 THEN /\ proc' = [proc EXCEPT ![Refresher] =
                                    [step |-> "settle", on |-> Tracked]]
                      /\ UNCHANGED <<connections, backend>>
                 ELSE Connect(Refresher, n, me.view[n].uid)
      /\ UNCHANGED <<wsUid, wsReady, closer, refreshFailures>>

\* The error path: the promises of that moment settle, then the map is emptied.
RefreshFailed ==
  LET me == proc[Refresher]
  IN  /\ me.step = "settle" /\ \A b \in me.on : Settled(b)
      /\ connections' = [n \in ConnNames |-> 0]
      /\ proc' = [proc EXCEPT ![Refresher] =
                    [step |-> "discard", on |-> {b \in me.on : Fulfilled(b)}]]
      /\ UNCHANGED <<wsUid, wsReady, backend, closer, refreshFailures>>

\* The connections found are closed one after the other.
Discard ==
  LET me == proc[Refresher]
  IN  /\ me.step = "discard"
      /\ \/ \E b \in me.on :
              /\ backend' = Retire(b)
              /\ proc' = [proc EXCEPT ![Refresher].on = @ \ {b}]
         \/ me.on = {} /\ proc' = ProcRests(Refresher) /\ UNCHANGED backend
      /\ UNCHANGED <<wsUid, wsReady, connections, closer, refreshFailures>>

-----------------------------------------------------------------------------
(* close() *)

BeginClose ==
  /\ closer.step = "open"
  /\ closer' = [step |-> "closing", on |-> Tracked]
  /\ UNCHANGED <<wsUid, wsReady, connections, backend, proc, refreshFailures>>

\* Mutant of CloseOne: a promise that was rejected is waited for.
CloseOneFulfilled ==
  /\ closer.step = "closing"
  /\ \E b \in closer.on :
       /\ Fulfilled(b)
       /\ backend' = Retire(b)
       /\ closer' = [closer EXCEPT !.on = @ \ {b}]
  /\ UNCHANGED <<wsUid, wsReady, connections, proc, refreshFailures>>

CloseOne ==
  /\ closer.step = "closing"
  /\ \E b \in closer.on :
       /\ Settled(b)
       /\ backend' = IF Fulfilled(b) THEN Retire(b) ELSE backend
       /\ closer' = [closer EXCEPT !.on = @ \ {b}]
  /\ UNCHANGED <<wsUid, wsReady, connections, proc, refreshFailures>>

EndClose ==
  /\ closer.step = "closing" /\ closer.on = {}
  /\ connections' = [n \in ConnNames |-> 0]
  /\ closer' = [step |-> "closed"]
  /\ UNCHANGED <<wsUid, wsReady, backend, proc, refreshFailures>>

-----------------------------------------------------------------------------

HandlerStep(h) ==
  \/ ForwardConnects(h) \/ Awaited(h) \/ RetiredPrevious(h) \/ Validate(h)
  \/ SendRequest(h) \/ RequestEnds(h)
RefreshStep ==
  \/ VisitNext \/ Inspect \/ Dropped \/ AfterVisits \/ RefreshFailed \/ Discard
  \/ Awaited(Refresher) \/ RetiredPrevious(Refresher)
CloseStep == CloseOne \/ EndClose

ConnNext ==
  \/ \E n \in ConnNames : WorkspaceChanges(n)
  \/ \E b \in Backends : OpenBackend(b) \/ BackendLost(b)
  \/ \E h \in Handlers : BeginForward(h) \/ HandlerStep(h)
  \/ BeginRefresh \/ RefreshStep \/ BeginClose \/ CloseStep

\* Connecting and every request of the registration have timeouts, requests
\* have them too, and the code after an await runs.
ConnFairness ==
  /\ \A b \in Backends : WF_connVars(OpenBackend(b))
  /\ \A h \in Handlers : WF_connVars(HandlerStep(h))
  /\ WF_connVars(RefreshStep)
  /\ WF_connVars(CloseStep)

ConnSpec == ConnInit /\ [][ConnNext]_connVars /\ ConnFairness

-----------------------------------------------------------------------------

ConnTypeOK ==
  /\ wsUid \in [ConnNames -> 1 .. MaxWorkspaceUid]
  /\ wsReady \in [ConnNames -> BOOLEAN]
  /\ connections \in [ConnNames -> {0} \cup Backends]
  /\ backend \in [Backends -> Backend]
  /\ proc \in [Procs -> Refreshing] /\ \A h \in Handlers : proc[h] \in Forwarding
  /\ closer \in [step : {"open", "closed"}] \cup [step : {"closing"}, on : SUBSET Backends]
  /\ refreshFailures \in 0 .. MaxRefreshFailures

\* A request is sent only over the connection of the UID it was routed to,
\* although the name may have been given to another workspace, another handler
\* may be retiring the connection, and the refresh may be dropping it.
RequestsReachTheirWorkspace ==
  \A h \in Handlers : proc[h].step = "reply" =>
    backend[proc[h].on].uid = proc[h].uid /\ backend[proc[h].on].name = proc[h].name

\* A session that is closed comes to rest: no handler, no refresh and not
\* close() itself waits for ever on a promise another of them gave up.
SessionDrains ==
  Closed ~> closer.step = "closed" /\ \A p \in Procs : proc[p] = ProcIdle

\* The comment on GatewaySession: one backend session per client and workspace.
\* At most one backend of a workspace is live and unretired.
OneBackendPerWorkspace ==
  \A n \in ConnNames :
    Cardinality({b \in Backends : /\ backend[b] # Unused
                                  /\ backend[b].name = n
                                  /\ backend[b].state \in {"registering", "open"}}) <= 1
=============================================================================
