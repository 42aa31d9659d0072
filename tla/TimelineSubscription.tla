------------------------- MODULE TimelineSubscription -------------------------
(***************************************************************************)
(* agent.timeline.set_subscription of a client session: the client names   *)
(* the agents whose timelines it wants, all of them at once.  The gateway  *)
(* resolves them, verifies those of stopped workspaces, replaces the set   *)
(* of every backend one after the other, and acknowledges after a last     *)
(* look at the records.  Workspaces stop, start, lose their storage and    *)
(* are replaced meanwhile, routes are withdrawn, the directory refresh     *)
(* drops connections, and another request of the client may overlap.       *)
(***************************************************************************)
EXTENDS Integers, FiniteSets

CONSTANTS
  TimelineSpaces,     \* workspaces
  TimelineAgents,     \* agents, by their public IDs
  TimelineHome,       \* the workspace of each
  Subscribers,        \* requests under way at a time
  MaxTimelineChanges  \* bound: changes of workspaces and routes

ASSUME TimelineAssumption ==
  /\ TimelineSpaces # {}
  /\ TimelineHome \in [TimelineAgents -> TimelineSpaces]
  /\ MaxTimelineChanges \in Nat

VARIABLES
  place,       \* the records: UID and state of each workspace
  routed,      \* agents whose route resolves
  link,        \* connections: the backend's set of timelines, or NoLink
  follow,      \* the handlers of the requests
  disturbed,   \* history: requests that overlapped, or lost a connection
  timelineChanges

timelineVars == <<place, routed, link, follow, disturbed, timelineChanges>>

-----------------------------------------------------------------------------
\* "ready" and "waiting" have residency Running; a stopped workspace retains
\* its inventory until its storage is deleted.
PlaceStates == {"ready", "waiting", "stopped", "erased"}
Place == [uid : 1 .. 2, state : PlaceStates]
Runs(p) == p.state \in {"ready", "waiting"}

NoLink == [uid |-> 0, members |-> {}]
Link == {NoLink} \cup [uid : 1 .. 2, members : SUBSET TimelineAgents]

FollowIdle == [step |-> "idle"]
Follows(steps, items) ==
  [step : steps, accepted : SUBSET TimelineAgents, view : [TimelineSpaces -> Place],
   todo : SUBSET items, at : TimelineSpaces]
FollowRecord ==
  {FollowIdle} \cup
  [step : {"resolve"}, wanted : SUBSET TimelineAgents,
   view : [TimelineSpaces -> Place]]
  \cup Follows({"retained"}, TimelineAgents)
  \cup Follows({"visit", "fence", "send", "refence", "routes", "final"}, TimelineSpaces)

TimelineInit ==
  /\ place = [s \in TimelineSpaces |-> [uid |-> 1, state |-> "ready"]]
  /\ routed = TimelineAgents
  /\ link = [s \in TimelineSpaces |-> NoLink]
  /\ follow = [q \in Subscribers |-> FollowIdle]
  /\ disturbed = {}
  /\ timelineChanges = 0

Busy(q) == follow[q] # FollowIdle
Goes(q, step) == [follow EXCEPT ![q].step = step]
Rejects(q) == [follow EXCEPT ![q] = FollowIdle]
Agrees(q, s) == place[s] = follow[q].view[s]

\* Of the accepted agents, those whose workspaces ran when they were read.
Grouped(q) == {a \in follow[q].accepted : Runs(follow[q].view[TimelineHome[a]])}
Retained(q) == follow[q].accepted \ Grouped(q)
MembersAt(q, s) == {a \in Grouped(q) : TimelineHome[a] = s}

\* Mutant of BackendsOf: only the backends of agents that are asked for.
BackendsAsked(q) == {TimelineHome[a] : a \in Grouped(q)}

\* The backends whose sets are replaced: also those in use for nothing now.
BackendsOf(q) ==
  {s \in TimelineSpaces : link[s] # NoLink} \cup {TimelineHome[a] : a \in Grouped(q)}

-----------------------------------------------------------------------------
(* The handler.                                                             *)

\* dispatch() has read the records.
BeginFollow(q) ==
  /\ ~Busy(q)
  /\ \E wanted \in SUBSET TimelineAgents :
       follow' = [follow EXCEPT ![q] =
                    [step |-> "resolve", wanted |-> wanted, view |-> place]]
  /\ LET others == {r \in Subscribers \ {q} : Busy(r)}
     IN disturbed' = (disturbed \ {q}) \cup others \cup (IF others = {} THEN {} ELSE {q})
  /\ UNCHANGED <<place, routed, link, timelineChanges>>

\* A stale tab is left out; whatever is known to be unavailable is.
ResolveFollowed(q) ==
  /\ follow[q].step = "resolve"
  /\ follow' = [follow EXCEPT ![q] =
       [step |-> "retained", view |-> follow[q].view,
        accepted |-> follow[q].wanted \cap routed,
        todo |-> {a \in follow[q].wanted \cap routed :
                    ~Runs(follow[q].view[TimelineHome[a]])},
        at |-> CHOOSE s \in TimelineSpaces : TRUE]]
  /\ UNCHANGED <<place, routed, link, disturbed, timelineChanges>>

\* retainedTimelineAgent(): the inventory, the route and the record once more.
CheckRetained(q) ==
  /\ follow[q].step = "retained"
  /\ IF follow[q].todo = {}
     THEN follow' = [follow EXCEPT ![q].step = "visit", ![q].todo = BackendsOf(q)]
     ELSE \E a \in follow[q].todo :
            follow' = IF a \in routed /\ Agrees(q, TimelineHome[a])
                           /\ place[TimelineHome[a]].state = "stopped"
                      THEN [follow EXCEPT ![q].todo = @ \ {a}]
                      ELSE Rejects(q)
  /\ UNCHANGED <<place, routed, link, disturbed, timelineChanges>>

\* A closed connection fails the requests that hold it.
FailsHolders(s, f) ==
  [r \in Subscribers |->
     IF f[r].step \in {"fence", "send"} /\ f[r].at = s THEN FollowIdle ELSE f[r]]

\* connection(): the one there is, a new one, or none for a changed UID.
VisitBackend(q) ==
  /\ follow[q].step = "visit" /\ follow[q].todo # {}
  /\ \E s \in follow[q].todo :
       LET seen == follow[q].view[s]
           rest == follow[q].todo \ {s}
           takes == [follow EXCEPT ![q].step = "fence", ![q].todo = rest, ![q].at = s]
       IN \/ /\ ~Runs(seen)
             /\ follow' = [follow EXCEPT ![q].todo = rest]
             /\ UNCHANGED link
          \/ /\ seen.state = "waiting"
             /\ follow' = Rejects(q) /\ UNCHANGED link
          \/ /\ seen.state = "ready" /\ link[s].uid = seen.uid
             /\ follow' = takes /\ UNCHANGED link
          \/ /\ seen.state = "ready" /\ link[s].uid \notin {0, seen.uid}
             /\ link' = [link EXCEPT ![s] = NoLink]
             /\ follow' = FailsHolders(s, Rejects(q))
          \/ /\ seen.state = "ready" /\ link[s] = NoLink /\ Agrees(q, s)
             /\ link' = [link EXCEPT ![s] = [uid |-> seen.uid, members |-> {}]]
             /\ follow' = takes
          \/ /\ seen.state = "ready" /\ link[s] = NoLink
             /\ follow' = Rejects(q) /\ UNCHANGED link
  /\ UNCHANGED <<place, routed, disturbed, timelineChanges>>

\* The routes of the backend's agents and the record of its workspace again.
FenceBackend(q) ==
  /\ follow[q].step = "fence"
  /\ follow' = IF MembersAt(q, follow[q].at) \subseteq routed /\ Agrees(q, follow[q].at)
               THEN Goes(q, "send") ELSE Rejects(q)
  /\ UNCHANGED <<place, routed, link, disturbed, timelineChanges>>

\* The backend replaces its set; its answer may be lost.
ReplaceSet(q) ==
  /\ follow[q].step = "send"
  /\ link' = [link EXCEPT ![follow[q].at].members = MembersAt(q, follow[q].at)]
  /\ follow' \in {Goes(q, "visit"), Rejects(q)}
  /\ UNCHANGED <<place, routed, disturbed, timelineChanges>>

\* The fence over all retained agents, when there are any.
FenceRetained(q) ==
  /\ \/ follow[q].step = "visit" /\ follow[q].todo = {}
     \/ follow[q].step = "refence"
  /\ follow' =
       IF follow[q].step = "visit"
       THEN IF Retained(q) = {} THEN Goes(q, "routes")
            ELSE IF Retained(q) \subseteq routed THEN Goes(q, "refence") ELSE Rejects(q)
       ELSE IF \A a \in Retained(q) : Agrees(q, TimelineHome[a])
            THEN Goes(q, "routes") ELSE Rejects(q)
  /\ UNCHANGED <<place, routed, link, disturbed, timelineChanges>>

\* The routes of everything accepted, one last time.
FenceRoutes(q) ==
  /\ follow[q].step = "routes"
  /\ follow' = IF follow[q].accepted \subseteq routed THEN Goes(q, "final") ELSE Rejects(q)
  /\ UNCHANGED <<place, routed, link, disturbed, timelineChanges>>

\* The records one last time, and the acknowledgement.
Acknowledges(q) ==
  /\ follow[q].step = "final"
  /\ \A a \in follow[q].accepted : Agrees(q, TimelineHome[a])

EndFollow(q) ==
  /\ follow[q].step = "final"
  /\ follow' = Rejects(q)
  /\ UNCHANGED <<place, routed, link, disturbed, timelineChanges>>

-----------------------------------------------------------------------------
(* The session's other work, and the cluster.                               *)

\* A request for another purpose connects.
OtherConnects(s) ==
  /\ link[s] = NoLink /\ place[s].state = "ready"
  /\ link' = [link EXCEPT ![s] = [uid |-> place[s].uid, members |-> {}]]
  /\ UNCHANGED <<place, routed, follow, disturbed, timelineChanges>>

\* refreshDirectory(): the connection of a workspace that is not ready, or is
\* another one by now, is dropped without a word to the client.
RefreshDropsLink(s) ==
  /\ link[s] # NoLink
  /\ place[s].state # "ready" \/ place[s].uid # link[s].uid
  /\ link' = [link EXCEPT ![s] = NoLink]
  /\ follow' = FailsHolders(s, follow)
  /\ disturbed' = disturbed \cup {q \in Subscribers : Busy(q)}
  /\ UNCHANGED <<place, routed, timelineChanges>>

PlaceChanges(s) ==
  /\ timelineChanges < MaxTimelineChanges
  /\ timelineChanges' = timelineChanges + 1
  /\ \/ /\ place[s].state # "erased"
        /\ \E state \in PlaceStates \ {place[s].state} :
             /\ state = "erased" => place[s].state = "stopped"
             /\ place' = [place EXCEPT ![s].state = state]
     \/ /\ place[s].uid = 1
        /\ place' = [place EXCEPT ![s] = [uid |-> 2, state |-> "ready"]]
  /\ UNCHANGED <<routed, link, follow, disturbed>>

\* A route is quarantined.
RouteWithdrawn(a) ==
  /\ timelineChanges < MaxTimelineChanges /\ a \in routed
  /\ timelineChanges' = timelineChanges + 1
  /\ routed' = routed \ {a}
  /\ UNCHANGED <<place, link, follow, disturbed>>

-----------------------------------------------------------------------------
TimelineStep(q) ==
  \/ ResolveFollowed(q) \/ CheckRetained(q) \/ VisitBackend(q)
  \/ FenceBackend(q) \/ ReplaceSet(q) \/ FenceRetained(q) \/ FenceRoutes(q)
  \/ EndFollow(q)

TimelineNext ==
  \/ \E q \in Subscribers : BeginFollow(q) \/ TimelineStep(q)
  \/ \E s \in TimelineSpaces :
       OtherConnects(s) \/ RefreshDropsLink(s) \/ PlaceChanges(s)
  \/ \E a \in TimelineAgents : RouteWithdrawn(a)

TimelineSpec == TimelineInit /\ [][TimelineNext]_timelineVars

-----------------------------------------------------------------------------
TimelineTypeOK ==
  /\ place \in [TimelineSpaces -> Place]
  /\ routed \subseteq TimelineAgents
  /\ link \in [TimelineSpaces -> Link]
  /\ follow \in [Subscribers -> FollowRecord]
  /\ disturbed \subseteq Subscribers
  /\ timelineChanges \in 0 .. MaxTimelineChanges

\* What is acknowledged is what the backends send: the sets of all connections
\* to workspaces that ran are exactly the acknowledged agents, also those of
\* workspaces the request no longer names, unless another request overlapped
\* or a connection was dropped meanwhile.
AcknowledgedIsFollowed ==
  [][\A q \in Subscribers \ disturbed : EndFollow(q) /\ Acknowledges(q) =>
       \A s \in TimelineSpaces :
         /\ link[s] # NoLink /\ Runs(follow[q].view[s]) =>
              link[s].members = MembersAt(q, s)
         /\ MembersAt(q, s) # {} => link[s] # NoLink]_timelineVars
=============================================================================
