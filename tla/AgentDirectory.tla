-------------------------- MODULE AgentDirectory ---------------------------
(***************************************************************************)
(* The listing of agents over all workspaces: fetch_agents_request of      *)
(* src/gateway/session.ts with the retained inventory of                   *)
(* src/gateway/agent-inventory.ts.  A listing asks the daemon of every     *)
(* ready workspace and reads the retained inventory of the others; what    *)
(* it cannot learn makes the answer a merge instead of a snapshot, with    *)
(* the removals the session knows of.                                      *)
(*                                                                         *)
(* The requests are the broad ones (scope active, no filter).  The client  *)
(* keeps the directory it was told of: a snapshot replaces it, a merge     *)
(* takes the removals out and puts the entries in.  One session is         *)
(* modelled: a new one starts with an empty directory again.               *)
(***************************************************************************)
EXTENDS Integers, FiniteSets

CONSTANTS
  Spaces,         \* workspaces
  Agents,         \* agents
  HomeOf,         \* [Agents -> Spaces]
  Fetches,        \* places for requests under way
  MaxMoves,       \* bound: changes of residency and phase, releases not counted
  MaxDirFaults    \* bound: failed backend calls

ASSUME DirectoryAssumption ==
  /\ HomeOf \in [Agents -> Spaces]
  /\ MaxMoves \in Nat /\ MaxDirFaults \in Nat

VARIABLES
  space,        \* residency and phase of the workspaces
  living,       \* the agents that exist
  unborn,       \* the agents yet to be created
  inventory,    \* the agent-inventory records: known, and what they hold
  fetch,        \* the requests
  lastActive,   \* lastActiveAgentIds
  shown,        \* the directory of the client
  moves,        \* changes of residency and phase so far
  dirFaults     \* failed calls so far

directoryVars == <<space, living, unborn, inventory, fetch, lastActive, shown,
                   moves, dirFaults>>

\* unready: Running and not Ready; released: archived, storageDeletedAt set.
Lives == {"ready", "unready", "suspended", "archived", "released"}
AgentsOf(s) == {a \in Agents : HomeOf[a] = s}
NoInventory == [known |-> FALSE, agents |-> {}]

\* todo: workspaces yet to be asked; unknown: unavailableUids.
NoFetch == [step |-> "idle", seen |-> [s \in Spaces |-> "ready"], todo |-> {},
            entries |-> {}, unknown |-> {}, removals |-> {}, next |-> {}]

DirectoryInit ==
  /\ space = [s \in Spaces |-> "ready"]
  /\ living = {} /\ unborn = Agents
  /\ inventory = [s \in Spaces |-> NoInventory]
  /\ fetch = [f \in Fetches |-> NoFetch]
  /\ lastActive = {} /\ shown = {}
  /\ moves = 0 /\ dirFaults = 0

-----------------------------------------------------------------------------
(* The workspaces and their agents.                                         *)

AgentCreated(a) ==
  /\ a \in unborn /\ space[HomeOf[a]] = "ready"
  /\ unborn' = unborn \ {a} /\ living' = living \cup {a}
  /\ UNCHANGED <<space, inventory, fetch, lastActive, shown, moves,
                 dirFaults>>

AgentDeleted(a) ==
  /\ a \in living /\ space[HomeOf[a]] = "ready"
  /\ living' = living \ {a}
  /\ UNCHANGED <<space, unborn, inventory, fetch, lastActive, shown, moves,
                 dirFaults>>

SpaceBecomes(s, life) ==
  /\ moves < MaxMoves /\ moves' = moves + 1
  /\ space' = [space EXCEPT ![s] = life]

\* The daemon is lost or comes back; a suspended workspace is resumed.
SpaceMoves(s) ==
  /\ \/ space[s] \in {"ready", "suspended"} /\ SpaceBecomes(s, "unready")
     \/ space[s] = "unready" /\ SpaceBecomes(s, "ready")
  /\ UNCHANGED <<living, unborn, inventory, fetch, lastActive, shown, dirFaults>>

\* archiveAgentInventory(): a ready workspace is captured before it stops.
Captured(s) == [known |-> TRUE, agents |-> living \cap AgentsOf(s)]

StopSpace(s, life) ==
  /\ space[s] \in {"ready", "unready"}
  /\ SpaceBecomes(s, life)
  /\ inventory' = IF space[s] = "ready"
                  THEN [inventory EXCEPT ![s] = Captured(s)] ELSE inventory
  /\ UNCHANGED <<living, unborn, fetch, lastActive, shown, dirFaults>>

\* The storage goes with its record.
ReleaseSpace(s) ==
  /\ space[s] = "archived"
  /\ space' = [space EXCEPT ![s] = "released"]
  /\ inventory' = [inventory EXCEPT ![s] = NoInventory]
  /\ living' = living \ AgentsOf(s)
  /\ UNCHANGED <<unborn, fetch, lastActive, shown, moves, dirFaults>>

-----------------------------------------------------------------------------
(* fetch_agents_request.                                                    *)

Listed(life) == life \notin {"archived", "released"}

StartFetch(f) ==
  /\ fetch[f].step = "idle"
  /\ fetch' = [fetch EXCEPT ![f] =
                 [NoFetch EXCEPT !.step = "list", !.seen = space,
                                 !.todo = {s \in Spaces : Listed(space[s])}]]
  /\ UNCHANGED <<space, living, unborn, inventory, lastActive, shown, moves,
                 dirFaults>>

Learned(f, s, agents) ==
  [fetch EXCEPT ![f].todo = @ \ {s}, ![f].entries = @ \cup agents]

\* All pages of a ready workspace's daemon.
ListDaemon(f, s) ==
  /\ fetch[f].step = "list" /\ s \in fetch[f].todo
  /\ fetch[f].seen[s] = "ready" /\ space[s] = "ready"
  /\ fetch' = Learned(f, s, living \cap AgentsOf(s))
  /\ UNCHANGED <<space, living, unborn, inventory, lastActive, shown, moves,
                 dirFaults>>

\* readArchivedInventory(): of a workspace that is not ready, or whose daemon
\* failed the request; without a record its agents are unknown.
ListInventory(f, s) ==
  /\ fetch[f].step = "list" /\ s \in fetch[f].todo
  /\ \/ /\ <<fetch[f].seen[s], space[s]>> # <<"ready", "ready">>
        /\ UNCHANGED dirFaults
     \/ /\ <<fetch[f].seen[s], space[s]>> = <<"ready", "ready">>
        /\ dirFaults < MaxDirFaults /\ dirFaults' = dirFaults + 1
  /\ fetch' = IF inventory[s].known THEN Learned(f, s, inventory[s].agents)
              ELSE [fetch EXCEPT ![f].todo = @ \ {s}, ![f].unknown = @ \cup {s}]
  /\ UNCHANGED <<space, living, unborn, inventory, lastActive, shown, moves>>

\* The retained agents of archived workspaces, when something is unknown.
Tombstones(f) ==
  UNION {inventory[s].agents : s \in {t \in Spaces : fetch[f].seen[t] = "archived"}}
\* What the client was told of and a known source no longer has.
Vanished(f) ==
  {a \in lastActive \ fetch[f].entries : HomeOf[a] \notin fetch[f].unknown}
\* Mutant of NextActive: only the entries of this answer are remembered.
NextEntries(f) == fetch[f].entries

NextActive(f) ==
  {a \in lastActive : HomeOf[a] \in fetch[f].unknown} \cup fetch[f].entries

\* An answer with neither rows nor removals would say nothing: an error.
ConcludeFetch(f) ==
  /\ fetch[f].step = "list" /\ fetch[f].todo = {}
  /\ LET whole == fetch[f].unknown = {}
         removals == IF whole THEN {} ELSE Tombstones(f) \cup Vanished(f)
     IN fetch' =
          IF ~whole /\ fetch[f].entries = {} /\ removals = {}
          THEN [fetch EXCEPT ![f] = NoFetch]
          ELSE [fetch EXCEPT ![f].step = "fence", ![f].removals = removals,
                             ![f].next = IF whole THEN fetch[f].entries
                                          ELSE NextActive(f)]
  /\ UNCHANGED <<space, living, unborn, inventory, lastActive, shown, moves,
                 dirFaults>>

\* The workspaces the answer is about.
Inspected(f) ==
  {s \in Spaces : \/ Listed(fetch[f].seen[s])
                  \/ fetch[f].unknown # {} /\ fetch[f].seen[s] = "archived"}

\* The records are read once more; the answer is sent if none of those
\* workspaces changed.
AnswerFetch(f) ==
  /\ fetch[f].step = "fence"
  /\ fetch' = [fetch EXCEPT ![f] = NoFetch]
  /\ IF \A s \in Inspected(f) : space[s] = fetch[f].seen[s]
     THEN /\ lastActive' = fetch[f].next
          /\ shown' = IF fetch[f].unknown = {} THEN fetch[f].entries
                      ELSE (shown \ fetch[f].removals) \cup fetch[f].entries
     ELSE UNCHANGED <<lastActive, shown>>
  /\ UNCHANGED <<space, living, unborn, inventory, moves, dirFaults>>

DirectoryNext ==
  \/ \E a \in Agents : AgentCreated(a) \/ AgentDeleted(a)
  \/ \E s \in Spaces : \/ SpaceMoves(s) \/ ReleaseSpace(s)
                       \/ StopSpace(s, "suspended") \/ StopSpace(s, "archived")
  \/ \E f \in Fetches : \/ StartFetch(f) \/ ConcludeFetch(f) \/ AnswerFetch(f)
                        \/ \E s \in Spaces : ListDaemon(f, s) \/ ListInventory(f, s)

DirectorySpec == DirectoryInit /\ [][DirectoryNext]_directoryVars

-----------------------------------------------------------------------------
(* Properties.                                                              *)

\* The first two action properties are about a client that waits for one
\* listing before it asks for the next: a listing that overlaps another
\* computes its removals from the lastActiveAgentIds it overwrites.

\* The type of the directory's state.
DirectoryTypeOK ==
  /\ space \in [Spaces -> Lives]
  /\ living \subseteq Agents \ unborn /\ unborn \subseteq Agents
  /\ \A s \in Spaces : inventory[s].agents \subseteq AgentsOf(s)
  /\ \A f \in Fetches : /\ fetch[f].step \in {"idle", "list", "fence"}
                        /\ fetch[f].todo \cup fetch[f].unknown \subseteq Spaces
  /\ lastActive \subseteq Agents /\ shown \subseteq Agents
  /\ moves \in 0..MaxMoves /\ dirFaults \in 0..MaxDirFaults

Answers(f) == fetch[f].step = "fence" /\ fetch'[f].step = "idle" /\ shown' # shown

\* An answer takes no agent of an unknown workspace out of the client's
\* directory, whether it is a snapshot or a merge: "A partial response must
\* never assert that an unknown source is empty" (session.ts).
UnknownSourcesKept ==
  [][\A f \in Fetches : Answers(f) =>
       {a \in shown \ shown' : HomeOf[a] \in fetch[f].unknown} = {}]_directoryVars

\* A deletion the session has seen reaches the client although another
\* workspace is unknown: after an answer the client shows, of every workspace
\* whose agents were learned, only the agents that were learned
\* (lastActiveAgentIds remembers what earlier answers have shown).
NoGhosts ==
  [][\A f \in Fetches : Answers(f) =>
       {a \in shown' : HomeOf[a] \notin fetch[f].unknown} = fetch[f].entries]_directoryVars

\* A listing takes nothing away that it does not know to be gone, and keeps
\* nothing that it knows to be.
ListingsHonest == UnknownSourcesKept /\ NoGhosts
=============================================================================
