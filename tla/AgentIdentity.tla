---------------------------- MODULE AgentIdentity ----------------------------
(***************************************************************************)
(* The registry of native agent GUIDs, AgentIdentityRegistry of            *)
(* src/gateway/agent-identity.ts, and the way AgentRouting of              *)
(* src/gateway/agent-routing.ts uses it, in several gateway processes over *)
(* one store of records.                                                   *)
(*                                                                         *)
(* A lookup is one call: a projection of an outgoing message (claim the    *)
(* GUID, then verify it), a reservation for a new agent, or the routing of *)
(* an incoming message (looked up, and looked up again before it is sent). *)
(* A lookup that joins the pending claim of another shares its outcome.    *)
(***************************************************************************)
EXTENDS Naturals, FiniteSets, Sequences

CONSTANTS
  Registries,          \* gateway processes
  Guids,               \* native agent GUIDs
  AgentUids,           \* UIDs of the workspaces that report agents
  Lookups,             \* calls in progress
  MaxConcurrentClaims, \* MAX_CONCURRENT_CLAIMS
  MaxPendingClaims,    \* MAX_PENDING_CLAIMS
  MaxIdentityFaults    \* bound: calls to the API server that fail

ASSUME IdentityAssumption ==
  /\ MaxConcurrentClaims \in Nat \ {0} /\ MaxPendingClaims \in Nat \ {0}
  /\ MaxIdentityFaults \in Nat /\ IsFiniteSet(Lookups)

VARIABLES
  agentRoute,      \* the durable record of each GUID
  claims,          \* the cached claims of each process
  lookup,          \* the calls
  activeClaims,    \* permits taken in each process
  claimWaiters,    \* calls waiting for a permit
  served,          \* answers given: GUIDs shown to clients or routed
  identityFaults

idVars == <<agentRoute, claims, lookup, activeClaims, claimWaiters, served,
            identityFaults>>

Unknown == [state |-> "none"]
RouteRecord == {Unknown} \cup [state : {"active", "collision"}, uid : AgentUids]
LookupKinds == {"project", "reserve", "route"}
\* "pending" is a joined claim; the permit is held from "create" on.
LookupSteps == {"idle", "pending", "queued", "create", "read", "quarantine",
                "verify", "resolve", "send"}
LookupResting == [step |-> "idle"]
Lookup ==
  {LookupResting} \cup
  [step : LookupSteps, kind : LookupKinds, at : Registries, guid : Guids,
   uid : AgentUids, late : BOOLEAN]

IdentityInit ==
  /\ agentRoute = [g \in Guids |-> Unknown]
  /\ claims = [r \in Registries |-> {}]
  /\ lookup = [l \in Lookups |-> LookupResting]
  /\ activeClaims = [r \in Registries |-> 0]
  /\ claimWaiters = [r \in Registries |-> <<>>]
  /\ served = {} /\ identityFaults = 0

-----------------------------------------------------------------------------

Key(l) == <<lookup[l].guid, lookup[l].uid>>
\* The calls that own a claim of process r: the entries of its pending map.
PendingClaims(r) ==
  {l \in Lookups : /\ lookup[l].step \in {"queued", "create", "read", "quarantine"}
                   /\ lookup[l].kind = "project" /\ lookup[l].at = r}
PendingReservations(r) ==
  {l \in Lookups : /\ lookup[l].step \in {"queued", "create"}
                   /\ lookup[l].kind = "reserve" /\ lookup[l].at = r}
At(call, step) == IF step = "idle" THEN LookupResting ELSE [call EXCEPT !.step = step]
LookupGoes(l, step) == [lookup EXCEPT ![l] = At(@, step)]
Serve(l) == served' = served \cup {<<lookup[l].guid, lookup[l].uid, lookup[l].late>>}
Bound(l) == [state |-> "active", uid |-> lookup[l].uid]

\* withClaimPermit: a call takes a free permit or waits its turn.
TakePermit(l, call) ==
  LET r == call.at
  IN  IF activeClaims[r] >= MaxConcurrentClaims
      THEN /\ lookup' = [lookup EXCEPT ![l] = [call EXCEPT !.step = "queued"]]
           /\ claimWaiters' = [claimWaiters EXCEPT ![r] = Append(@, l)]
           /\ UNCHANGED activeClaims
      ELSE /\ lookup' = [lookup EXCEPT ![l] = [call EXCEPT !.step = "create"]]
           /\ activeClaims' = [activeClaims EXCEPT ![r] = @ + 1]
           /\ UNCHANGED claimWaiters

\* The claim of l ends; every call that joined it takes the same step, and the
\* permit goes to the next in line.
SettleLookup(l, step) ==
  LET r == lookup[l].at
      joined == {m \in Lookups : /\ lookup[m].step = "pending"
                                 /\ lookup[m].at = r /\ Key(m) = Key(l)}
      moved == [m \in Lookups |-> IF m \in joined \cup {l}
                  THEN At(lookup[m], step) ELSE lookup[m]]
  IN  IF claimWaiters[r] # <<>>
      THEN /\ lookup' = [moved EXCEPT ![Head(claimWaiters[r])].step = "create"]
           /\ claimWaiters' = [claimWaiters EXCEPT ![r] = Tail(@)]
           /\ UNCHANGED activeClaims
      ELSE /\ lookup' = moved
           /\ activeClaims' = [activeClaims EXCEPT ![r] = @ - 1]
           /\ UNCHANGED claimWaiters

Remember(l) == claims' = [claims EXCEPT ![lookup[l].at] = @ \cup {Key(l)}]

Call(l, kind, r, g, u) ==
  [step |-> "idle", kind |-> kind, at |-> r, guid |-> g, uid |-> u,
   late |-> agentRoute[g].state = "collision"]

\* claim(): a fresh cache entry, a claim already pending, or a claim of its own.
Project(l, r, g, u) ==
  LET call == Call(l, "project", r, g, u)
  IN  /\ lookup[l].step = "idle"
      /\ IF <<g, u>> \in claims[r]
         THEN /\ lookup' = [lookup EXCEPT ![l] = [call EXCEPT !.step = "verify"]]
              /\ UNCHANGED <<activeClaims, claimWaiters>>
         ELSE IF \E m \in PendingClaims(r) : Key(m) = <<g, u>>
         THEN /\ lookup' = [lookup EXCEPT ![l] = [call EXCEPT !.step = "pending"]]
              /\ UNCHANGED <<activeClaims, claimWaiters>>
         ELSE /\ Cardinality(PendingClaims(r)) < MaxPendingClaims
              /\ TakePermit(l, call)
      /\ UNCHANGED <<agentRoute, claims, served, identityFaults>>

\* reserveForCreate()
Reserve(l, r, g, u) ==
  /\ lookup[l].step = "idle"
  /\ Cardinality(PendingClaims(r) \cup PendingReservations(r)) < MaxPendingClaims
  /\ TakePermit(l, Call(l, "reserve", r, g, u))
  /\ UNCHANGED <<agentRoute, claims, served, identityFaults>>

\* createRecord(): the GUID is the caller's if nobody had it.
CreateRoute(l) ==
  LET free == agentRoute[lookup[l].guid] = Unknown
  IN  /\ lookup[l].step = "create"
      /\ \/ /\ free
            /\ agentRoute' = [agentRoute EXCEPT ![lookup[l].guid] = Bound(l)]
            /\ Remember(l)
            /\ SettleLookup(l, IF lookup[l].kind = "reserve" THEN "idle" ELSE "verify")
         \/ /\ ~free /\ lookup[l].kind = "reserve"
            /\ SettleLookup(l, "idle") /\ UNCHANGED <<agentRoute, claims>>
         \/ /\ ~free /\ lookup[l].kind = "project"
            /\ lookup' = LookupGoes(l, "read")
            /\ UNCHANGED <<agentRoute, claims, activeClaims, claimWaiters>>
      /\ UNCHANGED <<served, identityFaults>>

\* The call fails for another reason, before or after it took effect.
ClaimCreateFails(l) ==
  /\ lookup[l].step = "create" /\ identityFaults < MaxIdentityFaults
  /\ identityFaults' = identityFaults + 1
  /\ \/ UNCHANGED agentRoute
     \/ /\ agentRoute[lookup[l].guid] = Unknown
        /\ agentRoute' = [agentRoute EXCEPT ![lookup[l].guid] = Bound(l)]
  /\ SettleLookup(l, "idle")
  /\ UNCHANGED <<claims, served>>

\* claimDurable() after a conflict: the route is the caller's own, is
\* quarantined, or belongs to another workspace.
ReadRoute(l) ==
  LET route == agentRoute[lookup[l].guid]
  IN  /\ lookup[l].step = "read"
      /\ \/ /\ route = Bound(l) /\ Remember(l) /\ SettleLookup(l, "verify")
         \/ /\ route.state = "collision" /\ SettleLookup(l, "idle")
            /\ UNCHANGED claims
         \/ /\ route.state = "active" /\ route # Bound(l)
            /\ claims' = [claims EXCEPT ![lookup[l].at] =
                            @ \ {<<lookup[l].guid, route.uid>>}]
            /\ lookup' = LookupGoes(l, "quarantine")
            /\ UNCHANGED <<activeClaims, claimWaiters>>
      /\ UNCHANGED <<agentRoute, served, identityFaults>>

\* The compare-and-swap to a collision; after a conflict the route is read
\* again.  The swap tells the sessions of this process to reconnect.
Quarantine(l) ==
  LET g == lookup[l].guid
  IN  /\ lookup[l].step = "quarantine"
      /\ IF agentRoute[g].state = "active"
         THEN /\ agentRoute' = [agentRoute EXCEPT ![g].state = "collision"]
              /\ SettleLookup(l, "idle")
         ELSE /\ lookup' = LookupGoes(l, "read")
              /\ UNCHANGED <<agentRoute, activeClaims, claimWaiters>>
      /\ UNCHANGED <<claims, served, identityFaults>>

\* Mutant of Verify: the workspace of the route decides, whatever its state.
VerifyByUid(l) ==
  /\ lookup[l].step = "verify" /\ lookup' = LookupGoes(l, "idle")
  /\ LET route == agentRoute[lookup[l].guid]
     IN IF route # Unknown /\ route.uid = lookup[l].uid
        THEN Serve(l) ELSE UNCHANGED served
  /\ UNCHANGED <<agentRoute, claims, activeClaims, claimWaiters, identityFaults>>

\* verifiedClaim(): the claim may come from the cache, the durable route decides.
Verify(l) ==
  /\ lookup[l].step = "verify" /\ lookup' = LookupGoes(l, "idle")
  /\ IF agentRoute[lookup[l].guid] = Bound(l) THEN Serve(l) ELSE UNCHANGED served
  /\ UNCHANGED <<agentRoute, claims, activeClaims, claimWaiters, identityFaults>>

\* A client names a GUID: resolve() gives the workspace of its durable route.
Route(l, r, g) ==
  /\ lookup[l].step = "idle"
  /\ agentRoute[g].state = "active"
  /\ lookup' = [lookup EXCEPT ![l] =
       [Call(l, "route", r, g, agentRoute[g].uid) EXCEPT !.step = "resolve"]]
  /\ UNCHANGED <<agentRoute, claims, activeClaims, claimWaiters, served,
                 identityFaults>>

\* forward() resolves once more in that workspace before it sends.
RouteAgain(l) ==
  /\ lookup[l].step = "resolve"
  /\ lookup' = LookupGoes(l, IF agentRoute[lookup[l].guid] = Bound(l)
                       THEN "send" ELSE "idle")
  /\ UNCHANGED <<agentRoute, claims, activeClaims, claimWaiters, served,
                 identityFaults>>

SendRouted(l) ==
  /\ lookup[l].step = "send" /\ lookup' = LookupGoes(l, "idle") /\ Serve(l)
  /\ UNCHANGED <<agentRoute, claims, activeClaims, claimWaiters, identityFaults>>

\* A cached claim is older than CACHE_MS, or was pushed out of a full cache.
ClaimExpires(r) ==
  /\ \E key \in claims[r] : claims' = [claims EXCEPT ![r] = @ \ {key}]
  /\ UNCHANGED <<agentRoute, lookup, activeClaims, claimWaiters, served,
                 identityFaults>>

Start(l) ==
  \E r \in Registries, g \in Guids :
    \/ \E u \in AgentUids : Project(l, r, g, u) \/ Reserve(l, r, g, u)
    \/ Route(l, r, g)
Advance(l) ==
  \/ CreateRoute(l) \/ ReadRoute(l) \/ Quarantine(l) \/ Verify(l)
  \/ RouteAgain(l) \/ SendRouted(l)

IdentityNext ==
  \/ \E l \in Lookups : Start(l) \/ Advance(l) \/ ClaimCreateFails(l)
  \/ \E r \in Registries : ClaimExpires(r)

\* The calls of a process run to their end; nothing else is owed.
IdentityFairness ==
  \A l \in Lookups : WF_idVars(Advance(l))

IdentitySpec == IdentityInit /\ [][IdentityNext]_idVars /\ IdentityFairness

-----------------------------------------------------------------------------

IdentityTypeOK ==
  /\ agentRoute \in [Guids -> RouteRecord]
  /\ claims \in [Registries -> SUBSET (Guids \X AgentUids)]
  /\ lookup \in [Lookups -> Lookup]
  /\ activeClaims \in [Registries -> 0 .. MaxConcurrentClaims]
  /\ claimWaiters \in [Registries -> Seq(Lookups)]
  /\ served \subseteq Guids \X AgentUids \X BOOLEAN
  /\ identityFaults \in 0 .. MaxIdentityFaults

\* Whatever two workspaces report and whichever process they report it to, a
\* GUID is shown to clients, and routed, as the agent of one workspace only.
GuidNamesOneWorkspace == \A p, q \in served : p[1] = q[1] => p[2] = q[2]

\* A call that starts after the GUID was quarantined never succeeds: not from
\* the cache of a process that did not see the collision, and not by joining a
\* claim that was already on its way.
QuarantineHolds == \A p \in served : ~p[3]

\* A permit is held by every call between its turn and its end, no more than
\* the limit, and nobody waits while one is free.
PermitHolders(r) ==
  {l \in Lookups : /\ lookup[l].step \in {"create", "read", "quarantine"}
                   /\ lookup[l].at = r}
ClaimPermitsConserved ==
  \A r \in Registries :
    /\ activeClaims[r] = Cardinality(PermitHolders(r))
    /\ claimWaiters[r] # <<>> => activeClaims[r] = MaxConcurrentClaims

\* Every call ends, also the ones that joined a claim or wait for a permit.
LookupsEnd == \A l \in Lookups : lookup[l].step # "idle" ~> lookup[l].step = "idle"

\* One workspace per GUID, none after the quarantine, and no permit lost on
\* the way.
RoutesAgree == GuidNamesOneWorkspace /\ QuarantineHolds /\ ClaimPermitsConserved
=============================================================================
