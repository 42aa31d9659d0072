------------------------- MODULE ProviderInterests -------------------------
(***************************************************************************)
(* Provider requests for workspaces that are not up yet, in                *)
(* src/gateway/session.ts: readyForProviderSnapshot(), the provider part   *)
(* of refreshDirectory(), and publishPendingProviderCatalog().  A request  *)
(* waits a while for its workspace, shares that wait with the others for   *)
(* the same workspace, and leaves an interest; when the workspace is up    *)
(* the refresh publishes its catalog until it is complete.                 *)
(*                                                                         *)
(* The interests of a name are numbered, as objects are told apart.  What  *)
(* an interest is bound to (the UIDs, the project's spec, the credential   *)
(* profile) is one number, the scope.                                      *)
(***************************************************************************)
EXTENDS Integers, FiniteSets

CONSTANTS
  Names,          \* workspace names
  Queries,        \* requests
  MaxPending,     \* the limit of waits and of interests (4)
  MaxInterest,    \* bound: interests of a name
  MaxNameScope    \* bound: scopes of a name

ASSUME InterestAssumption ==
  /\ IsFiniteSet(Names) /\ MaxPending \in Nat \ {0}
  /\ MaxInterest \in Nat /\ MaxNameScope \in Nat \ {0}

VARIABLES
  target,      \* the workspaces: scope and phase
  waits,       \* providerReadinessWaits: the scope waited for; 0: no wait
  interest,    \* providerInterests; serial 0: none
  serials,     \* interests there have been of a name
  publisher,   \* the runs of publishPendingProviderCatalog()
  updates,     \* the updates sent for an interest: "none", "loading", "complete"
  queries,     \* the requests
  over         \* closed

interestVars == <<target, waits, interest, serials, publisher, updates, queries,
                  over>>

Serials == 1..MaxInterest
Target == [scope : 1..MaxNameScope, phase : {"pending", "ready", "failed"}]
Interest == [serial : 0..MaxInterest, scope : 0..MaxNameScope, old : BOOLEAN,
             publishing : BOOLEAN]
NoInterest == [serial |-> 0, scope |-> 0, old |-> FALSE, publishing |-> FALSE]
Publisher == [step : {"none", "request", "publish"}, scope : 0..MaxNameScope,
              reply : {"none", "loading", "complete"}]
NoPublisher == [step |-> "none", scope |-> 0, reply |-> "none"]

InterestInit ==
  /\ target = [n \in Names |-> [scope |-> 1, phase |-> "pending"]]
  /\ waits = [n \in Names |-> 0]
  /\ interest = [n \in Names |-> NoInterest]
  /\ serials = [n \in Names |-> 0]
  /\ publisher = [n \in Names |-> [i \in Serials |-> NoPublisher]]
  /\ updates = [n \in Names |-> [i \in Serials |-> "none"]]
  /\ queries = [q \in Queries |-> "none"]
  /\ over = FALSE

-----------------------------------------------------------------------------
(* The workspaces.                                                          *)

PhaseChanges(n) ==
  /\ \E phase \in {"pending", "ready", "failed"} \ {target[n].phase} :
       target' = [target EXCEPT ![n].phase = phase]
  /\ UNCHANGED <<waits, interest, serials, publisher, updates, queries, over>>

\* The workspace is replaced, or its project or profile changes.
TargetChanges(n) ==
  /\ target[n].scope < MaxNameScope
  /\ target' = [target EXCEPT ![n].scope = @ + 1]
  /\ UNCHANGED <<waits, interest, serials, publisher, updates, queries, over>>

-----------------------------------------------------------------------------
(* readyForProviderSnapshot().                                              *)

Waits == {n \in Names : waits[n] # 0}
Interests == {n \in Names : interest[n].serial # 0}
FreshScope(n) == interest[n].serial # 0 /\ ~interest[n].old

\* A ready workspace is asked at once.
AskReady(q, n) ==
  /\ queries[q] = "none" /\ target[n].phase = "ready" /\ ~over
  /\ queries' = [queries EXCEPT ![q] = "forwarded"]
  /\ UNCHANGED <<target, waits, interest, serials, publisher, updates, over>>

\* The request joins the wait of its workspace, or starts one, with an
\* interest unless there is one; an old interest goes first.  A request that
\* finds an interest of another scope, or no room, is refused.
AskPending(q, n) ==
  /\ queries[q] = "none" /\ target[n].phase # "ready" /\ ~over
  /\ LET kept == IF FreshScope(n) THEN interest
                 ELSE [interest EXCEPT ![n] = NoInterest]
         strange == FreshScope(n) /\ interest[n].scope # target[n].scope
         room == /\ Cardinality(Waits) < MaxPending
                 /\ FreshScope(n) \/ Cardinality({m \in Interests : m # n}) < MaxPending
     IN \/ /\ ~strange /\ n \in Waits
           /\ queries' = [queries EXCEPT ![q] = n]
           /\ interest' = kept /\ UNCHANGED <<waits, serials>>
        \/ /\ strange \/ (n \notin Waits /\ ~room)
           /\ queries' = [queries EXCEPT ![q] = "refused"]
           /\ interest' = kept /\ UNCHANGED <<waits, serials>>
        \/ /\ ~strange /\ n \notin Waits /\ room
           /\ queries' = [queries EXCEPT ![q] = n]
           /\ waits' = [waits EXCEPT ![n] = target[n].scope]
           /\ IF FreshScope(n) THEN UNCHANGED <<interest, serials>>
              ELSE /\ serials[n] < MaxInterest
                   /\ serials' = [serials EXCEPT ![n] = @ + 1]
                   /\ interest' = [interest EXCEPT ![n] =
                        [NoInterest EXCEPT !.serial = serials'[n],
                                           !.scope = target[n].scope]]
  /\ UNCHANGED <<target, publisher, updates, over>>

\* One poll of the records ends the wait for all its requests: the workspace
\* is ready, or has failed or changed, or time is up, or the session closed.
WaitEnds(n) ==
  /\ n \in Waits
  /\ \E end \in {"forwarded", "refused"} :
       /\ end = "forwarded" =>
            /\ target[n] = [scope |-> waits[n], phase |-> "ready"] /\ ~over
       /\ queries' = [q \in Queries |-> IF queries[q] = n THEN end ELSE queries[q]]
  /\ waits' = [waits EXCEPT ![n] = 0]
  /\ UNCHANGED <<target, interest, serials, publisher, updates, over>>

-----------------------------------------------------------------------------
(* refreshDirectory() and publishPendingProviderCatalog().                  *)

\* 5 minutes pass.
InterestAges(n) ==
  /\ FreshScope(n)
  /\ interest' = [interest EXCEPT ![n].old = TRUE]
  /\ UNCHANGED <<target, waits, serials, publisher, updates, queries, over>>

BoundInterest(n) == target[n].scope = interest[n].scope

\* An interest that is old, or whose workspace failed or changed, is dropped.
RefreshDrops(n) ==
  /\ n \in Interests /\ ~over
  /\ interest[n].old \/ ~BoundInterest(n) \/ target[n].phase = "failed"
  /\ interest' = [interest EXCEPT ![n] = NoInterest]
  /\ UNCHANGED <<target, waits, serials, publisher, updates, queries, over>>

\* A ready workspace is asked for its catalog, one run per interest.
RefreshPublishes(n) ==
  /\ FreshScope(n) /\ BoundInterest(n) /\ ~over
  /\ target[n].phase = "ready" /\ ~interest[n].publishing
  /\ interest' = [interest EXCEPT ![n].publishing = TRUE]
  /\ publisher' = [publisher EXCEPT ![n][interest[n].serial] =
                     [step |-> "request", scope |-> target[n].scope, reply |-> "none"]]
  /\ UNCHANGED <<target, waits, serials, updates, queries, over>>

\* The daemon's catalog is complete, or some entries are loading.
CatalogReplies(n, i) ==
  /\ publisher[n][i].step = "request"
  /\ \E reply \in {"loading", "complete"} :
       publisher' = [publisher EXCEPT ![n][i].step = "publish", ![n][i].reply = reply]
  /\ UNCHANGED <<target, waits, interest, serials, updates, queries, over>>

\* finally: the interest, if it is still this one, may be published again.
PublisherEnds(n, i) == publisher' = [publisher EXCEPT ![n][i] = NoPublisher]
Unpublishing(n, i) ==
  IF interest[n].serial = i THEN [interest EXCEPT ![n].publishing = FALSE] ELSE interest

\* The connection or the request fails.
CatalogFails(n, i) ==
  /\ publisher[n][i].step = "request"
  /\ PublisherEnds(n, i)
  /\ interest' = Unpublishing(n, i)
  /\ UNCHANGED <<target, waits, serials, updates, queries, over>>

\* Mutant of MayPublish: the records are not compared with the interest again.
MayPublishUnbound(n, i) ==
  interest[n].serial = i /\ ~over /\ target[n].phase = "ready"

\* What the records show after the reply: the interest is still this one, and
\* its workspace is bound to it and ready.
MayPublish(n, i) ==
  /\ interest[n].serial = i /\ ~over
  /\ BoundInterest(n) /\ target[n].phase = "ready"

\* The update is sent; a complete catalog ends the interest, and so does its
\* age.
PublishCatalog(n, i) ==
  /\ publisher[n][i].step = "publish"
  /\ PublisherEnds(n, i)
  /\ IF interest[n].serial = i /\ interest[n].old
     THEN interest' = [interest EXCEPT ![n] = NoInterest] /\ UNCHANGED updates
     ELSE IF ~MayPublish(n, i) THEN interest' = Unpublishing(n, i) /\ UNCHANGED updates
     ELSE /\ updates' = [updates EXCEPT ![n][i] = publisher[n][i].reply]
          /\ interest' = IF publisher[n][i].reply = "complete"
                         THEN [interest EXCEPT ![n] = NoInterest]
                         ELSE Unpublishing(n, i)
  /\ UNCHANGED <<target, waits, serials, queries, over>>

CloseInterests ==
  /\ ~over /\ over' = TRUE
  /\ interest' = [n \in Names |-> NoInterest]
  /\ UNCHANGED <<target, waits, serials, publisher, updates, queries>>

PublisherStep(n, i) == CatalogReplies(n, i) \/ CatalogFails(n, i) \/ PublishCatalog(n, i)

InterestNext ==
  \/ \E n \in Names : \/ PhaseChanges(n) \/ TargetChanges(n) \/ WaitEnds(n)
                      \/ InterestAges(n) \/ RefreshDrops(n) \/ RefreshPublishes(n)
                      \/ \E q \in Queries : AskReady(q, n) \/ AskPending(q, n)
                      \/ \E i \in Serials : PublisherStep(n, i)
  \/ CloseInterests

\* Waits and requests to daemons have deadlines; the refresh runs every few
\* seconds and time passes.
InterestFairness ==
  \A n \in Names :
    /\ WF_interestVars(WaitEnds(n)) /\ WF_interestVars(InterestAges(n))
    /\ WF_interestVars(RefreshDrops(n))
    /\ \A i \in Serials : WF_interestVars(PublisherStep(n, i))

InterestSpec == InterestInit /\ [][InterestNext]_interestVars /\ InterestFairness

-----------------------------------------------------------------------------
(* Properties.                                                              *)

\* The type of the interests' state, and the limits of both maps.
InterestTypeOK ==
  /\ target \in [Names -> Target] /\ waits \in [Names -> 0..MaxNameScope]
  /\ interest \in [Names -> Interest] /\ serials \in [Names -> 0..MaxInterest]
  /\ \A n \in Names : interest[n].serial <= serials[n]
  /\ publisher \in [Names -> [Serials -> Publisher]]
  /\ updates \in [Names -> [Serials -> {"none", "loading", "complete"}]]
  /\ queries \in [Queries -> Names \cup {"none", "forwarded", "refused"}]
  /\ over \in BOOLEAN
  /\ Cardinality(Waits) <= MaxPending /\ Cardinality(Interests) <= MaxPending

\* An interest is published by one run at a time, also when a run outlives the
\* interest it was started for and another of the same name takes its place.
PublishersMatchInterests ==
  \A n \in Names : \A i \in Serials :
    publisher[n][i].step # "none" /\ interest[n].serial = i => interest[n].publishing

\* An update is sent only for the interest in place, for the scope it is bound
\* to and the scope the daemon was asked in, and none follows a complete one.
UpdatesFitInterest ==
  [][\A n \in Names : \A i \in Serials : updates'[n][i] # updates[n][i] =>
       /\ updates[n][i] # "complete"
       /\ interest[n].serial = i /\ ~interest[n].old
       /\ publisher[n][i].scope = target[n].scope]_interestVars

\* No request waits for ever, and no interest outlives its 5 minutes.
InterestsEnd ==
  \A n \in Names : /\ n \in Waits ~> n \notin Waits
                   /\ n \in Interests ~> n \notin Interests

\* One publisher per interest, and updates of the interest in place only.
InterestsServed == []PublishersMatchInterests /\ UpdatesFitInterest
=============================================================================
