-------------------------- MODULE ScopedDiscovery --------------------------
(***************************************************************************)
(* What a session answers about a project before there is a workspace: the *)
(* provider catalog, the checkout status and the refs of a project, in     *)
(* src/gateway/session.ts.  Each answer is computed by a shared service    *)
(* over many awaits; the session fences it by reading the project and its  *)
(* configuration again, and checkout and ref requests have a deadline that *)
(* answers for them.                                                       *)
(*                                                                         *)
(* One project, seen by one principal.  Its UID, its spec and the content  *)
(* of its credentials are numbered; together they are the fingerprint.     *)
(***************************************************************************)
EXTENDS Integers, Sequences

CONSTANTS
  Asks,           \* requests
  MaxScope        \* bound: changes of the project

ASSUME DiscoveryAssumption == MaxScope \in Nat

VARIABLES
  scope,       \* the project: uid, spec, secret, granted
  ask,         \* the requests
  watchedUid,     \* the project UID of providerWatches; 0: no watch
  listening,   \* the UIDs the catalog holds a listener of this session for
  gone         \* closed

discoveryVars == <<scope, ask, watchedUid, listening, gone>>

\* "deadline" stands for checkout_status_request and the two ref requests,
\* "update" for the watcher's own runs.
AskKinds == {"providers", "update", "deadline"}
AskSteps == {"none", "records", "identity", "work", "access", "again", "final",
             "done"}
NoScope == [uid |-> 0, spec |-> 0, secret |-> 0]
Fingerprint(s) == [uid |-> s.uid, spec |-> s.spec, secret |-> s.secret]
\* print: originalFingerprint; data: the configuration the answer is about;
\* current: the project read after it; late: the deadline is over.
NewAsk == [step |-> "none", kind |-> "providers", print |-> NoScope,
           data |-> NoScope, current |-> NoScope, late |-> FALSE, replies |-> <<>>]

DiscoveryInit ==
  /\ scope = [uid |-> 1, spec |-> 1, secret |-> 1, granted |-> TRUE]
  /\ ask = [q \in Asks |-> NewAsk]
  /\ watchedUid = 0 /\ listening = {}
  /\ gone = FALSE

-----------------------------------------------------------------------------
(* The project.                                                             *)

Changes == scope.uid + scope.spec + scope.secret - 3

\* The project is replaced, edited, its credentials are renewed, or the
\* principal loses or regains it.
ScopeChanges ==
  /\ Changes < MaxScope
  /\ \/ scope' = [scope EXCEPT !.uid = @ + 1]
     \/ scope' = [scope EXCEPT !.spec = @ + 1]
     \/ scope' = [scope EXCEPT !.secret = @ + 1]
  /\ UNCHANGED <<ask, watchedUid, listening, gone>>

GrantChanges ==
  /\ scope' = [scope EXCEPT !.granted = ~@]
  /\ UNCHANGED <<ask, watchedUid, listening, gone>>

-----------------------------------------------------------------------------
(* handle() and the scoped reads.                                           *)

AskGoes(q, step) == [ask EXCEPT ![q].step = step]

\* The error of a request that its timer has answered already goes nowhere,
\* and so does an update's; a closed session reports none.
AskEnds(q, replies) ==
  [ask EXCEPT ![q] = [NewAsk EXCEPT !.step = "done", !.kind = ask[q].kind,
                                    !.replies = replies]]
Fails(q) ==
  AskEnds(q, IF ask[q].replies # <<>> \/ gone \/ ask[q].kind = "update"
             THEN ask[q].replies ELSE <<"error">>)

\* A request arrives, or the catalog tells a listener it holds of a change.
Ask(q, kind) ==
  /\ ask[q].step = "none" /\ ~gone
  /\ \E uid \in IF kind = "update" THEN listening ELSE {0} :
       ask' = [AskGoes(q, "records") EXCEPT ![q].kind = kind,
                                            ![q].current.uid = uid]
  /\ UNCHANGED <<scope, watchedUid, listening, gone>>

\* records(): a project that is not there for the principal is refused.  A
\* provider request starts the watch of the project, or replaces the watch of
\* the project that had its name before; an update needs its own.
ReadRecords(q) ==
  /\ ask[q].step = "records"
  /\ IF ~scope.granted \/ (ask[q].kind = "update" /\ ask[q].current.uid # scope.uid)
     THEN ask' = Fails(q) /\ UNCHANGED <<watchedUid, listening>>
     ELSE /\ ask' = [AskGoes(q, "identity")
                       EXCEPT ![q].current = Fingerprint(scope)]
          /\ IF ask[q].kind = "providers" /\ watchedUid # scope.uid
             THEN /\ watchedUid' = scope.uid
                  /\ listening' = (listening \ {watchedUid}) \cup {scope.uid}
             ELSE UNCHANGED <<watchedUid, listening>>
  /\ UNCHANGED <<scope, gone>>

\* identity() takes the project as the request read it, and reads the
\* credentials; it fails while they are not projected.
Identity(q) == [ask[q].current EXCEPT !.secret = scope.secret]

ReadIdentity(q) ==
  /\ ask[q].step = "identity"
  /\ \/ ask' = [AskGoes(q, "work") EXCEPT ![q].print = Identity(q)]
     \/ ask' = Fails(q)
  /\ UNCHANGED <<scope, watchedUid, listening, gone>>

\* The catalog or the inspector answers for the configuration it reads.
ScopedWork(q) ==
  /\ ask[q].step = "work"
  /\ \/ ask' = [AskGoes(q, "access") EXCEPT ![q].data = Identity(q)]
     \/ ask' = Fails(q)
  /\ UNCHANGED <<scope, watchedUid, listening, gone>>

ReadAccess(q) ==
  /\ ask[q].step = "access"
  /\ ask' = IF scope.granted /\ scope.uid = ask[q].print.uid
            THEN [AskGoes(q, "again") EXCEPT ![q].current = Fingerprint(scope)]
            ELSE Fails(q)
  /\ UNCHANGED <<scope, watchedUid, listening, gone>>

ReadIdentityAgain(q) ==
  /\ ask[q].step = "again"
  /\ ask' = IF Identity(q) = ask[q].print THEN AskGoes(q, "final") ELSE Fails(q)
  /\ UNCHANGED <<scope, watchedUid, listening, gone>>

\* Mutant of SameProject: the last read only asks for access.
StillGranted(q) == scope.granted

SameProject(q) ==
  /\ scope.granted
  /\ scope.uid = ask[q].current.uid /\ scope.spec = ask[q].current.spec

\* The last read of the records, and the answer: not after the deadline, and
\* an update not after the close.
AnswerAsk(q) ==
  /\ ask[q].step = "final"
  /\ ask' = IF ~SameProject(q) \/ (ask[q].kind = "deadline" /\ ask[q].late)
            THEN Fails(q)
            ELSE AskEnds(q, IF gone THEN ask[q].replies
                            ELSE Append(ask[q].replies, "ok"))
  /\ UNCHANGED <<scope, watchedUid, listening, gone>>

\* The deadline of a checkout or ref request passes, and its timer answers;
\* the work goes on.
DeadlinePasses(q) ==
  /\ ask[q].kind = "deadline" /\ ask[q].step \notin {"none", "done"}
  /\ ~ask[q].late
  /\ ask' = [ask EXCEPT ![q].late = TRUE]
  /\ UNCHANGED <<scope, watchedUid, listening, gone>>

TimerAnswers(q) ==
  /\ ask[q].late /\ ask[q].step # "done" /\ ask[q].replies = <<>> /\ ~gone
  /\ ask' = [ask EXCEPT ![q].replies = <<"error">>]
  /\ UNCHANGED <<scope, watchedUid, listening, gone>>

\* close() releases the watches there are.
CloseDiscovery ==
  /\ ~gone /\ gone' = TRUE
  /\ watchedUid' = 0 /\ listening' = listening \ {watchedUid}
  /\ UNCHANGED <<scope, ask>>

AskStep(q) ==
  \/ ReadRecords(q) \/ ReadIdentity(q) \/ ScopedWork(q) \/ ReadAccess(q)
  \/ ReadIdentityAgain(q) \/ AnswerAsk(q)

DiscoveryNext ==
  \/ ScopeChanges \/ GrantChanges \/ CloseDiscovery
  \/ \E q \in Asks : \/ AskStep(q) \/ DeadlinePasses(q) \/ TimerAnswers(q)
                     \/ \E kind \in AskKinds : Ask(q, kind)

\* The store and the services answer, and timers fire.
DiscoveryFairness ==
  \A q \in Asks : WF_discoveryVars(AskStep(q)) /\ WF_discoveryVars(TimerAnswers(q))

DiscoverySpec == DiscoveryInit /\ [][DiscoveryNext]_discoveryVars /\ DiscoveryFairness

-----------------------------------------------------------------------------
(* Properties.                                                              *)

\* The type of the discovery's state.
DiscoveryTypeOK ==
  /\ \A q \in Asks : ask[q].step \in AskSteps /\ ask[q].kind \in AskKinds
  /\ watchedUid \in 0..(MaxScope + 1)
  /\ listening \subseteq 1..(MaxScope + 1)

\* "A timed-out checkout RPC is not allowed to emit a late success": a request
\* is answered once, by its work or by its timer.
AnsweredOnce == \A q \in Asks : Len(ask[q].replies) <= 1

\* What is answered was computed for the project's present UID and spec and
\* for the credentials of the first read, and the principal still has access:
\* every read of the answer's inputs is fenced by the reads after it.
AnswerFitsProject ==
  [][\A q \in Asks : ask'[q].replies # ask[q].replies /\ ask'[q].replies[1] = "ok" =>
       /\ scope.granted
       /\ ask[q].data = ask[q].print
       /\ ask[q].data.uid = scope.uid /\ ask[q].data.spec = scope.spec]_discoveryVars

\* Every request is answered while the session is open.
AsksAnswered ==
  \A q \in Asks : ask[q].step = "records" ~>
    gone \/ ask[q].replies # <<>> \/ (ask[q].kind = "update" /\ ask[q].step = "done")

\* One answer per request, and one that fits the project it is given for.
AsksAnsweredRightly == []AnsweredOnce /\ AnswerFitsProject
=============================================================================
