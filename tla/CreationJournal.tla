-------------------------- MODULE CreationJournal --------------------------
(***************************************************************************)
(* Keyed creation of workspaces and agents: the journal of                 *)
(* src/gateway/creation-journal.ts, the executions it guards (createWork-  *)
(* space, ready, createAgent and the executor of handle() in               *)
(* src/gateway/workspace-operations.ts), and the serialized admission of   *)
(* src/controller/admission.ts, under replacement of the process.          *)
(*                                                                         *)
(* An execution follows a plan, a sequence of steps; what a step writes to *)
(* the journal is a compare-and-swap followed by its publication.  Every   *)
(* journal update raises the snapshot's revision by one, so the revision   *)
(* also stands for the record's resourceVersion.  Requests carry an        *)
(* initial prompt and ask for a random agent ID.                           *)
(***************************************************************************)
EXTENDS Integers, FiniteSets, Sequences

CONSTANTS
  Keys,            \* idempotency keys
  Kind,            \* [Keys -> Kinds], what the requests of a key ask for
  Space,           \* [Keys -> Spaces], the workspace a key creates or uses
  Spaces,          \* workspace names
  Existing,        \* workspaces that exist and are Ready from the start
  Calls,           \* requests of clients
  KeyOf,           \* [Calls -> Keys]
  BodyOf,          \* [Calls -> Bodies], the fingerprint of a request
  Bodies,          \* fingerprints
  NoBody,          \* the fingerprint of no request
  Subscribing,     \* the calls with subscribe = true
  Watchers,        \* creation.subscribe requests
  MaxListeners,    \* subscriptions of one session (64 in the code)
  Limit,           \* running workspaces the namespace admits
  Faults           \* what the environment may do

FaultKinds == {"api", "crash", "backend", "refuse", "timeout", "stop",
               "disconnect"}
JournaledKinds == {"workspace", "workspaceAgent", "agent", "newAgent"}
Kinds == JournaledKinds \cup {"direct", "scheduled"}

ASSUME CreationAssumption ==
  /\ Kind \in [Keys -> Kinds]
  /\ Space \in [Keys -> Spaces] /\ Existing \subseteq Spaces
  /\ IsFiniteSet(Spaces)
  /\ KeyOf \in [Calls -> Keys] /\ BodyOf \in [Calls -> Bodies]
  /\ NoBody \notin Bodies
  /\ Subscribing \subseteq Calls
  /\ Keys \cap Calls = {} /\ Calls \cap Watchers = {}
  /\ MaxListeners \in Nat /\ Limit \in Nat
  /\ Faults \subseteq FaultKinds

\* handle() runs these keys through the journal; create_agent_request and
\* dispatchSchedule() call createAgent() themselves, once for every request.
Journaled == {k \in Keys : Kind[k] \in JournaledKinds}
Direct == {c \in Calls : KeyOf[c] \notin Journaled}
Executions == Journaled \cup Direct
KeyFor(x) == IF x \in Direct THEN KeyOf[x] ELSE x
SpaceFor(x) == Space[KeyFor(x)]

VARIABLES
  journal,     \* the creation-operation records
  copy,        \* the record as an execution last saw it
  exec,        \* the executions of the process
  call,        \* the requests being served
  watch,       \* the creation.subscribe requests being served
  listeners,   \* registered subscriptions
  queue,       \* executions waiting for admission, first come first served
  admitting,   \* whether the first of them has been counted
  space,       \* the workspaces
  spaceBody,   \* their creation-hash annotations
  receipt,     \* the creation receipts
  made,        \* history: agents an execution created (0, 1, or 2 for more)
  told         \* history: snapshots that answered requests

storeVars == <<journal, space, spaceBody, receipt>>
admissionVars == <<queue, admitting>>
vars == <<journal, copy, exec, call, watch, listeners, queue, admitting,
          space, spaceBody, receipt, made, told>>

-----------------------------------------------------------------------------
(* Records, plans and the local state of executions.                        *)

Snapshots == {"none", "accepted", "workspace_ready", "agent_ready",
              "prompt_started", "completed", "failed"}
Absent == [body |-> NoBody, phase |-> "none", revision |-> 0,
           dispatching |-> FALSE, unknown |-> FALSE, bound |-> FALSE]
Terminal(r) == r.phase \in {"completed", "failed"}

Progresses == {"intent", "bind", "ready", "dispatching", "agentReady",
               "prompt", "complete"}
AgentSteps == <<"select", "bind", "await", "ready", "connect", "receipt",
                "validate", "reserve", "dispatching", "validate", "request",
                "store">>
AgentPlan == AgentSteps \o <<"agentReady", "prompt", "complete">>
SpacePlan == <<"intent", "admit", "bind", "await", "ready">>
\* Without a journal: the same steps but for those that write to it.
DirectSteps == <<"select", "await", "connect", "receipt", "validate", "reserve",
                 "validate", "request", "store">>

\* What an execution does, in order.
Plan(x) ==
  CASE Kind[KeyFor(x)] = "workspace" ->
         <<"authorize", "record">> \o SpacePlan \o <<"complete">>
    [] Kind[KeyFor(x)] = "workspaceAgent" ->
         <<"authorize", "record">> \o SpacePlan \o AgentPlan
    [] Kind[KeyFor(x)] = "agent" -> <<"authorize", "record">> \o AgentPlan
    [] Kind[KeyFor(x)] = "newAgent" ->
         <<"authorize", "record", "intent", "admit">> \o AgentPlan
    [] Kind[KeyFor(x)] = "direct" -> DirectSteps
    [] Kind[KeyFor(x)] = "scheduled" -> <<"admit">> \o DirectSteps

Modes == {"off", "go", "publish", "catch", "replay", "recover"}
Off == [mode |-> "off", at |-> 1, ok |-> FALSE]
Active(k) == exec[k].mode # "off"
At(x, step) == exec[x].mode = "go" /\ Plan(x)[exec[x].at] = step

Pending == [Absent EXCEPT !.phase = "pending"]
Error == [Absent EXCEPT !.phase = "error"]
Idle == [pc |-> "idle", outcome |-> Pending]
Unwatched == [pc |-> "idle", key |-> CHOOSE k \in Journaled : TRUE,
              copy |-> Absent]

Init ==
  /\ journal = [k \in Journaled |-> Absent]
  /\ copy = [k \in Journaled |-> Absent]
  /\ exec = [x \in Executions |-> Off]
  /\ call = [c \in Calls |-> Idle]
  /\ watch = [v \in Watchers |-> Unwatched]
  /\ listeners = {}
  /\ queue = <<>> /\ admitting = FALSE
  /\ space = [w \in Spaces |-> IF w \in Existing THEN "ready" ELSE "none"]
  /\ spaceBody = [w \in Spaces |-> NoBody]
  /\ receipt = [k \in Keys |-> [state |-> "none", body |-> NoBody, ok |-> FALSE]]
  /\ made = [x \in Executions |-> 0]
  /\ told = [k \in Journaled |-> {}]

-----------------------------------------------------------------------------
(* How executions go on, fail and end.                                      *)

\* The promise of an execution settles for everyone who holds it.
Settled(k, outcome) ==
  [c \in Calls |->
     IF KeyOf[c] = k /\ call[c].pc \in {"own", "join", "wait"} /\ call[c].outcome = Pending
       THEN [call[c] EXCEPT !.outcome = outcome] ELSE call[c]]

Ends(x, outcome) ==
  /\ exec' = [exec EXCEPT ![x] = Off]
  /\ call' = IF x \in Direct THEN [call EXCEPT ![x] = Idle]
                             ELSE Settled(x, outcome)

\* An exception in a step: the journal's executor catches it.
Throws(x) ==
  IF x \in Direct \/ Plan(x)[exec[x].at] \in {"authorize", "record"}
    THEN Ends(x, Error)
    ELSE exec' = [exec EXCEPT ![x].mode = "catch"] /\ UNCHANGED call

\* The step is done; a direct execution ends with its last step.
Passes(x) ==
  IF x \in Direct /\ exec[x].at = Len(Plan(x))
    THEN Ends(x, Pending)
    ELSE exec' = [exec EXCEPT ![x].at = @ + 1] /\ UNCHANGED call

ApiFails == "api" \in Faults

\* The subscriptions to a request.
Listeners(k) ==
  {l \in listeners : \/ l \in Calls /\ KeyOf[l] = k
                     \/ l \in Watchers /\ watch[l].key = k}

-----------------------------------------------------------------------------
(* CreationJournal.run().                                                   *)

\* A request: starts its key's execution or joins the one under way.
Send(c) ==
  /\ call[c].pc = "idle"
  /\ LET k == KeyOf[c] IN
     \/ /\ c \in Direct
        /\ exec' = [exec EXCEPT ![c] = [Off EXCEPT !.mode = "go"]]
        /\ call' = [call EXCEPT ![c].pc = "own"]
        /\ UNCHANGED copy
     \/ /\ c \notin Direct /\ ~Active(k)
        /\ exec' = [exec EXCEPT ![k] = [Off EXCEPT !.mode = "go"]]
        /\ copy' = [copy EXCEPT ![k] = [Absent EXCEPT !.body = BodyOf[c],
                                                      !.phase = "accepted"]]
        /\ call' = [call EXCEPT ![c].pc = "own"]
     \/ /\ c \notin Direct /\ Active(k)
        /\ copy[k].body = BodyOf[c]
        /\ call' = [call EXCEPT ![c].pc = "join"]
        /\ UNCHANGED <<exec, copy>>
  /\ UNCHANGED <<storeVars, admissionVars, watch, listeners, made, told>>

\* listen(): refused beyond the session's limit.
Full(L) == L # {} /\ Cardinality(listeners) >= MaxListeners

\* A request that joined reads the record before it subscribes and waits.
Join(c) ==
  /\ call[c].pc = "join"
  /\ LET k == KeyOf[c]
         L == {c} \cap Subscribing
         clash == journal[k].phase # "none" /\ journal[k].body # BodyOf[c]
     IN \/ /\ ~clash /\ ~Full(L)
           /\ listeners' = listeners \cup L
           /\ call' = [call EXCEPT ![c].pc = "wait"]
        \/ /\ clash \/ Full(L) \/ ApiFails
           /\ call' = [call EXCEPT ![c] = Idle]
           /\ UNCHANGED listeners
  /\ UNCHANGED <<storeVars, admissionVars, copy, exec, watch, made, told>>

\* permittedResult(): the answer is the promise's snapshot.
Reply(c) ==
  /\ call[c].pc \in {"own", "wait"}
  /\ call[c].outcome # Pending
  /\ call' = [call EXCEPT ![c] = Idle]
  /\ \/ /\ call[c].outcome # Error
        /\ told' = [told EXCEPT ![KeyOf[c]] = @ \cup {call[c].outcome}]
     \/ /\ call[c].outcome = Error \/ ApiFails
        /\ UNCHANGED told
  /\ UNCHANGED <<storeVars, admissionVars, copy, exec, watch, listeners, made>>

Authorize(k) ==
  /\ At(k, "authorize")
  /\ Passes(k) \/ (ApiFails /\ Throws(k))
  /\ UNCHANGED <<storeVars, admissionVars, copy, watch, listeners, made, told>>

\* createRecord(): the key is claimed once and for all.
CreateRecord(k) ==
  /\ At(k, "record")
  /\ LET L == {c \in Subscribing : /\ KeyOf[c] = k /\ call[c].pc = "own"
                                   /\ call[c].outcome = Pending}
     IN \/ /\ journal[k].phase = "none"
           /\ journal' = [journal EXCEPT ![k] = copy[k]]
           /\ IF Full(L)
                THEN Throws(k) /\ UNCHANGED listeners
                ELSE \/ /\ listeners' = listeners \cup L
                        /\ exec' = [exec EXCEPT ![k].mode = "publish"]
                        /\ UNCHANGED call
                     \/ ApiFails /\ Throws(k) /\ UNCHANGED listeners
        \/ /\ journal[k].phase # "none"
           /\ exec' = [exec EXCEPT ![k].mode = "replay"]
           /\ UNCHANGED <<journal, call, listeners>>
        \/ /\ ApiFails /\ Throws(k)
           /\ UNCHANGED <<journal, listeners>>
  /\ UNCHANGED <<space, spaceBody, receipt, admissionVars, copy, watch, made,
                 told>>

\* The key was claimed before: by this request's twin or by another request.
Replay(k) ==
  /\ exec[k].mode = "replay"
  /\ \/ /\ journal[k].body = copy[k].body
        /\ copy' = [copy EXCEPT ![k] = journal[k]]
        /\ exec' = [exec EXCEPT ![k].mode = "recover"]
        /\ UNCHANGED call
     \/ /\ journal[k].body # copy[k].body \/ ApiFails
        /\ Ends(k, Error)
        /\ UNCHANGED copy
  /\ UNCHANGED <<storeVars, admissionVars, watch, listeners, made, told>>

\* Mutant of Interrupted: the failure is reported as certain.
InterruptedKnown(r) == [r EXCEPT !.phase = "failed", !.revision = @ + 1]

\* recover(): nobody executes the request any more, its outcome is unknown.
Interrupted(r) ==
  [r EXCEPT !.phase = "failed", !.unknown = TRUE, !.revision = @ + 1]

\* The record r becomes terminal, by a compare-and-swap; whoever loses the race
\* takes the winner's record.
Recovers(k, r, result) ==
  \/ Terminal(r) /\ result = r /\ UNCHANGED journal
  \/ /\ ~Terminal(r) /\ journal[k].revision = r.revision
     /\ result = Interrupted(r)
     /\ journal' = [journal EXCEPT ![k] = result]
  \/ /\ ~Terminal(r) /\ journal[k].revision # r.revision
     /\ result = journal[k] /\ UNCHANGED journal

RecoverReplay(k) ==
  /\ exec[k].mode = "recover"
  /\ \/ \E result \in {copy[k], Interrupted(copy[k]), journal[k]} :
          Recovers(k, copy[k], result) /\ Ends(k, result)
     \/ ApiFails /\ ~Terminal(copy[k]) /\ Ends(k, Error) /\ UNCHANGED journal
  /\ UNCHANGED <<space, spaceBody, receipt, admissionVars, copy, watch,
                 listeners, made, told>>

-----------------------------------------------------------------------------
(* progress() and publish().                                                *)

\* Mutant of Caught: a failure is taken for a certain one.
CaughtKnown(r) == [r EXCEPT !.phase = "failed"]

\* A failure with a mutation under way has an unknown outcome.
Caught(r) == [r EXCEPT !.phase = "failed", !.unknown = r.dispatching]

\* What a step changes in the snapshot.
Patched(x, step) ==
  LET r == copy[x]
  IN CASE step \in {"intent", "dispatching"} -> [r EXCEPT !.dispatching = TRUE]
       [] step = "bind" -> [r EXCEPT !.bound = TRUE, !.dispatching = FALSE]
       [] step = "ready" -> [r EXCEPT !.phase = "workspace_ready"]
       [] step = "agentReady" ->
            [r EXCEPT !.phase = IF exec[x].ok THEN "agent_ready" ELSE "failed"]
       [] step = "prompt" -> [r EXCEPT !.phase = "prompt_started"]
       [] step = "complete" -> [r EXCEPT !.phase = "completed"]

\* A failed update: caught within the executor, fatal outside of it.
ProgressFails(k) ==
  IF exec[k].mode = "catch" \/ At(k, "complete")
    THEN Ends(k, Error)
    ELSE exec' = [exec EXCEPT ![k].mode = "catch"] /\ UNCHANGED call

\* The update's precondition: the record is the one the execution last saw.
Current(k) == journal[k].revision = copy[k].revision

Progress(k) ==
  /\ exec[k].mode = "catch" \/ \E step \in Progresses : At(k, step)
  /\ LET new == IF exec[k].mode = "catch" THEN Caught(copy[k])
                ELSE Patched(k, Plan(k)[exec[k].at])
         next == [new EXCEPT !.revision = @ + 1]
     IN \/ /\ Current(k)
           /\ journal' = [journal EXCEPT ![k] = next]
           /\ \/ /\ copy' = [copy EXCEPT ![k] = next]
                 /\ exec' = [exec EXCEPT ![k].mode = "publish"]
                 /\ UNCHANGED call
              \/ ApiFails /\ ProgressFails(k) /\ UNCHANGED copy
        \/ /\ ~Current(k) \/ ApiFails
           /\ ProgressFails(k)
           /\ UNCHANGED <<journal, copy>>
  /\ UNCHANGED <<space, spaceBody, receipt, admissionVars, watch, listeners,
                 made, told>>

\* publish(): a terminal snapshot ends the subscriptions and the execution.
Publish(k) ==
  /\ exec[k].mode = "publish"
  /\ IF Terminal(copy[k])
       THEN Ends(k, copy[k]) /\ listeners' = listeners \ Listeners(k)
       ELSE /\ exec' = [exec EXCEPT ![k].mode = "go", ![k].at = @ + 1]
            /\ \E D \in IF ApiFails THEN SUBSET Listeners(k) ELSE {{}} :
                 listeners' = listeners \ D
            /\ UNCHANGED call
  /\ UNCHANGED <<storeVars, admissionVars, copy, watch, made, told>>

-----------------------------------------------------------------------------
(* createWorkspace() and WorkspaceAdmission.create().                       *)

BodyFor(x) == IF x \in Direct THEN BodyOf[x] ELSE copy[x].body
Running == {w \in Spaces : space[w] \in {"starting", "ready"}}

Admit(x) ==
  /\ At(x, "admit")
  /\ \A i \in 1..Len(queue) : queue[i] # x
  /\ \/ queue' = Append(queue, x) /\ UNCHANGED <<exec, call>>
     \/ ApiFails /\ Throws(x) /\ UNCHANGED queue
  /\ UNCHANGED <<storeVars, admitting, copy, watch, listeners, made, told>>

\* Mutant of Admitted: a full namespace takes one more.
AdmittedMore == Cardinality(Running) <= Limit

Admitted == Cardinality(Running) < Limit

Known(x) == space[SpaceFor(x)] # "none"

\* Mutant of Refused: a full namespace makes requests wait.
RefusedNever(x) == Known(x) /\ spaceBody[SpaceFor(x)] # BodyFor(x)

\* Another request's workspace has the name, or the namespace is full.
Refused(x) ==
  \/ Known(x) /\ spaceBody[SpaceFor(x)] # BodyFor(x)
  \/ ~Known(x) /\ ~Admitted

\* The first in the queue lists the workspaces: its own may exist already.
AdmissionLists ==
  /\ queue # <<>> /\ ~admitting
  /\ LET x == Head(queue) IN
     \/ /\ ~Known(x) /\ Admitted
        /\ admitting' = TRUE
        /\ UNCHANGED <<queue, exec, call>>
     \/ /\ Known(x) /\ spaceBody[SpaceFor(x)] = BodyFor(x)
        /\ queue' = Tail(queue)
        /\ Passes(x)
        /\ UNCHANGED admitting
     \/ /\ Refused(x) \/ ApiFails
        /\ queue' = Tail(queue)
        /\ Throws(x)
        /\ UNCHANGED admitting
  /\ UNCHANGED <<storeVars, copy, watch, listeners, made, told>>

\* The workspace is created; its acknowledgement may be lost.
AdmissionCreates ==
  /\ admitting
  /\ admitting' = FALSE
  /\ queue' = Tail(queue)
  /\ LET x == Head(queue)
         w == SpaceFor(x)
     IN \/ /\ space[w] = "none"
           /\ space' = [space EXCEPT ![w] = "starting"]
           /\ spaceBody' = [spaceBody EXCEPT ![w] = BodyFor(x)]
           /\ Passes(x) \/ (ApiFails /\ Throws(x))
        \/ /\ space[w] # "none" \/ ApiFails
           /\ Throws(x)
           /\ UNCHANGED <<space, spaceBody>>
  /\ UNCHANGED <<journal, receipt, copy, watch, listeners, made, told>>

-----------------------------------------------------------------------------
(* ready() and createAgent().                                               *)

\* A step that reads and passes if a condition holds.
Checks(x, step, good, bad) ==
  /\ At(x, step)
  /\ \/ good /\ Passes(x)
     \/ (bad \/ ApiFails) /\ Throws(x)
  /\ UNCHANGED <<storeVars, admissionVars, copy, watch, listeners, made, told>>

Select(x) ==
  Checks(x, "select", space[SpaceFor(x)] # "none", space[SpaceFor(x)] = "none")

AwaitReady(x) ==
  Checks(x, "await", space[SpaceFor(x)] = "ready",
         \/ space[SpaceFor(x)] \in {"none", "stopped"}
         \/ space[SpaceFor(x)] = "starting" /\ "timeout" \in Faults)

Connect(x) == Checks(x, "connect", TRUE, "backend" \in Faults)

\* The last check before the reservation and before the mutation; the second
\* one in the code is the check after the uploads.
Validate(x) ==
  Checks(x, "validate", space[SpaceFor(x)] = "ready",
         space[SpaceFor(x)] # "ready")

\* reserveForCreate() of a random GUID.
Reserve(x) == Checks(x, "reserve", TRUE, FALSE)

\* The receipt claims the agent mutation; a stored answer is repeated.
TakeReceipt(x) ==
  /\ At(x, "receipt")
  /\ LET k == KeyFor(x)
         answered == receipt[k].state = "done" /\ receipt[k].body = BodyFor(x)
     IN \/ /\ receipt[k].state = "none"
           /\ receipt' = [receipt EXCEPT ![k] = [state |-> "open", ok |-> FALSE,
                                                 body |-> BodyFor(x)]]
           /\ Passes(x) \/ (ApiFails /\ Throws(x))
        \/ /\ answered
           /\ IF x \in Direct
                THEN Ends(x, Pending)
                ELSE /\ exec' = [exec EXCEPT ![x].at = Len(Plan(x)) - 2,
                                             ![x].ok = receipt[k].ok]
                     /\ UNCHANGED call
           /\ UNCHANGED receipt
        \/ /\ (receipt[k].state # "none" /\ ~answered) \/ ApiFails
           /\ Throws(x)
           /\ UNCHANGED receipt
  /\ UNCHANGED <<journal, space, spaceBody, admissionVars, copy, watch,
                 listeners, made, told>>

\* Mutant of RequestAgent: a request without an answer is sent again.
RequestAgentRetries(x) ==
  /\ At(x, "request")
  /\ \/ /\ made' = [made EXCEPT ![x] = IF @ = 2 THEN 2 ELSE @ + 1]
        /\ exec' = [exec EXCEPT ![x].at = @ + 1, ![x].ok = TRUE]
     \/ /\ made' = [made EXCEPT ![x] = IF @ = 2 THEN 2 ELSE @ + 1]
        /\ UNCHANGED exec
  /\ UNCHANGED <<storeVars, admissionVars, call, copy, watch, listeners, told>>

\* backend.request(): sent once; the daemon creates the agent, refuses, or its
\* answer is lost.
RequestAgent(x) ==
  /\ At(x, "request")
  /\ LET more == [made EXCEPT ![x] = IF @ = 2 THEN 2 ELSE @ + 1]
         passes(ok) == /\ exec' = [exec EXCEPT ![x].at = @ + 1, ![x].ok = ok]
                       /\ UNCHANGED call
     IN \/ made' = more /\ passes(TRUE)
        \/ "refuse" \in Faults /\ passes(FALSE) /\ UNCHANGED made
        \/ "backend" \in Faults /\ made' \in {made, more} /\ Throws(x)
  /\ UNCHANGED <<storeVars, admissionVars, copy, watch, listeners, told>>

\* The answer is kept in the receipt.
StoreReceipt(x) ==
  /\ At(x, "store")
  /\ LET k == KeyFor(x) IN
     \/ /\ receipt' = [receipt EXCEPT ![k].state = "done", ![k].ok = exec[x].ok]
        /\ Passes(x) \/ (ApiFails /\ Throws(x))
     \/ ApiFails /\ Throws(x) /\ UNCHANGED receipt
  /\ UNCHANGED <<journal, space, spaceBody, admissionVars, copy, watch,
                 listeners, made, told>>

-----------------------------------------------------------------------------
(* CreationJournal.subscribe(), and the end of sessions.                    *)

\* The subscription is registered before the record is read.
WatchBegin(v, k) ==
  /\ watch[v].pc = "idle" /\ v \notin listeners
  /\ \/ ~Full({v}) /\ listeners' = listeners \cup {v}
     \/ UNCHANGED listeners
  /\ watch' = [watch EXCEPT ![v] = [pc |-> "read", key |-> k, copy |-> Absent]]
  /\ UNCHANGED <<storeVars, admissionVars, copy, exec, call, made, told>>

WatchReads(v) ==
  /\ watch[v].pc = "read"
  /\ LET k == watch[v].key IN
     \/ /\ journal[k].phase # "none"
        /\ watch' = [watch EXCEPT ![v].pc = "recover", ![v].copy = journal[k]]
        /\ UNCHANGED listeners
     \/ /\ journal[k].phase = "none" \/ ApiFails
        /\ watch' = [watch EXCEPT ![v] = Unwatched]
        /\ listeners' = listeners \ {v}
  /\ UNCHANGED <<storeVars, admissionVars, copy, exec, call, made, told>>

\* A record that nobody executes is settled on the way.
WatchRecovers(v) ==
  /\ watch[v].pc = "recover"
  /\ LET k == watch[v].key
         r == watch[v].copy
         results == {r, Interrupted(r), journal[k]}
     IN /\ \/ Active(k) /\ ~Terminal(r) /\ UNCHANGED <<journal, listeners>>
           \/ /\ ~Active(k) \/ Terminal(r)
              /\ \E result \in results :
                   /\ Recovers(k, r, result)
                   /\ listeners' = IF Terminal(result) THEN listeners \ {v}
                                                       ELSE listeners
           \/ ApiFails /\ listeners' = listeners \ {v} /\ UNCHANGED journal
        /\ watch' = [watch EXCEPT ![v].pc = "idle", ![v].copy = Absent]
  /\ UNCHANGED <<space, spaceBody, receipt, admissionVars, copy, exec, call,
                 made, told>>

\* The session closes; what it asked for goes on.
Disconnect ==
  /\ "disconnect" \in Faults
  /\ listeners # {}
  /\ listeners' = {}
  /\ UNCHANGED <<storeVars, admissionVars, copy, exec, call, watch, made, told>>

-----------------------------------------------------------------------------
(* The process and the cluster.                                             *)

\* The process is replaced; the records and the workspaces remain.
Crash ==
  /\ "crash" \in Faults
  /\ copy' = [k \in Journaled |-> Absent]
  /\ exec' = [x \in Executions |-> Off]
  /\ call' = [c \in Calls |-> Idle]
  /\ watch' = [v \in Watchers |-> Unwatched]
  /\ listeners' = {}
  /\ queue' = <<>> /\ admitting' = FALSE
  /\ UNCHANGED <<storeVars, made, told>>

SpaceReady(w) ==
  /\ space[w] = "starting"
  /\ space' = [space EXCEPT ![w] = "ready"]
  /\ UNCHANGED <<journal, spaceBody, receipt, admissionVars, copy, exec, call,
                 watch, listeners, made, told>>

\* A workspace is archived or suspended, or its Pod restarts.
SpaceStops(w) ==
  /\ "stop" \in Faults
  /\ \/ space[w] \in {"starting", "ready"} /\ space' = [space EXCEPT ![w] = "stopped"]
     \/ space[w] = "ready" /\ space' = [space EXCEPT ![w] = "starting"]
  /\ UNCHANGED <<journal, spaceBody, receipt, admissionVars, copy, exec, call,
                 watch, listeners, made, told>>

-----------------------------------------------------------------------------
JournalNext(k) ==
  \/ Authorize(k) \/ CreateRecord(k) \/ Replay(k) \/ RecoverReplay(k)
  \/ Progress(k) \/ Publish(k)

StepNext(x) ==
  \/ Admit(x) \/ Select(x) \/ AwaitReady(x) \/ Connect(x) \/ TakeReceipt(x)
  \/ Validate(x) \/ Reserve(x) \/ RequestAgent(x) \/ StoreReceipt(x)

AdmissionNext == AdmissionLists \/ AdmissionCreates
CallNext(c) == Join(c) \/ Reply(c)
WatchNext(v) == WatchReads(v) \/ WatchRecovers(v)

Next ==
  \/ \E c \in Calls : Send(c) \/ CallNext(c)
  \/ \E k \in Journaled : JournalNext(k)
  \/ \E x \in Executions : StepNext(x)
  \/ AdmissionNext
  \/ \E v \in Watchers : WatchNext(v) \/ \E k \in Journaled : WatchBegin(v, k)
  \/ \E w \in Spaces : SpaceReady(w) \/ SpaceStops(w)
  \/ Disconnect \/ Crash

Spec == Init /\ [][Next]_vars

\* The event loop starves no promise, store calls return, and Pods start.
Fairness ==
  /\ \A k \in Journaled : WF_vars(JournalNext(k))
  /\ \A x \in Executions : WF_vars(StepNext(x))
  /\ \A c \in Calls : WF_vars(CallNext(c))
  /\ \A v \in Watchers : WF_vars(WatchNext(v))
  /\ \A w \in Spaces : WF_vars(SpaceReady(w))
  /\ WF_vars(AdmissionNext)

FairSpec == Spec /\ Fairness

-----------------------------------------------------------------------------
JournalRecord ==
  [body : Bodies \cup {NoBody}, phase : Snapshots, revision : Nat,
   dispatching : BOOLEAN, unknown : BOOLEAN, bound : BOOLEAN]

Execution == [mode : Modes, at : Nat \ {0}, ok : BOOLEAN]

\* Every variable has the shape the code gives it.
TypeOK ==
  /\ journal \in [Journaled -> JournalRecord]
  /\ copy \in [Journaled -> JournalRecord]
  /\ exec \in [Executions -> Execution]
  /\ \A x \in Executions : exec[x].at <= Len(Plan(x))
  /\ call \in [Calls -> [pc : {"idle", "own", "join", "wait"},
                         outcome : JournalRecord \cup {Pending, Error}]]
  /\ watch \in [Watchers -> [pc : {"idle", "read", "recover"},
                             key : Journaled \cup {Unwatched.key},
                             copy : JournalRecord]]
  /\ listeners \subseteq Calls \cup Watchers
  /\ queue \in Seq(Executions) /\ admitting \in BOOLEAN
  /\ space \in [Spaces -> {"none", "starting", "ready", "stopped"}]
  /\ spaceBody \in [Spaces -> Bodies \cup {NoBody}]
  /\ receipt \in [Keys -> [state : {"none", "open", "done"},
                           body : Bodies \cup {NoBody}, ok : BOOLEAN]]
  /\ made \in [Executions -> 0..2]
  /\ told \in [Journaled -> SUBSET JournalRecord]

\* Whatever is retried, lost or replaced, a key creates at most one agent.
AgentCreatedOnce ==
  /\ \A x \in Executions : made[x] <= 1
  /\ \A c, d \in Direct :
       (c # d /\ KeyOf[c] = KeyOf[d]) => made[c] + made[d] <= 1

\* A failure not marked as unknown created no agent (and, without a workspace
\* ID, no workspace); a completed agent creation created one.
OutcomeIsHonest ==
  \A k \in Journaled :
    LET r == journal[k] IN
    /\ (r.phase = "failed" /\ ~r.unknown) =>
         /\ made[k] = 0
         /\ (~r.bound /\ Kind[k] # "agent") => space[Space[k]] = "none"
    /\ (r.phase = "completed" /\ Kind[k] # "workspace") => made[k] = 1

\* Requests are answered with terminal snapshots, and all those of one key,
\* before and after a replacement, with the same one.
AnswersAgree ==
  \A k \in Journaled : \A r \in told[k] : Terminal(r) /\ r = journal[k]

\* Workspaces created through the gateway never exceed the namespace's limit.
AdmissionWithinLimit == Cardinality(Running) <= Limit

\* A record advances one revision at a time until it is terminal, keeps its
\* workspace, and is never written again after that.
JournalOnlyAdvances ==
  [][\A k \in Journaled :
       (journal[k].phase # "none" /\ journal'[k] # journal[k]) =>
         /\ ~Terminal(journal[k])
         /\ journal'[k].revision = journal[k].revision + 1
         /\ journal[k].bound => journal'[k].bound
         /\ journal'[k].body = journal[k].body]_vars

\* Every request is answered, or fails.
RequestsEnd == \A c \in Calls : call[c].pc # "idle" ~> call[c].pc = "idle"

\* A subscription to a request under way ends with it, unless the request was
\* left behind without a terminal record.
SubscriptionsEnd ==
  \A v \in Watchers :
    (v \in listeners /\ watch[v].pc = "idle")
      ~> \/ v \notin listeners
         \/ ~Active(watch[v].key) /\ ~Terminal(journal[watch[v].key])
-----------------------------------------------------------------------------
(* What the journal is for.                                                 *)

\* What a record says of its request.
Verdict(r) ==
  CASE r.phase = "completed" -> "created"
    [] r.phase = "failed" /\ r.unknown -> "unknown"
    [] r.phase = "failed" /\ ~r.unknown -> "refused"
    [] OTHER -> "none"

Keyed == INSTANCE KeyedRequest WITH
  Requested <- Journaled,
  WithAgent <- {k \in Journaled : Kind[k] # "workspace"},
  agents <- [k \in Journaled |-> made[k]],
  verdict <- [k \in Journaled |-> Verdict(journal[k])],
  answers <- [k \in Journaled |-> {Verdict(r) : r \in told[k]}]

\* The journal implements the promise of KeyedRequest, through conflicts, lost
\* answers, failures and replacements of the process.
KeyedRequestImplemented == Keyed!KeyedSpec

\* A record is what every answer says, honest, and never changed once it says
\* so.  What is recorded and under way keeps its shape.
RecordIsFinal ==
  [](TypeOK /\ OutcomeIsHonest /\ AnswersAgree) /\ JournalOnlyAdvances

\* Neither a request nor a subscription to one waits for ever.
AnswersArrive == RequestsEnd /\ SubscriptionsEnd
=============================================================================
