---------------------------- MODULE CreationProofs ----------------------------
(***************************************************************************)
(* What keyed creation promises, proved for any keys, requests, workspaces *)
(* and faults: an agent is created once, a record is honest and final, the *)
(* namespace's limit is kept, and the journal implements KeyedRequest.     *)
(***************************************************************************)
EXTENDS CreationJournal, FiniteSetTheorems, TLAPS

\* Where the steps stand in the plans.  A plan without an agent ends before
\* them.
AgentFrom(x) ==
  CASE Kind[KeyFor(x)] = "workspace" -> 8
    [] Kind[KeyFor(x)] = "workspaceAgent" -> 7
    [] Kind[KeyFor(x)] = "newAgent" -> 4
    [] Kind[KeyFor(x)] = "agent" -> 2
    [] Kind[KeyFor(x)] = "scheduled" -> 1
    [] Kind[KeyFor(x)] = "direct" -> 0
BindAt(k) == AgentFrom(k) + 2
ReceiptAt(x) == AgentFrom(x) + (IF x \in Direct THEN 4 ELSE 6)
MarkAt(k) == AgentFrom(k) + 9
RequestAt(x) == AgentFrom(x) + (IF x \in Direct THEN 8 ELSE 11)
AnswerAt(k) == AgentFrom(k) + 13
WithAgent(k) == Kind[k] # "workspace"
Creating == {k \in Journaled : Kind[k] # "agent"}

\* An execution that goes on, also while a record it wrote is published.
Working(x) ==
  \/ exec[x].mode = "go"
  \/ exec[x].mode = "publish" /\ x \in Journaled /\ ~Terminal(copy[x])
\* It took the receipt and has not yet asked for the agent.
Carrying(x) == Working(x) /\ ReceiptAt(x) < exec[x].at /\ exec[x].at <= RequestAt(x)
Twins(x) == {y \in Executions : KeyFor(y) = KeyFor(x)}

\* The receipt lets one execution of a key through, once.
ReceiptOK(x) ==
  receipt[KeyFor(x)].state = "none" =>
    made[x] = 0 /\ (Working(x) => exec[x].at <= ReceiptAt(x))
CarryOK(x) ==
  Carrying(x) => \A y \in Twins(x) : made[y] = 0 /\ (y # x => ~Carrying(y))
MadeOK(x) ==
  made[x] <= 1 /\ \A y \in Twins(x) : y # x => made[x] + made[y] <= 1

\* The execution that claimed the record.
Owner(k) == exec[k].mode \in {"publish", "catch"} \/ (exec[k].mode = "go" /\ exec[k].at >= 3)

\* Who reads and writes the record, and when it may be behind it.
ModeOK(k) ==
  /\ exec[k].mode = "go" /\ exec[k].at <= 2 => copy[k].phase = "accepted"
  /\ exec[k].mode \in {"replay", "recover"} => exec[k].at = 2 /\ journal[k].phase # "none"
  /\ exec[k].mode = "recover" => journal[k] = copy[k]
  /\ exec[k].mode = "catch" => exec[k].at >= 3
  /\ exec[k].mode = "publish" => exec[k].at >= 2
  /\ exec[k].mode = "publish" /\ ~Terminal(copy[k]) =>
       Plan(k)[exec[k].at] \in (Progresses \cup {"record"}) \ {"complete"}
OwnerOK(k) ==
  Owner(k) =>
    /\ journal[k].phase # "none" /\ copy[k].phase # "none"
    /\ journal[k] = copy[k]
         \/ (exec[k].mode = "catch" /\ journal[k].revision # copy[k].revision)
    /\ exec[k].mode # "publish" => ~Terminal(copy[k])

\* The step i is behind the execution.
Behind(k, i) == exec[k].at > i \/ (exec[k].at = i /\ exec[k].mode = "publish")

\* What its position says of an execution that may still write the record.
PlaceOK(k) ==
  Owner(k) /\ ~Terminal(copy[k]) =>
    /\ exec[k].at <= ReceiptAt(k) /\ exec[k].mode # "catch" => receipt[k].state = "none"
    /\ exec[k].at < RequestAt(k) => made[k] = 0
    /\ Behind(k, MarkAt(k)) => copy[k].dispatching
    /\ exec[k].at > RequestAt(k) => made[k] = IF exec[k].ok THEN 1 ELSE 0
    /\ Behind(k, AnswerAt(k)) => exec[k].ok
    /\ k \in Creating /\ Behind(k, 3) => copy[k].dispatching \/ copy[k].bound
    /\ WithAgent(k) /\ Behind(k, BindAt(k)) => copy[k].bound

\* What the record says of its request.
RecordOK(k) ==
  /\ journal[k].phase = "none" => receipt[k].state = "none"
  /\ journal[k].phase = "failed" /\ ~journal[k].unknown => made[k] = 0
  /\ journal[k].phase = "completed" /\ WithAgent(k) => made[k] = 1

\* A snapshot read from the record some time ago.
SnapshotOK(r, k) ==
  /\ r.phase # "none" /\ journal[k].phase # "none"
  /\ r.revision <= journal[k].revision
  /\ r.revision = journal[k].revision \/ Terminal(r) => r = journal[k]
WatchOK(v) ==
  /\ watch[v].pc # "idle" => watch[v].key \in Journaled
  /\ watch[v].pc = "recover" => SnapshotOK(watch[v].copy, watch[v].key)

Answers(r, k) == Terminal(r) /\ r = journal[k]
CallOK(c) ==
  IF c \in Direct THEN call[c].outcome = Pending
  ELSE call[c].outcome \in {Pending, Error} \/ Answers(call[c].outcome, KeyOf[c])

\* Who waits for admission is at that step, once.
QueueOK ==
  /\ \A i \in 1 .. Len(queue) : At(queue[i], "admit")
  /\ \A i, j \in 1 .. Len(queue) : queue[i] = queue[j] => i = j
  /\ admitting => queue # <<>>
AdmissionOK ==
  /\ Cardinality(Running) <= Limit
  /\ admitting => Cardinality(Running) < Limit

MutationOK == \A x \in Executions : ReceiptOK(x) /\ CarryOK(x) /\ MadeOK(x)
KeyOK(k) == ModeOK(k) /\ OwnerOK(k) /\ PlaceOK(k) /\ RecordOK(k)
DirectOK == \A x \in Direct : exec[x].mode \in {"off", "go"}

CreationIInv ==
  /\ TypeOK /\ QueueOK /\ MutationOK /\ DirectOK
  /\ \A k \in Journaled : KeyOK(k)
  /\ \A v \in Watchers : WatchOK(v)
  /\ \A c \in Calls : CallOK(c)
  /\ AnswersAgree

\* Different keys create different workspaces: the name is a digest of the
\* namespace, the project and the key, prefixed "agent:" or "schedule:" for the
\* workspaces of agents and schedules (workspace-operations.ts).  Agents may be
\* created in any of them.
OwnSpaces ==
  \A k \in Creating :
    /\ Space[k] \notin Existing
    /\ \A j \in Keys : Kind[j] \notin {"agent", "direct"} /\ Space[j] = Space[k] => j = k
SpaceOK(k) ==
  space[Space[k]] # "none" =>
    /\ journal[k].phase # "none"
    /\ Owner(k) => Behind(k, 3)
HonestOK(k) ==
  journal[k].phase = "failed" /\ ~journal[k].unknown /\ ~journal[k].bound =>
    space[Space[k]] = "none"
SpaceIInv == CreationIInv /\ \A k \in Creating : SpaceOK(k) /\ HonestOK(k)
-----------------------------------------------------------------------------
(* The plans.                                                               *)

LEMMA ExecutionKinds ==
  /\ Executions = Journaled \cup Direct /\ Journaled \cap Direct = {}
  /\ \A k \in Journaled : /\ k \in Keys /\ KeyFor(k) = k /\ Kind[k] \in JournaledKinds
                          /\ SpaceFor(k) = Space[k]
  /\ \A c \in Direct : /\ c \in Calls /\ KeyFor(c) = KeyOf[c] /\ KeyOf[c] \in Keys
                       /\ Kind[KeyFor(c)] \in {"direct", "scheduled"}
                       /\ KeyFor(c) \notin Journaled
  /\ \A x \in Executions : KeyFor(x) \in Keys
  /\ \A c \in Calls : c \in Direct <=> KeyOf[c] \notin Journaled
  <1> USE CreationAssumption
  <1>1. \A c \in Direct : c \in Calls /\ KeyOf[c] \in Keys /\ KeyFor(c) = KeyOf[c]
                          /\ KeyOf[c] \notin Journaled
    BY DEF Direct, KeyFor
  <1>2. \A k \in Keys : Kind[k] \in Kinds
    OBVIOUS
  <1>3. \A c \in Direct : Kind[KeyOf[c]] \in {"direct", "scheduled"}
    BY <1>1, <1>2 DEF Journaled, Kinds
  <1>4. \A k \in Journaled : k \in Keys /\ k \notin Direct /\ Kind[k] \in JournaledKinds
    BY <1>1 DEF Journaled
  <1> QED
    BY <1>1, <1>3, <1>4 DEF Executions, KeyFor, SpaceFor, Direct

\* What the plan of a key has at which place.
LEMMA PlanOfKeys ==
  ASSUME NEW k \in Journaled
  PROVE  /\ AgentFrom(k) \in Nat /\ Len(Plan(k)) \in Nat /\ Len(Plan(k)) > 4
         /\ Plan(k)[1] = "authorize" /\ Plan(k)[2] = "record"
         /\ WithAgent(k) => Len(Plan(k)) = AnswerAt(k) + 2
         /\ ~WithAgent(k) => Len(Plan(k)) = 8 /\ AgentFrom(k) = 8
         /\ k \in Creating => AgentFrom(k) >= 4
         /\ AgentFrom(k) >= 2
         /\ \A i \in 1 .. Len(Plan(k)) :
              /\ Plan(k)[i] = "authorize" => i = 1
              /\ Plan(k)[i] = "record" => i = 2
              /\ Plan(k)[i] = "intent" => i = 3
              /\ k \in Creating /\ i = 3 => Plan(k)[i] = "intent"
              /\ Plan(k)[i] = "admit" => i = 4 /\ k \in Creating
              /\ Plan(k)[i] = "bind" => 3 < i \/ k \notin Creating
              /\ Plan(k)[i] = "bind" => 3 <= i /\ i <= BindAt(k)
              /\ WithAgent(k) /\ i = BindAt(k) => Plan(k)[i] = "bind"
              /\ Plan(k)[i] = "receipt" => i = ReceiptAt(k)
              /\ i = ReceiptAt(k) => Plan(k)[i] = "receipt"
              /\ Plan(k)[i] = "dispatching" => i = MarkAt(k)
              /\ i = MarkAt(k) => Plan(k)[i] = "dispatching"
              /\ Plan(k)[i] = "request" => i = RequestAt(k)
              /\ i = RequestAt(k) => Plan(k)[i] = "request"
              /\ Plan(k)[i] = "agentReady" => i = AnswerAt(k)
              /\ i = AnswerAt(k) => Plan(k)[i] = "agentReady"
              /\ Plan(k)[i] = "complete" => i = Len(Plan(k))
              /\ i = Len(Plan(k)) => Plan(k)[i] = "complete"
  <1> USE DEF Plan, AgentPlan, AgentSteps, SpacePlan, AgentFrom, BindAt, ReceiptAt, MarkAt,
              RequestAt, AnswerAt, WithAgent, Creating
  <1>1. KeyFor(k) = k /\ k \notin Direct
        /\ Kind[k] \in {"workspace", "workspaceAgent", "agent", "newAgent"}
    BY ExecutionKinds DEF JournaledKinds
  <1>2. CASE Kind[k] = "workspace"
    BY <1>1, <1>2
  <1>3. CASE Kind[k] = "workspaceAgent"
    BY <1>1, <1>3
  <1>4. CASE Kind[k] = "agent"
    BY <1>1, <1>4
  <1>5. CASE Kind[k] = "newAgent"
    BY <1>1, <1>5
  <1> QED
    BY <1>1, <1>2, <1>3, <1>4, <1>5

LEMMA StoreComesLater ==
  ASSUME NEW k \in Journaled, NEW i \in 1 .. Len(Plan(k)), Plan(k)[i] = "store"
  PROVE  i >= ReceiptAt(k)
  <1> USE DEF Plan, AgentPlan, AgentSteps, SpacePlan, AgentFrom, ReceiptAt
  <1>1. KeyFor(k) = k /\ k \notin Direct
        /\ Kind[k] \in {"workspace", "workspaceAgent", "agent", "newAgent"}
    BY ExecutionKinds DEF JournaledKinds
  <1>2. CASE Kind[k] = "workspace"
    BY <1>1, <1>2
  <1>3. CASE Kind[k] = "workspaceAgent"
    BY <1>1, <1>3
  <1>4. CASE Kind[k] = "agent"
    BY <1>1, <1>4
  <1>5. CASE Kind[k] = "newAgent"
    BY <1>1, <1>5
  <1> QED
    BY <1>1, <1>2, <1>3, <1>4, <1>5

\* What the plan of an execution without a journal has at which place.
LEMMA PlanOfDirect ==
  ASSUME NEW x \in Direct
  PROVE  /\ AgentFrom(x) \in Nat /\ Len(Plan(x)) = RequestAt(x) + 1
         /\ \A i \in 1 .. Len(Plan(x)) :
              /\ Plan(x)[i] \notin Progresses \cup {"authorize", "record"}
              /\ Plan(x)[i] = "admit" => i = 1
              /\ Plan(x)[i] = "receipt" => i = ReceiptAt(x)
              /\ i = ReceiptAt(x) => Plan(x)[i] = "receipt"
              /\ Plan(x)[i] = "request" => i = RequestAt(x)
              /\ i = RequestAt(x) => Plan(x)[i] = "request"
  <1> USE DEF Plan, DirectSteps, AgentFrom, ReceiptAt, RequestAt, Progresses
  <1>1. Kind[KeyFor(x)] \in {"direct", "scheduled"}
    BY ExecutionKinds
  <1>2. CASE Kind[KeyFor(x)] = "direct"
    BY <1>2
  <1>3. CASE Kind[KeyFor(x)] = "scheduled"
    BY <1>3
  <1> QED
    BY <1>1, <1>2, <1>3
-----------------------------------------------------------------------------
(* How executions move, and what others keep.                               *)

ExecTypes == exec \in [Executions -> Execution] /\ \A x \in Executions : exec[x].at <= Len(Plan(x))
CallTypes ==
  call \in [Calls -> [pc : {"idle", "own", "join", "wait"},
                      outcome : JournalRecord \cup {Pending, Error}]]
RecordTypes == journal \in [Journaled -> JournalRecord] /\ copy \in [Journaled -> JournalRecord]
WatchTypes ==
  watch \in [Watchers -> [pc : {"idle", "read", "recover"},
                          key : Journaled \cup {Unwatched.key}, copy : JournalRecord]]
AdmissionTypes ==
  /\ queue \in Seq(Executions) /\ admitting \in BOOLEAN
  /\ space \in [Spaces -> {"none", "starting", "ready", "stopped"}]
  /\ spaceBody \in [Spaces -> Bodies \cup {NoBody}]
HistoryTypes ==
  /\ listeners \subseteq Calls \cup Watchers
  /\ receipt \in [Keys -> [state : {"none", "open", "done"},
                           body : Bodies \cup {NoBody}, ok : BOOLEAN]]
  /\ made \in [Executions -> 0..2] /\ told \in [Journaled -> SUBSET JournalRecord]

LEMMA TypesAre ==
  TypeOK <=> /\ ExecTypes /\ CallTypes /\ RecordTypes /\ WatchTypes /\ AdmissionTypes
             /\ HistoryTypes
  BY DEF TypeOK, ExecTypes, CallTypes, RecordTypes, WatchTypes, AdmissionTypes, HistoryTypes

LEMMA Parts ==
  ASSUME CreationIInv
  PROVE  /\ ExecTypes /\ CallTypes /\ RecordTypes /\ WatchTypes /\ AdmissionTypes /\ HistoryTypes
         /\ QueueOK /\ MutationOK /\ DirectOK
         /\ \A k \in Journaled : ModeOK(k) /\ OwnerOK(k) /\ PlaceOK(k) /\ RecordOK(k)
         /\ \A v \in Watchers : WatchOK(v)
         /\ \A c \in Calls : CallOK(c)
         /\ AnswersAgree
  BY TypesAre DEF CreationIInv, KeyOK

LEMMA RecordFacts ==
  /\ Absent \in JournalRecord /\ Absent.phase = "none" /\ ~Terminal(Absent)
  /\ Pending.phase = "pending" /\ Error.phase = "error"
  /\ Idle.pc = "idle" /\ Idle.outcome = Pending
  /\ Off.mode = "off" /\ Off.at = 1 /\ Off.ok = FALSE /\ Off \in Execution
  /\ Pending # Error /\ ~Terminal(Pending) /\ ~Terminal(Error)
  BY DEF Absent, JournalRecord, Snapshots, Terminal, Pending, Error, Idle, Off, Execution, Modes

\* x goes to place n in mode m; the other executions stay.
Moved(x, m, n, b) ==
  /\ exec' \in [Executions -> Execution]
  /\ exec'[x].mode = m /\ exec'[x].at = n /\ exec'[x].ok = b
  /\ \A y \in Executions \ {x} : exec'[y] = exec[y]

LEMMA MovesTo ==
  ASSUME ExecTypes, NEW x \in Executions, NEW r \in Execution, exec' = [exec EXCEPT ![x] = r]
  PROVE  Moved(x, r.mode, r.at, r.ok)
  <1>1. exec \in [Executions -> Execution]
    BY DEF ExecTypes
  <1>2. exec' \in [Executions -> Execution] /\ exec'[x] = r
        /\ \A y \in Executions \ {x} : exec'[y] = exec[y]
    BY <1>1
  <1> QED
    BY <1>2 DEF Moved

LEMMA MoveOff ==
  ASSUME ExecTypes, NEW x \in Executions, exec' = [exec EXCEPT ![x] = Off]
  PROVE  Moved(x, "off", 1, FALSE)
  BY MovesTo, RecordFacts

LEMMA WithMode ==
  ASSUME NEW r \in Execution, NEW m \in Modes
  PROVE  LET q == [r EXCEPT !.mode = m]
         IN q \in Execution /\ q.mode = m /\ q.at = r.at /\ q.ok = r.ok
  BY DEF Execution

LEMMA MoveStart ==
  ASSUME ExecTypes, NEW x \in Executions, exec' = [exec EXCEPT ![x] = [Off EXCEPT !.mode = "go"]]
  PROVE  Moved(x, "go", 1, FALSE)
  <1> DEFINE r == [Off EXCEPT !.mode = "go"]
  <1>1. "go" \in Modes
    BY DEF Modes
  <1>3. r \in Execution /\ r.mode = "go" /\ r.at = 1 /\ r.ok = FALSE
    BY <1>1, WithMode, RecordFacts
  <1>2. exec' = [exec EXCEPT ![x] = r]
    OBVIOUS
  <1> HIDE DEF r
  <1> QED
    BY <1>2, <1>3, MovesTo

LEMMA MoveMode ==
  ASSUME ExecTypes, NEW x \in Executions, NEW m \in Modes,
         exec' = [exec EXCEPT ![x].mode = m]
  PROVE  Moved(x, m, exec[x].at, exec[x].ok)
  <1> DEFINE r == [exec[x] EXCEPT !.mode = m]
  <1>1. r \in Execution /\ r.mode = m /\ r.at = exec[x].at /\ r.ok = exec[x].ok
    BY DEF ExecTypes, Execution
  <1>2. exec' = [exec EXCEPT ![x] = r]
    OBVIOUS
  <1> HIDE DEF r
  <1> QED
    BY <1>1, <1>2, MovesTo

LEMMA MoveAt ==
  ASSUME ExecTypes, NEW x \in Executions, NEW n \in Nat \ {0},
         exec' = [exec EXCEPT ![x].at = n]
  PROVE  Moved(x, exec[x].mode, n, exec[x].ok)
  <1> DEFINE r == [exec[x] EXCEPT !.at = n]
  <1>1. r \in Execution /\ r.mode = exec[x].mode /\ r.at = n /\ r.ok = exec[x].ok
    BY DEF ExecTypes, Execution
  <1>2. exec' = [exec EXCEPT ![x] = r]
    OBVIOUS
  <1> HIDE DEF r
  <1> QED
    BY <1>1, <1>2, MovesTo

LEMMA MoveAtOk ==
  ASSUME ExecTypes, NEW x \in Executions, NEW n \in Nat \ {0}, NEW b \in BOOLEAN,
         exec' = [exec EXCEPT ![x].at = n, ![x].ok = b]
  PROVE  Moved(x, exec[x].mode, n, b)
  <1> DEFINE r == [[exec[x] EXCEPT !.at = n] EXCEPT !.ok = b]
  <1>1. r \in Execution /\ r.mode = exec[x].mode /\ r.at = n /\ r.ok = b
    BY DEF ExecTypes, Execution
  <1>2. exec' = [exec EXCEPT ![x] = r]
    BY DEF ExecTypes
  <1> HIDE DEF r
  <1> QED
    BY <1>1, <1>2, MovesTo

LEMMA MoveModeAt ==
  ASSUME ExecTypes, NEW x \in Executions, NEW m \in Modes, NEW n \in Nat \ {0},
         exec' = [exec EXCEPT ![x].mode = m, ![x].at = n]
  PROVE  Moved(x, m, n, exec[x].ok)
  <1> DEFINE r == [[exec[x] EXCEPT !.mode = m] EXCEPT !.at = n]
  <1>1. r \in Execution /\ r.mode = m /\ r.at = n /\ r.ok = exec[x].ok
    BY DEF ExecTypes, Execution
  <1>2. exec' = [exec EXCEPT ![x] = r]
    BY DEF ExecTypes
  <1> HIDE DEF r
  <1> QED
    BY <1>1, <1>2, MovesTo

\* Requests that a step settles have a failure or the record for an answer.
CallsSettle(o) ==
  /\ CallTypes'
  /\ \A c \in Calls : \/ call'[c].outcome \in {call[c].outcome, Pending}
                      \/ c \notin Direct /\ call'[c].outcome = o

LEMMA CallsStay == ASSUME CallTypes, UNCHANGED call, NEW o PROVE CallsSettle(o)
  BY DEF CallTypes, CallsSettle

LEMMA EndsIs ==
  ASSUME ExecTypes, CallTypes, NEW x \in Executions,
         NEW o \in JournalRecord \cup {Pending, Error}, Ends(x, o)
  PROVE  /\ Moved(x, "off", 1, FALSE) /\ CallsSettle(o)
         /\ x \in Journaled =>
              \A c \in Calls : \/ call'[c].outcome = call[c].outcome
                               \/ KeyOf[c] = x /\ call'[c].outcome = o
  <1>1. Moved(x, "off", 1, FALSE)
    BY MoveOff DEF Ends
  <1>2. CASE x \in Direct
    <2>1. call' = [call EXCEPT ![x] = Idle] /\ x \in Calls /\ x \notin Journaled
      BY <1>2, ExecutionKinds DEF Ends
    <2>2. Idle \in [pc : {"idle", "own", "join", "wait"},
                    outcome : JournalRecord \cup {Pending, Error}]
      BY DEF Idle
    <2>3. CallTypes' /\ \A c \in Calls : call'[c] = IF c = x THEN Idle ELSE call[c]
      BY <2>1, <2>2 DEF CallTypes
    <2> QED
      BY <1>1, <2>1, <2>3, RecordFacts DEF CallsSettle
  <1>3. CASE x \notin Direct
    <2>1. call' = Settled(x, o) /\ x \in Journaled
      BY <1>3, ExecutionKinds DEF Ends
    <2>2. \A c \in Calls :
            /\ call'[c] \in [pc : {"idle", "own", "join", "wait"},
                             outcome : JournalRecord \cup {Pending, Error}]
            /\ \/ call'[c].outcome = call[c].outcome
               \/ KeyOf[c] = x /\ call'[c].outcome = o
      BY <2>1 DEF Settled, CallTypes
    <2>3. call' = [c \in Calls |-> call'[c]]
      BY <2>1 DEF Settled
    <2>4. CallTypes'
      BY <2>2, <2>3 DEF CallTypes
    <2>5. \A c \in Calls : KeyOf[c] = x => c \notin Direct
      BY <2>1, ExecutionKinds
    <2> QED
      BY <1>1, <2>2, <2>4, <2>5 DEF CallsSettle
  <1> QED
    BY <1>2, <1>3

LEMMA ThrowsIs ==
  ASSUME ExecTypes, CallTypes, NEW x \in Executions, exec[x].mode = "go", Throws(x)
  PROVE  /\ CallsSettle(Error)
         /\ \/ Moved(x, "off", 1, FALSE)
            \/ /\ x \in Journaled /\ exec[x].at >= 3
               /\ Moved(x, "catch", exec[x].at, exec[x].ok)
  <1>1. CASE x \in Direct \/ Plan(x)[exec[x].at] \in {"authorize", "record"}
    BY <1>1, EndsIs DEF Throws
  <1>2. CASE ~(x \in Direct \/ Plan(x)[exec[x].at] \in {"authorize", "record"})
    <2>1. exec' = [exec EXCEPT ![x].mode = "catch"] /\ UNCHANGED call /\ x \in Journaled
      BY <1>2, ExecutionKinds DEF Throws
    <2>2. Moved(x, "catch", exec[x].at, exec[x].ok)
      BY <2>1, MoveMode DEF Modes
    <2>3. exec[x].at \in Nat \ {0} /\ exec[x].at # 1 /\ exec[x].at # 2
      BY <1>2, <2>1, PlanOfKeys DEF ExecTypes, Execution
    <2>4. exec[x].at >= 3
      BY <2>3
    <2>5. CallsSettle(Error)
      BY <2>1, CallsStay
    <2> QED
      BY <2>1, <2>2, <2>4, <2>5
  <1> QED
    BY <1>1, <1>2

LEMMA PassesIs ==
  ASSUME ExecTypes, CallTypes, NEW x \in Executions, exec[x].mode = "go", Passes(x)
  PROVE  /\ CallsSettle(Error)
         /\ \/ x \in Direct /\ Moved(x, "off", 1, FALSE)
            \/ /\ Moved(x, "go", exec[x].at + 1, exec[x].ok) /\ UNCHANGED call
               /\ x \in Direct => exec[x].at # Len(Plan(x))
  <1>1. CASE x \in Direct /\ exec[x].at = Len(Plan(x))
    <2>1. Moved(x, "off", 1, FALSE) /\ CallsSettle(Pending)
      BY <1>1, EndsIs DEF Passes
    <2> QED
      BY <1>1, <2>1 DEF CallsSettle
  <1>2. CASE ~(x \in Direct /\ exec[x].at = Len(Plan(x)))
    <2>1. exec' = [exec EXCEPT ![x].at = exec[x].at + 1] /\ UNCHANGED call
      BY <1>2 DEF Passes
    <2>2. exec[x].at + 1 \in Nat \ {0}
      BY DEF ExecTypes, Execution
    <2>3. Moved(x, "go", exec[x].at + 1, exec[x].ok)
      BY <2>1, <2>2, MoveAt DEF Modes
    <2> QED
      BY <1>2, <2>1, <2>3, CallsStay
  <1> QED
    BY <1>1, <1>2
-----------------------------------------------------------------------------
(* What every step keeps.                                                   *)

\* The invariant but for the queue of the admission.
RestIInv ==
  /\ ExecTypes /\ CallTypes /\ RecordTypes /\ WatchTypes /\ HistoryTypes
  /\ MutationOK /\ DirectOK
  /\ \A k \in Journaled : KeyOK(k)
  /\ \A v \in Watchers : WatchOK(v)
  /\ \A c \in Calls : CallOK(c)
  /\ AnswersAgree
QueueIInv == AdmissionTypes /\ QueueOK

LEMMA TwoParts == CreationIInv <=> RestIInv /\ QueueIInv
  BY TypesAre DEF CreationIInv, RestIInv, QueueIInv

LEMMA PartsNext == RestIInv' /\ QueueIInv' => CreationIInv'
  <1>1. ASSUME RestIInv', QueueIInv' PROVE TypeOK'
    BY <1>1 DEF TypeOK, RestIInv, QueueIInv, ExecTypes, CallTypes, RecordTypes, WatchTypes,
                AdmissionTypes, HistoryTypes
  <1> QED
    BY <1>1 DEF CreationIInv, RestIInv, QueueIInv

LEMMA QueueStands ==
  ASSUME QueueIInv, UNCHANGED <<queue, admitting, space, spaceBody>>,
         \A y \in Executions : At(y, "admit") => At(y, "admit")'
  PROVE  QueueIInv'
  <1>1. AdmissionTypes'
    BY DEF QueueIInv, AdmissionTypes
  <1>2. ASSUME NEW i \in 1 .. Len(queue) PROVE At(queue[i], "admit")'
    <2>1. PICK y \in Executions : y = queue[i]
      BY DEF QueueIInv, AdmissionTypes
    <2>2. At(y, "admit")'
      BY <2>1 DEF QueueIInv, QueueOK
    <2> QED
      BY <2>1, <2>2 DEF At
  <1> QED
    BY <1>1, <1>2 DEF QueueIInv, QueueOK

LEMMA QueueKept ==
  ASSUME QueueIInv, UNCHANGED admissionVars, UNCHANGED <<space, spaceBody>>,
         \A y \in Executions : At(y, "admit") => exec'[y] = exec[y]
  PROVE  QueueIInv'
  <1>1. AdmissionTypes'
    BY DEF QueueIInv, AdmissionTypes, admissionVars
  <1>2. \A i \in 1 .. Len(queue) : queue[i] \in Executions /\ At(queue[i], "admit")
    BY DEF QueueIInv, AdmissionTypes, QueueOK
  <1>3. \A i \in 1 .. Len(queue) : At(queue[i], "admit")'
    BY <1>2 DEF At, admissionVars
  <1>4. queue' = queue
    BY DEF admissionVars
  <1>5. QueueOK'
    BY <1>3, <1>4 DEF QueueOK, QueueIInv, admissionVars
  <1> QED
    BY <1>1, <1>5 DEF QueueIInv

\* x does not come to carry a receipt that it did not take.
SafeMove(x) ==
  Working(x)' =>
    \/ exec'[x].at <= ReceiptAt(x)
    \/ Working(x) /\ ReceiptAt(x) < exec[x].at /\ exec[x].at <= exec'[x].at
    \/ exec'[x].at > RequestAt(x) /\ receipt[KeyFor(x)].state # "none"

LEMMA PlacesAre ==
  ASSUME NEW x \in Executions
  PROVE  /\ AgentFrom(x) \in Nat
         /\ ReceiptAt(x) \in Nat /\ RequestAt(x) \in Nat /\ ReceiptAt(x) < RequestAt(x)
         /\ ReceiptAt(x) >= 4
  <1>1. AgentFrom(x) \in Nat
    BY PlanOfKeys, PlanOfDirect, ExecutionKinds
  <1> QED
    BY <1>1 DEF ReceiptAt, RequestAt

LEMMA MutationKept ==
  ASSUME ExecTypes, ExecTypes', MutationOK, UNCHANGED made,
         \A k \in Keys : receipt'[k].state = "none" => receipt[k].state = "none",
         \A x \in Executions : SafeMove(x)
  PROVE  MutationOK'
  <1>1. \A x \in Executions : /\ exec[x].at \in Nat /\ exec'[x].at \in Nat
                              /\ KeyFor(x) \in Keys
    BY ExecutionKinds DEF ExecTypes, Execution
  <1>2. ASSUME NEW x \in Executions PROVE ReceiptOK(x)'
    <2>1. SUFFICES ASSUME receipt'[KeyFor(x)].state = "none"
                   PROVE  made[x] = 0 /\ (Working(x)' => exec'[x].at <= ReceiptAt(x))
      BY DEF ReceiptOK
    <2>2. receipt[KeyFor(x)].state = "none"
      BY <1>1, <2>1
    <2>3. made[x] = 0 /\ (Working(x) => exec[x].at <= ReceiptAt(x))
      BY <2>2 DEF MutationOK, ReceiptOK
    <2>4. SafeMove(x)
      OBVIOUS
    <2> QED
      BY <1>1, <2>2, <2>3, <2>4, PlacesAre DEF SafeMove
  <1>3. ASSUME NEW x \in Executions, Carrying(x)' PROVE Carrying(x)
    <2>1. SafeMove(x)
      OBVIOUS
    <2>2. Working(x)' /\ ReceiptAt(x) < exec'[x].at /\ exec'[x].at <= RequestAt(x)
      BY <1>3 DEF Carrying
    <2> QED
      BY <1>1, <2>1, <2>2, PlacesAre DEF SafeMove, Carrying
  <1>4. ASSUME NEW x \in Executions PROVE CarryOK(x)' /\ MadeOK(x)'
    <2>1. CarryOK(x) /\ MadeOK(x)
      BY DEF MutationOK
    <2>2. Twins(x) \subseteq Executions
      BY DEF Twins
    <2>3. MadeOK(x)'
      BY <2>1, <2>2 DEF MadeOK, Twins
    <2>4. CarryOK(x)'
      <3> SUFFICES ASSUME Carrying(x)', NEW y \in Twins(x)
                   PROVE  made'[y] = 0 /\ (y # x => ~Carrying(y)')
        BY DEF CarryOK, Twins
      <3>1. Carrying(x)
        BY <1>3
      <3> QED
        BY <1>3, <2>1, <2>2, <3>1 DEF CarryOK
    <2> QED
      BY <2>3, <2>4
  <1> QED
    BY <1>2, <1>4 DEF MutationOK

\* How a record may change.
Advances(k) ==
  \/ journal'[k] = journal[k]
  \/ /\ journal'[k].phase # "none"
     /\ \/ journal[k].phase = "none"
        \/ /\ ~Terminal(journal[k])
           /\ journal'[k].revision = journal[k].revision + 1
           /\ journal[k].bound => journal'[k].bound
           /\ journal'[k].body = journal[k].body

LEMMA SnapshotKept ==
  ASSUME NEW k \in Journaled, RecordTypes, RecordTypes', Advances(k),
         NEW r \in JournalRecord, SnapshotOK(r, k)
  PROVE  SnapshotOK(r, k)'
  <1>1. journal[k].revision \in Nat /\ r.revision \in Nat
    BY DEF RecordTypes, JournalRecord
  <1> QED
    BY <1>1 DEF SnapshotOK, Advances, Terminal

LEMMA AnswerKept ==
  ASSUME NEW k, NEW r, Advances(k), Answers(r, k)
  PROVE  Answers(r, k)'
  BY DEF Answers, Advances, Terminal

LEMMA WatchesKept ==
  ASSUME RecordTypes, RecordTypes', WatchTypes, \A v \in Watchers : WatchOK(v),
         \A k \in Journaled : Advances(k),
         \A v \in Watchers : watch'[v] = watch[v] \/ watch'[v].pc = "idle"
  PROVE  \A v \in Watchers : WatchOK(v)'
  <1> SUFFICES ASSUME NEW v \in Watchers, watch'[v].pc # "idle" PROVE WatchOK(v)'
    BY DEF WatchOK
  <1>1. watch'[v] = watch[v] /\ watch[v].pc # "idle" /\ watch[v].key \in Journaled
    BY DEF WatchOK
  <1>2. PICK r \in JournalRecord : r = watch[v].copy
    BY DEF WatchTypes
  <1>3. PICK k \in Journaled : k = watch[v].key
    BY <1>1
  <1>4. watch[v].pc = "recover" => SnapshotOK(r, k)
    BY <1>2, <1>3 DEF WatchOK
  <1>5. watch[v].pc = "recover" => SnapshotOK(r, k)'
    BY <1>4, SnapshotKept
  <1>6. watch'[v].copy = r /\ watch'[v].key = k
    BY <1>1, <1>2, <1>3
  <1> QED
    BY <1>1, <1>5, <1>6 DEF WatchOK

LEMMA AnswersKept ==
  ASSUME AnswersAgree, UNCHANGED told, \A k \in Journaled : Advances(k)
  PROVE  AnswersAgree'
  <1> SUFFICES ASSUME NEW k \in Journaled, NEW r \in told[k]
               PROVE  Terminal(r) /\ r = journal'[k]
    BY DEF AnswersAgree, Terminal
  <1>1. Answers(r, k)
    BY DEF AnswersAgree, Answers
  <1>2. Answers(r, k)'
    BY <1>1, AnswerKept
  <1> QED
    BY <1>2 DEF Answers, Terminal

\* Requests hold what they held, a failure, or the record's final state.
CallsAnswered ==
  \A c \in Calls :
    \/ call'[c].outcome \in {call[c].outcome, Pending}
    \/ /\ c \notin Direct
       /\ \/ call'[c].outcome = Error
          \/ Terminal(call'[c].outcome) /\ call'[c].outcome = journal'[KeyOf[c]]

LEMMA CallsKept ==
  ASSUME \A c \in Calls : CallOK(c), CallsAnswered, \A k \in Journaled : Advances(k)
  PROVE  \A c \in Calls : CallOK(c)'
  <1> SUFFICES ASSUME NEW c \in Calls PROVE CallOK(c)'
    OBVIOUS
  <1>1. CallOK(c)
    OBVIOUS
  <1>2. CASE c \in Direct
    BY <1>1, <1>2 DEF CallOK, CallsAnswered
  <1>3. CASE c \notin Direct
    <2>1. KeyOf[c] \in Journaled
      BY <1>3, ExecutionKinds
    <2>2. CASE call'[c].outcome = call[c].outcome
      <3>1. CASE call[c].outcome \in {Pending, Error}
        BY <1>3, <2>2, <3>1 DEF CallOK
      <3>2. CASE Answers(call[c].outcome, KeyOf[c])
        <4>1. Advances(KeyOf[c])
          BY <2>1
        <4>2. journal'[KeyOf[c]] = journal[KeyOf[c]]
          BY <3>2, <4>1 DEF Answers, Advances, Terminal
        <4> QED
          BY <1>3, <2>2, <3>2, <4>2 DEF CallOK, Answers, Terminal
      <3> QED
        BY <1>1, <1>3, <3>1, <3>2 DEF CallOK
    <2>3. CASE call'[c].outcome # call[c].outcome
      BY <1>3, <2>3 DEF CallOK, CallsAnswered, Answers, Terminal
    <2> QED
      BY <2>2, <2>3
  <1> QED
    BY <1>2, <1>3

LEMMA SettledAnswers ==
  ASSUME NEW o, CallsSettle(o), o \in {Error, Pending}
  PROVE  CallsAnswered
  BY DEF CallsSettle, CallsAnswered

LEMMA KeyKept ==
  ASSUME NEW k \in Journaled, KeyOK(k), exec'[k] = exec[k], copy'[k] = copy[k],
         journal'[k] = journal[k], receipt'[k] = receipt[k], made'[k] = made[k]
  PROVE  KeyOK(k)'
  BY DEF KeyOK, ModeOK, OwnerOK, PlaceOK, RecordOK, Owner, Behind, Terminal

LEMMA KeyOff ==
  ASSUME NEW k \in Journaled, exec'[k].mode = "off", RecordOK(k)'
  PROVE  KeyOK(k)'
  BY DEF KeyOK, ModeOK, OwnerOK, PlaceOK, Owner

LEMMA RecordKept ==
  ASSUME NEW k \in Journaled, RecordOK(k), journal'[k] = journal[k],
         receipt'[k] = receipt[k], made'[k] = made[k]
  PROVE  RecordOK(k)'
  BY DEF RecordOK

LEMMA WorkingKept ==
  ASSUME ExecTypes, NEW x \in Executions, exec'[x] = exec[x],
         x \in Journaled => copy'[x] = copy[x]
  PROVE  SafeMove(x)
  <1>1. exec[x].at \in Nat
    BY DEF ExecTypes, Execution
  <1>2. Working(x)' <=> Working(x)
    BY DEF Working, Terminal
  <1> QED
    BY <1>1, <1>2, PlacesAre DEF SafeMove

\* A step of one keyed execution that neither creates an agent nor touches the
\* receipts.
LEMMA KeyStep ==
  ASSUME RestIInv, NEW k \in Journaled,
         ExecTypes', CallTypes', RecordTypes', WatchTypes', HistoryTypes',
         \A y \in Executions \ {k} : exec'[y] = exec[y],
         \A j \in Journaled \ {k} : copy'[j] = copy[j] /\ journal'[j] = journal[j],
         Advances(k), KeyOK(k)', SafeMove(k),
         UNCHANGED <<receipt, made, told>>,
         \A v \in Watchers : watch'[v] = watch[v] \/ watch'[v].pc = "idle",
         CallsAnswered
  PROVE  RestIInv' /\ \A j \in Journaled : Advances(j)
  <1>1. \A j \in Journaled : Advances(j)
    BY DEF Advances
  <1>2. ASSUME NEW x \in Executions PROVE SafeMove(x)
    <2>1. CASE x = k
      BY <2>1
    <2>2. CASE x # k
      <3>1. exec'[x] = exec[x] /\ (x \in Journaled => copy'[x] = copy[x])
        BY <2>2
      <3> QED
        BY <3>1, WorkingKept DEF RestIInv
    <2> QED
      BY <2>1, <2>2
  <1>3. MutationOK'
    BY <1>2, MutationKept DEF RestIInv
  <1>4. ASSUME NEW j \in Journaled PROVE KeyOK(j)'
    <2>1. CASE j = k
      BY <2>1
    <2>2. CASE j # k
      <3>1. /\ exec'[j] = exec[j] /\ copy'[j] = copy[j] /\ journal'[j] = journal[j]
            /\ receipt'[j] = receipt[j] /\ made'[j] = made[j]
        BY <2>2, ExecutionKinds
      <3>2. KeyOK(j)
        BY DEF RestIInv
      <3> QED
        BY <3>1, <3>2, KeyKept
    <2> QED
      BY <2>1, <2>2
  <1>5. DirectOK'
    BY ExecutionKinds DEF RestIInv, DirectOK
  <1>6. \A v \in Watchers : WatchOK(v)'
    BY <1>1, WatchesKept DEF RestIInv
  <1>7. \A c \in Calls : CallOK(c)'
    BY <1>1, CallsKept DEF RestIInv
  <1>8. AnswersAgree'
    BY <1>1, AnswersKept DEF RestIInv
  <1> QED
    BY <1>1, <1>3, <1>4, <1>5, <1>6, <1>7, <1>8 DEF RestIInv
-----------------------------------------------------------------------------
(* Steps that pass or fail.                                                 *)

\* A keyed execution behind whose steps nothing is left to write goes on.
LEMMA KeyPasses ==
  ASSUME ExecTypes, NEW k \in Journaled, KeyOK(k), exec[k].mode = "go",
         Plan(k)[exec[k].at] \notin Progresses \cup {"record", "request"},
         exec'[k].mode = "go", exec'[k].at = exec[k].at + 1, exec'[k].ok = exec[k].ok,
         copy'[k] = copy[k], journal'[k] = journal[k], made'[k] = made[k],
         receipt'[k] = receipt[k] \/ (exec[k].at >= ReceiptAt(k) /\ RecordOK(k)')
  PROVE  KeyOK(k)'
  <1>1. exec[k].at \in 1 .. Len(Plan(k)) /\ k \in Executions
    BY ExecutionKinds, PlanOfKeys DEF ExecTypes, Execution
  <1>2. AgentFrom(k) \in Nat /\ (k \in Creating => AgentFrom(k) >= 4) /\ AgentFrom(k) >= 2
    BY PlanOfKeys
  <1>3. /\ exec[k].at # 2
        /\ k \in Creating => exec[k].at # 3
        /\ exec[k].at # MarkAt(k) /\ exec[k].at # RequestAt(k) /\ exec[k].at # AnswerAt(k)
        /\ WithAgent(k) => exec[k].at # BindAt(k)
    BY <1>1, PlanOfKeys DEF Progresses
  <1>4. Owner(k)' => Owner(k)
    BY <1>1, <1>3 DEF Owner
  <1>5. ModeOK(k)'
    BY <1>1, <1>3 DEF KeyOK, ModeOK
  <1>6. OwnerOK(k)'
    BY <1>4 DEF KeyOK, OwnerOK, Terminal
  <1>7. RecordOK(k)'
    BY RecordKept DEF KeyOK
  <1>8. PlaceOK(k)'
    <2> SUFFICES ASSUME Owner(k)', ~Terminal(copy[k]) PROVE PlaceOK(k)'
      BY DEF PlaceOK, Terminal
    <2>1. /\ exec[k].at <= ReceiptAt(k) => receipt[k].state = "none"
          /\ exec[k].at < RequestAt(k) => made[k] = 0
          /\ Behind(k, MarkAt(k)) => copy[k].dispatching
          /\ exec[k].at > RequestAt(k) => made[k] = IF exec[k].ok THEN 1 ELSE 0
          /\ Behind(k, AnswerAt(k)) => exec[k].ok
          /\ k \in Creating /\ Behind(k, 3) => copy[k].dispatching \/ copy[k].bound
          /\ WithAgent(k) /\ Behind(k, BindAt(k)) => copy[k].bound
      BY <1>4 DEF KeyOK, PlaceOK
    <2>2. /\ MarkAt(k) \in Nat /\ RequestAt(k) \in Nat /\ AnswerAt(k) \in Nat
          /\ BindAt(k) \in Nat /\ ReceiptAt(k) \in Nat
      BY <1>1, <1>2, PlacesAre DEF MarkAt, AnswerAt, BindAt
    <2>a. /\ exec[k].at \in Nat
          /\ exec'[k].at <= ReceiptAt(k) => exec[k].at <= ReceiptAt(k) /\ exec[k].at # ReceiptAt(k)
          /\ exec'[k].at < RequestAt(k) => exec[k].at < RequestAt(k)
          /\ exec'[k].at > RequestAt(k) => exec[k].at > RequestAt(k)
      BY <1>1, <1>3, <2>2
    <2>b. exec'[k].at <= ReceiptAt(k) => receipt'[k] = receipt[k]
      BY <2>2, <2>a
    <2>3. /\ exec'[k].at <= ReceiptAt(k) => receipt'[k].state = "none"
          /\ exec'[k].at < RequestAt(k) => made'[k] = 0
          /\ exec'[k].at > RequestAt(k) => made'[k] = IF exec'[k].ok THEN 1 ELSE 0
      BY <2>1, <2>a, <2>b
    <2>d. \A i \in Nat : exec[k].at # i /\ Behind(k, i)' => Behind(k, i)
      BY <2>a DEF Behind
    <2>c. /\ Behind(k, MarkAt(k))' => Behind(k, MarkAt(k))
          /\ Behind(k, AnswerAt(k))' => Behind(k, AnswerAt(k))
          /\ k \in Creating /\ Behind(k, 3)' => Behind(k, 3)
          /\ WithAgent(k) /\ Behind(k, BindAt(k))' => Behind(k, BindAt(k))
      BY <1>3, <2>2, <2>d
    <2>4. /\ Behind(k, MarkAt(k))' => copy'[k].dispatching
          /\ Behind(k, AnswerAt(k))' => exec'[k].ok
          /\ k \in Creating /\ Behind(k, 3)' => copy'[k].dispatching \/ copy'[k].bound
          /\ WithAgent(k) /\ Behind(k, BindAt(k))' => copy'[k].bound
      BY <2>1, <2>c
    <2> QED
      BY <2>3, <2>4 DEF PlaceOK
  <1> QED
    BY <1>5, <1>6, <1>7, <1>8 DEF KeyOK

\* A keyed execution whose step threw.
LEMMA KeyCaught ==
  ASSUME ExecTypes, NEW k \in Journaled, KeyOK(k), exec[k].mode = "go",
         exec'[k].mode = "catch", exec[k].at >= 3,
         exec'[k].at = exec[k].at, exec'[k].ok = exec[k].ok,
         copy'[k] = copy[k], RecordOK(k)',
         \/ journal'[k] = journal[k]
         \/ journal'[k].phase # "none" /\ journal'[k].revision # copy[k].revision,
         made'[k] = made[k] \/ exec[k].at = RequestAt(k)
  PROVE  KeyOK(k)'
  <1>1. exec[k].at \in Nat /\ AgentFrom(k) \in Nat
    BY ExecutionKinds, PlanOfKeys DEF ExecTypes, Execution
  <1>2. Owner(k)
    BY DEF Owner
  <1>3. ModeOK(k)' /\ OwnerOK(k)'
    BY <1>2 DEF KeyOK, ModeOK, OwnerOK, Terminal
  <1>4. PlaceOK(k)'
    <2> SUFFICES ASSUME ~Terminal(copy[k]) PROVE PlaceOK(k)'
      BY DEF PlaceOK, Terminal
    <2>1. /\ exec[k].at < RequestAt(k) => made[k] = 0
          /\ Behind(k, MarkAt(k)) => copy[k].dispatching
          /\ exec[k].at > RequestAt(k) => made[k] = IF exec[k].ok THEN 1 ELSE 0
          /\ Behind(k, AnswerAt(k)) => exec[k].ok
          /\ k \in Creating /\ Behind(k, 3) => copy[k].dispatching \/ copy[k].bound
          /\ WithAgent(k) /\ Behind(k, BindAt(k)) => copy[k].bound
      BY <1>2 DEF KeyOK, PlaceOK
    <2>2. RequestAt(k) \in Nat
      BY ExecutionKinds, PlacesAre
    <2>3. /\ exec'[k].at < RequestAt(k) => made'[k] = 0
          /\ exec'[k].at > RequestAt(k) => made'[k] = IF exec'[k].ok THEN 1 ELSE 0
      BY <1>1, <2>1, <2>2
    <2>4. \A i : Behind(k, i)' => Behind(k, i)
      BY DEF Behind
    <2> QED
      BY <2>1, <2>3, <2>4 DEF PlaceOK
  <1> QED
    BY <1>3, <1>4 DEF KeyOK

LEMMA PlanLength ==
  ASSUME NEW x \in Executions
  PROVE  Len(Plan(x)) \in Nat /\ Len(Plan(x)) >= 4
  <1>1. CASE x \in Journaled
    BY <1>1, PlanOfKeys
  <1>2. CASE x \in Direct
    BY <1>2, PlanOfDirect, PlacesAre
  <1> QED
    BY <1>1, <1>2, ExecutionKinds

LEMMA StartTypes ==
  ASSUME ExecTypes, NEW x \in Executions, NEW m, NEW b, Moved(x, m, 1, b)
  PROVE  ExecTypes'
  <1>1. \A y \in Executions : exec'[y].at <= Len(Plan(y))
    <2> TAKE y \in Executions
    <2>1. CASE y = x
      BY <2>1, PlanLength DEF Moved
    <2>2. CASE y # x
      BY <2>2 DEF Moved, ExecTypes
    <2> QED
      BY <2>1, <2>2
  <1> QED
    BY <1>1 DEF ExecTypes, Moved

\* A step that reads, or that waits for the admission.
LEMMA PlainMoves ==
  ASSUME RestIInv, NEW x \in Executions, exec[x].mode = "go",
         Plan(x)[exec[x].at] \notin Progresses \cup {"record", "receipt", "request"},
         Passes(x) \/ Throws(x), UNCHANGED copy
  PROVE  /\ ExecTypes' /\ CallTypes' /\ CallsAnswered /\ SafeMove(x)
         /\ \A y \in Executions \ {x} : exec'[y] = exec[y]
         /\ x \in Direct => exec'[x].mode \in {"off", "go"}
         /\ x \in Journaled /\ exec'[x].mode # "off" =>
              \/ exec'[x].mode = "go" /\ exec'[x].at = exec[x].at + 1 /\ exec'[x].ok = exec[x].ok
              \/ /\ exec'[x].mode = "catch" /\ exec[x].at >= 3
                 /\ exec'[x].at = exec[x].at /\ exec'[x].ok = exec[x].ok
  <1>1. exec[x].at \in 1 .. Len(Plan(x)) /\ ExecTypes /\ CallTypes
    BY PlanOfKeys, PlanOfDirect, ExecutionKinds DEF RestIInv, ExecTypes, Execution
  <1>2. AgentFrom(x) \in Nat /\ exec[x].at # ReceiptAt(x)
        /\ (x \in Journaled => exec[x].at # Len(Plan(x)))
    BY <1>1, PlanOfKeys, PlanOfDirect, ExecutionKinds DEF Progresses
  <1>3. Working(x)
    BY DEF Working
  <1>4. CASE Passes(x)
    <2>1. CallsSettle(Error)
      BY <1>1, <1>4, PassesIs
    <2>2. CASE x \in Direct /\ Moved(x, "off", 1, FALSE)
      <3>1. ExecTypes'
        BY <1>1, <2>2, StartTypes
      <3>2. SafeMove(x)
        BY <2>2, ExecutionKinds DEF Moved, SafeMove, Working
      <3> QED
        BY <2>1, <2>2, <3>1, <3>2, SettledAnswers, ExecutionKinds DEF CallsSettle, Moved
    <2>3. CASE /\ Moved(x, "go", exec[x].at + 1, exec[x].ok)
               /\ x \in Direct => exec[x].at # Len(Plan(x))
      <3>1. exec[x].at + 1 <= Len(Plan(x))
        BY <1>1, <1>2, <2>3, ExecutionKinds
      <3>2. ExecTypes'
        BY <1>1, <2>3, <3>1 DEF ExecTypes, Moved
      <3>3. SafeMove(x)
        BY <1>1, <1>2, <1>3, <2>3, PlacesAre DEF SafeMove, Moved
      <3> QED
        BY <2>1, <2>3, <3>2, <3>3, SettledAnswers DEF CallsSettle, Moved
    <2> QED
      BY <1>1, <1>4, <2>2, <2>3, PassesIs
  <1>5. CASE Throws(x)
    <2>1. CallsSettle(Error)
      BY <1>1, <1>5, ThrowsIs
    <2>2. CASE Moved(x, "off", 1, FALSE)
      <3>1. ExecTypes'
        BY <1>1, <2>2, StartTypes
      <3>2. SafeMove(x)
        BY <2>2 DEF Moved, SafeMove, Working
      <3> QED
        BY <2>1, <2>2, <3>1, <3>2, SettledAnswers DEF CallsSettle, Moved
    <2>3. CASE x \in Journaled /\ exec[x].at >= 3 /\ Moved(x, "catch", exec[x].at, exec[x].ok)
      <3>1. ExecTypes'
        BY <1>1, <2>3 DEF ExecTypes, Moved
      <3>2. SafeMove(x)
        BY <2>3 DEF Moved, SafeMove, Working
      <3> QED
        BY <2>1, <2>3, <3>1, <3>2, SettledAnswers, ExecutionKinds DEF CallsSettle, Moved
    <2> QED
      BY <1>1, <1>5, <2>2, <2>3, ThrowsIs
  <1> QED
    BY <1>4, <1>5

LEMMA StepKeeps ==
  ASSUME RestIInv, NEW x \in Executions, exec[x].mode = "go",
         Plan(x)[exec[x].at] \notin Progresses \cup {"record", "receipt", "request"},
         Passes(x) \/ Throws(x),
         UNCHANGED <<journal, copy, receipt, made, watch, listeners, told>>
  PROVE  RestIInv' /\ \A k \in Journaled : Advances(k)
  <1>1. /\ ExecTypes' /\ CallTypes' /\ CallsAnswered /\ SafeMove(x)
        /\ \A y \in Executions \ {x} : exec'[y] = exec[y]
    BY PlainMoves
  <1>2. RecordTypes' /\ WatchTypes' /\ HistoryTypes'
    BY DEF RestIInv, RecordTypes, WatchTypes, HistoryTypes
  <1>3. \A k \in Journaled : Advances(k)
    BY DEF Advances
  <1>4. CASE x \in Journaled
    <2>1. KeyOK(x)
      BY <1>4 DEF RestIInv
    <2>2. RecordOK(x)'
      BY <1>4, <2>1, RecordKept DEF KeyOK
    <2>3. \/ exec'[x].mode = "off"
          \/ exec'[x].mode = "go" /\ exec'[x].at = exec[x].at + 1 /\ exec'[x].ok = exec[x].ok
          \/ /\ exec'[x].mode = "catch" /\ exec[x].at >= 3
             /\ exec'[x].at = exec[x].at /\ exec'[x].ok = exec[x].ok
      BY <1>4, PlainMoves
    <2>4. KeyOK(x)'
      BY <1>4, <2>1, <2>2, <2>3, KeyOff, KeyPasses, KeyCaught DEF RestIInv
    <2> QED
      BY <1>1, <1>2, <1>3, <1>4, <2>4, KeyStep
  <1>5. CASE x \in Direct
    <2>1. x \notin Journaled /\ Journaled \subseteq Executions
      BY <1>5, ExecutionKinds
    <2>2. ASSUME NEW y \in Executions PROVE SafeMove(y)
      <3>1. CASE y # x
        <4>1. exec'[y] = exec[y] /\ (y \in Journaled => copy'[y] = copy[y])
          BY <1>1, <3>1
        <4> QED
          BY <4>1, WorkingKept DEF RestIInv
      <3> QED
        BY <1>1, <3>1
    <2>3. MutationOK'
      BY <1>1, <2>2, MutationKept DEF RestIInv
    <2>4. \A k \in Journaled : KeyOK(k)'
      BY <1>1, <2>1, KeyKept DEF RestIInv
    <2>5. DirectOK'
      BY <1>1, <1>5, PlainMoves, ExecutionKinds DEF RestIInv, DirectOK
    <2>6. \A v \in Watchers : WatchOK(v)'
      BY <1>2, <1>3, WatchesKept DEF RestIInv
    <2>7. \A c \in Calls : CallOK(c)'
      BY <1>1, <1>3, CallsKept DEF RestIInv
    <2>8. AnswersAgree'
      BY <1>3, AnswersKept DEF RestIInv
    <2> QED
      BY <1>1, <1>2, <1>3, <2>3, <2>4, <2>5, <2>6, <2>7, <2>8 DEF RestIInv
  <1> QED
    BY <1>4, <1>5, ExecutionKinds
-----------------------------------------------------------------------------
(* The journal.                                                             *)

LEMMA EndTypes ==
  ASSUME ExecTypes, CallTypes, NEW k \in Journaled,
         NEW o \in JournalRecord \cup {Pending, Error}, Ends(k, o)
  PROVE  /\ ExecTypes' /\ CallTypes' /\ SafeMove(k) /\ exec'[k].mode = "off"
         /\ \A y \in Executions \ {k} : exec'[y] = exec[y]
         /\ \A c \in Calls : \/ call'[c].outcome = call[c].outcome
                             \/ KeyOf[c] = k /\ c \notin Direct /\ call'[c].outcome = o
  <1>1. k \in Executions
    BY ExecutionKinds
  <1>2. Moved(k, "off", 1, FALSE) /\ CallsSettle(o)
    BY <1>1, EndsIs
  <1>3. \A c \in Calls : \/ call'[c].outcome = call[c].outcome
                         \/ KeyOf[c] = k /\ call'[c].outcome = o
    BY <1>1, EndsIs
  <1>4. ExecTypes'
    BY <1>1, <1>2, StartTypes
  <1>5. SafeMove(k)
    BY <1>2 DEF Moved, SafeMove, Working
  <1> QED
    BY <1>2, <1>3, <1>4, <1>5, ExecutionKinds DEF Moved, CallsSettle

LEMMA EndsInError ==
  ASSUME ExecTypes, CallTypes, NEW k \in Journaled, Ends(k, Error)
  PROVE  CallsAnswered
  BY EndTypes DEF CallsAnswered

LEMMA CreateRecordKeeps ==
  ASSUME RestIInv, NEW k \in Journaled, CreateRecord(k)
  PROVE  RestIInv' /\ \A j \in Journaled : Advances(j)
  <1>1. /\ k \in Executions /\ exec[k].mode = "go" /\ exec[k].at = 2
        /\ Plan(k)[exec[k].at] = "record" /\ AgentFrom(k) >= 2 /\ AgentFrom(k) \in Nat
        /\ k \in Creating => AgentFrom(k) >= 4
        /\ ReceiptAt(k) >= 4 /\ ReceiptAt(k) < RequestAt(k)
        /\ ReceiptAt(k) \in Nat /\ RequestAt(k) \in Nat
    <2>1. k \in Executions /\ At(k, "record")
      BY ExecutionKinds DEF CreateRecord
    <2>2. exec[k].at \in 1 .. Len(Plan(k))
      BY <2>1, PlanLength DEF RestIInv, ExecTypes, Execution
    <2> QED
      BY <2>1, <2>2, PlanOfKeys, PlacesAre DEF At
  <1>2. /\ ExecTypes /\ CallTypes /\ RecordTypes /\ KeyOK(k) /\ copy[k].phase = "accepted"
        /\ made[k] = 0 \/ receipt[k].state # "none"
    BY <1>1, ExecutionKinds DEF RestIInv, KeyOK, ModeOK, MutationOK, ReceiptOK
  <1>3. /\ UNCHANGED <<receipt, made, told, watch, copy>>
        /\ WatchTypes'
    BY DEF CreateRecord, RestIInv, WatchTypes
  <1>4. HistoryTypes'
    <2>1. Subscribing \subseteq Calls
      BY CreationAssumption
    <2>2. listeners \subseteq Calls \cup Watchers
      BY DEF RestIInv, HistoryTypes
    <2>3. listeners' \subseteq Calls \cup Watchers
      BY <2>1, <2>2 DEF CreateRecord
    <2> QED
      BY <1>3, <2>3 DEF RestIInv, HistoryTypes
  <1>5. copy[k] \in JournalRecord
    BY <1>2 DEF RecordTypes
  <1>6. Throws(k) => Ends(k, Error)
    BY <1>1 DEF Throws
  <1>7. /\ RecordTypes' /\ Advances(k) /\ RecordOK(k)'
        /\ \A j \in Journaled \ {k} : copy'[j] = copy[j] /\ journal'[j] = journal[j]
    <2>1. CASE journal[k].phase = "none" /\ journal' = [journal EXCEPT ![k] = copy[k]]
      <3>1. journal'[k] = copy[k] /\ RecordTypes'
            /\ \A j \in Journaled \ {k} : journal'[j] = journal[j]
        BY <1>2, <1>3, <1>5, <2>1 DEF RecordTypes
      <3> QED
        BY <1>2, <1>3, <2>1, <3>1 DEF Advances, RecordOK
    <2>2. CASE UNCHANGED journal
      BY <1>2, <1>3, <2>2, RecordKept DEF RecordTypes, Advances, KeyOK
    <2> QED
      BY <2>1, <2>2 DEF CreateRecord
  <1>8. CASE Throws(k)
    <2>1. Ends(k, Error)
      BY <1>6, <1>8
    <2>2. /\ ExecTypes' /\ CallTypes' /\ SafeMove(k) /\ exec'[k].mode = "off" /\ CallsAnswered
          /\ \A y \in Executions \ {k} : exec'[y] = exec[y]
      BY <1>2, <2>1, EndTypes, EndsInError
    <2>3. KeyOK(k)'
      BY <1>7, <2>2, KeyOff
    <2> QED
      BY <1>3, <1>4, <1>7, <2>2, <2>3, KeyStep
  <1>9. ASSUME NEW m \in {"publish", "replay"}, exec' = [exec EXCEPT ![k].mode = m],
               UNCHANGED call,
               m = "publish" => journal[k].phase = "none" /\ journal'[k] = copy[k],
               m = "replay" => journal[k].phase # "none" /\ journal' = journal
        PROVE  RestIInv' /\ \A j \in Journaled : Advances(j)
    <2>1. m \in Modes
      BY DEF Modes
    <2>2. Moved(k, m, exec[k].at, exec[k].ok)
      BY <1>1, <1>2, <1>9, <2>1, MoveMode
    <2>3. exec'[k].mode = m /\ exec'[k].at = 2 /\ exec'[k].ok = exec[k].ok
      BY <1>1, <2>2 DEF Moved
    <2>4. ExecTypes' /\ CallTypes' /\ CallsAnswered
      BY <1>1, <1>2, <1>9, <2>2 DEF ExecTypes, CallTypes, CallsAnswered, Moved
    <2>5. SafeMove(k)
      BY <1>1, <2>3 DEF SafeMove
    <2>6. ASSUME m = "publish" PROVE KeyOK(k)'
      <3>1. ModeOK(k)'
        BY <1>1, <2>3, <2>6 DEF ModeOK
      <3>2. OwnerOK(k)'
        BY <1>2, <1>3, <1>9, <2>3, <2>6 DEF OwnerOK, Terminal
      <3>3. receipt[k].state = "none" /\ made[k] = 0
        BY <1>2, <1>9, <2>6 DEF KeyOK, RecordOK
      <3>4. PlaceOK(k)'
        BY <1>1, <1>3, <2>3, <2>6, <3>3 DEF PlaceOK, Behind, MarkAt, AnswerAt, BindAt
      <3> QED
        BY <1>7, <3>1, <3>2, <3>4 DEF KeyOK
    <2>7. ASSUME m = "replay" PROVE KeyOK(k)'
      BY <1>7, <1>9, <2>3, <2>7 DEF KeyOK, ModeOK, OwnerOK, PlaceOK, Owner
    <2>8. KeyOK(k)'
      BY <2>6, <2>7
    <2> QED
      BY <1>3, <1>4, <1>7, <2>2, <2>4, <2>5, <2>8, KeyStep DEF Moved
  <1>10. journal[k].phase = "none" /\ journal' = [journal EXCEPT ![k] = copy[k]]
         => journal'[k] = copy[k]
    BY <1>2 DEF RecordTypes
  <1> QED
    BY <1>8, <1>9, <1>10 DEF CreateRecord

LEMMA ReplayKeeps ==
  ASSUME RestIInv, NEW k \in Journaled, Replay(k)
  PROVE  RestIInv' /\ \A j \in Journaled : Advances(j)
  <1>1. /\ k \in Executions /\ exec[k].mode = "replay" /\ exec[k].at = 2
        /\ journal[k].phase # "none" /\ KeyOK(k)
        /\ ExecTypes /\ CallTypes /\ RecordTypes /\ ReceiptAt(k) >= 4 /\ ReceiptAt(k) \in Nat
    BY ExecutionKinds, PlacesAre DEF Replay, RestIInv, KeyOK, ModeOK
  <1>2. UNCHANGED <<journal, receipt, made, told, watch, listeners>>
    BY DEF Replay, storeVars
  <1>3. WatchTypes' /\ HistoryTypes' /\ Advances(k) /\ RecordOK(k)'
    BY <1>1, <1>2, RecordKept DEF RestIInv, WatchTypes, HistoryTypes, Advances, KeyOK
  <1>4. CASE Ends(k, Error) /\ UNCHANGED copy
    <2>1. /\ ExecTypes' /\ CallTypes' /\ SafeMove(k) /\ exec'[k].mode = "off" /\ CallsAnswered
          /\ \A y \in Executions \ {k} : exec'[y] = exec[y]
      BY <1>1, <1>4, EndTypes, EndsInError
    <2>2. KeyOK(k)'
      BY <1>3, <2>1, KeyOff
    <2>3. RecordTypes'
      BY <1>1, <1>2, <1>4 DEF RecordTypes
    <2> QED
      BY <1>2, <1>3, <1>4, <2>1, <2>2, <2>3, KeyStep
  <1>5. CASE /\ copy' = [copy EXCEPT ![k] = journal[k]]
             /\ exec' = [exec EXCEPT ![k].mode = "recover"] /\ UNCHANGED call
    <2>1. Moved(k, "recover", exec[k].at, exec[k].ok)
      BY <1>1, <1>5, MoveMode DEF Modes
    <2>2. exec'[k].mode = "recover" /\ exec'[k].at = 2
      BY <1>1, <2>1 DEF Moved
    <2>3. ExecTypes' /\ CallTypes' /\ CallsAnswered
      BY <1>1, <1>5, <2>1 DEF ExecTypes, CallTypes, CallsAnswered, Moved
    <2>4. RecordTypes' /\ copy'[k] = journal'[k]
          /\ \A j \in Journaled \ {k} : copy'[j] = copy[j]
      BY <1>1, <1>2, <1>5 DEF RecordTypes
    <2>5. SafeMove(k)
      BY <1>1, <2>2 DEF SafeMove
    <2>6. KeyOK(k)'
      BY <1>1, <1>2, <1>3, <2>2, <2>4 DEF KeyOK, ModeOK, OwnerOK, PlaceOK, Owner
    <2> QED
      BY <1>2, <1>3, <2>1, <2>3, <2>4, <2>5, <2>6, KeyStep DEF Moved
  <1> QED
    BY <1>4, <1>5 DEF Replay

LEMMA InterruptedIs ==
  ASSUME NEW r \in JournalRecord
  PROVE  /\ Interrupted(r) \in JournalRecord
         /\ Interrupted(r).phase = "failed" /\ Interrupted(r).unknown
         /\ Interrupted(r).revision = r.revision + 1
         /\ Interrupted(r).body = r.body /\ Interrupted(r).bound = r.bound
  <1>1. r.revision + 1 \in Nat /\ "failed" \in Snapshots
    BY DEF JournalRecord, Snapshots
  <1>2. Interrupted(r) \in JournalRecord
    BY <1>1 DEF Interrupted, JournalRecord
  <1>3. Interrupted(r).phase = "failed" /\ Interrupted(r).unknown
        /\ Interrupted(r).revision = r.revision + 1
    BY DEF Interrupted, JournalRecord
  <1>4. Interrupted(r).body = r.body /\ Interrupted(r).bound = r.bound
    BY DEF Interrupted, JournalRecord
  <1> QED
    BY <1>2, <1>3, <1>4

\* The record of a request that nobody executes becomes terminal.
LEMMA RecoversIs ==
  ASSUME RecordTypes, NEW k \in Journaled, NEW r \in JournalRecord, NEW o, Recovers(k, r, o),
         journal[k].phase # "none", r.phase # "none",
         r.revision = journal[k].revision \/ Terminal(r) => r = journal[k]
  PROVE  /\ Advances(k) /\ o \in JournalRecord
         /\ journal' \in [Journaled -> JournalRecord]
         /\ \A j \in Journaled \ {k} : journal'[j] = journal[j]
         /\ o = journal'[k]
         /\ r.revision = journal[k].revision => Terminal(o)
         /\ journal'[k] = journal[k] \/ (journal'[k].phase = "failed" /\ journal'[k].unknown)
  <1>1. journal \in [Journaled -> JournalRecord] /\ journal[k] \in JournalRecord
    BY DEF RecordTypes
  <1>2. CASE UNCHANGED journal /\ o = journal[k] /\ (Terminal(r) \/ journal[k].revision # r.revision)
    BY <1>1, <1>2 DEF Advances
  <1>3. CASE /\ ~Terminal(r) /\ journal[k].revision = r.revision /\ o = Interrupted(r)
             /\ journal' = [journal EXCEPT ![k] = o]
    <2>1. r = journal[k]
      BY <1>3
    <2>2. /\ o \in JournalRecord /\ o.phase = "failed" /\ o.unknown
          /\ o.revision = r.revision + 1 /\ o.body = r.body /\ o.bound = r.bound
      BY <1>3, InterruptedIs
    <2>3. journal'[k] = o /\ journal' \in [Journaled -> JournalRecord]
          /\ \A j \in Journaled \ {k} : journal'[j] = journal[j]
      BY <1>1, <1>3, <2>2
    <2>4. Terminal(o)
      BY <2>2 DEF Terminal
    <2>5. Advances(k)
      BY <1>3, <2>1, <2>2, <2>3 DEF Advances
    <2> QED
      BY <2>2, <2>3, <2>4, <2>5
  <1> QED
    BY <1>2, <1>3 DEF Recovers

LEMMA RecoverReplayKeeps ==
  ASSUME RestIInv, NEW k \in Journaled, RecoverReplay(k)
  PROVE  RestIInv' /\ \A j \in Journaled : Advances(j)
  <1>1. /\ k \in Executions /\ exec[k].mode = "recover" /\ journal[k] = copy[k]
        /\ journal[k].phase # "none" /\ KeyOK(k)
        /\ ExecTypes /\ CallTypes /\ RecordTypes /\ copy[k] \in JournalRecord
    BY ExecutionKinds DEF RecoverReplay, RestIInv, KeyOK, ModeOK, RecordTypes
  <1>2. UNCHANGED <<copy, receipt, made, told, watch, listeners>>
    BY DEF RecoverReplay
  <1>3. WatchTypes' /\ HistoryTypes'
    BY <1>2 DEF RestIInv, WatchTypes, HistoryTypes
  <1>4. CASE Ends(k, Error) /\ UNCHANGED journal
    <2>1. /\ ExecTypes' /\ CallTypes' /\ SafeMove(k) /\ exec'[k].mode = "off" /\ CallsAnswered
          /\ \A y \in Executions \ {k} : exec'[y] = exec[y]
      BY <1>1, <1>4, EndTypes, EndsInError
    <2>2. RecordOK(k)' /\ Advances(k) /\ RecordTypes'
      BY <1>1, <1>2, <1>4, RecordKept DEF KeyOK, Advances, RecordTypes
    <2>3. KeyOK(k)'
      BY <2>1, <2>2, KeyOff
    <2> QED
      BY <1>2, <1>3, <1>4, <2>1, <2>2, <2>3, KeyStep
  <1>5. ASSUME NEW o, Recovers(k, copy[k], o), Ends(k, o)
        PROVE  RestIInv' /\ \A j \in Journaled : Advances(j)
    <2>1. /\ Advances(k) /\ o \in JournalRecord
          /\ journal' \in [Journaled -> JournalRecord]
          /\ \A j \in Journaled \ {k} : journal'[j] = journal[j]
          /\ o = journal'[k] /\ Terminal(o)
          /\ journal'[k] = journal[k] \/ (journal'[k].phase = "failed" /\ journal'[k].unknown)
      BY <1>1, <1>5, RecoversIs
    <2>2. /\ ExecTypes' /\ CallTypes' /\ SafeMove(k) /\ exec'[k].mode = "off"
          /\ \A y \in Executions \ {k} : exec'[y] = exec[y]
          /\ \A c \in Calls : \/ call'[c].outcome = call[c].outcome
                              \/ KeyOf[c] = k /\ c \notin Direct /\ call'[c].outcome = o
      BY <1>1, <1>5, <2>1, EndTypes
    <2>3. RecordOK(k)'
      BY <1>1, <1>2, <2>1 DEF KeyOK, RecordOK
    <2>4. KeyOK(k)'
      BY <2>2, <2>3, KeyOff
    <2>5. RecordTypes'
      BY <1>1, <1>2, <2>1 DEF RecordTypes
    <2>6. CallsAnswered
      BY <2>1, <2>2 DEF CallsAnswered
    <2> QED
      BY <1>2, <1>3, <2>1, <2>2, <2>4, <2>5, <2>6, KeyStep
  <1> QED
    BY <1>4, <1>5 DEF RecoverReplay

LEMMA PublishKeeps ==
  ASSUME RestIInv, NEW k \in Journaled, Publish(k)
  PROVE  RestIInv' /\ \A j \in Journaled : Advances(j)
  <1>1. /\ k \in Executions /\ exec[k].mode = "publish" /\ Owner(k) /\ journal[k] = copy[k]
        /\ KeyOK(k) /\ ExecTypes /\ CallTypes /\ RecordTypes /\ copy[k] \in JournalRecord
        /\ exec[k].at \in 1 .. Len(Plan(k)) /\ exec[k].at >= 2 /\ RecordOK(k)
    BY ExecutionKinds, PlanLength
    DEF Publish, RestIInv, KeyOK, ModeOK, OwnerOK, Owner, RecordTypes, ExecTypes, Execution
  <1>2. UNCHANGED <<journal, copy, receipt, made, told, watch>>
    BY DEF Publish, storeVars
  <1>3. listeners' \subseteq listeners
    BY DEF Publish
  <1>4. WatchTypes' /\ HistoryTypes' /\ RecordTypes' /\ Advances(k) /\ RecordOK(k)'
    BY <1>1, <1>2, <1>3, RecordKept DEF RestIInv, WatchTypes, HistoryTypes, RecordTypes, Advances
  <1>5. CASE Terminal(copy[k]) /\ Ends(k, copy[k])
    <2>1. /\ ExecTypes' /\ CallTypes' /\ SafeMove(k) /\ exec'[k].mode = "off"
          /\ \A y \in Executions \ {k} : exec'[y] = exec[y]
          /\ \A c \in Calls : \/ call'[c].outcome = call[c].outcome
                              \/ KeyOf[c] = k /\ c \notin Direct /\ call'[c].outcome = copy[k]
      BY <1>1, <1>5, EndTypes
    <2>2. CallsAnswered
      BY <1>1, <1>2, <1>5, <2>1 DEF CallsAnswered, Terminal
    <2>3. KeyOK(k)'
      BY <1>4, <2>1, KeyOff
    <2> QED
      BY <1>2, <1>4, <2>1, <2>2, <2>3, KeyStep
  <1>6. CASE /\ ~Terminal(copy[k]) /\ UNCHANGED call
             /\ exec' = [exec EXCEPT ![k].mode = "go", ![k].at = exec[k].at + 1]
    <2>1. /\ Plan(k)[exec[k].at] \in (Progresses \cup {"record"}) \ {"complete"}
          /\ AgentFrom(k) \in Nat /\ ReceiptAt(k) \in Nat /\ RequestAt(k) \in Nat
      BY <1>1, <1>6, PlacesAre DEF KeyOK, ModeOK
    <2>2. /\ exec[k].at # Len(Plan(k)) /\ exec[k].at # ReceiptAt(k)
          /\ exec[k].at # RequestAt(k)
      BY <1>1, <2>1, PlanOfKeys DEF Progresses
    <2>3. exec[k].at + 1 \in Nat \ {0} /\ exec[k].at + 1 <= Len(Plan(k))
      BY <1>1, <2>2, PlanLength
    <2>4. Moved(k, "go", exec[k].at + 1, exec[k].ok)
      BY <1>1, <1>6, <2>3, MoveModeAt DEF Modes
    <2>5. exec'[k].mode = "go" /\ exec'[k].at = exec[k].at + 1 /\ exec'[k].ok = exec[k].ok
      BY <2>4 DEF Moved
    <2>6. ExecTypes' /\ CallTypes' /\ CallsAnswered
      BY <1>1, <1>6, <2>3, <2>4 DEF ExecTypes, CallTypes, CallsAnswered, Moved
    <2>7. SafeMove(k)
      <3>1. Working(k)
        BY <1>1, <1>6 DEF Working
      <3> QED
        BY <1>1, <2>1, <2>2, <2>5, <3>1 DEF SafeMove
    <2>8. ModeOK(k)' /\ OwnerOK(k)'
      BY <1>1, <1>2, <1>6, <2>5 DEF KeyOK, ModeOK, OwnerOK, Terminal
    <2>9. PlaceOK(k)'
      <3>1. /\ exec[k].at <= ReceiptAt(k) => receipt[k].state = "none"
            /\ exec[k].at < RequestAt(k) => made[k] = 0
            /\ Behind(k, MarkAt(k)) => copy[k].dispatching
            /\ exec[k].at > RequestAt(k) => made[k] = IF exec[k].ok THEN 1 ELSE 0
            /\ Behind(k, AnswerAt(k)) => exec[k].ok
            /\ k \in Creating /\ Behind(k, 3) => copy[k].dispatching \/ copy[k].bound
            /\ WithAgent(k) /\ Behind(k, BindAt(k)) => copy[k].bound
        BY <1>1, <1>6 DEF KeyOK, PlaceOK
      <3>2. /\ exec'[k].at <= ReceiptAt(k) => exec[k].at <= ReceiptAt(k)
            /\ exec'[k].at < RequestAt(k) => exec[k].at < RequestAt(k)
            /\ exec'[k].at > RequestAt(k) => exec[k].at > RequestAt(k)
        BY <1>1, <2>1, <2>2, <2>5
      <3>3. \A i \in Nat : Behind(k, i)' => Behind(k, i)
        BY <1>1, <2>5 DEF Behind
      <3>4. MarkAt(k) \in Nat /\ AnswerAt(k) \in Nat /\ BindAt(k) \in Nat /\ 3 \in Nat
        BY <2>1 DEF MarkAt, AnswerAt, BindAt
      <3>5. /\ Behind(k, MarkAt(k))' => Behind(k, MarkAt(k))
            /\ Behind(k, AnswerAt(k))' => Behind(k, AnswerAt(k))
            /\ Behind(k, 3)' => Behind(k, 3)
            /\ Behind(k, BindAt(k))' => Behind(k, BindAt(k))
        BY <3>3, <3>4
      <3> QED
        BY <1>2, <2>5, <3>1, <3>2, <3>5 DEF PlaceOK
    <2>10. KeyOK(k)'
      BY <1>4, <2>8, <2>9 DEF KeyOK
    <2> QED
      BY <1>2, <1>4, <2>4, <2>6, <2>7, <2>10, KeyStep DEF Moved
  <1> QED
    BY <1>5, <1>6 DEF Publish

\* The record that progress() writes.
NextRecord(k) ==
  LET new == IF exec[k].mode = "catch" THEN Caught(copy[k]) ELSE Patched(k, Plan(k)[exec[k].at])
  IN [new EXCEPT !.revision = @ + 1]

LEMMA PatchKinds ==
  ASSUME NEW k, NEW step \in Progresses, copy[k] \in JournalRecord
  PROVE  LET r == copy[k]
             p == Patched(k, step)
         IN /\ p \in JournalRecord
            /\ p.revision = r.revision /\ p.body = r.body
            /\ r.bound => p.bound
            /\ p.phase = "failed" => r.phase = "failed" \/ (step = "agentReady" /\ ~exec[k].ok)
            /\ p.phase = "completed" => r.phase = "completed" \/ step = "complete"
            /\ p.phase = "none" => r.phase = "none"
            /\ step \in {"intent", "dispatching"} => p.dispatching
            /\ step # "bind" /\ r.dispatching => p.dispatching
            /\ step = "bind" => p.bound
            /\ step = "complete" => p.phase = "completed"
            /\ step = "agentReady" /\ p.phase # "failed" => exec[k].ok
  <1>1. PICK r \in JournalRecord : r = copy[k]
    OBVIOUS
  <1>2. CASE step \in {"intent", "dispatching"}
    <2>1. Patched(k, step) = [r EXCEPT !.dispatching = TRUE]
      BY <1>1, <1>2 DEF Patched
    <2>2. [r EXCEPT !.dispatching = TRUE] \in JournalRecord
      BY DEF JournalRecord
    <2> QED
      BY <1>1, <1>2, <2>1, <2>2 DEF JournalRecord
  <1>3. CASE step = "bind"
    <2>1. Patched(k, step) = [r EXCEPT !.bound = TRUE, !.dispatching = FALSE]
      BY <1>1, <1>3 DEF Patched
    <2>2. [r EXCEPT !.bound = TRUE, !.dispatching = FALSE] \in JournalRecord
      BY DEF JournalRecord
    <2> QED
      BY <1>1, <1>3, <2>1, <2>2 DEF JournalRecord
  <1>4. ASSUME NEW p \in {"workspace_ready", "agent_ready", "prompt_started", "completed", "failed"},
               Patched(k, step) = [r EXCEPT !.phase = p]
        PROVE  /\ Patched(k, step) \in JournalRecord
               /\ Patched(k, step).phase = p
               /\ Patched(k, step).revision = r.revision /\ Patched(k, step).body = r.body
               /\ Patched(k, step).bound = r.bound
               /\ Patched(k, step).dispatching = r.dispatching
    BY <1>4 DEF JournalRecord, Snapshots
  <1>5. CASE step = "ready"
    <2>1. Patched(k, step) = [r EXCEPT !.phase = "workspace_ready"]
      BY <1>1, <1>5 DEF Patched
    <2> QED
      BY <1>1, <1>4, <1>5, <2>1
  <1>6. CASE step = "agentReady"
    <2>1. Patched(k, step) = [r EXCEPT !.phase = IF exec[k].ok THEN "agent_ready" ELSE "failed"]
      BY <1>1, <1>6 DEF Patched
    <2> QED
      BY <1>1, <1>4, <1>6, <2>1
  <1>7. CASE step = "prompt"
    <2>1. Patched(k, step) = [r EXCEPT !.phase = "prompt_started"]
      BY <1>1, <1>7 DEF Patched
    <2> QED
      BY <1>1, <1>4, <1>7, <2>1
  <1>8. CASE step = "complete"
    <2>1. Patched(k, step) = [r EXCEPT !.phase = "completed"]
      BY <1>1, <1>8 DEF Patched
    <2> QED
      BY <1>1, <1>4, <1>8, <2>1
  <1> QED
    BY <1>2, <1>3, <1>5, <1>6, <1>7, <1>8 DEF Progresses

LEMMA CaughtIs ==
  ASSUME NEW r \in JournalRecord
  PROVE  /\ Caught(r) \in JournalRecord /\ Caught(r).phase = "failed"
         /\ Caught(r).unknown = r.dispatching
         /\ Caught(r).revision = r.revision /\ Caught(r).body = r.body
         /\ Caught(r).bound = r.bound
  <1>1. "failed" \in Snapshots /\ r.dispatching \in BOOLEAN
    BY DEF JournalRecord, Snapshots
  <1>2. Caught(r) \in JournalRecord
    BY <1>1 DEF Caught, JournalRecord
  <1> QED
    BY <1>2 DEF Caught, JournalRecord

LEMMA Renumbered ==
  ASSUME NEW r \in JournalRecord
  PROVE  LET q == [r EXCEPT !.revision = @ + 1]
         IN /\ q \in JournalRecord /\ q.revision = r.revision + 1
            /\ q.body = r.body /\ q.phase = r.phase /\ q.dispatching = r.dispatching
            /\ q.unknown = r.unknown /\ q.bound = r.bound
  BY DEF JournalRecord

\* What progress() writes is honest.
LEMMA NextIs ==
  ASSUME RestIInv, NEW k \in Journaled,
         exec[k].mode = "catch" \/ \E step \in Progresses : At(k, step)
  PROVE  /\ Owner(k) /\ exec[k].at >= 3 /\ exec[k].at \in 1 .. Len(Plan(k))
         /\ ~Terminal(copy[k]) /\ copy[k].phase # "none" /\ journal[k].phase # "none"
         /\ exec[k].mode \in {"go", "catch"} /\ copy[k] \in JournalRecord
         /\ exec[k].mode = "go" => Plan(k)[exec[k].at] \in Progresses /\ journal[k] = copy[k]
         /\ NextRecord(k) \in JournalRecord /\ NextRecord(k).phase # "none"
         /\ NextRecord(k).revision = copy[k].revision + 1
         /\ NextRecord(k).body = copy[k].body
         /\ copy[k].bound => NextRecord(k).bound
         /\ NextRecord(k).phase = "failed" /\ ~NextRecord(k).unknown => made[k] = 0
         /\ NextRecord(k).phase = "completed" /\ WithAgent(k) => made[k] = 1
  <1> DEFINE n == NextRecord(k)
             i == exec[k].at
  <1>1. /\ k \in Executions /\ KeyOK(k) /\ copy[k] \in JournalRecord
        /\ i \in 1 .. Len(Plan(k))
        /\ AgentFrom(k) \in Nat /\ RequestAt(k) = AgentFrom(k) + 11
    BY ExecutionKinds, PlanLength, PlacesAre
    DEF RestIInv, RecordTypes, ExecTypes, Execution, RequestAt
  <1>2. exec[k].mode \in {"go", "catch"}
        /\ (exec[k].mode = "go" => Plan(k)[i] \in Progresses)
    BY DEF At
  <1>3. i >= 3
    <2>1. CASE exec[k].mode = "catch"
      BY <1>1, <2>1 DEF KeyOK, ModeOK
    <2>2. CASE exec[k].mode = "go"
      <3>1. i # 1 /\ i # 2
        BY <1>1, <1>2, <2>2, PlanOfKeys DEF Progresses
      <3> QED
        BY <1>1, <3>1
    <2> QED
      BY <1>2, <2>1, <2>2
  <1>4. Owner(k)
    BY <1>2, <1>3 DEF Owner
  <1>5. /\ ~Terminal(copy[k]) /\ copy[k].phase # "none" /\ journal[k].phase # "none"
        /\ exec[k].mode = "go" => journal[k] = copy[k]
    BY <1>1, <1>2, <1>4 DEF KeyOK, OwnerOK
  <1>6. /\ i < RequestAt(k) => made[k] = 0
        /\ Behind(k, MarkAt(k)) => copy[k].dispatching
        /\ i > RequestAt(k) => made[k] = IF exec[k].ok THEN 1 ELSE 0
        /\ Behind(k, AnswerAt(k)) => exec[k].ok
    BY <1>1, <1>4, <1>5 DEF KeyOK, PlaceOK
  <1>7. CASE exec[k].mode = "catch"
    <2>1. n = [Caught(copy[k]) EXCEPT !.revision = @ + 1]
      BY <1>7 DEF NextRecord
    <2>2. /\ n \in JournalRecord /\ n.phase = "failed" /\ n.unknown = copy[k].dispatching
          /\ n.revision = copy[k].revision + 1 /\ n.body = copy[k].body
          /\ n.bound = copy[k].bound
      BY <1>1, <2>1, CaughtIs, Renumbered
    <2>3. ~copy[k].dispatching => i < RequestAt(k)
      BY <1>1, <1>6 DEF Behind, MarkAt
    <2> HIDE DEF n, i
    <2>4. n.phase = "failed" /\ ~n.unknown => made[k] = 0
      BY <1>6, <2>2, <2>3
    <2> QED
      BY <1>1, <1>2, <1>3, <1>4, <1>5, <1>7, <2>2, <2>4 DEF n, i
  <1>8. CASE exec[k].mode = "go"
    <2> DEFINE p == Patched(k, Plan(k)[i])
    <2>1. n = [p EXCEPT !.revision = @ + 1]
      BY <1>8 DEF NextRecord
    <2>2. Plan(k)[i] \in Progresses
      BY <1>2, <1>8
    <2>3. /\ p \in JournalRecord
          /\ p.revision = copy[k].revision /\ p.body = copy[k].body
          /\ copy[k].bound => p.bound
          /\ p.phase = "failed" =>
               copy[k].phase = "failed" \/ (Plan(k)[i] = "agentReady" /\ ~exec[k].ok)
          /\ p.phase = "completed" => copy[k].phase = "completed" \/ Plan(k)[i] = "complete"
          /\ p.phase = "none" => copy[k].phase = "none"
      BY <1>1, <2>2, PatchKinds
    <2> HIDE DEF p
    <2>4. /\ n \in JournalRecord /\ n.revision = p.revision + 1 /\ n.body = p.body
          /\ n.phase = p.phase /\ n.bound = p.bound
      BY <2>1, <2>3, Renumbered
    <2> HIDE DEF n
    <2>5. n.phase = "failed" => i = AnswerAt(k) /\ ~exec[k].ok
      BY <1>1, <1>5, <2>3, <2>4, PlanOfKeys DEF Terminal
    <2>6. n.phase = "failed" => made[k] = 0
      BY <1>1, <1>6, <2>5 DEF AnswerAt
    <2>7. n.phase = "completed" => i = Len(Plan(k))
      BY <1>1, <1>5, <2>3, <2>4, PlanOfKeys DEF Terminal
    <2>8. n.phase = "completed" /\ WithAgent(k) => i = AnswerAt(k) + 2
      BY <2>7, PlanOfKeys
    <2>9. n.phase = "completed" /\ WithAgent(k) => i > AnswerAt(k) /\ i > RequestAt(k)
      BY <1>1, <2>8 DEF AnswerAt
    <2>10. n.phase = "completed" /\ WithAgent(k) => made[k] = 1
      BY <1>6, <2>9 DEF Behind
    <2> QED
      BY <1>1, <1>2, <1>3, <1>4, <1>5, <1>8, <2>2, <2>3, <2>4, <2>6, <2>10 DEF n
  <1> QED
    BY <1>2, <1>7, <1>8

\* A step published its record.
LEMMA ProgressPlace ==
  ASSUME RestIInv, NEW k \in Journaled,
         exec[k].mode = "catch" \/ \E step \in Progresses : At(k, step),
         copy'[k] = NextRecord(k), UNCHANGED <<receipt, made>>,
         exec'[k].mode = "publish", exec'[k].at = exec[k].at, exec'[k].ok = exec[k].ok
  PROVE  PlaceOK(k)'
  <1> DEFINE i == exec[k].at
             s == Plan(k)[i]
             n == NextRecord(k)
  <1>0. n \in JournalRecord
    BY NextIs
  <1>1. SUFFICES ASSUME ~Terminal(n) PROVE PlaceOK(k)'
    BY DEF PlaceOK, Terminal
  <1>2. exec[k].mode # "catch"
    <2> SUFFICES ASSUME exec[k].mode = "catch" PROVE FALSE
      OBVIOUS
    <2>1. n = [Caught(copy[k]) EXCEPT !.revision = @ + 1] /\ copy[k] \in JournalRecord
      BY NextIs DEF NextRecord
    <2>2. n.phase = "failed"
      BY <2>1, CaughtIs, Renumbered
    <2> QED
      BY <1>1, <2>2 DEF Terminal
  <1>3. /\ exec[k].mode = "go" /\ s \in Progresses /\ Owner(k) /\ ~Terminal(copy[k])
        /\ i \in 1 .. Len(Plan(k)) /\ i >= 3 /\ copy[k] \in JournalRecord /\ KeyOK(k)
    BY <1>2, NextIs DEF RestIInv
  <1> DEFINE p == Patched(k, s)
  <1>4. n = [p EXCEPT !.revision = @ + 1]
    BY <1>2 DEF NextRecord
  <1>5. /\ p \in JournalRecord
        /\ copy[k].bound => p.bound
        /\ s \in {"intent", "dispatching"} => p.dispatching
        /\ s # "bind" /\ copy[k].dispatching => p.dispatching
        /\ s = "bind" => p.bound
        /\ s = "agentReady" /\ p.phase # "failed" => exec[k].ok
    BY <1>3, PatchKinds
  <1> HIDE DEF p
  <1>6. n.phase = p.phase /\ n.dispatching = p.dispatching /\ n.bound = p.bound
    BY <1>4, <1>5, Renumbered
  <1> HIDE DEF n
  <1>7. /\ i <= ReceiptAt(k) => receipt[k].state = "none"
        /\ i < RequestAt(k) => made[k] = 0
        /\ Behind(k, MarkAt(k)) => copy[k].dispatching
        /\ i > RequestAt(k) => made[k] = IF exec[k].ok THEN 1 ELSE 0
        /\ Behind(k, AnswerAt(k)) => exec[k].ok
        /\ k \in Creating /\ Behind(k, 3) => copy[k].dispatching \/ copy[k].bound
        /\ WithAgent(k) /\ Behind(k, BindAt(k)) => copy[k].bound
    BY <1>2, <1>3 DEF KeyOK, PlaceOK
  <1>8. \A j : Behind(k, j)' => Behind(k, j) \/ i = j
    BY <1>3 DEF Behind
  <1>9. Behind(k, MarkAt(k))' => n.dispatching
    <2>1. CASE i = MarkAt(k)
      BY <1>3, <1>5, <1>6, <2>1, PlanOfKeys
    <2>2. CASE Behind(k, MarkAt(k))
      <3>1. i > MarkAt(k) /\ AgentFrom(k) \in Nat
        BY <1>3, <2>2, PlanOfKeys DEF Behind
      <3>2. s # "bind"
        BY <1>3, <3>1, PlanOfKeys DEF MarkAt, BindAt
      <3> QED
        BY <1>5, <1>6, <1>7, <2>2, <3>2
    <2> QED
      BY <1>8, <2>1, <2>2
  <1>10. Behind(k, AnswerAt(k))' => exec[k].ok
    <2>1. CASE i = AnswerAt(k)
      <3>1. s = "agentReady"
        BY <1>3, <2>1, PlanOfKeys
      <3> QED
        BY <1>1, <1>5, <1>6, <3>1 DEF Terminal
    <2> QED
      BY <1>7, <1>8, <2>1
  <1>11. k \in Creating /\ Behind(k, 3)' => n.dispatching \/ n.bound
    <2>1. CASE i = 3 /\ k \in Creating
      <3>1. s = "intent"
        BY <1>3, <2>1, PlanOfKeys
      <3> QED
        BY <1>5, <1>6, <3>1
    <2>2. CASE Behind(k, 3) /\ k \in Creating
      BY <1>5, <1>6, <1>7, <2>2
    <2> QED
      BY <1>8, <2>1, <2>2
  <1>12. WithAgent(k) /\ Behind(k, BindAt(k))' => n.bound
    <2>1. CASE i = BindAt(k) /\ WithAgent(k)
      <3>1. s = "bind"
        BY <1>3, <2>1, PlanOfKeys
      <3> QED
        BY <1>5, <1>6, <3>1
    <2> QED
      BY <1>5, <1>6, <1>7, <1>8, <2>1
  <1>13. copy'[k] = n
    BY DEF n
  <1> QED
    BY <1>7, <1>9, <1>10, <1>11, <1>12, <1>13 DEF PlaceOK

LEMMA ProgressKeeps ==
  ASSUME RestIInv, NEW k \in Journaled, Progress(k)
  PROVE  RestIInv' /\ \A j \in Journaled : Advances(j)
  <1> DEFINE n == NextRecord(k)
  <1>1. exec[k].mode = "catch" \/ \E step \in Progresses : At(k, step)
    BY DEF Progress
  <1>2. /\ Owner(k) /\ exec[k].at >= 3 /\ exec[k].at \in 1 .. Len(Plan(k))
        /\ ~Terminal(copy[k]) /\ copy[k].phase # "none" /\ journal[k].phase # "none"
        /\ exec[k].mode \in {"go", "catch"} /\ copy[k] \in JournalRecord
        /\ exec[k].mode = "go" => Plan(k)[exec[k].at] \in Progresses /\ journal[k] = copy[k]
        /\ n \in JournalRecord /\ n.phase # "none"
        /\ n.revision = copy[k].revision + 1
        /\ n.body = copy[k].body
        /\ copy[k].bound => n.bound
        /\ n.phase = "failed" /\ ~n.unknown => made[k] = 0
        /\ n.phase = "completed" /\ WithAgent(k) => made[k] = 1
    BY <1>1, NextIs
  <1>3. /\ k \in Executions /\ KeyOK(k) /\ ExecTypes /\ CallTypes /\ RecordTypes
        /\ copy[k].revision \in Nat
        /\ journal \in [Journaled -> JournalRecord] /\ copy \in [Journaled -> JournalRecord]
    BY <1>2, ExecutionKinds DEF RestIInv, RecordTypes, JournalRecord
  <1>4. UNCHANGED <<receipt, made, told, watch, listeners>> /\ WatchTypes' /\ HistoryTypes'
    BY DEF Progress, RestIInv, WatchTypes, HistoryTypes
  <1>5. \/ /\ Current(k) /\ journal' = [journal EXCEPT ![k] = n]
           /\ copy' = [copy EXCEPT ![k] = n]
           /\ exec' = [exec EXCEPT ![k].mode = "publish"] /\ UNCHANGED call
        \/ /\ Current(k) /\ journal' = [journal EXCEPT ![k] = n]
           /\ ProgressFails(k) /\ UNCHANGED copy
        \/ UNCHANGED <<journal, copy>> /\ ProgressFails(k)
    BY DEF Progress, NextRecord
  <1> HIDE DEF n
  <1>6. ASSUME Current(k), journal' = [journal EXCEPT ![k] = n]
        PROVE  /\ journal[k] = copy[k] /\ journal'[k] = n
               /\ journal' \in [Journaled -> JournalRecord]
               /\ \A j \in Journaled \ {k} : journal'[j] = journal[j]
               /\ Advances(k) /\ RecordOK(k)'
    <2>1. journal[k] = copy[k]
      BY <1>2, <1>3, <1>6 DEF KeyOK, OwnerOK, Current
    <2>2. journal'[k] = n /\ journal' \in [Journaled -> JournalRecord]
          /\ \A j \in Journaled \ {k} : journal'[j] = journal[j]
      BY <1>2, <1>3, <1>6
    <2>3. Advances(k)
      BY <1>2, <2>1, <2>2 DEF Advances, Terminal
    <2>4. RecordOK(k)'
      BY <1>2, <1>4, <2>2 DEF RecordOK
    <2> QED
      BY <2>1, <2>2, <2>3, <2>4
  <1>7. CASE /\ Current(k) /\ journal' = [journal EXCEPT ![k] = n]
             /\ copy' = [copy EXCEPT ![k] = n]
             /\ exec' = [exec EXCEPT ![k].mode = "publish"] /\ UNCHANGED call
    <2>1. Moved(k, "publish", exec[k].at, exec[k].ok)
      BY <1>3, <1>7, MoveMode DEF Modes
    <2>2. exec'[k].mode = "publish" /\ exec'[k].at = exec[k].at /\ exec'[k].ok = exec[k].ok
      BY <2>1 DEF Moved
    <2>3. copy'[k] = n /\ RecordTypes' /\ \A j \in Journaled \ {k} : copy'[j] = copy[j]
      BY <1>2, <1>3, <1>6, <1>7 DEF RecordTypes
    <2>4. ExecTypes' /\ CallTypes' /\ CallsAnswered
      BY <1>3, <1>7, <2>1 DEF ExecTypes, CallTypes, CallsAnswered, Moved
    <2>5. PlaceOK(k)'
      BY <1>1, <1>4, <2>2, <2>3, ProgressPlace DEF n
    <2>6. OwnerOK(k)'
      BY <1>2, <1>6, <1>7, <2>2, <2>3 DEF OwnerOK
    <2>7. n.phase \notin {"completed", "failed"} =>
            Plan(k)[exec[k].at] \in Progresses \ {"complete"}
      <3>1. CASE exec[k].mode = "catch"
        <4>1. n = [Caught(copy[k]) EXCEPT !.revision = @ + 1]
          BY <3>1 DEF n, NextRecord
        <4>2. n.phase = "failed"
          BY <1>2, <4>1, CaughtIs, Renumbered
        <4> QED
          BY <4>2
      <3>2. CASE exec[k].mode = "go" /\ Plan(k)[exec[k].at] = "complete"
        <4>1. n = [Patched(k, "complete") EXCEPT !.revision = @ + 1]
          BY <3>2 DEF n, NextRecord
        <4>2. "complete" \in Progresses
          BY DEF Progresses
        <4>3. Patched(k, "complete") \in JournalRecord
              /\ Patched(k, "complete").phase = "completed"
          BY <1>2, <4>2, PatchKinds
        <4>4. n.phase = "completed"
          BY <4>1, <4>3, Renumbered
        <4> QED
          BY <4>4
      <3> QED
        BY <1>2, <3>1, <3>2
    <2>8. ModeOK(k)'
      BY <1>2, <2>2, <2>3, <2>7 DEF ModeOK, Terminal
    <2>9. KeyOK(k)'
      BY <1>6, <1>7, <2>5, <2>6, <2>8 DEF KeyOK
    <2>10. SafeMove(k)
      <3>1. CASE exec[k].mode = "go"
        <4>1. Working(k) /\ exec[k].at \in Nat /\ ReceiptAt(k) \in Nat
          BY <1>2, <1>3, <3>1, PlacesAre DEF Working
        <4> QED
          BY <2>2, <4>1 DEF SafeMove
      <3>2. CASE exec[k].mode = "catch"
        <4>1. n = [Caught(copy[k]) EXCEPT !.revision = @ + 1]
          BY <3>2 DEF n, NextRecord
        <4>2. n.phase = "failed"
          BY <1>2, <4>1, CaughtIs, Renumbered
        <4> QED
          BY <2>2, <2>3, <4>2 DEF SafeMove, Working, Terminal
      <3> QED
        BY <1>2, <3>1, <3>2
    <2> QED
      BY <1>4, <1>6, <1>7, <2>1, <2>3, <2>4, <2>9, <2>10, KeyStep DEF Moved
  <1>8. ASSUME ProgressFails(k), UNCHANGED copy, RecordTypes', Advances(k), RecordOK(k)',
               \A j \in Journaled \ {k} : journal'[j] = journal[j],
               \/ journal'[k] = journal[k]
               \/ journal'[k].phase # "none" /\ journal'[k].revision # copy[k].revision
        PROVE  RestIInv' /\ \A j \in Journaled : Advances(j)
    <2>1. CASE Ends(k, Error)
      <3>1. /\ ExecTypes' /\ CallTypes' /\ SafeMove(k) /\ exec'[k].mode = "off" /\ CallsAnswered
            /\ \A y \in Executions \ {k} : exec'[y] = exec[y]
        BY <1>3, <2>1, EndTypes, EndsInError
      <3>2. KeyOK(k)'
        BY <1>8, <3>1, KeyOff
      <3> QED
        BY <1>4, <1>8, <3>1, <3>2, KeyStep
    <2>2. CASE /\ exec[k].mode # "catch" /\ exec' = [exec EXCEPT ![k].mode = "catch"]
               /\ UNCHANGED call
      <3>1. Moved(k, "catch", exec[k].at, exec[k].ok)
        BY <1>3, <2>2, MoveMode DEF Modes
      <3>2. exec'[k].mode = "catch" /\ exec'[k].at = exec[k].at /\ exec'[k].ok = exec[k].ok
        BY <3>1 DEF Moved
      <3>3. ExecTypes' /\ CallTypes' /\ CallsAnswered
        BY <1>3, <2>2, <3>1 DEF ExecTypes, CallTypes, CallsAnswered, Moved
      <3>4. SafeMove(k)
        BY <3>2 DEF SafeMove, Working
      <3>5. exec[k].mode = "go"
        BY <1>2, <2>2
      <3>6. copy'[k] = copy[k] /\ made'[k] = made[k]
        BY <1>4, <1>8
      <3>7. KeyOK(k)'
        BY <1>2, <1>3, <1>8, <3>2, <3>5, <3>6, KeyCaught
      <3> QED
        BY <1>4, <1>8, <3>1, <3>3, <3>4, <3>7, KeyStep DEF Moved
    <2> QED
      BY <1>8, <2>1, <2>2 DEF ProgressFails
  <1>9. CASE /\ Current(k) /\ journal' = [journal EXCEPT ![k] = n]
             /\ ProgressFails(k) /\ UNCHANGED copy
    <2>1. journal'[k].phase # "none" /\ journal'[k].revision # copy[k].revision
      BY <1>2, <1>3, <1>6, <1>9
    <2>2. RecordTypes'
      BY <1>3, <1>6, <1>9 DEF RecordTypes
    <2> QED
      BY <1>6, <1>8, <1>9, <2>1, <2>2
  <1>10. CASE UNCHANGED <<journal, copy>> /\ ProgressFails(k)
    <2>1. RecordTypes' /\ Advances(k) /\ RecordOK(k)'
      BY <1>3, <1>4, <1>10, RecordKept DEF RecordTypes, Advances, KeyOK
    <2> QED
      BY <1>8, <1>10, <2>1
  <1> QED
    BY <1>5, <1>7, <1>9, <1>10
-----------------------------------------------------------------------------
(* The receipt and the agent.                                               *)

LEMMA AgentStep ==
  ASSUME RestIInv, NEW x \in Executions,
         ExecTypes', CallTypes', HistoryTypes', CallsAnswered, MutationOK',
         \A y \in Executions \ {x} : exec'[y] = exec[y],
         UNCHANGED <<journal, copy, watch, told>>,
         x \in Direct => exec'[x].mode \in {"off", "go"},
         x \in Journaled => KeyOK(x)',
         \A k \in Journaled \ {x} : receipt'[k] = receipt[k] /\ made'[k] = made[k]
  PROVE  RestIInv' /\ \A k \in Journaled : Advances(k)
  <1>1. \A k \in Journaled : Advances(k)
    BY DEF Advances
  <1>2. RecordTypes' /\ WatchTypes'
    BY DEF RestIInv, RecordTypes, WatchTypes
  <1>3. ASSUME NEW k \in Journaled PROVE KeyOK(k)'
    <2>1. CASE k # x
      <3>1. /\ exec'[k] = exec[k] /\ copy'[k] = copy[k] /\ journal'[k] = journal[k]
            /\ receipt'[k] = receipt[k] /\ made'[k] = made[k] /\ KeyOK(k)
        BY <2>1, ExecutionKinds DEF RestIInv
      <3> QED
        BY <3>1, KeyKept
    <2> QED
      BY <2>1
  <1>4. DirectOK'
    BY ExecutionKinds DEF RestIInv, DirectOK
  <1>5. \A v \in Watchers : WatchOK(v)'
    BY <1>1, <1>2, WatchesKept DEF RestIInv
  <1>6. \A c \in Calls : CallOK(c)'
    BY <1>1, CallsKept DEF RestIInv
  <1>7. AnswersAgree'
    BY <1>1, AnswersKept DEF RestIInv
  <1> QED
    BY <1>1, <1>2, <1>3, <1>4, <1>5, <1>6, <1>7 DEF RestIInv

LEMMA OthersWork ==
  ASSUME ExecTypes, UNCHANGED copy, NEW x \in Executions,
         \A y \in Executions \ {x} : exec'[y] = exec[y]
  PROVE  \A y \in Executions \ {x} : /\ Working(y)' <=> Working(y)
                                     /\ Carrying(y)' <=> Carrying(y)
                                     /\ SafeMove(y)
  <1> TAKE y \in Executions \ {x}
  <1>1. exec'[y] = exec[y] /\ (Working(y)' <=> Working(y))
    BY DEF Working, Terminal
  <1>2. SafeMove(y)
    BY <1>1, WorkingKept
  <1> QED
    BY <1>1, <1>2 DEF Carrying

\* A step that passes or fails, whatever it does to the receipt or the agents.
LEMMA StepMoves ==
  ASSUME RestIInv, NEW x \in Executions, exec[x].mode = "go",
         Plan(x)[exec[x].at] \notin Progresses \cup {"record", "authorize"},
         Passes(x) \/ Throws(x)
  PROVE  /\ ExecTypes' /\ CallTypes' /\ CallsAnswered
         /\ \A y \in Executions \ {x} : exec'[y] = exec[y]
         /\ \/ exec'[x].mode = "off" /\ x \in Direct
            \/ exec'[x].mode = "go" /\ exec'[x].at = exec[x].at + 1 /\ exec'[x].ok = exec[x].ok
            \/ /\ exec'[x].mode = "catch" /\ exec[x].at >= 3 /\ x \in Journaled
               /\ exec'[x].at = exec[x].at /\ exec'[x].ok = exec[x].ok
  <1>1. exec[x].at \in 1 .. Len(Plan(x)) /\ ExecTypes /\ CallTypes
        /\ Len(Plan(x)) \in Nat
    BY PlanLength DEF RestIInv, ExecTypes, Execution
  <1>2. x \in Journaled => exec[x].at # Len(Plan(x))
    BY <1>1, PlanOfKeys DEF Progresses
  <1>3. CASE Passes(x)
    <2>1. CallsSettle(Error)
      BY <1>1, <1>3, PassesIs
    <2>2. CASE x \in Direct /\ Moved(x, "off", 1, FALSE)
      BY <1>1, <2>1, <2>2, StartTypes, SettledAnswers DEF CallsSettle, Moved
    <2>3. CASE /\ Moved(x, "go", exec[x].at + 1, exec[x].ok)
               /\ x \in Direct => exec[x].at # Len(Plan(x))
      <3>1. exec[x].at + 1 <= Len(Plan(x))
        BY <1>1, <1>2, <2>3, ExecutionKinds
      <3>2. ExecTypes'
        BY <1>1, <2>3, <3>1 DEF ExecTypes, Moved
      <3> QED
        BY <2>1, <2>3, <3>2, SettledAnswers DEF CallsSettle, Moved
    <2> QED
      BY <1>1, <1>3, <2>2, <2>3, PassesIs
  <1>4. CASE Throws(x)
    <2>1. CallsSettle(Error)
      BY <1>1, <1>4, ThrowsIs
    <2>2. CASE x \in Direct
      <3>1. Ends(x, Error)
        BY <1>4, <2>2 DEF Throws
      <3>2. Moved(x, "off", 1, FALSE)
        BY <1>1, <3>1, EndsIs
      <3> QED
        BY <1>1, <2>1, <2>2, <3>2, StartTypes, SettledAnswers DEF CallsSettle, Moved
    <2>3. CASE x \notin Direct
      <3>1. exec' = [exec EXCEPT ![x].mode = "catch"]
        BY <1>4, <2>3 DEF Throws
      <3>2. Moved(x, "catch", exec[x].at, exec[x].ok)
        BY <1>1, <3>1, MoveMode DEF Modes
      <3>3. exec[x].at >= 3 /\ x \in Journaled
        BY <1>1, <2>3, <3>2, ExecutionKinds, PlanOfKeys
      <3>4. ExecTypes'
        BY <1>1, <3>2 DEF ExecTypes, Moved
      <3> QED
        BY <2>1, <3>2, <3>3, <3>4, SettledAnswers DEF CallsSettle, Moved
    <2> QED
      BY <2>2, <2>3
  <1> QED
    BY <1>3, <1>4

LEMMA ThrowsStops ==
  ASSUME RestIInv, NEW x \in Executions, exec[x].mode = "go", Throws(x)
  PROVE  SafeMove(x)
  BY ThrowsIs DEF RestIInv, Moved, SafeMove, Working

LEMMA OwnerGoes ==
  ASSUME RestIInv, NEW k \in Journaled, exec[k].mode = "go", exec[k].at >= 3
  PROVE  /\ Owner(k) /\ journal[k] = copy[k] /\ journal[k].phase # "none" /\ ~Terminal(copy[k])
         /\ KeyOK(k)
  BY DEF RestIInv, KeyOK, OwnerOK, Owner

LEMMA BodiesAre ==
  ASSUME RestIInv, NEW x \in Executions
  PROVE  BodyFor(x) \in Bodies \cup {NoBody}
  <1>1. CASE x \in Direct
    BY <1>1, CreationAssumption, ExecutionKinds DEF BodyFor
  <1>2. CASE x \in Journaled
    BY <1>2, ExecutionKinds DEF BodyFor, RestIInv, RecordTypes, JournalRecord
  <1> QED
    BY <1>1, <1>2, ExecutionKinds

\* The execution at a step of the agent.
LEMMA AgentAt ==
  ASSUME RestIInv, NEW x \in Executions, NEW s \in {"receipt", "request", "store"}, At(x, s)
  PROVE  /\ exec[x].mode = "go" /\ exec[x].at \in 1 .. Len(Plan(x)) /\ Working(x)
         /\ Plan(x)[exec[x].at] \notin Progresses \cup {"record", "authorize"}
         /\ s = "receipt" => exec[x].at = ReceiptAt(x)
         /\ s = "request" => exec[x].at = RequestAt(x)
         /\ s = "store" /\ x \in Journaled => exec[x].at # 2
         /\ ReceiptAt(x) \in Nat /\ RequestAt(x) \in Nat /\ ReceiptAt(x) < RequestAt(x)
         /\ ReceiptAt(x) >= 4
         /\ x \in Journaled => exec[x].at >= 3
         /\ \A y \in Executions : exec[y].at \in Nat
  <1>1. exec[x].mode = "go" /\ Plan(x)[exec[x].at] = s
    BY DEF At
  <1>2. exec[x].at \in 1 .. Len(Plan(x)) /\ \A y \in Executions : exec[y].at \in Nat
    BY PlanLength DEF RestIInv, ExecTypes, Execution
  <1>3. x \in Journaled => exec[x].at # 1 /\ exec[x].at # 2
    BY <1>1, PlanOfKeys
  <1>4. Working(x)
    BY <1>1 DEF Working
  <1>5. s = "receipt" => exec[x].at = ReceiptAt(x)
    BY <1>1, <1>2, PlanOfKeys, PlanOfDirect, ExecutionKinds
  <1>6. s = "request" => exec[x].at = RequestAt(x)
    BY <1>1, <1>2, PlanOfKeys, PlanOfDirect, ExecutionKinds
  <1>7. x \in Journaled => exec[x].at >= 3
    BY <1>2, <1>3
  <1> QED
    BY <1>1, <1>2, <1>3, <1>4, <1>5, <1>6, <1>7, PlacesAre DEF Progresses

LEMMA ReceiptMutations ==
  ASSUME RestIInv, NEW x \in Executions, At(x, "receipt"),
         receipt[KeyFor(x)].state = "none", receipt'[KeyFor(x)].state # "none",
         \A k \in Keys \ {KeyFor(x)} : receipt'[k] = receipt[k],
         UNCHANGED <<made, copy>>, \A y \in Executions \ {x} : exec'[y] = exec[y]
  PROVE  MutationOK'
  <1>1. \A y \in Executions \ {x} : /\ Working(y)' <=> Working(y)
                                    /\ Carrying(y)' <=> Carrying(y)
    BY OthersWork DEF RestIInv
  <1>2. \A y \in Executions : KeyFor(y) \in Keys
    BY ExecutionKinds
  <1>3. ASSUME NEW y \in Executions, KeyFor(y) = KeyFor(x)
        PROVE  made[y] = 0 /\ ~Carrying(y)
    <2>1. ReceiptOK(y) /\ exec[y].at \in Nat /\ ReceiptAt(y) \in Nat
      BY AgentAt, PlacesAre DEF RestIInv, MutationOK
    <2> QED
      BY <1>3, <2>1 DEF ReceiptOK, Carrying
  <1>4. ASSUME NEW y \in Executions PROVE ReceiptOK(y)'
    <2>1. CASE KeyFor(y) # KeyFor(x)
      <3>1. receipt'[KeyFor(y)] = receipt[KeyFor(y)] /\ y # x
        BY <1>2, <2>1
      <3>2. ReceiptOK(y)
        BY DEF RestIInv, MutationOK
      <3> QED
        BY <1>1, <3>1, <3>2 DEF ReceiptOK
    <2> QED
      BY <2>1 DEF ReceiptOK
  <1>5. ASSUME NEW y \in Executions PROVE CarryOK(y)'
    <2>1. SUFFICES ASSUME Carrying(y)', NEW z \in Twins(y)
                   PROVE  made'[z] = 0 /\ (z # y => ~Carrying(z)')
      BY DEF CarryOK, Twins
    <2>2. z \in Executions /\ KeyFor(z) = KeyFor(y)
      BY DEF Twins
    <2>3. CASE KeyFor(y) = KeyFor(x)
      <3>1. y = x
        BY <1>1, <1>3, <2>1, <2>3
      <3> QED
        BY <1>1, <1>3, <2>2, <2>3, <3>1
    <2>4. CASE KeyFor(y) # KeyFor(x)
      <3>1. y # x /\ z # x
        BY <2>2, <2>4
      <3>2. Carrying(y) /\ CarryOK(y)
        BY <1>1, <2>1, <3>1 DEF RestIInv, MutationOK
      <3> QED
        BY <1>1, <2>2, <3>1, <3>2 DEF CarryOK
    <2> QED
      BY <2>3, <2>4
  <1>6. ASSUME NEW y \in Executions PROVE MadeOK(y)'
    BY DEF RestIInv, MutationOK, MadeOK, Twins
  <1> QED
    BY <1>4, <1>5, <1>6 DEF MutationOK

LEMMA TakeReceiptKeeps ==
  ASSUME RestIInv, NEW x \in Executions, TakeReceipt(x)
  PROVE  RestIInv' /\ \A k \in Journaled : Advances(k)
  <1>1. /\ At(x, "receipt") /\ exec[x].mode = "go" /\ Working(x) /\ exec[x].at = ReceiptAt(x)
        /\ Plan(x)[exec[x].at] = "receipt"
        /\ Plan(x)[exec[x].at] \notin Progresses \cup {"record", "authorize"}
        /\ ReceiptAt(x) \in Nat /\ RequestAt(x) \in Nat /\ ReceiptAt(x) < RequestAt(x)
        /\ x \in Journaled => exec[x].at >= 3
        /\ KeyFor(x) \in Keys
        /\ ExecTypes /\ CallTypes
    BY AgentAt, ExecutionKinds DEF TakeReceipt, RestIInv, At
  <1>2. UNCHANGED <<journal, copy, watch, told, listeners, made>>
    BY DEF TakeReceipt
  <1>3. x \in Journaled => /\ Owner(x) /\ journal[x].phase # "none" /\ KeyOK(x) /\ KeyFor(x) = x
                           /\ receipt[x].state = "none"
    BY <1>1, OwnerGoes, ExecutionKinds DEF KeyOK, PlaceOK
  <1>4. x \in Journaled => RecordOK(x)'
    BY <1>2, <1>3 DEF KeyOK, RecordOK
  <1>5. ASSUME HistoryTypes', MutationOK', Passes(x) \/ Throws(x),
               \A k \in Keys \ {KeyFor(x)} : receipt'[k] = receipt[k]
        PROVE  RestIInv' /\ \A k \in Journaled : Advances(k)
    <2>1. /\ ExecTypes' /\ CallTypes' /\ CallsAnswered
          /\ \A y \in Executions \ {x} : exec'[y] = exec[y]
          /\ \/ exec'[x].mode = "off" /\ x \in Direct
             \/ exec'[x].mode = "go" /\ exec'[x].at = exec[x].at + 1 /\ exec'[x].ok = exec[x].ok
             \/ /\ exec'[x].mode = "catch" /\ exec[x].at >= 3 /\ x \in Journaled
                /\ exec'[x].at = exec[x].at /\ exec'[x].ok = exec[x].ok
      BY <1>1, <1>5, StepMoves
    <2>2. ASSUME x \in Journaled PROVE KeyOK(x)'
      <3>1. copy'[x] = copy[x] /\ journal'[x] = journal[x] /\ made'[x] = made[x]
        BY <1>2
      <3>2. Plan(x)[exec[x].at] \notin Progresses \cup {"record", "request"}
        BY <1>1
      <3>3. exec[x].at >= ReceiptAt(x)
        BY <1>1
      <3>4. CASE exec'[x].mode = "go"
        BY <1>1, <1>3, <1>4, <2>1, <2>2, <3>1, <3>2, <3>3, <3>4, KeyPasses
      <3>5. CASE exec'[x].mode = "catch"
        BY <1>1, <1>3, <1>4, <2>1, <2>2, <3>1, <3>5, KeyCaught
      <3> QED
        BY <2>1, <2>2, <3>4, <3>5, ExecutionKinds
    <2>3. x \in Direct => exec'[x].mode \in {"off", "go"}
      BY <2>1, ExecutionKinds
    <2>4. \A k \in Journaled \ {x} : receipt'[k] = receipt[k] /\ made'[k] = made[k]
      BY <1>2, <1>5, ExecutionKinds
    <2> QED
      BY <1>2, <1>5, <2>1, <2>2, <2>3, <2>4, AgentStep
  <1>6. CASE /\ receipt[KeyFor(x)].state = "none"
             /\ receipt' = [receipt EXCEPT ![KeyFor(x)] = [state |-> "open", ok |-> FALSE,
                                                           body |-> BodyFor(x)]]
             /\ Passes(x) \/ Throws(x)
    <2>1. [state |-> "open", ok |-> FALSE, body |-> BodyFor(x)] \in
            [state : {"none", "open", "done"}, body : Bodies \cup {NoBody}, ok : BOOLEAN]
      BY BodiesAre
    <2>2. /\ HistoryTypes' /\ receipt'[KeyFor(x)].state # "none"
          /\ \A k \in Keys \ {KeyFor(x)} : receipt'[k] = receipt[k]
      BY <1>1, <1>2, <1>6, <2>1 DEF RestIInv, HistoryTypes
    <2>3. \A y \in Executions \ {x} : exec'[y] = exec[y]
      BY <1>1, <1>6, StepMoves
    <2>4. MutationOK'
      BY <1>1, <1>2, <1>6, <2>2, <2>3, ReceiptMutations
    <2> QED
      BY <1>5, <1>6, <2>2, <2>4
  <1>7. CASE Throws(x) /\ UNCHANGED receipt
    <2>1. HistoryTypes'
      BY <1>2, <1>7 DEF RestIInv, HistoryTypes
    <2>2. /\ ExecTypes' /\ \A y \in Executions \ {x} : exec'[y] = exec[y]
      BY <1>1, <1>7, StepMoves
    <2>3. \A y \in Executions : SafeMove(y)
      BY <1>1, <1>2, <1>7, <2>2, ThrowsStops, OthersWork
    <2>4. MutationOK'
      BY <1>2, <1>7, <2>2, <2>3, MutationKept DEF RestIInv
    <2> QED
      BY <1>5, <1>7, <2>1, <2>4
  <1>8. CASE /\ receipt[KeyFor(x)].state = "done" /\ x \in Direct
             /\ Ends(x, Pending) /\ UNCHANGED receipt
    <2>1. Moved(x, "off", 1, FALSE) /\ CallsSettle(Pending)
      BY <1>1, <1>8, EndsIs
    <2>2. ExecTypes' /\ CallTypes' /\ CallsAnswered /\ exec'[x].mode = "off"
          /\ \A y \in Executions \ {x} : exec'[y] = exec[y]
      BY <1>1, <2>1, StartTypes, SettledAnswers DEF Moved, CallsSettle
    <2>3. HistoryTypes'
      BY <1>2, <1>8 DEF RestIInv, HistoryTypes
    <2>4. \A y \in Executions : SafeMove(y)
      <3>1. SafeMove(x)
        BY <2>2 DEF SafeMove, Working
      <3> QED
        BY <1>1, <1>2, <2>2, <3>1, OthersWork
    <2>5. MutationOK'
      BY <1>2, <1>8, <2>2, <2>4, MutationKept DEF RestIInv
    <2>6. x \notin Journaled
      BY <1>8, ExecutionKinds
    <2>7. \A k \in Journaled \ {x} : receipt'[k] = receipt[k] /\ made'[k] = made[k]
      BY <1>2, <1>8
    <2> QED
      BY <1>2, <2>2, <2>3, <2>5, <2>6, <2>7, AgentStep
  <1> QED
    BY <1>3, <1>6, <1>7, <1>8, ExecutionKinds DEF TakeReceipt

LEMMA RequestMutations ==
  ASSUME RestIInv, ExecTypes', NEW x \in Executions, At(x, "request"),
         made'[x] \in {0, 1}, \A y \in Executions \ {x} : made'[y] = made[y],
         UNCHANGED <<receipt, copy>>, \A y \in Executions \ {x} : exec'[y] = exec[y],
         Working(x)' => exec'[x].at > RequestAt(x)
  PROVE  MutationOK'
  <1>1. \A y \in Executions \ {x} : /\ Working(y)' <=> Working(y)
                                    /\ Carrying(y)' <=> Carrying(y)
    BY OthersWork DEF RestIInv
  <1>2. /\ exec[x].at = RequestAt(x) /\ Working(x)
        /\ ReceiptAt(x) \in Nat /\ RequestAt(x) \in Nat /\ ReceiptAt(x) < RequestAt(x)
    BY AgentAt
  <1>3. Carrying(x)
    BY <1>2 DEF Carrying
  <1>4. /\ \A y \in Twins(x) : made[y] = 0 /\ (y # x => ~Carrying(y))
        /\ receipt[KeyFor(x)].state # "none"
    BY <1>2, <1>3 DEF RestIInv, MutationOK, CarryOK, ReceiptOK
  <1>5. ~Carrying(x)'
    <2>1. RequestAt(x) \in Nat /\ exec'[x].at \in Nat
      BY <1>2 DEF ExecTypes, Execution
    <2> QED
      BY <2>1 DEF Carrying
  <1>6. ASSUME NEW y \in Executions PROVE ReceiptOK(y)'
    <2>1. CASE KeyFor(y) # KeyFor(x)
      <3>1. y # x /\ ReceiptOK(y)
        BY <2>1 DEF RestIInv, MutationOK
      <3> QED
        BY <1>1, <3>1 DEF ReceiptOK
    <2>2. CASE KeyFor(y) = KeyFor(x)
      BY <1>4, <2>2 DEF ReceiptOK
    <2> QED
      BY <2>1, <2>2
  <1>7. ASSUME NEW y \in Executions PROVE CarryOK(y)' /\ MadeOK(y)'
    <2>1. CarryOK(y) /\ MadeOK(y) /\ MadeOK(x)
      BY DEF RestIInv, MutationOK
    <2>2. CASE KeyFor(y) # KeyFor(x)
      <3>1. x \notin Twins(y) /\ y # x /\ Twins(y) \subseteq Executions
        BY <2>2 DEF Twins
      <3>2. \A z \in Twins(y) : made'[z] = made[z] /\ (Carrying(z)' <=> Carrying(z))
        BY <1>1, <3>1
      <3>3. Carrying(y)' <=> Carrying(y)
        BY <1>1, <3>1
      <3>4. made'[y] = made[y]
        BY <3>1
      <3> QED
        BY <2>1, <3>2, <3>3, <3>4 DEF CarryOK, MadeOK, Twins
    <2>3. CASE KeyFor(y) = KeyFor(x)
      <3>1. y \in Twins(x) /\ Twins(y) \subseteq Twins(x)
        BY <2>3 DEF Twins
      <3>2. ~Carrying(y)'
        BY <1>1, <1>4, <1>5, <3>1
      <3>3. \A z \in Twins(x) : made'[z] \in {0, 1} /\ (z # x => made'[z] = 0)
        BY <1>4 DEF Twins
      <3>4. MadeOK(y)'
        <4>1. made'[y] \in {0, 1}
          BY <3>1, <3>3
        <4>2. ASSUME NEW z \in Twins(y), z # y PROVE made'[y] + made'[z] <= 1
          BY <3>1, <3>3, <4>2
        <4> QED
          BY <4>1, <4>2 DEF MadeOK, Twins
      <3> QED
        BY <3>2, <3>4 DEF CarryOK
    <2> QED
      BY <2>2, <2>3
  <1> QED
    BY <1>6, <1>7 DEF MutationOK

LEMMA RequestAgentKeeps ==
  ASSUME RestIInv, NEW x \in Executions, RequestAgent(x)
  PROVE  RestIInv' /\ \A k \in Journaled : Advances(k)
  <1>1. /\ At(x, "request") /\ exec[x].mode = "go" /\ exec[x].at = RequestAt(x)
        /\ exec[x].at \in 1 .. Len(Plan(x)) /\ Working(x)
        /\ Plan(x)[exec[x].at] = "request"
        /\ Plan(x)[exec[x].at] \notin Progresses \cup {"record", "authorize"}
        /\ ReceiptAt(x) \in Nat /\ RequestAt(x) \in Nat /\ ReceiptAt(x) < RequestAt(x)
        /\ x \in Journaled => exec[x].at >= 3
        /\ KeyFor(x) \in Keys /\ Len(Plan(x)) \in Nat
        /\ ExecTypes /\ CallTypes
    BY AgentAt, ExecutionKinds, PlanLength DEF RequestAgent, RestIInv, At
  <1>2. UNCHANGED <<journal, copy, watch, told, listeners, receipt>>
    BY DEF RequestAgent, storeVars
  <1>3. made[x] = 0
    <2>1. Carrying(x) /\ x \in Twins(x)
      BY <1>1 DEF Carrying, Twins
    <2> QED
      BY <2>1 DEF RestIInv, MutationOK, CarryOK
  <1>4. made \in [Executions -> 0..2]
    BY DEF RestIInv, HistoryTypes
  <1> DEFINE more == [made EXCEPT ![x] = IF @ = 2 THEN 2 ELSE @ + 1]
  <1>5. more \in [Executions -> 0..2] /\ more[x] = 1
        /\ \A y \in Executions \ {x} : more[y] = made[y]
    BY <1>3, <1>4
  <1>6. ASSUME NEW b \in BOOLEAN, exec' = [exec EXCEPT ![x].at = @ + 1, ![x].ok = b],
               UNCHANGED call, made' = IF b THEN more ELSE made
        PROVE  RestIInv' /\ \A k \in Journaled : Advances(k)
    <2>1. exec' = [exec EXCEPT ![x].at = exec[x].at + 1, ![x].ok = b]
      BY <1>6
    <2>2. exec[x].at + 1 \in Nat \ {0} /\ exec[x].at + 1 <= Len(Plan(x))
      BY <1>1, PlanOfKeys, PlanOfDirect, ExecutionKinds DEF Progresses, RequestAt, AnswerAt
    <2>3. Moved(x, "go", exec[x].at + 1, b)
      BY <1>1, <2>1, <2>2, MoveAtOk
    <2>4. /\ exec'[x].mode = "go" /\ exec'[x].at = RequestAt(x) + 1 /\ exec'[x].ok = b
          /\ \A y \in Executions \ {x} : exec'[y] = exec[y]
      BY <1>1, <2>3 DEF Moved
    <2>5. ExecTypes' /\ CallTypes' /\ CallsAnswered
      BY <1>1, <1>6, <2>2, <2>3 DEF ExecTypes, CallTypes, CallsAnswered, Moved
    <2>6. /\ made'[x] = (IF b THEN 1 ELSE 0) /\ made' \in [Executions -> 0..2]
          /\ \A y \in Executions \ {x} : made'[y] = made[y]
      BY <1>3, <1>4, <1>5, <1>6
    <2> HIDE DEF more
    <2>7. HistoryTypes'
      BY <1>2, <2>6 DEF RestIInv, HistoryTypes
    <2>8. exec'[x].at > RequestAt(x) /\ made'[x] \in {0, 1}
      BY <1>1, <2>4, <2>6
    <2>9. MutationOK'
      BY <1>1, <1>2, <2>4, <2>5, <2>6, <2>8, RequestMutations
    <2>10. ASSUME x \in Journaled PROVE KeyOK(x)'
      <3>1. /\ Owner(x) /\ journal[x] = copy[x] /\ journal[x].phase # "none"
            /\ ~Terminal(copy[x]) /\ KeyOK(x)
        BY <1>1, <2>10, OwnerGoes
      <3>a. ~(exec'[x].at <= 2)
        BY <1>1, <2>4, <2>10
      <3>2. ModeOK(x)' /\ OwnerOK(x)'
        BY <1>2, <2>4, <3>1, <3>a DEF ModeOK, OwnerOK, Terminal
      <3>3. RecordOK(x)'
        BY <1>2, <3>1 DEF RecordOK, Terminal
      <3>4. PlaceOK(x)'
        <4>1. AgentFrom(x) \in Nat /\ RequestAt(x) = AgentFrom(x) + 11
          BY <2>10, PlanOfKeys, ExecutionKinds DEF RequestAt
        <4>2. /\ Behind(x, MarkAt(x)) => copy[x].dispatching
              /\ x \in Creating /\ Behind(x, 3) => copy[x].dispatching \/ copy[x].bound
              /\ WithAgent(x) /\ Behind(x, BindAt(x)) => copy[x].bound
          BY <3>1 DEF KeyOK, PlaceOK
        <4>3. Behind(x, MarkAt(x)) /\ Behind(x, 3) /\ Behind(x, BindAt(x))
          BY <1>1, <4>1 DEF Behind, MarkAt, BindAt
        <4>4. ~Behind(x, AnswerAt(x))'
          BY <1>1, <2>4, <4>1 DEF Behind, AnswerAt
        <4>5. ~(exec'[x].at <= ReceiptAt(x)) /\ ~(exec'[x].at < RequestAt(x))
          BY <1>1, <2>4
        <4> QED
          BY <1>2, <2>4, <2>6, <4>2, <4>3, <4>4, <4>5 DEF PlaceOK
      <3> QED
        BY <3>2, <3>3, <3>4 DEF KeyOK
    <2>11. \A k \in Journaled \ {x} : receipt'[k] = receipt[k] /\ made'[k] = made[k]
      BY <1>2, <2>6, ExecutionKinds
    <2> QED
      BY <1>2, <2>4, <2>5, <2>7, <2>9, <2>10, <2>11, AgentStep
  <1>7. CASE Throws(x) /\ made' \in {made, more}
    <2>1. /\ ExecTypes' /\ CallTypes' /\ CallsAnswered
          /\ \A y \in Executions \ {x} : exec'[y] = exec[y]
      BY <1>1, <1>7, StepMoves
    <2>2. /\ made'[x] \in {0, 1} /\ made' \in [Executions -> 0..2]
          /\ \A y \in Executions \ {x} : made'[y] = made[y]
      BY <1>3, <1>4, <1>5, <1>7
    <2> HIDE DEF more
    <2>3. HistoryTypes'
      BY <1>2, <2>2 DEF RestIInv, HistoryTypes
    <2>4. \/ exec'[x].mode = "off"
          \/ /\ exec'[x].mode = "catch" /\ exec'[x].at = exec[x].at /\ exec'[x].ok = exec[x].ok
             /\ x \in Journaled
      BY <1>1, <1>7, ThrowsIs DEF Moved
    <2>5. ~Working(x)'
      BY <2>4 DEF Working
    <2>6. MutationOK'
      BY <1>1, <1>2, <2>1, <2>2, <2>5, RequestMutations
    <2>7. ASSUME x \in Journaled PROVE KeyOK(x)'
      <3>1. /\ Owner(x) /\ journal[x] = copy[x] /\ journal[x].phase # "none"
            /\ ~Terminal(copy[x]) /\ KeyOK(x)
        BY <1>1, <2>7, OwnerGoes
      <3>2. RecordOK(x)'
        BY <1>2, <3>1 DEF RecordOK, Terminal
      <3>3. journal'[x] = journal[x] /\ copy'[x] = copy[x]
        BY <1>2
      <3> QED
        BY <1>1, <2>4, <2>7, <3>1, <3>2, <3>3, KeyOff, KeyCaught
    <2>8. \A k \in Journaled \ {x} : receipt'[k] = receipt[k] /\ made'[k] = made[k]
      BY <1>2, <2>2, ExecutionKinds
    <2>9. x \in Direct => exec'[x].mode \in {"off", "go"}
      BY <2>4, ExecutionKinds
    <2> QED
      BY <1>2, <2>1, <2>3, <2>6, <2>7, <2>8, <2>9, AgentStep
  <1> QED
    BY <1>6, <1>7 DEF RequestAgent

LEMMA StoreReceiptKeeps ==
  ASSUME RestIInv, NEW x \in Executions, StoreReceipt(x)
  PROVE  RestIInv' /\ \A k \in Journaled : Advances(k)
  <1>1. /\ At(x, "store") /\ exec[x].mode = "go" /\ Plan(x)[exec[x].at] = "store"
        /\ exec[x].at \in 1 .. Len(Plan(x)) /\ Working(x)
        /\ Plan(x)[exec[x].at] \notin Progresses \cup {"record", "authorize"}
        /\ Plan(x)[exec[x].at] \notin Progresses \cup {"record", "receipt", "request"}
        /\ Plan(x)[exec[x].at] \notin Progresses \cup {"record", "request"}
        /\ x \in Journaled => exec[x].at >= 3
        /\ KeyFor(x) \in Keys
        /\ ExecTypes /\ CallTypes
    BY AgentAt, ExecutionKinds DEF StoreReceipt, RestIInv, At
  <1>2. /\ UNCHANGED <<journal, copy, watch, told, listeners, made>>
        /\ Passes(x) \/ Throws(x)
        /\ \/ UNCHANGED receipt
           \/ receipt' = [receipt EXCEPT ![KeyFor(x)].state = "done",
                                         ![KeyFor(x)].ok = exec[x].ok]
    BY DEF StoreReceipt
  <1>3. /\ ExecTypes' /\ CallTypes' /\ CallsAnswered /\ SafeMove(x)
        /\ \A y \in Executions \ {x} : exec'[y] = exec[y]
        /\ x \in Direct => exec'[x].mode \in {"off", "go"}
        /\ x \in Journaled /\ exec'[x].mode # "off" =>
             \/ exec'[x].mode = "go" /\ exec'[x].at = exec[x].at + 1 /\ exec'[x].ok = exec[x].ok
             \/ /\ exec'[x].mode = "catch" /\ exec[x].at >= 3
                /\ exec'[x].at = exec[x].at /\ exec'[x].ok = exec[x].ok
    BY <1>1, <1>2, PlainMoves
  <1>4. /\ HistoryTypes'
        /\ receipt'[KeyFor(x)].state = "none" => receipt[KeyFor(x)].state = "none"
        /\ \A k \in Keys \ {KeyFor(x)} : receipt'[k] = receipt[k]
    <2>1. receipt \in [Keys -> [state : {"none", "open", "done"},
                                body : Bodies \cup {NoBody}, ok : BOOLEAN]]
      BY DEF RestIInv, HistoryTypes
    <2>2. exec[x].ok \in BOOLEAN
      BY <1>1 DEF ExecTypes, Execution
    <2> DEFINE new == [[receipt[KeyFor(x)] EXCEPT !.state = "done"] EXCEPT !.ok = exec[x].ok]
    <2>3. /\ new \in [state : {"none", "open", "done"}, body : Bodies \cup {NoBody}, ok : BOOLEAN]
          /\ new.state = "done"
      BY <1>1, <2>1, <2>2
    <2>4. UNCHANGED receipt \/ receipt' = [receipt EXCEPT ![KeyFor(x)] = new]
      BY <1>1, <1>2, <2>1
    <2> HIDE DEF new
    <2>5. /\ receipt' \in [Keys -> [state : {"none", "open", "done"},
                                    body : Bodies \cup {NoBody}, ok : BOOLEAN]]
          /\ receipt'[KeyFor(x)].state = "none" => receipt[KeyFor(x)].state = "none"
          /\ \A k \in Keys \ {KeyFor(x)} : receipt'[k] = receipt[k]
      BY <1>1, <2>1, <2>3, <2>4
    <2> QED
      BY <1>2, <2>5 DEF RestIInv, HistoryTypes
  <1>5. MutationOK'
    <2>1. \A y \in Executions : SafeMove(y)
      BY <1>1, <1>2, <1>3, OthersWork
    <2>2. \A k \in Keys : receipt'[k].state = "none" => receipt[k].state = "none"
      BY <1>4
    <2> QED
      BY <1>1, <1>2, <1>3, <2>1, <2>2, MutationKept DEF RestIInv
  <1>6. ASSUME x \in Journaled PROVE KeyOK(x)'
    <2>1. /\ Owner(x) /\ journal[x] = copy[x] /\ journal[x].phase # "none"
          /\ ~Terminal(copy[x]) /\ KeyOK(x)
      BY <1>1, <1>6, OwnerGoes
    <2>2. RecordOK(x)'
      BY <1>2, <2>1 DEF RecordOK, Terminal
    <2>3. journal'[x] = journal[x] /\ copy'[x] = copy[x] /\ made'[x] = made[x]
      BY <1>2
    <2>4. exec[x].at >= ReceiptAt(x)
      <3>1. Plan(x)[exec[x].at] = "store" => exec[x].at >= ReceiptAt(x)
        BY <1>1, <1>6, StoreComesLater
      <3> QED
        BY <1>1, <3>1
    <2>5. CASE exec'[x].mode = "go"
      BY <1>1, <1>3, <1>6, <2>1, <2>2, <2>3, <2>4, <2>5, KeyPasses
    <2>6. CASE exec'[x].mode = "catch"
      BY <1>1, <1>3, <1>6, <2>1, <2>2, <2>3, <2>6, KeyCaught
    <2>7. CASE exec'[x].mode = "off"
      BY <1>6, <2>2, <2>7, KeyOff
    <2> QED
      BY <1>3, <1>6, <2>5, <2>6, <2>7
  <1>7. \A k \in Journaled \ {x} : receipt'[k] = receipt[k] /\ made'[k] = made[k]
    BY <1>2, <1>4, ExecutionKinds
  <1> QED
    BY <1>2, <1>3, <1>4, <1>5, <1>6, <1>7, AgentStep
-----------------------------------------------------------------------------
(* Requests, subscriptions and the process.                                 *)

LEMMA QuietStep ==
  ASSUME RestIInv, UNCHANGED <<exec, journal, copy, receipt, made>>,
         CallTypes', WatchTypes', HistoryTypes', AnswersAgree',
         \A c \in Calls : CallOK(c)', \A v \in Watchers : WatchOK(v)'
  PROVE  RestIInv' /\ \A k \in Journaled : Advances(k)
  <1>1. ExecTypes' /\ RecordTypes' /\ DirectOK'
    BY DEF RestIInv, ExecTypes, RecordTypes, DirectOK
  <1>2. \A k \in Journaled : KeyOK(k)'
    BY KeyKept DEF RestIInv
  <1>3. \A x \in Executions : SafeMove(x)
    BY WorkingKept DEF RestIInv
  <1>4. MutationOK'
    BY <1>1, <1>3, MutationKept DEF RestIInv
  <1> QED
    BY <1>1, <1>2, <1>4 DEF RestIInv, Advances

\* What a change to the requests alone keeps.
LEMMA SameRecords ==
  ASSUME RestIInv, UNCHANGED <<journal, watch, told>>
  PROVE  /\ WatchTypes' /\ AnswersAgree' /\ \A k \in Journaled : Advances(k)
         /\ \A v \in Watchers : WatchOK(v)'
  BY DEF RestIInv, WatchTypes, AnswersAgree, Advances, WatchOK, SnapshotOK, Terminal

CallShape == [pc : {"idle", "own", "join", "wait"},
              outcome : JournalRecord \cup {Pending, Error}]

LEMMA CallPC ==
  ASSUME CallTypes, NEW c \in Calls, NEW p \in {"idle", "own", "join", "wait"},
         call' = [call EXCEPT ![c].pc = p]
  PROVE  CallTypes' /\ \A d \in Calls : call'[d].outcome = call[d].outcome
  <1> DEFINE q == [call[c] EXCEPT !.pc = p]
  <1>1. q \in CallShape /\ q.outcome = call[c].outcome
    BY DEF CallTypes, CallShape
  <1>2. call' = [call EXCEPT ![c] = q]
    OBVIOUS
  <1> HIDE DEF q
  <1> QED
    BY <1>1, <1>2 DEF CallTypes, CallShape

LEMMA CallIdle ==
  ASSUME CallTypes, NEW c \in Calls, call' = [call EXCEPT ![c] = Idle]
  PROVE  CallTypes' /\ \A d \in Calls : call'[d].outcome \in {call[d].outcome, Pending}
  <1>1. Idle \in CallShape /\ Idle.outcome = Pending
    BY DEF CallShape, Idle
  <1> QED
    BY <1>1 DEF CallTypes, CallShape

LEMMA JoinKeeps ==
  ASSUME RestIInv, NEW c \in Calls, Join(c)
  PROVE  RestIInv' /\ \A k \in Journaled : Advances(k)
  <1>1. UNCHANGED <<exec, journal, copy, receipt, made, watch, told>>
    BY DEF Join, storeVars
  <1>2. listeners' \subseteq listeners \cup {c}
    BY DEF Join
  <1>3. HistoryTypes'
    BY <1>1, <1>2 DEF RestIInv, HistoryTypes
  <1>4. call' = [call EXCEPT ![c].pc = "wait"] \/ call' = [call EXCEPT ![c] = Idle]
    BY DEF Join
  <1>5. CallTypes' /\ CallsAnswered
    BY <1>4, CallPC, CallIdle DEF RestIInv, CallsAnswered
  <1>6. /\ WatchTypes' /\ AnswersAgree' /\ \A k \in Journaled : Advances(k)
        /\ \A v \in Watchers : WatchOK(v)'
    BY <1>1, SameRecords
  <1>7. \A d \in Calls : CallOK(d)'
    BY <1>5, <1>6, CallsKept DEF RestIInv
  <1> QED
    BY <1>1, <1>3, <1>5, <1>6, <1>7, QuietStep

\* An answer is the record's final state.
LEMMA AnswerIs ==
  ASSUME RestIInv, NEW c \in Calls, call[c].outcome # Pending, call[c].outcome # Error
  PROVE  /\ KeyOf[c] \in Journaled /\ Terminal(call[c].outcome)
         /\ call[c].outcome = journal[KeyOf[c]] /\ journal[KeyOf[c]] \in JournalRecord
  <1>1. c \notin Direct /\ Answers(call[c].outcome, KeyOf[c])
    BY DEF RestIInv, CallOK
  <1>2. KeyOf[c] \in Journaled
    BY <1>1, ExecutionKinds
  <1> QED
    BY <1>1, <1>2 DEF Answers, RestIInv, RecordTypes

LEMMA ReplyKeeps ==
  ASSUME RestIInv, NEW c \in Calls, Reply(c)
  PROVE  RestIInv' /\ \A k \in Journaled : Advances(k)
  <1>1. UNCHANGED <<exec, journal, copy, receipt, made, watch, listeners>>
    BY DEF Reply, storeVars
  <1>2. CallTypes' /\ CallsAnswered
    BY CallIdle DEF RestIInv, CallsAnswered, Reply
  <1>3. \A k \in Journaled : Advances(k)
    BY <1>1 DEF Advances
  <1>4. \A d \in Calls : CallOK(d)'
    BY <1>2, <1>3, CallsKept DEF RestIInv
  <1>5. WatchTypes' /\ \A v \in Watchers : WatchOK(v)'
    BY <1>1 DEF RestIInv, WatchTypes, WatchOK, SnapshotOK, Terminal
  <1>6. told \in [Journaled -> SUBSET JournalRecord]
    BY DEF RestIInv, HistoryTypes
  <1>7. CASE UNCHANGED told
    <2>1. HistoryTypes'
      BY <1>1, <1>7 DEF RestIInv, HistoryTypes
    <2>2. AnswersAgree'
      BY <1>3, <1>7, AnswersKept DEF RestIInv
    <2> QED
      BY <1>1, <1>2, <1>4, <1>5, <2>1, <2>2, QuietStep
  <1>8. CASE /\ call[c].outcome # Error
             /\ told' = [told EXCEPT ![KeyOf[c]] = @ \cup {call[c].outcome}]
    <2>1. /\ KeyOf[c] \in Journaled /\ Terminal(call[c].outcome)
          /\ call[c].outcome = journal[KeyOf[c]] /\ journal[KeyOf[c]] \in JournalRecord
      BY <1>8, AnswerIs DEF Reply
    <2>2. told' \in [Journaled -> SUBSET JournalRecord]
      BY <1>6, <1>8, <2>1
    <2>3. HistoryTypes'
      BY <1>1, <2>2 DEF RestIInv, HistoryTypes
    <2>4. ASSUME NEW k \in Journaled, NEW r \in told'[k] PROVE Terminal(r) /\ r = journal[k]
      <3>1. CASE r \in told[k]
        BY <3>1 DEF RestIInv, AnswersAgree
      <3>2. CASE r \notin told[k]
        <4>1. k = KeyOf[c] /\ r = call[c].outcome
          BY <1>6, <1>8, <2>1, <2>4, <3>2
        <4> QED
          BY <2>1, <4>1
      <3> QED
        BY <3>1, <3>2
    <2>5. AnswersAgree'
      BY <1>1, <2>4 DEF AnswersAgree, Terminal
    <2> QED
      BY <1>1, <1>2, <1>4, <1>5, <2>3, <2>5, QuietStep
  <1> QED
    BY <1>7, <1>8 DEF Reply

LEMMA FreshRecord ==
  ASSUME NEW c \in Calls
  PROVE  LET r == [Absent EXCEPT !.body = BodyOf[c], !.phase = "accepted"]
         IN r \in JournalRecord /\ r.phase = "accepted"
  <1>1. BodyOf[c] \in Bodies
    BY CreationAssumption
  <1>2. PICK a \in JournalRecord : a = Absent
    BY RecordFacts
  <1>3. [a EXCEPT !.body = BodyOf[c], !.phase = "accepted"] \in JournalRecord
    BY <1>1 DEF JournalRecord, Snapshots
  <1>4. [a EXCEPT !.body = BodyOf[c], !.phase = "accepted"].phase = "accepted"
    BY DEF JournalRecord
  <1> QED
    BY <1>2, <1>3, <1>4

LEMMA SendKeeps ==
  ASSUME RestIInv, NEW c \in Calls, Send(c)
  PROVE  RestIInv' /\ \A k \in Journaled : Advances(k)
  <1> DEFINE k == KeyOf[c]
  <1>1. /\ UNCHANGED <<journal, receipt, made, watch, told, listeners>>
        /\ ExecTypes /\ CallTypes /\ RecordTypes
    BY DEF Send, storeVars, RestIInv
  <1>2. HistoryTypes' /\ WatchTypes'
    BY <1>1 DEF RestIInv, HistoryTypes, WatchTypes
  <1>3. /\ WatchTypes' /\ AnswersAgree' /\ \A j \in Journaled : Advances(j)
        /\ \A v \in Watchers : WatchOK(v)'
    BY <1>1, SameRecords
  <1>4. CASE UNCHANGED <<exec, copy>> /\ call' = [call EXCEPT ![c].pc = "join"]
    <2>1. CallTypes' /\ CallsAnswered
      BY <1>1, <1>4, CallPC DEF CallsAnswered
    <2>2. \A d \in Calls : CallOK(d)'
      BY <1>3, <2>1, CallsKept DEF RestIInv
    <2> QED
      BY <1>1, <1>2, <1>3, <1>4, <2>1, <2>2, QuietStep
  <1>5. CASE /\ call' = [call EXCEPT ![c].pc = "own"]
             /\ \/ /\ c \in Direct /\ exec' = [exec EXCEPT ![c] = [Off EXCEPT !.mode = "go"]]
                   /\ UNCHANGED copy
                \/ /\ c \notin Direct /\ ~Active(k)
                   /\ exec' = [exec EXCEPT ![k] = [Off EXCEPT !.mode = "go"]]
                   /\ copy' = [copy EXCEPT ![k] = [Absent EXCEPT !.body = BodyOf[c],
                                                                 !.phase = "accepted"]]
    <2>1. CallTypes' /\ CallsAnswered
      BY <1>1, <1>5, CallPC DEF CallsAnswered
    <2>2. CASE c \in Direct /\ exec' = [exec EXCEPT ![c] = [Off EXCEPT !.mode = "go"]]
               /\ UNCHANGED copy
      <3>1. c \in Executions /\ c \notin Journaled
        BY <2>2, ExecutionKinds
      <3>2. Moved(c, "go", 1, FALSE)
        BY <1>1, <2>2, <3>1, MoveStart
      <3>3. ExecTypes'
        BY <1>1, <3>1, <3>2, StartTypes
      <3>4. SafeMove(c)
        <4>1. ReceiptAt(c) \in Nat /\ ReceiptAt(c) >= 4 /\ exec'[c].at = 1
          BY <3>1, <3>2, PlacesAre DEF Moved
        <4> QED
          BY <4>1 DEF SafeMove
      <3>5. \A y \in Executions : SafeMove(y)
        BY <1>1, <2>2, <3>1, <3>2, <3>4, OthersWork DEF Moved
      <3>6. MutationOK'
        BY <1>1, <3>3, <3>5, MutationKept DEF RestIInv
      <3> QED
        BY <1>1, <1>2, <2>1, <2>2, <3>1, <3>2, <3>3, <3>6, AgentStep DEF Moved
    <2>3. CASE /\ c \notin Direct /\ ~Active(k)
               /\ exec' = [exec EXCEPT ![k] = [Off EXCEPT !.mode = "go"]]
               /\ copy' = [copy EXCEPT ![k] = [Absent EXCEPT !.body = BodyOf[c],
                                                             !.phase = "accepted"]]
      <3>1. k \in Journaled /\ k \in Executions
        BY <2>3, ExecutionKinds
      <3>2. Moved(k, "go", 1, FALSE)
        BY <1>1, <2>3, <3>1, MoveStart
      <3>3. ExecTypes'
        BY <1>1, <3>1, <3>2, StartTypes
      <3>4. SafeMove(k)
        <4>1. ReceiptAt(k) \in Nat /\ ReceiptAt(k) >= 4 /\ exec'[k].at = 1
          BY <3>1, <3>2, PlacesAre DEF Moved
        <4> QED
          BY <4>1 DEF SafeMove
      <3> DEFINE fresh == [Absent EXCEPT !.body = BodyOf[c], !.phase = "accepted"]
      <3>5. fresh \in JournalRecord /\ fresh.phase = "accepted"
        BY FreshRecord
      <3>6. copy' = [copy EXCEPT ![k] = fresh]
        BY <2>3
      <3> HIDE DEF fresh
      <3>7. RecordTypes' /\ copy'[k].phase = "accepted"
            /\ \A j \in Journaled \ {k} : copy'[j] = copy[j]
        BY <1>1, <3>1, <3>5, <3>6 DEF RecordTypes
      <3>8. RecordOK(k)'
        BY <1>1, <3>1, RecordKept DEF RestIInv, KeyOK
      <3>9. exec'[k].mode = "go" /\ exec'[k].at = 1
        BY <3>2 DEF Moved
      <3>10. KeyOK(k)'
        BY <3>7, <3>8, <3>9 DEF KeyOK, ModeOK, OwnerOK, PlaceOK, Owner
      <3>11. /\ \A y \in Executions \ {k} : exec'[y] = exec[y]
             /\ Advances(k)
             /\ \A j \in Journaled \ {k} : copy'[j] = copy[j] /\ journal'[j] = journal[j]
             /\ UNCHANGED <<receipt, made, told>>
             /\ \A v \in Watchers : watch'[v] = watch[v] \/ watch'[v].pc = "idle"
        BY <1>1, <1>3, <3>1, <3>2, <3>7 DEF Moved
      <3> HIDE DEF k
      <3> QED
        BY <1>2, <2>1, <3>1, <3>3, <3>4, <3>7, <3>10, <3>11, KeyStep
    <2> QED
      BY <1>5, <2>2, <2>3
  <1> QED
    BY <1>4, <1>5 DEF Send

LEMMA DisconnectKeeps ==
  ASSUME RestIInv, Disconnect
  PROVE  RestIInv' /\ \A k \in Journaled : Advances(k)
  <1>1. UNCHANGED <<exec, journal, copy, receipt, made, watch, told, call>> /\ listeners' = {}
    BY DEF Disconnect, storeVars
  <1>2. HistoryTypes' /\ CallTypes'
    BY <1>1 DEF RestIInv, HistoryTypes, CallTypes
  <1>3. /\ WatchTypes' /\ AnswersAgree' /\ \A k \in Journaled : Advances(k)
        /\ \A v \in Watchers : WatchOK(v)'
    BY <1>1, SameRecords
  <1>4. CallsAnswered
    BY <1>1 DEF CallsAnswered
  <1>5. \A c \in Calls : CallOK(c)'
    BY <1>3, <1>4, CallsKept DEF RestIInv
  <1> QED
    BY <1>1, <1>2, <1>3, <1>5, QuietStep

LEMMA WatchBeginKeeps ==
  ASSUME RestIInv, NEW v \in Watchers, NEW k \in Journaled, WatchBegin(v, k)
  PROVE  RestIInv' /\ \A j \in Journaled : Advances(j)
  <1>1. /\ UNCHANGED <<exec, journal, copy, receipt, made, told, call>>
        /\ listeners' \subseteq listeners \cup {v}
        /\ watch' = [watch EXCEPT ![v] = [pc |-> "read", key |-> k, copy |-> Absent]]
    BY DEF WatchBegin, storeVars
  <1>2. HistoryTypes' /\ CallTypes'
    BY <1>1 DEF RestIInv, HistoryTypes, CallTypes
  <1> DEFINE q == [pc |-> "read", key |-> k, copy |-> Absent]
  <1>3. q \in [pc : {"idle", "read", "recover"}, key : Journaled \cup {Unwatched.key},
               copy : JournalRecord]
        /\ q.pc = "read" /\ q.key = k
    BY RecordFacts
  <1>4. watch' = [watch EXCEPT ![v] = q]
    BY <1>1
  <1> HIDE DEF q
  <1>5. /\ WatchTypes' /\ watch'[v].pc = "read" /\ watch'[v].key = k
        /\ \A u \in Watchers \ {v} : watch'[u] = watch[u]
    BY <1>3, <1>4 DEF RestIInv, WatchTypes
  <1>6. ASSUME NEW u \in Watchers PROVE WatchOK(u)'
    <2>1. CASE u = v
      BY <1>5, <2>1 DEF WatchOK
    <2>2. CASE u # v
      BY <1>1, <1>5, <2>2 DEF RestIInv, WatchOK, SnapshotOK, Terminal
    <2> QED
      BY <2>1, <2>2
  <1>7. AnswersAgree'
    BY <1>1 DEF RestIInv, AnswersAgree, Terminal
  <1>8. \A c \in Calls : CallOK(c)'
    BY <1>1 DEF RestIInv, CallOK, Answers, Terminal
  <1> QED
    BY <1>1, <1>2, <1>5, <1>6, <1>7, <1>8, QuietStep

LEMMA WatchReadsKeeps ==
  ASSUME RestIInv, NEW v \in Watchers, WatchReads(v)
  PROVE  RestIInv' /\ \A j \in Journaled : Advances(j)
  <1>1. /\ UNCHANGED <<exec, journal, copy, receipt, made, told, call>>
        /\ listeners' \subseteq listeners
        /\ watch[v].pc = "read"
    BY DEF WatchReads, storeVars
  <1>2. HistoryTypes' /\ CallTypes'
    BY <1>1 DEF RestIInv, HistoryTypes, CallTypes
  <1>3. PICK k \in Journaled : k = watch[v].key
    BY <1>1 DEF RestIInv, WatchOK
  <1>4. watch[v] \in [pc : {"idle", "read", "recover"}, key : Journaled \cup {Unwatched.key},
                      copy : JournalRecord]
        /\ journal[k] \in JournalRecord /\ journal[k].revision \in Nat
    BY DEF RestIInv, WatchTypes, RecordTypes, JournalRecord
  <1>5. AnswersAgree'
    BY <1>1 DEF RestIInv, AnswersAgree, Terminal
  <1>6. \A c \in Calls : CallOK(c)'
    BY <1>1 DEF RestIInv, CallOK, Answers, Terminal
  <1>7. ASSUME NEW q \in [pc : {"idle", "read", "recover"}, key : Journaled \cup {Unwatched.key},
                          copy : JournalRecord],
               watch' = [watch EXCEPT ![v] = q],
               \/ q.pc = "idle"
               \/ q.pc = "recover" /\ q.key = k /\ q.copy = journal[k] /\ journal[k].phase # "none"
        PROVE  RestIInv' /\ \A j \in Journaled : Advances(j)
    <2>1. WatchTypes' /\ watch'[v] = q /\ \A u \in Watchers \ {v} : watch'[u] = watch[u]
      BY <1>7 DEF RestIInv, WatchTypes
    <2>2. ASSUME NEW u \in Watchers PROVE WatchOK(u)'
      <3>1. CASE u = v
        BY <1>1, <1>4, <1>7, <2>1, <3>1 DEF WatchOK, SnapshotOK
      <3>2. CASE u # v
        BY <1>1, <2>1, <3>2 DEF RestIInv, WatchOK, SnapshotOK, Terminal
      <3> QED
        BY <3>1, <3>2
    <2> QED
      BY <1>1, <1>2, <1>5, <1>6, <2>1, <2>2, QuietStep
  <1>8. CASE /\ journal[k].phase # "none"
             /\ watch' = [watch EXCEPT ![v].pc = "recover", ![v].copy = journal[k]]
    <2> DEFINE q == [[watch[v] EXCEPT !.pc = "recover"] EXCEPT !.copy = journal[k]]
    <2>1. /\ q \in [pc : {"idle", "read", "recover"}, key : Journaled \cup {Unwatched.key},
                    copy : JournalRecord]
          /\ q.pc = "recover" /\ q.key = watch[v].key /\ q.copy = journal[k]
      BY <1>4
    <2>2. watch' = [watch EXCEPT ![v] = q]
      BY <1>8 DEF RestIInv, WatchTypes
    <2> HIDE DEF q
    <2> QED
      BY <1>3, <1>7, <1>8, <2>1, <2>2
  <1>9. CASE watch' = [watch EXCEPT ![v] = Unwatched]
    <2>1. /\ Unwatched \in [pc : {"idle", "read", "recover"},
                            key : Journaled \cup {Unwatched.key}, copy : JournalRecord]
          /\ Unwatched.pc = "idle"
      BY RecordFacts DEF Unwatched
    <2> QED
      BY <1>7, <1>9, <2>1
  <1> QED
    BY <1>3, <1>8, <1>9 DEF WatchReads

LEMMA WatchRecoversKeeps ==
  ASSUME RestIInv, NEW v \in Watchers, WatchRecovers(v)
  PROVE  RestIInv' /\ \A j \in Journaled : Advances(j)
  <1>1. /\ UNCHANGED <<exec, copy, receipt, made, told, call>>
        /\ listeners' \subseteq listeners
        /\ watch[v].pc = "recover"
        /\ watch' = [watch EXCEPT ![v].pc = "idle", ![v].copy = Absent]
    BY DEF WatchRecovers
  <1>2. HistoryTypes' /\ CallTypes' /\ ExecTypes'
    BY <1>1 DEF RestIInv, HistoryTypes, CallTypes, ExecTypes
  <1>3. PICK k \in Journaled : k = watch[v].key
    BY <1>1 DEF RestIInv, WatchOK
  <1>4. PICK r \in JournalRecord : r = watch[v].copy
    BY DEF RestIInv, WatchTypes
  <1>5. SnapshotOK(r, k)
    BY <1>1, <1>3, <1>4 DEF RestIInv, WatchOK
  <1>6. WatchTypes' /\ \A u \in Watchers : watch'[u] = watch[u] \/ watch'[u].pc = "idle"
    <2> DEFINE q == [[watch[v] EXCEPT !.pc = "idle"] EXCEPT !.copy = Absent]
    <2>1. /\ q \in [pc : {"idle", "read", "recover"}, key : Journaled \cup {Unwatched.key},
                    copy : JournalRecord]
          /\ q.pc = "idle"
      BY RecordFacts DEF RestIInv, WatchTypes
    <2>2. watch' = [watch EXCEPT ![v] = q]
      BY <1>1 DEF RestIInv, WatchTypes
    <2> HIDE DEF q
    <2> QED
      BY <2>1, <2>2 DEF RestIInv, WatchTypes
  <1>7. CallsAnswered /\ SafeMove(k)
    BY <1>1, WorkingKept, ExecutionKinds DEF CallsAnswered, RestIInv
  <1>8. UNCHANGED journal \/ (~Active(k) /\ \E o : Recovers(k, r, o))
        \/ (Terminal(r) /\ \E o : Recovers(k, r, o))
    BY <1>3, <1>4 DEF WatchRecovers
  <1>9. CASE UNCHANGED journal
    <2>1. RecordTypes' /\ Advances(k) /\ KeyOK(k)'
      BY <1>1, <1>9, KeyKept DEF RestIInv, RecordTypes, Advances
    <2> QED
      BY <1>1, <1>2, <1>6, <1>7, <1>9, <2>1, KeyStep
  <1>10. ASSUME ~Active(k), NEW o, Recovers(k, r, o)
         PROVE  RestIInv' /\ \A j \in Journaled : Advances(j)
    <2>1. /\ Advances(k)
          /\ journal' \in [Journaled -> JournalRecord]
          /\ \A j \in Journaled \ {k} : journal'[j] = journal[j]
          /\ journal'[k] = journal[k] \/ (journal'[k].phase = "failed" /\ journal'[k].unknown)
      BY <1>5, <1>10, RecoversIs DEF SnapshotOK, RestIInv
    <2>2. RecordTypes'
      BY <1>1, <2>1 DEF RestIInv, RecordTypes
    <2>3. RecordOK(k)'
      BY <1>1, <2>1 DEF RestIInv, KeyOK, RecordOK
    <2>4. exec'[k].mode = "off"
      BY <1>1, <1>10 DEF Active
    <2>5. KeyOK(k)'
      BY <2>3, <2>4, KeyOff
    <2> QED
      BY <1>1, <1>2, <1>6, <1>7, <2>1, <2>2, <2>5, KeyStep
  <1>11. Terminal(r) /\ (\E o : Recovers(k, r, o)) => UNCHANGED journal
    BY DEF Recovers
  <1> QED
    BY <1>8, <1>9, <1>10, <1>11

LEMMA CrashKeeps ==
  ASSUME RestIInv, Crash
  PROVE  RestIInv' /\ \A j \in Journaled : Advances(j)
  <1>1. /\ UNCHANGED <<journal, receipt, made, told>> /\ listeners' = {}
        /\ copy' = [k \in Journaled |-> Absent]
        /\ exec' = [x \in Executions |-> Off]
        /\ call' = [c \in Calls |-> Idle]
        /\ watch' = [v \in Watchers |-> Unwatched]
    BY DEF Crash, storeVars
  <1>2. HistoryTypes' /\ RecordTypes'
    BY <1>1, RecordFacts DEF RestIInv, HistoryTypes, RecordTypes
  <1>3. ExecTypes'
    <2>1. \A x \in Executions : exec'[x] = Off /\ Off.at = 1 /\ Off \in Execution
      BY <1>1, RecordFacts
    <2>2. \A x \in Executions : 1 <= Len(Plan(x))
      BY PlanLength
    <2> QED
      BY <1>1, <2>1, <2>2 DEF ExecTypes
  <1>4. CallTypes' /\ \A c \in Calls : call'[c].outcome = Pending
    BY <1>1, RecordFacts DEF CallTypes, Idle
  <1>5. WatchTypes' /\ \A v \in Watchers : watch'[v].pc = "idle"
    BY <1>1, RecordFacts DEF WatchTypes, Unwatched
  <1>6. \A x \in Executions : exec'[x].mode = "off"
    BY <1>1, RecordFacts
  <1>7. \A x \in Executions : SafeMove(x)
    BY <1>6 DEF SafeMove, Working
  <1>8. MutationOK'
    BY <1>1, <1>3, <1>7, MutationKept DEF RestIInv
  <1>9. \A k \in Journaled : Advances(k)
    BY <1>1 DEF Advances
  <1>10. ASSUME NEW k \in Journaled PROVE KeyOK(k)'
    <2>1. RecordOK(k)'
      BY <1>1, RecordKept DEF RestIInv, KeyOK
    <2> QED
      BY <1>6, <2>1, KeyOff, ExecutionKinds
  <1>11. DirectOK' /\ (\A v \in Watchers : WatchOK(v)')
    BY <1>5, <1>6, ExecutionKinds DEF DirectOK, WatchOK
  <1>12. \A c \in Calls : CallOK(c)'
    BY <1>4 DEF CallOK
  <1>13. AnswersAgree'
    BY <1>1, <1>9, AnswersKept DEF RestIInv
  <1> QED
    BY <1>2, <1>3, <1>4, <1>5, <1>8, <1>9, <1>10, <1>11, <1>12, <1>13 DEF RestIInv
-----------------------------------------------------------------------------
(* The queue of the admission.                                              *)

LEMMA OthersStay ==
  ASSUME ExecTypes, NEW x \in Executions,
         Passes(x) \/ Throws(x) \/ ProgressFails(x) \/ (\E o : Ends(x, o))
  PROVE  \A y \in Executions \ {x} : exec'[y] = exec[y]
  BY DEF ExecTypes, Passes, Throws, ProgressFails, Ends

LEMMA QueueMover ==
  ASSUME QueueIInv, NEW x \in Executions, ~At(x, "admit"),
         \A y \in Executions \ {x} : exec'[y] = exec[y],
         UNCHANGED <<queue, admitting, space, spaceBody>>
  PROVE  QueueIInv'
  <1>1. UNCHANGED admissionVars
    BY DEF admissionVars
  <1> QED
    BY <1>1, QueueKept

\* Who has been admitted leaves the queue.
LEMMA QueueLeaves ==
  ASSUME QueueIInv, ExecTypes, queue # <<>>, queue' = Tail(queue), ~admitting',
         Passes(Head(queue)) \/ Throws(Head(queue))
  PROVE  queue' \in Seq(Executions) /\ QueueOK'
  <1>1. queue \in Seq(Executions) /\ Len(queue) \in Nat /\ Len(queue) > 0
        /\ Head(queue) = queue[1] /\ Head(queue) \in Executions
    BY DEF QueueIInv, AdmissionTypes
  <1>2. /\ queue' \in Seq(Executions) /\ Len(queue') = Len(queue) - 1
        /\ \A i \in 1 .. Len(queue') : queue'[i] = queue[i + 1]
    BY <1>1
  <1>3. \A y \in Executions \ {queue[1]} : exec'[y] = exec[y]
    BY <1>1, OthersStay
  <1>4. ASSUME NEW i \in 1 .. Len(queue')
        PROVE  /\ queue'[i] = queue[i + 1] /\ i + 1 \in 1 .. Len(queue)
               /\ queue[i + 1] \in Executions \ {queue[1]}
    <2>1. queue'[i] = queue[i + 1] /\ i + 1 \in 1 .. Len(queue) /\ 1 \in 1 .. Len(queue)
          /\ i + 1 # 1
      BY <1>1, <1>2
    <2>2. queue[i + 1] # queue[1]
      BY <2>1 DEF QueueIInv, QueueOK
    <2> QED
      BY <1>1, <2>1, <2>2
  <1>5. ASSUME NEW i \in 1 .. Len(queue') PROVE At(queue[i], "admit")'
    <2>1. PICK y \in Executions : y = queue[i + 1] /\ y # queue[1]
      BY <1>4
    <2>2. At(y, "admit")
      BY <1>4, <2>1 DEF QueueIInv, QueueOK
    <2>3. At(y, "admit")'
      BY <1>3, <2>1, <2>2 DEF At
    <2>4. queue'[i] = y
      BY <1>4, <2>1
    <2> QED
      BY <2>3, <2>4 DEF At
  <1>6. ASSUME NEW i \in 1 .. Len(queue'), NEW j \in 1 .. Len(queue'), queue'[i] = queue'[j]
        PROVE  i = j
    <2>1. queue[i + 1] = queue[j + 1] /\ i + 1 \in 1 .. Len(queue) /\ j + 1 \in 1 .. Len(queue)
      BY <1>4, <1>6
    <2>2. i + 1 = j + 1
      BY <2>1 DEF QueueIInv, QueueOK
    <2> QED
      BY <2>2
  <1> QED
    BY <1>2, <1>5, <1>6 DEF QueueOK

LEMMA AdmitKeeps ==
  ASSUME CreationIInv, NEW x \in Executions, Admit(x)
  PROVE  CreationIInv' /\ \A k \in Journaled : Advances(k)
  <1>1. RestIInv /\ QueueIInv /\ ExecTypes /\ At(x, "admit")
    BY TwoParts DEF Admit, RestIInv
  <1>2. /\ UNCHANGED <<journal, copy, receipt, made, watch, listeners, told>>
        /\ UNCHANGED <<admitting, space, spaceBody>>
    BY DEF Admit, storeVars
  <1>3. exec[x].mode = "go" /\ Plan(x)[exec[x].at] = "admit"
    BY <1>1 DEF At
  <1>4. CASE Throws(x) /\ UNCHANGED queue
    <2>1. RestIInv' /\ \A k \in Journaled : Advances(k)
      BY <1>1, <1>2, <1>3, <1>4, StepKeeps DEF Progresses
    <2>2. \A y \in Executions \ {x} : exec'[y] = exec[y]
      BY <1>1, <1>4, OthersStay
    <2>3. \A i \in 1 .. Len(queue) : queue[i] \in Executions \ {x}
      BY <1>1 DEF QueueIInv, AdmissionTypes, Admit
    <2>4. \A i \in 1 .. Len(queue) : At(queue[i], "admit")
      BY <1>1 DEF QueueIInv, QueueOK
    <2>5. \A y \in Executions \ {x} : At(y, "admit") => At(y, "admit")'
      BY <2>2 DEF At
    <2>6. \A i \in 1 .. Len(queue) : At(queue[i], "admit")'
      <3> TAKE i \in 1 .. Len(queue)
      <3>1. PICK y \in Executions \ {x} : y = queue[i]
        BY <2>3
      <3>2. At(y, "admit")'
        BY <2>4, <2>5, <3>1
      <3> QED
        BY <1>4, <3>1, <3>2 DEF At
    <2>7. QueueIInv'
      BY <1>1, <1>2, <1>4, <2>6 DEF QueueIInv, AdmissionTypes, QueueOK
    <2> QED
      BY <2>1, <2>7, PartsNext
  <1>5. CASE queue' = Append(queue, x) /\ UNCHANGED <<exec, call>>
    <2>1. RestIInv' /\ \A k \in Journaled : Advances(k)
      <3>1. CallTypes' /\ WatchTypes' /\ HistoryTypes'
        BY <1>1, <1>2, <1>5 DEF RestIInv, CallTypes, WatchTypes, HistoryTypes
      <3>2. AnswersAgree' /\ (\A c \in Calls : CallOK(c)') /\ \A v \in Watchers : WatchOK(v)'
        BY <1>1, <1>2, <1>5
        DEF RestIInv, AnswersAgree, CallOK, Answers, WatchOK, SnapshotOK, Terminal
      <3> QED
        BY <1>1, <1>2, <1>5, <3>1, <3>2, QuietStep
    <2>2. /\ queue \in Seq(Executions) /\ queue' \in Seq(Executions) /\ Len(queue) \in Nat
          /\ Len(queue') = Len(queue) + 1
          /\ \A i \in 1 .. Len(queue) : queue'[i] = queue[i] /\ queue[i] # x
          /\ queue'[Len(queue) + 1] = x /\ queue' # <<>>
      BY <1>1, <1>5 DEF QueueIInv, AdmissionTypes, Admit
    <2>3. ASSUME NEW i \in 1 .. Len(queue') PROVE At(queue[i], "admit")'
      <3>1. PICK y : y = queue'[i] /\ At(y, "admit")
        BY <1>1, <2>2 DEF QueueIInv, QueueOK
      <3> QED
        BY <1>5, <3>1 DEF At
    <2>4. ASSUME NEW i \in 1 .. Len(queue'), NEW j \in 1 .. Len(queue'), queue'[i] = queue'[j]
          PROVE  i = j
      BY <1>1, <2>2, <2>4 DEF QueueIInv, QueueOK
    <2>5. QueueIInv'
      BY <1>1, <1>2, <2>2, <2>3, <2>4 DEF QueueIInv, AdmissionTypes, QueueOK
    <2> QED
      BY <2>1, <2>5, PartsNext
  <1> QED
    BY <1>4, <1>5 DEF Admit

\* The first in the queue goes on or fails.
LEMMA HeadKeeps ==
  ASSUME CreationIInv, queue # <<>>, queue' = Tail(queue),
         Passes(Head(queue)) \/ Throws(Head(queue)),
         UNCHANGED <<journal, copy, receipt, made, watch, listeners, told>>,
         admitting' = FALSE,
         space' \in [Spaces -> {"none", "starting", "ready", "stopped"}],
         spaceBody' \in [Spaces -> Bodies \cup {NoBody}]
  PROVE  CreationIInv' /\ \A k \in Journaled : Advances(k)
  <1>1. RestIInv /\ QueueIInv /\ ExecTypes
    BY TwoParts DEF RestIInv
  <1>2. PICK x \in Executions : x = Head(queue)
    BY <1>1 DEF QueueIInv, AdmissionTypes
  <1>3. At(x, "admit")
    <2>1. Len(queue) > 0 /\ queue[1] = x
      BY <1>1, <1>2 DEF QueueIInv, AdmissionTypes
    <2>2. 1 \in 1 .. Len(queue)
      BY <1>1, <2>1 DEF QueueIInv, AdmissionTypes
    <2>3. At(queue[1], "admit")
      BY <1>1, <2>2 DEF QueueIInv, QueueOK
    <2> QED
      BY <2>1, <2>3
  <1>4. exec[x].mode = "go" /\ Plan(x)[exec[x].at] = "admit" /\ (Passes(x) \/ Throws(x))
    BY <1>2, <1>3 DEF At
  <1>5. RestIInv' /\ \A k \in Journaled : Advances(k)
    BY <1>1, <1>4, StepKeeps DEF Progresses
  <1>6. queue' \in Seq(Executions) /\ QueueOK'
    BY <1>1, QueueLeaves
  <1>7. QueueIInv'
    BY <1>6 DEF QueueIInv, AdmissionTypes
  <1> QED
    BY <1>5, <1>7, PartsNext

\* Nothing but the workspaces and the admission's lock changes.
LEMMA SpaceStep ==
  ASSUME CreationIInv,
         UNCHANGED <<journal, copy, exec, call, watch, listeners, queue, receipt, made, told>>,
         admitting' \in BOOLEAN, admitting' => queue # <<>>, UNCHANGED spaceBody,
         space' \in [Spaces -> {"none", "starting", "ready", "stopped"}]
  PROVE  CreationIInv' /\ \A k \in Journaled : Advances(k)
  <1>1. RestIInv /\ QueueIInv
    BY TwoParts
  <1>2. CallTypes' /\ WatchTypes' /\ HistoryTypes'
    BY <1>1 DEF RestIInv, CallTypes, WatchTypes, HistoryTypes
  <1>3. AnswersAgree' /\ (\A c \in Calls : CallOK(c)') /\ \A v \in Watchers : WatchOK(v)'
    BY <1>1 DEF RestIInv, AnswersAgree, CallOK, Answers, WatchOK, SnapshotOK, Terminal
  <1>4. RestIInv' /\ \A k \in Journaled : Advances(k)
    BY <1>1, <1>2, <1>3, QuietStep
  <1>5. QueueIInv'
    BY <1>1 DEF QueueIInv, AdmissionTypes, QueueOK, At
  <1> QED
    BY <1>4, <1>5, PartsNext

LEMMA AdmissionKeeps ==
  ASSUME CreationIInv, AdmissionNext
  PROVE  CreationIInv' /\ \A k \in Journaled : Advances(k)
  <1>1. AdmissionTypes /\ RestIInv /\ QueueOK
    BY TwoParts DEF QueueIInv
  <1>2. CASE AdmissionLists
    <2>1. UNCHANGED <<journal, copy, receipt, made, watch, listeners, told, space, spaceBody>>
          /\ queue # <<>>
      BY <1>2 DEF AdmissionLists, storeVars
    <2>2. CASE admitting' = TRUE /\ UNCHANGED <<queue, exec, call>>
      BY <1>1, <2>1, <2>2, SpaceStep DEF AdmissionTypes
    <2>3. CASE /\ queue' = Tail(queue)
               /\ Passes(Head(queue)) \/ Throws(Head(queue))
               /\ admitting' = FALSE
      BY <1>1, <2>1, <2>3, HeadKeeps DEF AdmissionTypes
    <2>4. admitting = FALSE
      BY <1>1, <1>2 DEF AdmissionLists, AdmissionTypes
    <2> QED
      BY <1>2, <2>2, <2>3, <2>4 DEF AdmissionLists
  <1>3. CASE AdmissionCreates
    <2>1. UNCHANGED <<journal, copy, receipt, made, watch, listeners, told>>
          /\ admitting' = FALSE /\ queue' = Tail(queue)
          /\ (Passes(Head(queue)) \/ Throws(Head(queue)))
      BY <1>3 DEF AdmissionCreates
    <2>2. queue # <<>>
      BY <1>1, <1>3 DEF AdmissionCreates, QueueOK
    <2>3. PICK x \in Executions : x = Head(queue)
      BY <1>1, <2>2 DEF AdmissionTypes
    <2>4. BodyFor(x) \in Bodies \cup {NoBody} /\ SpaceFor(x) \in Spaces
      BY <1>1, BodiesAre, ExecutionKinds, CreationAssumption DEF SpaceFor
    <2>5. /\ space' \in [Spaces -> {"none", "starting", "ready", "stopped"}]
          /\ spaceBody' \in [Spaces -> Bodies \cup {NoBody}]
      BY <1>1, <1>3, <2>3, <2>4 DEF AdmissionCreates, AdmissionTypes
    <2> QED
      BY <2>1, <2>2, <2>5, HeadKeeps
  <1> QED
    BY <1>2, <1>3 DEF AdmissionNext

LEMMA SpacesKeep ==
  ASSUME CreationIInv, NEW w \in Spaces, SpaceReady(w) \/ SpaceStops(w)
  PROVE  CreationIInv' /\ \A k \in Journaled : Advances(k)
  <1>1. AdmissionTypes /\ QueueOK
    BY TwoParts DEF QueueIInv
  <1>2. /\ UNCHANGED <<journal, copy, exec, call, watch, listeners, queue, receipt, made, told>>
        /\ UNCHANGED <<admitting, spaceBody>>
    BY DEF SpaceReady, SpaceStops, admissionVars
  <1>3. space' \in [Spaces -> {"none", "starting", "ready", "stopped"}]
    BY <1>1 DEF SpaceReady, SpaceStops, AdmissionTypes
  <1>4. admitting' \in BOOLEAN /\ (admitting' => queue # <<>>)
    BY <1>1, <1>2 DEF AdmissionTypes, QueueOK
  <1> QED
    BY <1>2, <1>3, <1>4, SpaceStep
-----------------------------------------------------------------------------
(* The inductive invariant.                                                 *)

\* A step of an execution that only reads.
LEMMA ChecksKeep ==
  ASSUME RestIInv, NEW x \in Executions,
         NEW s \in {"authorize", "select", "await", "connect", "validate", "reserve"},
         At(x, s), Passes(x) \/ Throws(x),
         UNCHANGED <<journal, copy, receipt, made, watch, listeners, told>>
  PROVE  RestIInv' /\ \A k \in Journaled : Advances(k)
  BY StepKeeps DEF At, Progresses

LEMMA KeyedKeeps ==
  ASSUME CreationIInv, NEW k \in Journaled, JournalNext(k)
  PROVE  CreationIInv' /\ \A j \in Journaled : Advances(j)
  <1>1. RestIInv /\ QueueIInv /\ ExecTypes /\ k \in Executions
    BY TwoParts, ExecutionKinds DEF RestIInv
  <1>2. RestIInv' /\ \A j \in Journaled : Advances(j)
    <2>1. CASE Authorize(k)
      BY <1>1, <2>1, ChecksKeep DEF Authorize, storeVars
    <2> QED
      BY <1>1, <2>1, CreateRecordKeeps, ReplayKeeps, RecoverReplayKeeps, ProgressKeeps,
         PublishKeeps DEF JournalNext
  <1>3. UNCHANGED <<queue, admitting, space, spaceBody>>
    BY DEF JournalNext, Authorize, CreateRecord, Replay, RecoverReplay, Progress, Publish,
           storeVars, admissionVars
  <1>4. ~At(k, "admit")
    <2>1. CASE Authorize(k) \/ CreateRecord(k)
      BY <2>1 DEF Authorize, CreateRecord, At
    <2>2. CASE Replay(k) \/ RecoverReplay(k) \/ Publish(k)
      BY <2>2 DEF Replay, RecoverReplay, Publish, At
    <2>3. CASE Progress(k)
      BY <2>3 DEF Progress, Progresses, At
    <2> QED
      BY <2>1, <2>2, <2>3 DEF JournalNext
  <1>5. \A y \in Executions \ {k} : exec'[y] = exec[y]
    <2>1. \/ Passes(k) \/ Throws(k) \/ ProgressFails(k) \/ \E o : Ends(k, o)
          \/ \E m : exec' = [exec EXCEPT ![k].mode = m]
          \/ exec' = [exec EXCEPT ![k].mode = "go", ![k].at = @ + 1]
      BY DEF JournalNext, Authorize, CreateRecord, Replay, RecoverReplay, Progress, Publish
    <2> QED
      BY <1>1, <2>1, OthersStay DEF ExecTypes
  <1>6. QueueIInv'
    BY <1>1, <1>3, <1>4, <1>5, QueueMover
  <1> QED
    BY <1>2, <1>6, PartsNext

LEMMA StepsKeep ==
  ASSUME CreationIInv, NEW x \in Executions, StepNext(x)
  PROVE  CreationIInv' /\ \A j \in Journaled : Advances(j)
  <1>1. RestIInv /\ QueueIInv /\ ExecTypes
    BY TwoParts DEF RestIInv
  <1>2. CASE Admit(x)
    BY <1>2, AdmitKeeps
  <1>3. ASSUME NEW s \in {"select", "await", "connect", "validate", "reserve"},
               NEW good, NEW bad, Checks(x, s, good, bad)
        PROVE  CreationIInv' /\ \A j \in Journaled : Advances(j)
    <2>1. RestIInv' /\ \A j \in Journaled : Advances(j)
      BY <1>1, <1>3, ChecksKeep DEF Checks, storeVars
    <2>2. ~At(x, "admit") /\ UNCHANGED <<queue, admitting, space, spaceBody>>
      BY <1>3 DEF Checks, At, storeVars, admissionVars
    <2>3. \A y \in Executions \ {x} : exec'[y] = exec[y]
      BY <1>1, <1>3, OthersStay DEF Checks
    <2> QED
      BY <1>1, <2>1, <2>2, <2>3, QueueMover, PartsNext
  <1>4. CASE Select(x) \/ AwaitReady(x) \/ Connect(x) \/ Validate(x) \/ Reserve(x)
    BY <1>3, <1>4 DEF Select, AwaitReady, Connect, Validate, Reserve
  <1>5. CASE TakeReceipt(x) \/ RequestAgent(x) \/ StoreReceipt(x)
    <2>1. RestIInv' /\ \A j \in Journaled : Advances(j)
      BY <1>1, <1>5, TakeReceiptKeeps, RequestAgentKeeps, StoreReceiptKeeps
    <2>2. ~At(x, "admit") /\ UNCHANGED <<queue, admitting, space, spaceBody>>
      BY <1>5 DEF TakeReceipt, RequestAgent, StoreReceipt, At, storeVars, admissionVars
    <2>3. \A y \in Executions \ {x} : exec'[y] = exec[y]
      <3>1. \/ Passes(x) \/ Throws(x) \/ \E o : Ends(x, o)
            \/ \E n, b : exec' = [exec EXCEPT ![x].at = n, ![x].ok = b]
        BY <1>5 DEF TakeReceipt, RequestAgent, StoreReceipt
      <3> QED
        BY <1>1, <3>1, OthersStay DEF ExecTypes
    <2> QED
      BY <1>1, <2>1, <2>2, <2>3, QueueMover, PartsNext
  <1> QED
    BY <1>2, <1>4, <1>5 DEF StepNext

LEMMA OthersKeep ==
  ASSUME CreationIInv,
         \/ \E c \in Calls : Send(c) \/ CallNext(c)
         \/ \E v \in Watchers : WatchNext(v) \/ \E k \in Journaled : WatchBegin(v, k)
         \/ Disconnect
  PROVE  CreationIInv' /\ \A j \in Journaled : Advances(j)
  <1>1. RestIInv /\ QueueIInv /\ ExecTypes
    BY TwoParts DEF RestIInv
  <1>2. RestIInv' /\ \A j \in Journaled : Advances(j)
    BY <1>1, SendKeeps, JoinKeeps, ReplyKeeps, WatchBeginKeeps, WatchReadsKeeps,
       WatchRecoversKeeps, DisconnectKeeps DEF CallNext, WatchNext
  <1>3. UNCHANGED <<queue, admitting, space, spaceBody>>
    BY DEF Send, CallNext, Join, Reply, WatchNext, WatchBegin, WatchReads, WatchRecovers,
           Disconnect, storeVars, admissionVars
  <1>4. CASE \E c \in Calls : Send(c)
    <2>1. PICK c \in Calls : Send(c)
      BY <1>4
    <2>2. CASE c \in Direct /\ exec' = [exec EXCEPT ![c] = [Off EXCEPT !.mode = "go"]]
      <3>1. c \in Executions /\ exec[c].at \in 1 .. Len(Plan(c))
        BY <1>1, <2>2, ExecutionKinds, PlanLength DEF ExecTypes, Execution
      <3>2. Moved(c, "go", 1, FALSE)
        BY <1>1, <2>2, <3>1, MoveStart
      <3>3. At(c, "admit") => At(c, "admit")'
        BY <2>2, <3>1, <3>2, PlanOfDirect DEF At, Moved
      <3>4. \A y \in Executions : At(y, "admit") => At(y, "admit")'
        <4> TAKE y \in Executions
        <4>1. CASE y = c
          BY <3>3, <4>1
        <4>2. CASE y # c
          <5>1. exec'[y] = exec[y]
            BY <3>2, <4>2 DEF Moved
          <5> QED
            BY <5>1 DEF At
        <4> QED
          BY <4>1, <4>2
      <3>5. QueueIInv'
        BY <1>1, <1>3, <3>4, QueueStands
      <3> QED
        BY <1>2, <3>5, PartsNext
    <2>3. CASE /\ c \notin Direct /\ ~Active(KeyOf[c])
               /\ exec' = [exec EXCEPT ![KeyOf[c]] = [Off EXCEPT !.mode = "go"]]
      <3>1. KeyOf[c] \in Executions /\ exec[KeyOf[c]].mode = "off"
        BY <2>3, ExecutionKinds DEF Active
      <3>2. \A y \in Executions \ {KeyOf[c]} : exec'[y] = exec[y]
        BY <1>1, <2>3 DEF ExecTypes
      <3>3. ~At(KeyOf[c], "admit")
        BY <3>1 DEF At
      <3> QED
        BY <1>1, <1>2, <1>3, <3>1, <3>2, <3>3, QueueMover, PartsNext
    <2>4. CASE UNCHANGED exec
      BY <1>1, <1>2, <1>3, <2>4, QueueKept, PartsNext DEF admissionVars
    <2> QED
      BY <2>1, <2>2, <2>3, <2>4 DEF Send
  <1>5. CASE UNCHANGED exec
    BY <1>1, <1>2, <1>3, <1>5, QueueKept, PartsNext DEF admissionVars
  <1> QED
    BY <1>4, <1>5 DEF CallNext, Join, Reply, WatchNext, WatchBegin, WatchReads, WatchRecovers,
                      Disconnect

LEMMA EmptyQueue == /\ <<>> \in Seq(Executions) /\ Len(<<>>) = 0 /\ 1 .. 0 = {}
  OBVIOUS

LEMMA StartInvariant == Init => CreationIInv
  <1> SUFFICES ASSUME Init PROVE CreationIInv
    OBVIOUS
  <1>1. ExecTypes
    <2>1. \A x \in Executions : exec[x] = Off /\ Off.at = 1 /\ Off \in Execution
      BY RecordFacts DEF Init
    <2>2. \A x \in Executions : 1 <= Len(Plan(x))
      BY PlanLength
    <2> QED
      BY <2>1, <2>2 DEF ExecTypes, Init
  <1>2. CallTypes /\ (\A c \in Calls : call[c].outcome = Pending)
    BY RecordFacts DEF Init, CallTypes, Idle
  <1>3. WatchTypes /\ (\A v \in Watchers : watch[v].pc = "idle")
    BY RecordFacts DEF Init, WatchTypes, Unwatched
  <1>4. RecordTypes /\ (\A k \in Journaled : journal[k].phase = "none")
    BY RecordFacts DEF Init, RecordTypes
  <1>5. AdmissionTypes /\ QueueOK
    <2>1. queue = <<>> /\ admitting = FALSE
      BY DEF Init
    <2>2. 1 .. Len(queue) = {} /\ queue \in Seq(Executions)
      BY <2>1, EmptyQueue
    <2>3. /\ space \in [Spaces -> {"none", "starting", "ready", "stopped"}]
          /\ spaceBody \in [Spaces -> Bodies \cup {NoBody}]
      BY DEF Init
    <2> QED
      BY <2>1, <2>2, <2>3 DEF AdmissionTypes, QueueOK
  <1>6. /\ HistoryTypes
        /\ \A x \in Executions : made[x] = 0
        /\ \A k \in Keys : receipt[k].state = "none"
        /\ \A k \in Journaled : told[k] = {}
    BY DEF Init, HistoryTypes
  <1>7. \A x \in Executions : exec[x].mode = "off"
    BY RecordFacts DEF Init
  <1>8. MutationOK
    BY <1>6, <1>7 DEF MutationOK, ReceiptOK, CarryOK, MadeOK, Carrying, Working, Twins
  <1>9. ASSUME NEW k \in Journaled PROVE KeyOK(k)
    <2>1. RecordOK(k)
      BY <1>4, <1>6, ExecutionKinds DEF RecordOK
    <2> QED
      BY <1>7, <2>1, ExecutionKinds DEF KeyOK, ModeOK, OwnerOK, PlaceOK, Owner
  <1>10. DirectOK /\ \A v \in Watchers : WatchOK(v)
    BY <1>3, <1>7, ExecutionKinds DEF DirectOK, WatchOK
  <1>11. (\A c \in Calls : CallOK(c)) /\ AnswersAgree
    BY <1>2, <1>6 DEF CallOK, AnswersAgree
  <1> QED
    BY <1>1, <1>2, <1>3, <1>4, <1>5, <1>6, <1>8, <1>9, <1>10, <1>11, TwoParts
    DEF RestIInv, QueueIInv

LEMMA StepInvariant ==
  ASSUME CreationIInv, [Next]_vars
  PROVE  CreationIInv' /\ \A k \in Journaled : Advances(k)
  <1>1. CASE \E k \in Journaled : JournalNext(k)
    BY <1>1, KeyedKeeps
  <1>2. CASE \E x \in Executions : StepNext(x)
    BY <1>2, StepsKeep
  <1>3. CASE AdmissionNext
    BY <1>3, AdmissionKeeps
  <1>4. CASE \E w \in Spaces : SpaceReady(w) \/ SpaceStops(w)
    BY <1>4, SpacesKeep
  <1>5. CASE \/ \E c \in Calls : Send(c) \/ CallNext(c)
             \/ \E v \in Watchers : WatchNext(v) \/ \E k \in Journaled : WatchBegin(v, k)
             \/ Disconnect
    BY <1>5, OthersKeep
  <1>6. CASE Crash
    <2>1. RestIInv /\ QueueIInv
      BY TwoParts
    <2>2. RestIInv' /\ \A j \in Journaled : Advances(j)
      BY <1>6, <2>1, CrashKeeps
    <2>3. QueueIInv'
      <3>1. queue' = <<>> /\ admitting' = FALSE /\ UNCHANGED <<space, spaceBody>>
        BY <1>6 DEF Crash, storeVars
      <3>2. 1 .. Len(queue') = {} /\ queue' \in Seq(Executions)
        BY <3>1, EmptyQueue
      <3> QED
        BY <2>1, <3>1, <3>2 DEF QueueIInv, AdmissionTypes, QueueOK
    <2> QED
      BY <2>2, <2>3, PartsNext
  <1>7. CASE UNCHANGED vars
    <2>1. /\ UNCHANGED <<journal, copy, exec, call, watch, listeners, queue, receipt, made, told>>
          /\ UNCHANGED <<admitting, space, spaceBody>>
      BY <1>7 DEF vars
    <2>2. AdmissionTypes /\ QueueOK
      BY TwoParts DEF QueueIInv
    <2>3. /\ admitting' \in BOOLEAN /\ (admitting' => queue # <<>>)
          /\ space' \in [Spaces -> {"none", "starting", "ready", "stopped"}]
      BY <2>1, <2>2 DEF AdmissionTypes, QueueOK
    <2> QED
      BY <2>1, <2>3, SpaceStep
  <1> QED
    BY <1>1, <1>2, <1>3, <1>4, <1>5, <1>6, <1>7 DEF Next

\* What the claim of a key, its receipt and its record say of each other, at
\* every place of a plan, in every reachable state (creation-journal.ts, run()).
THEOREM CreationInvariant == Spec => []CreationIInv
  <1>1. Init => CreationIInv
    BY StartInvariant
  <1>2. CreationIInv /\ [Next]_vars => CreationIInv'
    BY StepInvariant
  <1> QED
    BY <1>1, <1>2, PTL DEF Spec

\* Whatever is retried, lost or replaced, one execution of a key takes its
\* receipt (createAgent() creates the "creation" record before it asks the
\* daemon), and the key creates at most one agent.
THEOREM CreatesOnce == Spec => []AgentCreatedOnce
  <1>1. CreationIInv => AgentCreatedOnce
    <2> SUFFICES ASSUME CreationIInv PROVE AgentCreatedOnce
      OBVIOUS
    <2>1. \A x \in Executions : MadeOK(x)
      BY DEF CreationIInv, MutationOK
    <2>2. ASSUME NEW c \in Direct, NEW d \in Direct, c # d, KeyOf[c] = KeyOf[d]
          PROVE  made[c] + made[d] <= 1
      <3>1. c \in Executions /\ d \in Executions /\ KeyFor(c) = KeyFor(d)
        BY <2>2, ExecutionKinds
      <3>2. d \in Twins(c)
        BY <3>1 DEF Twins
      <3> QED
        BY <2>1, <2>2, <3>1, <3>2 DEF MadeOK
    <2> QED
      BY <2>1, <2>2 DEF AgentCreatedOnce, MadeOK
  <1> QED
    BY <1>1, CreationInvariant, PTL
-----------------------------------------------------------------------------
(* The namespace's limit.                                                   *)

LEMMA RunningIsFinite == IsFiniteSet(Running) /\ Cardinality(Running) \in Nat
  <1>1. IsFiniteSet(Spaces) /\ Running \subseteq Spaces
    BY CreationAssumption DEF Running
  <1> QED
    BY <1>1, FS_Subset, FS_CardinalityType

LEMMA LimitKept ==
  ASSUME AdmissionOK, Running' \subseteq Running, admitting' => admitting
  PROVE  AdmissionOK'
  <1>1. Cardinality(Running') <= Cardinality(Running) /\ Cardinality(Running') \in Nat
    BY RunningIsFinite, FS_Subset, FS_CardinalityType
  <1>2. Limit \in Nat /\ Cardinality(Running) \in Nat
    BY CreationAssumption, RunningIsFinite
  <1> QED
    BY <1>1, <1>2 DEF AdmissionOK

LEMMA LimitStep ==
  ASSUME CreationIInv, AdmissionOK, [Next]_vars
  PROVE  AdmissionOK'
  <1>1. space \in [Spaces -> {"none", "starting", "ready", "stopped"}]
        /\ queue \in Seq(Executions) /\ QueueOK
    BY Parts DEF AdmissionTypes
  <1>2. CASE UNCHANGED <<space, admitting>>
    BY <1>2 DEF AdmissionOK, Running
  <1>3. CASE AdmissionLists
    <2>1. UNCHANGED space
      BY <1>3 DEF AdmissionLists, storeVars
    <2>2. Running' = Running
      BY <2>1 DEF Running
    <2>3. CASE UNCHANGED admitting
      BY <2>2, <2>3 DEF AdmissionOK
    <2>4. CASE Admitted
      BY <2>2, <2>4 DEF AdmissionOK, Admitted
    <2> QED
      BY <1>3, <2>3, <2>4 DEF AdmissionLists
  <1>4. CASE AdmissionCreates
    <2>1. Cardinality(Running) < Limit /\ ~admitting'
      BY <1>4 DEF AdmissionOK, AdmissionCreates
    <2> DEFINE w == SpaceFor(Head(queue))
    <2>2. space' = [space EXCEPT ![w] = "starting"] \/ UNCHANGED space
      BY <1>4 DEF AdmissionCreates
    <2>3. Running' \subseteq Running \cup {w}
      BY <1>1, <2>2 DEF Running
    <2> HIDE DEF w
    <2>4. /\ IsFiniteSet(Running \cup {w})
          /\ Cardinality(Running \cup {w}) <= Cardinality(Running) + 1
          /\ Cardinality(Running \cup {w}) \in Nat
      BY RunningIsFinite, FS_AddElement, FS_CardinalityType
    <2>5. /\ Cardinality(Running') <= Cardinality(Running \cup {w})
          /\ Cardinality(Running') \in Nat
      BY <2>3, <2>4, FS_Subset, FS_CardinalityType
    <2>6. Limit \in Nat /\ Cardinality(Running) \in Nat
      BY CreationAssumption, RunningIsFinite
    <2>7. Cardinality(Running') <= Limit
      BY <2>1, <2>4, <2>5, <2>6
    <2> QED
      BY <2>1, <2>7 DEF AdmissionOK
  <1>5. CASE \E w \in Spaces : SpaceReady(w) \/ SpaceStops(w)
    <2>1. Running' \subseteq Running
      BY <1>1, <1>5 DEF SpaceReady, SpaceStops, Running
    <2>2. UNCHANGED admitting
      BY <1>5 DEF SpaceReady, SpaceStops, admissionVars
    <2> QED
      BY <2>1, <2>2, LimitKept
  <1>6. CASE Crash
    <2>1. Running' \subseteq Running /\ ~admitting'
      BY <1>6 DEF Crash, storeVars, Running
    <2> QED
      BY <2>1, LimitKept
  <1>7. CASE \/ \E c \in Calls : Send(c) \/ CallNext(c)
             \/ \E k \in Journaled : JournalNext(k)
             \/ \E x \in Executions : StepNext(x)
             \/ \E v \in Watchers : WatchNext(v) \/ \E k \in Journaled : WatchBegin(v, k)
             \/ Disconnect \/ UNCHANGED vars
    <2>1. UNCHANGED <<space, admitting>>
      BY <1>7 DEF Send, CallNext, Join, Reply, WatchNext, WatchBegin, WatchReads, WatchRecovers,
           Disconnect, JournalNext, Authorize, CreateRecord, Replay, RecoverReplay, Progress,
           Publish, StepNext, Admit, Select, AwaitReady, Connect, TakeReceipt, Validate, Reserve,
           RequestAgent, StoreReceipt, Checks, storeVars, admissionVars, vars
    <2> QED
      BY <1>2, <2>1
  <1> QED
    BY <1>3, <1>4, <1>5, <1>6, <1>7 DEF Next, AdmissionNext

\* The gateway never has more workspaces running than the namespace admits,
\* provided it did not start with more: nobody is admitted on a count that an
\* earlier admission has outdated (WorkspaceAdmission.create()).
THEOREM LimitIsKept ==
  Cardinality(Existing) <= Limit => (Spec => []AdmissionWithinLimit)
  <1> SUFFICES ASSUME Cardinality(Existing) <= Limit PROVE Spec => []AdmissionWithinLimit
    OBVIOUS
  <1>1. Init => AdmissionOK
    <2> SUFFICES ASSUME Init PROVE AdmissionOK
      OBVIOUS
    <2>1. Running = Existing
      BY CreationAssumption DEF Init, Running
    <2> QED
      BY <2>1 DEF AdmissionOK, Init
  <1>2. CreationIInv /\ AdmissionOK /\ [Next]_vars => AdmissionOK'
    BY LimitStep
  <1>3. AdmissionOK => AdmissionWithinLimit
    BY DEF AdmissionOK, AdmissionWithinLimit
  <1> QED
    BY <1>1, <1>2, <1>3, CreationInvariant, PTL DEF Spec
-----------------------------------------------------------------------------
(* What a record says of its workspace.                                     *)

\* The execution does not fall behind the announcement of its mutation, and a
\* record that becomes a certain failure names its workspace or had announced
\* none.
OwnerMoves(k) ==
  Owner(k)' => \/ journal[k].phase = "none"
               \/ Owner(k) /\ (Behind(k, 3) => Behind(k, 3)')
HonestMoves(k) ==
  \/ journal'[k] = journal[k]
  \/ journal'[k].phase = "failed" /\ ~journal'[k].unknown /\ ~journal'[k].bound =>
       Owner(k) /\ ~Behind(k, 3)

LEMMA SpaceKept ==
  ASSUME NEW k \in Creating, SpaceOK(k), HonestOK(k), Advances(k), OwnerMoves(k), HonestMoves(k),
         space[Space[k]] = "none" => space'[Space[k]] = "none"
  PROVE  SpaceOK(k)' /\ HonestOK(k)'
  <1>1. SpaceOK(k)'
    BY DEF SpaceOK, Advances, OwnerMoves
  <1>2. HonestOK(k)'
    BY DEF SpaceOK, HonestOK, HonestMoves
  <1> QED
    BY <1>1, <1>2

LEMMA NobodyMoves ==
  ASSUME NEW k, exec'[k] = exec[k] \/ exec'[k].mode \in {"off", "replay", "recover"}
                \/ (exec'[k].mode = "go" /\ exec'[k].at = 1)
  PROVE  OwnerMoves(k)
  BY DEF OwnerMoves, Owner, Behind

LEMMA StepMovesOwner ==
  ASSUME ExecTypes, CallTypes, NEW x \in Executions, exec[x].mode = "go",
         Plan(x)[exec[x].at] # "record", Passes(x) \/ Throws(x), NEW k \in Journaled
  PROVE  OwnerMoves(k)
  <1>1. k \in Executions
    BY ExecutionKinds
  <1>2. CASE k # x
    <2>1. exec'[k] = exec[k]
      BY <1>1, <1>2, OthersStay
    <2> QED
      BY <2>1, NobodyMoves
  <1>3. CASE k = x
    <2>1. exec[k].at \in 1 .. Len(Plan(k)) /\ exec[k].at # 2 /\ k \notin Direct
      BY <1>1, <1>3, PlanOfKeys, ExecutionKinds DEF ExecTypes, Execution
    <2>2. CASE exec'[k].mode = "off"
      BY <2>2, NobodyMoves
    <2>3. CASE exec'[k].mode = "catch" /\ exec'[k].at = exec[k].at /\ exec[k].at >= 3
      BY <1>3, <2>1, <2>3 DEF OwnerMoves, Owner, Behind
    <2>4. CASE exec'[k].mode = "go" /\ exec'[k].at = exec[k].at + 1
      BY <1>3, <2>1, <2>4 DEF OwnerMoves, Owner, Behind
    <2>5. \/ exec'[k].mode = "off"
          \/ exec'[k].mode = "catch" /\ exec'[k].at = exec[k].at /\ exec[k].at >= 3
          \/ exec'[k].mode = "go" /\ exec'[k].at = exec[k].at + 1
      BY <1>1, <1>3, PassesIs, ThrowsIs DEF Moved
    <2> QED
      BY <2>2, <2>3, <2>4, <2>5
  <1> QED
    BY <1>2, <1>3

LEMMA RecoversHonest ==
  ASSUME RecordTypes, NEW k \in Journaled, NEW r \in JournalRecord, NEW o, Recovers(k, r, o),
         SnapshotOK(r, k)
  PROVE  \A j \in Journaled : HonestMoves(j)
  <1>1. /\ \A j \in Journaled \ {k} : journal'[j] = journal[j]
        /\ journal'[k] = journal[k] \/ (journal'[k].phase = "failed" /\ journal'[k].unknown)
    BY RecoversIs DEF SnapshotOK
  <1> QED
    BY <1>1 DEF HonestMoves

LEMMA ProgressHonest ==
  ASSUME RestIInv, NEW k \in Journaled, Progress(k)
  PROVE  \A j \in Journaled : j \in Creating => OwnerMoves(j) /\ HonestMoves(j)
  <1> DEFINE n == NextRecord(k)
             i == exec[k].at
  <1>1. exec[k].mode = "catch" \/ \E step \in Progresses : At(k, step)
    BY DEF Progress
  <1>2. /\ Owner(k) /\ i >= 3 /\ i \in 1 .. Len(Plan(k))
        /\ ~Terminal(copy[k])
        /\ exec[k].mode \in {"go", "catch"} /\ copy[k] \in JournalRecord
        /\ exec[k].mode = "go" => Plan(k)[i] \in Progresses
        /\ n \in JournalRecord
        /\ copy[k].bound => n.bound
    BY <1>1, NextIs
  <1>3. /\ k \in Executions /\ KeyOK(k) /\ ExecTypes /\ CallTypes /\ RecordTypes
    BY ExecutionKinds DEF RestIInv
  <1>4. \/ journal' = [journal EXCEPT ![k] = n]
        \/ UNCHANGED journal
    BY DEF Progress, NextRecord
  <1>5. k \in Creating /\ n.phase = "failed" /\ ~n.unknown /\ ~n.bound => ~Behind(k, 3)
    <2> SUFFICES ASSUME k \in Creating, n.phase = "failed", ~n.unknown, ~n.bound, Behind(k, 3)
                 PROVE  FALSE
      OBVIOUS
    <2>1. copy[k].dispatching \/ copy[k].bound
      BY <1>2, <1>3 DEF KeyOK, PlaceOK
    <2>2. CASE exec[k].mode = "catch"
      <3>1. n = [Caught(copy[k]) EXCEPT !.revision = @ + 1]
        BY <2>2 DEF NextRecord
      <3>2. n.unknown = copy[k].dispatching /\ n.bound = copy[k].bound
        BY <1>2, <3>1, CaughtIs, Renumbered
      <3> QED
        BY <2>1, <3>2
    <2>3. CASE exec[k].mode = "go"
      <3>1. n = [Patched(k, Plan(k)[i]) EXCEPT !.revision = @ + 1]
        BY <2>3 DEF NextRecord
      <3>2. Plan(k)[i] = "agentReady"
        <4>1. Plan(k)[i] \in Progresses
          BY <1>2, <2>3
        <4> DEFINE p == Patched(k, Plan(k)[i])
        <4>2. p \in JournalRecord /\ (p.phase = "failed" =>
                copy[k].phase = "failed" \/ (Plan(k)[i] = "agentReady" /\ ~exec[k].ok))
          BY <1>2, <4>1, PatchKinds
        <4> HIDE DEF p
        <4>3. n.phase = p.phase
          BY <3>1, <4>2, Renumbered DEF p
        <4> HIDE DEF n
        <4> QED
          BY <1>2, <4>2, <4>3 DEF Terminal
      <3>3. i = AnswerAt(k) /\ AgentFrom(k) \in Nat
            /\ (~WithAgent(k) => Len(Plan(k)) = 8 /\ AgentFrom(k) = 8)
        BY <1>2, <3>2, PlanOfKeys
      <3>4. WithAgent(k)
        <4>1. i \in Nat /\ i <= Len(Plan(k))
          BY <1>2, PlanOfKeys
        <4>2. i = AgentFrom(k) + 13
          BY <3>3 DEF AnswerAt
        <4> HIDE DEF i
        <4>3. CASE WithAgent(k)
          BY <4>3
        <4>4. CASE ~WithAgent(k)
          <5>1. AgentFrom(k) = 8 /\ Len(Plan(k)) = 8
            BY <3>3, <4>4
          <5> QED
            BY <4>1, <4>2, <5>1
        <4> QED
          BY <4>3, <4>4
      <3>5. Behind(k, BindAt(k))
        BY <3>3 DEF Behind, AnswerAt, BindAt
      <3>6. copy[k].bound
        BY <1>2, <1>3, <3>4, <3>5 DEF KeyOK, PlaceOK
      <3> QED
        BY <1>2, <3>6
    <2> QED
      BY <1>2, <2>2, <2>3
  <1> HIDE DEF n
  <1>6. ASSUME NEW j \in Journaled, j \in Creating PROVE HonestMoves(j)
    <2>1. CASE j = k
      <3>1. journal'[k] = n \/ journal'[k] = journal[k]
        BY <1>3, <1>4 DEF RecordTypes
      <3> QED
        BY <1>2, <1>5, <1>6, <2>1, <3>1 DEF HonestMoves
    <2>2. CASE j # k
      BY <1>3, <1>4, <2>2 DEF HonestMoves, RecordTypes
    <2> QED
      BY <2>1, <2>2
  <1>7. ASSUME NEW j \in Journaled PROVE OwnerMoves(j)
    <2>1. \/ Ends(k, Error)
          \/ exec' = [exec EXCEPT ![k].mode = "publish"]
          \/ exec[k].mode # "catch" /\ exec' = [exec EXCEPT ![k].mode = "catch"]
      BY DEF Progress, ProgressFails
    <2>2. CASE j # k
      <3>1. exec'[j] = exec[j]
        BY <1>3, <2>1, <2>2, ExecutionKinds, OthersStay DEF ExecTypes
      <3> QED
        BY <3>1, NobodyMoves
    <2>3. CASE j = k /\ Ends(k, Error)
      <3>1. exec'[k].mode = "off"
        BY <1>3, <2>3, EndTypes
      <3> QED
        BY <2>3, <3>1, NobodyMoves
    <2>4. ASSUME j = k, NEW m \in Modes, exec' = [exec EXCEPT ![k].mode = m],
                 m = "publish" \/ exec[k].mode = "go"
          PROVE  OwnerMoves(j)
      <3>1. Moved(k, m, exec[k].at, exec[k].ok)
        BY <1>3, <2>4, MoveMode
      <3> QED
        BY <1>2, <2>4, <3>1 DEF OwnerMoves, Behind, Moved
    <2>5. "publish" \in Modes /\ "catch" \in Modes
      BY DEF Modes
    <2> QED
      BY <1>2, <2>1, <2>2, <2>3, <2>4, <2>5
  <1> QED
    BY <1>6, <1>7

LEMMA KeyedMoves ==
  ASSUME RestIInv, NEW k \in Journaled, JournalNext(k)
  PROVE  \A j \in Creating : OwnerMoves(j) /\ HonestMoves(j)
  <1>1. /\ ExecTypes /\ CallTypes /\ RecordTypes /\ KeyOK(k) /\ k \in Executions
        /\ exec[k].at \in 1 .. Len(Plan(k)) /\ copy[k] \in JournalRecord
        /\ Creating \subseteq Journaled /\ Journaled \subseteq Executions
    BY ExecutionKinds, PlanLength DEF RestIInv, ExecTypes, Execution, RecordTypes, Creating
  <1>2. \A y \in Executions \ {k} : exec'[y] = exec[y]
    <2>1. \/ Passes(k) \/ Throws(k) \/ ProgressFails(k) \/ \E o : Ends(k, o)
          \/ \E m : exec' = [exec EXCEPT ![k].mode = m]
          \/ exec' = [exec EXCEPT ![k].mode = "go", ![k].at = @ + 1]
      BY DEF JournalNext, Authorize, CreateRecord, Replay, RecoverReplay, Progress, Publish
    <2> QED
      BY <1>1, <2>1, OthersStay DEF ExecTypes
  <1>3. \A j \in Journaled \ {k} : OwnerMoves(j)
    BY <1>1, <1>2, NobodyMoves
  <1>4. ASSUME OwnerMoves(k), \A j \in Journaled : HonestMoves(j)
        PROVE  \A j \in Creating : OwnerMoves(j) /\ HonestMoves(j)
    BY <1>1, <1>3, <1>4
  <1>5. UNCHANGED journal => \A j \in Journaled : HonestMoves(j)
    BY DEF HonestMoves
  <1>6. CASE Authorize(k)
    <2>1. UNCHANGED journal /\ At(k, "authorize") /\ (Passes(k) \/ Throws(k))
      BY <1>6 DEF Authorize, storeVars
    <2>2. OwnerMoves(k)
      BY <1>1, <2>1, StepMovesOwner DEF At
    <2> QED
      BY <1>4, <1>5, <2>1, <2>2
  <1>7. CASE CreateRecord(k)
    <2>1. Plan(k)[exec[k].at] = "record" /\ exec[k].mode = "go" /\ exec[k].at = 2
      BY <1>1, <1>7, PlanOfKeys DEF CreateRecord, At
    <2>2. copy[k].phase = "accepted"
      BY <1>1, <2>1 DEF KeyOK, ModeOK
    <2>3. \/ UNCHANGED journal
          \/ journal[k].phase = "none" /\ journal' = [journal EXCEPT ![k] = copy[k]]
      BY <1>7 DEF CreateRecord
    <2>4. \A j \in Journaled : HonestMoves(j)
      BY <1>1, <1>5, <2>2, <2>3 DEF HonestMoves, RecordTypes
    <2>5. OwnerMoves(k)
      <3>1. CASE journal[k].phase = "none"
        BY <3>1 DEF OwnerMoves
      <3>2. CASE Throws(k)
        <4>1. Ends(k, Error)
          BY <2>1, <3>2 DEF Throws
        <4> QED
          BY <1>1, <4>1, EndTypes, NobodyMoves
      <3>3. CASE exec' = [exec EXCEPT ![k].mode = "replay"]
        <4>1. exec'[k].mode = "replay"
          BY <1>1, <3>3 DEF ExecTypes, Execution
        <4> QED
          BY <4>1, NobodyMoves
      <3> QED
        BY <1>7, <3>1, <3>2, <3>3 DEF CreateRecord
    <2> QED
      BY <1>4, <2>4, <2>5
  <1>8. CASE Replay(k)
    <2>1. UNCHANGED journal
      BY <1>8 DEF Replay, storeVars
    <2>2. CASE exec' = [exec EXCEPT ![k].mode = "recover"]
      <3>1. exec'[k].mode = "recover"
        BY <1>1, <2>2 DEF ExecTypes, Execution
      <3> QED
        BY <1>4, <1>5, <2>1, <3>1, NobodyMoves
    <2>3. CASE Ends(k, Error)
      BY <1>1, <1>4, <1>5, <2>1, <2>3, EndTypes, NobodyMoves
    <2> QED
      BY <1>8, <2>2, <2>3 DEF Replay
  <1>9. CASE RecoverReplay(k)
    <2>1. SnapshotOK(copy[k], k) /\ exec[k].mode = "recover"
      BY <1>1, <1>9 DEF RecoverReplay, KeyOK, ModeOK, SnapshotOK, JournalRecord
    <2>2. \A j \in Journaled : HonestMoves(j)
      BY <1>1, <1>5, <1>9, <2>1, RecoversHonest DEF RecoverReplay
    <2>3. exec'[k] = Off
      BY <1>1, <1>9 DEF RecoverReplay, Ends, ExecTypes
    <2>4. OwnerMoves(k)
      BY <2>3, NobodyMoves, RecordFacts
    <2> QED
      BY <1>4, <2>2, <2>4
  <1>10. CASE Progress(k)
    BY <1>1, <1>10, ProgressHonest
  <1>11. CASE Publish(k)
    <2>1. UNCHANGED journal /\ exec[k].mode = "publish"
      BY <1>11 DEF Publish, storeVars
    <2>2. CASE Ends(k, copy[k])
      BY <1>1, <1>4, <1>5, <2>1, <2>2, EndTypes, NobodyMoves
    <2>3. CASE exec' = [exec EXCEPT ![k].mode = "go", ![k].at = @ + 1]
      <3>1. exec'[k].at = exec[k].at + 1 /\ exec[k].at \in Nat
        BY <1>1, <2>3 DEF ExecTypes, Execution
      <3>2. OwnerMoves(k)
        BY <2>1, <3>1 DEF OwnerMoves, Owner, Behind
      <3> QED
        BY <1>4, <1>5, <2>1, <3>2
    <2> QED
      BY <1>11, <2>2, <2>3 DEF Publish
  <1> QED
    BY <1>6, <1>7, <1>8, <1>9, <1>10, <1>11 DEF JournalNext

\* Steps that do not write the record.
LEMMA OtherMoves ==
  ASSUME RestIInv, UNCHANGED journal,
         \/ \E x \in Executions : StepNext(x)
         \/ \E c \in Calls : Send(c) \/ CallNext(c)
         \/ \E x \in Executions : At(x, "admit") /\ (Passes(x) \/ Throws(x))
         \/ UNCHANGED exec \/ Crash
  PROVE  \A j \in Creating : OwnerMoves(j) /\ HonestMoves(j)
  <1>1. ExecTypes /\ CallTypes /\ Creating \subseteq Journaled /\ Journaled \subseteq Executions
    BY ExecutionKinds DEF RestIInv, Creating
  <1>2. SUFFICES ASSUME NEW k \in Journaled PROVE OwnerMoves(k)
    BY <1>1 DEF HonestMoves
  <1>3. CASE UNCHANGED exec
    BY <1>3, NobodyMoves
  <1>4. CASE Crash
    <2>1. exec'[k] = Off
      BY <1>1, <1>4 DEF Crash
    <2> QED
      BY <2>1, NobodyMoves, RecordFacts
  <1>5. ASSUME NEW x \in Executions, NEW s, s # "record", At(x, s), Passes(x) \/ Throws(x)
        PROVE  OwnerMoves(k)
    BY <1>1, <1>5, StepMovesOwner DEF At
  <1>6. CASE \E x \in Executions : At(x, "admit") /\ (Passes(x) \/ Throws(x))
    BY <1>5, <1>6
  <1>7. ASSUME NEW x \in Executions, StepNext(x) PROVE OwnerMoves(k)
    <2>1. CASE UNCHANGED exec
      BY <1>3, <2>1
    <2>2. CASE \E s : s # "record" /\ At(x, s) /\ (Passes(x) \/ Throws(x))
      BY <1>5, <2>2
    <2>3. CASE x \in Direct /\ Ends(x, Pending)
      <3>1. exec'[k] = exec[k]
        BY <1>1, <2>3, OthersStay, ExecutionKinds
      <3> QED
        BY <3>1, NobodyMoves
    <2>4. ASSUME NEW n, NEW b, exec[x].mode = "go", exec[x].at >= 3 \/ x \in Direct,
                 exec' = [exec EXCEPT ![x].at = n, ![x].ok = b],
                 x \in Journaled => n \in Nat /\ n > exec[x].at
          PROVE  OwnerMoves(k)
      <3>1. CASE k # x
        <4>1. exec'[k] = exec[k]
          BY <1>1, <2>4, <3>1 DEF ExecTypes
        <4> QED
          BY <4>1, NobodyMoves
      <3>2. CASE k = x
        <4>1. exec[x].at >= 3 /\ exec'[x].at = n /\ exec'[x].mode = "go" /\ exec[x].at \in Nat
          BY <1>1, <2>4, <3>2, ExecutionKinds DEF ExecTypes, Execution
        <4> QED
          BY <2>4, <3>2, <4>1 DEF OwnerMoves, Owner, Behind
      <3> QED
        BY <3>1, <3>2
    <2>5. CASE Admit(x) \/ Select(x) \/ AwaitReady(x) \/ Connect(x) \/ Validate(x) \/ Reserve(x)
               \/ StoreReceipt(x)
      <3>1. UNCHANGED exec \/ \E s \in {"admit", "select", "await", "connect", "validate", "reserve",
                                        "store"} : At(x, s) /\ (Passes(x) \/ Throws(x))
        BY <2>5 DEF Admit, Select, AwaitReady, Connect, Validate, Reserve, StoreReceipt, Checks
      <3> QED
        BY <2>1, <2>2, <3>1
    <2>6. CASE RequestAgent(x)
      <3>1. exec[x].mode = "go" /\ (x \in Journaled => exec[x].at >= 3) /\ At(x, "request")
            /\ exec[x].at \in Nat
        BY <1>1, <2>6, AgentAt DEF RequestAgent, At, ExecTypes, Execution
      <3>2. CASE Throws(x)
        BY <2>2, <3>1, <3>2
      <3>3. CASE \E b : exec' = [exec EXCEPT ![x].at = @ + 1, ![x].ok = b]
        <4>1. PICK n, b : exec' = [exec EXCEPT ![x].at = n, ![x].ok = b] /\ n = exec[x].at + 1
          BY <3>3
        <4>2. exec[x].at >= 3 \/ x \in Direct
          BY <3>1, ExecutionKinds
        <4>3. n \in Nat /\ n > exec[x].at
          BY <3>1, <4>1
        <4> QED
          BY <2>4, <3>1, <4>1, <4>2, <4>3
      <3> QED
        BY <2>6, <3>2, <3>3 DEF RequestAgent
    <2>7. CASE TakeReceipt(x)
      <3>1. exec[x].mode = "go" /\ (x \in Journaled => exec[x].at >= 3) /\ At(x, "receipt")
            /\ exec[x].at \in 1 .. Len(Plan(x)) /\ Len(Plan(x)) \in Nat
        BY <1>1, <2>7, AgentAt, PlanLength DEF TakeReceipt, At, ExecTypes, Execution
      <3>2. CASE Passes(x) \/ Throws(x)
        BY <2>2, <3>1, <3>2
      <3>3. CASE \E b : exec' = [exec EXCEPT ![x].at = Len(Plan(x)) - 2, ![x].ok = b]
        <4>1. PICK n, b : exec' = [exec EXCEPT ![x].at = n, ![x].ok = b]
                          /\ n = Len(Plan(x)) - 2
          BY <3>3
        <4>2. exec[x].at >= 3 \/ x \in Direct
          BY <3>1, ExecutionKinds
        <4>3. exec[x].at = ReceiptAt(x) /\ exec[x].at <= Len(Plan(x))
          BY <2>7, <3>1, AgentAt
        <4>4. ASSUME x \in Journaled PROVE n \in Nat /\ n > exec[x].at
          <5>1. ReceiptAt(x) = AgentFrom(x) + 6 /\ AgentFrom(x) \in Nat
            BY <4>4, ExecutionKinds, PlanOfKeys DEF ReceiptAt
          <5>2. WithAgent(x)
            <6> SUFFICES ASSUME ~WithAgent(x) PROVE FALSE
              OBVIOUS
            <6>1. Len(Plan(x)) = 8 /\ AgentFrom(x) = 8
              BY <4>4, PlanOfKeys
            <6> QED
              BY <4>3, <5>1, <6>1
          <5>3. Len(Plan(x)) = AgentFrom(x) + 15
            BY <4>4, <5>1, <5>2, PlanOfKeys DEF AnswerAt
          <5> QED
            BY <4>1, <4>3, <5>1, <5>3
        <4> QED
          BY <2>4, <3>1, <4>1, <4>2, <4>4
      <3> QED
        BY <2>3, <2>7, <3>2, <3>3 DEF TakeReceipt
    <2> QED
      BY <1>7, <2>5, <2>6, <2>7 DEF StepNext
  <1>8. ASSUME NEW c \in Calls, Send(c) \/ CallNext(c) PROVE OwnerMoves(k)
    <2>1. CASE UNCHANGED exec
      BY <1>3, <2>1
    <2>2. ASSUME NEW x \in Executions, exec' = [exec EXCEPT ![x] = [Off EXCEPT !.mode = "go"]]
          PROVE  OwnerMoves(k)
      <3>1. Moved(x, "go", 1, FALSE)
        BY <1>1, <2>2, MoveStart
      <3> QED
        BY <1>1, <3>1, NobodyMoves DEF Moved
    <2>3. c \in Direct => c \in Executions
      BY ExecutionKinds
    <2>4. c \notin Direct => KeyOf[c] \in Executions
      BY ExecutionKinds
    <2> QED
      BY <1>8, <2>1, <2>2, <2>3, <2>4 DEF Send, CallNext, Join, Reply
  <1> QED
    BY <1>3, <1>4, <1>6, <1>7, <1>8

\* The first in the queue waits at its admission.
LEMMA HeadWaits ==
  ASSUME CreationIInv, queue # <<>>
  PROVE  Head(queue) \in Executions /\ At(Head(queue), "admit")
  <1>1. queue \in Seq(Executions) /\ QueueOK
    BY Parts DEF AdmissionTypes
  <1>2. Head(queue) = queue[1] /\ Head(queue) \in Executions /\ 1 \in 1 .. Len(queue)
    BY <1>1
  <1>3. At(queue[1], "admit")
    BY <1>1, <1>2 DEF QueueOK
  <1> QED
    BY <1>2, <1>3

LEMMA StepMovesAll ==
  ASSUME CreationIInv, [Next]_vars
  PROVE  \A k \in Creating : OwnerMoves(k) /\ HonestMoves(k)
  <1>1. RestIInv
    BY TwoParts
  <1>2. CASE \E k \in Journaled : JournalNext(k)
    BY <1>1, <1>2, KeyedMoves
  <1>3. CASE \/ \E x \in Executions : StepNext(x)
             \/ \E c \in Calls : Send(c) \/ CallNext(c)
    <2>1. UNCHANGED journal
      BY <1>3 DEF StepNext, Admit, Select, AwaitReady, Connect, TakeReceipt, Validate, Reserve,
           RequestAgent, StoreReceipt, Checks, Send, CallNext, Join, Reply, storeVars
    <2> QED
      BY <1>1, <1>3, <2>1, OtherMoves
  <1>4. CASE AdmissionNext
    <2>1. UNCHANGED journal /\ queue # <<>>
      BY <1>4, Parts DEF AdmissionNext, AdmissionLists, AdmissionCreates, storeVars, QueueOK
    <2>2. UNCHANGED exec \/ Passes(Head(queue)) \/ Throws(Head(queue))
      BY <1>4 DEF AdmissionNext, AdmissionLists, AdmissionCreates
    <2> QED
      BY <1>1, <2>1, <2>2, HeadWaits, OtherMoves
  <1>5. CASE \E v \in Watchers : WatchRecovers(v)
    <2>1. PICK v \in Watchers : WatchRecovers(v)
      BY <1>5
    <2>2. /\ watch[v].key \in Journaled /\ SnapshotOK(watch[v].copy, watch[v].key)
          /\ watch[v].copy \in JournalRecord /\ RecordTypes /\ UNCHANGED exec
      BY <2>1, Parts DEF WatchOK, WatchRecovers, WatchTypes
    <2>3. \/ UNCHANGED journal
          \/ \E o : Recovers(watch[v].key, watch[v].copy, o)
      BY <2>1 DEF WatchRecovers
    <2>4. \A k \in Journaled : HonestMoves(k)
      BY <2>2, <2>3, RecoversHonest DEF HonestMoves
    <2> QED
      BY <2>2, <2>4, NobodyMoves DEF Creating
  <1>6. CASE \/ \E v \in Watchers : WatchReads(v) \/ \E k \in Journaled : WatchBegin(v, k)
             \/ \E w \in Spaces : SpaceReady(w) \/ SpaceStops(w)
             \/ Disconnect \/ Crash \/ UNCHANGED vars
    <2>1. UNCHANGED journal /\ (UNCHANGED exec \/ Crash)
      BY <1>6 DEF WatchReads, WatchBegin, SpaceReady, SpaceStops, Disconnect, Crash, storeVars, vars
    <2> QED
      BY <1>1, <2>1, OtherMoves
  <1> QED
    BY <1>2, <1>3, <1>4, <1>5, <1>6 DEF Next, WatchNext

LEMMA SpaceInvariantStep ==
  ASSUME OwnSpaces, SpaceIInv, [Next]_vars
  PROVE  SpaceIInv'
  <1>1. CreationIInv /\ CreationIInv' /\ \A k \in Journaled : Advances(k)
    BY StepInvariant DEF SpaceIInv
  <1>2. SUFFICES ASSUME NEW k \in Creating PROVE SpaceOK(k)' /\ HonestOK(k)'
    BY <1>1 DEF SpaceIInv
  <1>3. /\ k \in Journaled /\ k \in Keys /\ k \in Executions /\ KeyFor(k) = k
        /\ SpaceOK(k) /\ HonestOK(k) /\ OwnerMoves(k) /\ HonestMoves(k) /\ Advances(k)
        /\ Space[k] \in Spaces /\ space \in [Spaces -> {"none", "starting", "ready", "stopped"}]
    BY <1>1, ExecutionKinds, StepMovesAll, CreationAssumption, Parts
    DEF SpaceIInv, Creating, AdmissionTypes
  <1>4. CASE space[Space[k]] = "none" => space'[Space[k]] = "none"
    BY <1>3, <1>4, SpaceKept
  <1>5. CASE AdmissionCreates /\ space[Space[k]] = "none" /\ space'[Space[k]] # "none"
    <2>1. queue # <<>> /\ UNCHANGED journal
      BY <1>1, <1>5, Parts DEF AdmissionCreates, QueueOK
    <2>2. PICK x \in Executions : x = Head(queue) /\ At(x, "admit")
      BY <1>1, <2>1, HeadWaits
    <2>3. SpaceFor(x) = Space[k]
      BY <1>3, <1>5, <2>2 DEF AdmissionCreates
    <2>4. KeyFor(x) \in Keys /\ Space[KeyFor(x)] = Space[k]
      BY <2>3, ExecutionKinds DEF SpaceFor
    <2>5. KeyFor(x) = k
      <3>1. exec[x].at \in 1 .. Len(Plan(x)) /\ Plan(x)[exec[x].at] = "admit"
        BY <1>1, <2>2, Parts, PlanLength DEF ExecTypes, Execution, At
      <3>2. Kind[KeyFor(x)] \notin {"agent", "direct"}
        <4>1. CASE x \in Journaled
          BY <3>1, <4>1, ExecutionKinds, PlanOfKeys DEF Creating, JournaledKinds
        <4>2. CASE x \in Direct
          BY <3>1, <4>2, ExecutionKinds DEF Plan, DirectSteps
        <4> QED
          BY <4>1, <4>2, ExecutionKinds
      <3> QED
        BY <2>4, <3>2 DEF OwnSpaces
    <2>6. x = k
      BY <1>3, <2>5, ExecutionKinds
    <2>7. /\ exec[k].mode = "go" /\ Plan(k)[exec[k].at] = "admit" /\ (Passes(k) \/ Throws(k))
          /\ exec[k].at \in 1 .. Len(Plan(k)) /\ ExecTypes /\ CallTypes
      BY <1>1, <1>3, <1>5, <2>2, <2>6, Parts, PlanLength
      DEF At, AdmissionCreates, ExecTypes, Execution
    <2>8. exec[k].at = 4
      BY <1>3, <2>7, PlanOfKeys
    <2>9. /\ journal[k].phase # "none" /\ ~Terminal(journal[k])
      BY <1>1, <1>3, <2>7, <2>8, OwnerGoes, TwoParts
    <2>10. Behind(k, 3)' \/ ~Owner(k)'
      <3>1. CASE Moved(k, "off", 1, FALSE)
        BY <3>1 DEF Moved, Owner
      <3>2. CASE Moved(k, "catch", 4, exec[k].ok) \/ Moved(k, "go", 5, exec[k].ok)
        BY <3>2 DEF Moved, Behind
      <3>3. CASE Passes(k)
        <4>1. Moved(k, "off", 1, FALSE) \/ Moved(k, "go", exec[k].at + 1, exec[k].ok)
          BY <1>3, <2>7, <3>3, PassesIs
        <4>2. exec[k].at + 1 = 5
          BY <2>8
        <4> QED
          BY <3>1, <3>2, <4>1, <4>2
      <3>4. CASE Throws(k)
        <4>1. Moved(k, "off", 1, FALSE) \/ Moved(k, "catch", exec[k].at, exec[k].ok)
          BY <1>3, <2>7, <3>4, ThrowsIs
        <4> QED
          BY <2>8, <3>1, <3>2, <4>1
      <3> QED
        BY <2>7, <3>3, <3>4
    <2> QED
      BY <2>1, <2>9, <2>10 DEF SpaceOK, HonestOK, Terminal
  <1>6. ~AdmissionCreates => (space[Space[k]] = "none" => space'[Space[k]] = "none")
    <2> SUFFICES ASSUME ~AdmissionCreates PROVE space[Space[k]] = "none" => space'[Space[k]] = "none"
      OBVIOUS
    <2>1. CASE \E w \in Spaces : SpaceReady(w) \/ SpaceStops(w)
      BY <1>3, <2>1 DEF SpaceReady, SpaceStops
    <2>2. CASE ~\E w \in Spaces : SpaceReady(w) \/ SpaceStops(w)
      <3>1. UNCHANGED space
        BY <2>2 DEF Next, AdmissionNext, AdmissionLists, Send, CallNext, Join, Reply, WatchNext,
             WatchBegin, WatchReads, WatchRecovers,
             Disconnect, JournalNext, Authorize, CreateRecord, Replay, RecoverReplay, Progress,
             Publish, StepNext, Admit, Select, AwaitReady, Connect, TakeReceipt, Validate,
             Reserve, RequestAgent, StoreReceipt, Checks, Crash, storeVars, vars
      <3> QED
        BY <3>1
    <2> QED
      BY <2>1, <2>2
  <1> QED
    BY <1>4, <1>5, <1>6

\* With names of their own, no key's workspace appears before its mutation is
\* announced, nor under a record that denies it.
THEOREM SpaceInvariant == OwnSpaces => (Spec => []SpaceIInv)
  <1> SUFFICES ASSUME OwnSpaces PROVE Spec => []SpaceIInv
    OBVIOUS
  <1>1. Init => SpaceIInv
    <2> SUFFICES ASSUME Init, NEW k \in Creating PROVE SpaceOK(k) /\ HonestOK(k)
      BY StartInvariant DEF SpaceIInv
    <2>1. k \in Keys /\ Space[k] \in Spaces /\ Space[k] \notin Existing
      BY CreationAssumption, ExecutionKinds DEF OwnSpaces, Creating
    <2>2. space[Space[k]] = "none"
      BY <2>1 DEF Init
    <2> QED
      BY <2>2 DEF SpaceOK, HonestOK
  <1>2. SpaceIInv /\ [Next]_vars => SpaceIInv'
    BY SpaceInvariantStep
  <1> QED
    BY <1>1, <1>2, PTL DEF Spec

\* With names of their own, records are honest, final, and what every answer
\* says (OutcomeIsHonest, AnswersAgree, JournalOnlyAdvances): of retries,
\* replays, watchers and replaced processes none writes over an outcome.
THEOREM RecordsAreFinal == OwnSpaces => (Spec => RecordIsFinal)
  <1> SUFFICES ASSUME OwnSpaces PROVE Spec => RecordIsFinal
    OBVIOUS
  <1>1. SpaceIInv => TypeOK /\ OutcomeIsHonest /\ AnswersAgree
    <2> SUFFICES ASSUME SpaceIInv PROVE TypeOK /\ OutcomeIsHonest /\ AnswersAgree
      OBVIOUS
    <2>1. TypeOK /\ AnswersAgree /\ \A k \in Journaled : RecordOK(k)
      BY Parts DEF SpaceIInv, CreationIInv
    <2>2. \A k \in Journaled : Kind[k] # "agent" => HonestOK(k)
      BY DEF SpaceIInv, Creating
    <2> QED
      BY <2>1, <2>2 DEF OutcomeIsHonest, RecordOK, HonestOK, WithAgent
  <1>2. SpaceIInv /\ [Next]_vars =>
          [\A k \in Journaled :
             (journal[k].phase # "none" /\ journal'[k] # journal[k]) =>
               /\ ~Terminal(journal[k])
               /\ journal'[k].revision = journal[k].revision + 1
               /\ journal[k].bound => journal'[k].bound
               /\ journal'[k].body = journal[k].body]_vars
    BY StepInvariant DEF SpaceIInv, Advances
  <1> QED
    BY <1>1, <1>2, SpaceInvariant, PTL DEF Spec, RecordIsFinal, JournalOnlyAdvances
-----------------------------------------------------------------------------
(* The journal implements KeyedRequest.                                     *)

LEMMA VerdictIs ==
  ASSUME NEW r \in JournalRecord
  PROVE  /\ Verdict(r) \in {"none", "created", "unknown", "refused"}
         /\ Terminal(r) <=> Verdict(r) # "none"
         /\ Verdict(r) = "created" <=> r.phase = "completed"
         /\ Verdict(r) = "refused" <=> r.phase = "failed" /\ ~r.unknown
  BY DEF Verdict, Terminal, JournalRecord

LEMMA CreateMaps ==
  ASSUME NEW k \in Journaled, Kind[k] # "workspace", made[k] = 0, made'[k] = 1,
         \A j \in Journaled \ {k} : made'[j] = made[j],
         Verdict(journal[k]) = "none", UNCHANGED <<journal, told>>
  PROVE  Keyed!KeyedNext
  <1>1. Keyed!Create(k)
    BY DEF Keyed!Create
  <1> QED
    BY <1>1 DEF Keyed!KeyedNext

LEMMA DecideMaps ==
  ASSUME RecordTypes, RecordTypes', NEW k \in Journaled, Advances(k), RecordOK(k)',
         \A j \in Journaled \ {k} : journal'[j] = journal[j], UNCHANGED <<made, told>>
  PROVE  [Keyed!KeyedNext]_(Keyed!keyedVars)
  <1>1. journal[k] \in JournalRecord /\ journal'[k] \in JournalRecord
    BY DEF RecordTypes
  <1> DEFINE v == Verdict(journal'[k])
             decided == [j \in Journaled |-> Verdict(journal[j])]
  <1>2. [j \in Journaled |-> Verdict(journal'[j])] = [decided EXCEPT ![k] = v]
    OBVIOUS
  <1>3. CASE v = Verdict(journal[k])
    <2>1. [j \in Journaled |-> Verdict(journal'[j])] = decided
      BY <1>2, <1>3
    <2> QED
      BY <2>1 DEF Keyed!keyedVars
  <1>4. CASE v # Verdict(journal[k])
    <2>1. ~Terminal(journal[k]) /\ journal'[k] # journal[k]
      BY <1>1, <1>4 DEF Advances, Terminal
    <2>2. decided[k] = "none"
      BY <1>1, <2>1, VerdictIs
    <2>3. v \in Keyed!Verdicts
      BY <1>1, <1>4, <2>2, VerdictIs DEF Keyed!Verdicts
    <2>4. (v = "created" /\ WithAgent(k) => made[k] = 1) /\ (v = "refused" => made[k] = 0)
      BY <1>1, VerdictIs DEF RecordOK
    <2>5. Keyed!Honest(k, v)
      BY <2>4 DEF Keyed!Honest, WithAgent
    <2>6. Keyed!DecideRequest(k, v)
      BY <1>2, <2>2, <2>5 DEF Keyed!DecideRequest
    <2> QED
      BY <2>3, <2>6 DEF Keyed!KeyedNext
  <1> QED
    BY <1>3, <1>4

LEMMA AnswerMaps ==
  ASSUME RestIInv, NEW c \in Calls, Reply(c)
  PROVE  [Keyed!KeyedNext]_(Keyed!keyedVars)
  <1>1. UNCHANGED <<journal, made>>
    BY DEF Reply, storeVars
  <1>2. CASE UNCHANGED told
    BY <1>1, <1>2 DEF Keyed!keyedVars
  <1>3. CASE /\ call[c].outcome # Error
             /\ told' = [told EXCEPT ![KeyOf[c]] = @ \cup {call[c].outcome}]
    <2> DEFINE k == KeyOf[c]
               answered == [j \in Journaled |-> {Verdict(r) : r \in told[j]}]
    <2>1. /\ k \in Journaled /\ Terminal(journal[k]) /\ call[c].outcome = journal[k]
          /\ journal[k] \in JournalRecord /\ told \in [Journaled -> SUBSET JournalRecord]
      BY <1>3, AnswerIs DEF Reply, RestIInv, HistoryTypes
    <2>2. told' = [told EXCEPT ![k] = told[k] \cup {journal[k]}]
      BY <1>3, <2>1
    <2>3. told'[k] = told[k] \cup {journal[k]} /\ \A j \in Journaled \ {k} : told'[j] = told[j]
      BY <2>1, <2>2
    <2>4. {Verdict(r) : r \in told'[k]} = answered[k] \cup {Verdict(journal[k])}
      BY <2>1, <2>3
    <2>5. [j \in Journaled |-> {Verdict(r) : r \in told'[j]}]
            = [answered EXCEPT ![k] = answered[k] \cup {Verdict(journal[k])}]
      BY <2>1, <2>3, <2>4
    <2>6. Verdict(journal[k]) # "none"
      BY <2>1, VerdictIs
    <2>7. Keyed!Answer(k)
      BY <1>1, <2>1, <2>5, <2>6 DEF Keyed!Answer
    <2> QED
      BY <2>1, <2>7 DEF Keyed!KeyedNext
  <1> QED
    BY <1>2, <1>3 DEF Reply

LEMMA RequestMaps ==
  ASSUME RestIInv, NEW x \in Executions, RequestAgent(x)
  PROVE  [Keyed!KeyedNext]_(Keyed!keyedVars)
  <1>1. UNCHANGED <<journal, told>>
    BY DEF RequestAgent, storeVars
  <1>2. made \in [Executions -> 0..2] /\ Journaled \subseteq Executions
    BY ExecutionKinds DEF RestIInv, HistoryTypes
  <1>3. made' = made \/ made' = [made EXCEPT ![x] = IF @ = 2 THEN 2 ELSE @ + 1]
    BY DEF RequestAgent
  <1>4. CASE made' = made \/ x \notin Journaled
    <2>1. \A j \in Journaled : made'[j] = made[j]
      BY <1>2, <1>3, <1>4
    <2> QED
      BY <1>1, <2>1 DEF Keyed!keyedVars
  <1>5. CASE made' # made /\ x \in Journaled
    <2>1. /\ At(x, "request") /\ exec[x].mode = "go" /\ exec[x].at >= 3
          /\ exec[x].at = RequestAt(x) /\ exec[x].at \in 1 .. Len(Plan(x)) /\ Working(x)
          /\ ReceiptAt(x) < RequestAt(x)
      BY <1>5, AgentAt DEF RequestAgent
    <2>2. ~Terminal(journal[x]) /\ journal[x] \in JournalRecord
      BY <1>5, <2>1, OwnerGoes DEF RestIInv, RecordTypes
    <2>3. Verdict(journal[x]) = "none"
      BY <2>2, VerdictIs
    <2>4. made[x] = 0
      <3>1. Carrying(x) /\ x \in Twins(x)
        BY <2>1 DEF Carrying, Twins
      <3> QED
        BY <3>1 DEF RestIInv, MutationOK, CarryOK
    <2>5. made'[x] = 1 /\ \A j \in Journaled \ {x} : made'[j] = made[j]
      BY <1>2, <1>3, <1>5, <2>4
    <2>6. Kind[x] # "workspace"
      <3> SUFFICES ASSUME ~WithAgent(x) PROVE FALSE
        BY DEF WithAgent
      <3>1. Len(Plan(x)) = 8 /\ AgentFrom(x) = 8
        BY <1>5, PlanOfKeys
      <3>2. RequestAt(x) = 19
        BY <1>5, <3>1, ExecutionKinds DEF RequestAt
      <3> QED
        BY <2>1, <3>1, <3>2
    <2>7. Keyed!KeyedNext
      BY <1>1, <1>5, <2>3, <2>4, <2>5, <2>6, CreateMaps
    <2> QED
      BY <2>7
  <1> QED
    BY <1>4, <1>5

LEMMA StepMaps ==
  ASSUME CreationIInv, [Next]_vars
  PROVE  [Keyed!KeyedNext]_(Keyed!keyedVars)
  <1>1. /\ RestIInv /\ RecordTypes /\ RecordTypes' /\ CreationIInv'
        /\ \A k \in Journaled : Advances(k) /\ RecordOK(k)'
    <2>1. CreationIInv' /\ \A k \in Journaled : Advances(k)
      BY StepInvariant
    <2>2. RecordTypes' /\ \A k \in Journaled : RecordOK(k)'
      BY <2>1 DEF CreationIInv, TypeOK, RecordTypes, KeyOK
    <2> QED
      BY <2>1, <2>2, TwoParts DEF RestIInv
  <1>2. CASE UNCHANGED <<made, journal, told>>
    BY <1>2 DEF Keyed!keyedVars
  <1>3. ASSUME NEW k \in Journaled, UNCHANGED <<made, told>>,
               \A j \in Journaled \ {k} : journal'[j] = journal[j]
        PROVE  [Keyed!KeyedNext]_(Keyed!keyedVars)
    BY <1>1, <1>3, DecideMaps
  <1>4. CASE \E k \in Journaled : JournalNext(k)
    <2>1. PICK k \in Journaled : JournalNext(k)
      BY <1>4
    <2>2. UNCHANGED <<made, told>>
      BY <2>1 DEF JournalNext, Authorize, CreateRecord, Replay, RecoverReplay, Progress, Publish
    <2>3. \/ UNCHANGED journal \/ \E r : journal' = [journal EXCEPT ![k] = r]
      BY <2>1 DEF JournalNext, Authorize, CreateRecord, Replay, RecoverReplay, Recovers, Progress,
                  Publish, storeVars
    <2>4. \A j \in Journaled \ {k} : journal'[j] = journal[j]
      BY <1>1, <2>3 DEF RecordTypes
    <2> QED
      BY <1>3, <2>1, <2>2, <2>4
  <1>5. CASE \E v \in Watchers : WatchRecovers(v)
    <2>1. PICK v \in Watchers : WatchRecovers(v)
      BY <1>5
    <2>2. UNCHANGED <<made, told>> /\ watch[v].key \in Journaled
      BY <1>1, <2>1 DEF WatchRecovers, RestIInv, WatchOK
    <2>3. \/ UNCHANGED journal \/ \E r : journal' = [journal EXCEPT ![watch[v].key] = r]
      BY <2>1 DEF WatchRecovers, Recovers
    <2>4. PICK k \in Journaled : \A j \in Journaled \ {k} : journal'[j] = journal[j]
      BY <1>1, <2>2, <2>3 DEF RecordTypes
    <2> QED
      BY <1>3, <2>2, <2>4
  <1>6. CASE \E x \in Executions : RequestAgent(x)
    BY <1>1, <1>6, RequestMaps
  <1>7. CASE \E c \in Calls : Reply(c)
    BY <1>1, <1>7, AnswerMaps
  <1>8. CASE \/ \E c \in Calls : Send(c) \/ Join(c)
             \/ \E x \in Executions : StepNext(x) /\ ~RequestAgent(x)
             \/ AdmissionNext \/ Disconnect \/ Crash \/ UNCHANGED vars
             \/ \E v \in Watchers : WatchReads(v) \/ \E k \in Journaled : WatchBegin(v, k)
             \/ \E w \in Spaces : SpaceReady(w) \/ SpaceStops(w)
    <2>1. UNCHANGED <<made, journal, told>>
      BY <1>8 DEF Send, Join, StepNext, Admit, Select, AwaitReady, Connect, TakeReceipt, Validate,
           Reserve, StoreReceipt, Checks, AdmissionNext, AdmissionLists, AdmissionCreates,
           Disconnect, Crash, WatchReads, WatchBegin, SpaceReady, SpaceStops, storeVars, vars
    <2> QED
      BY <1>2, <2>1
  <1> QED
    BY <1>4, <1>5, <1>6, <1>7, <1>8 DEF Next, CallNext, WatchNext

\* The journal implements KeyedRequest: through conflicts of revisions, lost
\* answers, retries and replaced processes, a request is decided once, every
\* answer is that decision, and its agent is created before it, at most once.
THEOREM ImplementsKeyedRequest == Spec => KeyedRequestImplemented
  <1>1. Init => Keyed!KeyedInit
    <2> SUFFICES ASSUME Init PROVE Keyed!KeyedInit
      OBVIOUS
    <2>1. /\ \A k \in Journaled : made[k] = 0 /\ told[k] = {} /\ journal[k] = Absent
      BY ExecutionKinds DEF Init
    <2>2. Verdict(Absent) = "none"
      BY RecordFacts, VerdictIs
    <2> QED
      BY <2>1, <2>2 DEF Keyed!KeyedInit
  <1>2. CreationIInv /\ [Next]_vars => [Keyed!KeyedNext]_(Keyed!keyedVars)
    BY StepMaps
  <1> QED
    BY <1>1, <1>2, CreationInvariant, PTL DEF Spec, KeyedRequestImplemented, Keyed!KeyedSpec
=============================================================================
