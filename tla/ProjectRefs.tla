---------------------------- MODULE ProjectRefs ----------------------------
(***************************************************************************)
(* Inspection of a project's Git refs: ProjectRefInspector of              *)
(* src/gateway/project-refs.ts and the Pod's program                       *)
(* docker/inspect-refs.mjs.  A query takes one of a few slots, or waits a  *)
(* moment for one; it leaves a receipt before it creates its Pod, and the  *)
(* receipt goes only after the Pod.                                        *)
(*                                                                         *)
(* A query's run id is a random UUID, so the query stands for it, and for  *)
(* the Pod's name.  The Pod of a run is created once: its UID is either    *)
(* known or not.                                                           *)
(***************************************************************************)
EXTENDS Integers, FiniteSets, Sequences, SequencesExt

CONSTANTS
  RefQueries,      \* queries
  MaxActive,       \* MAX_ACTIVE
  MaxWaiting,      \* MAX_WAITING
  MaxRefFaults     \* bound: crashes, failed calls and lost answers

ASSUME RefsAssumption ==
  /\ MaxActive \in Nat \ {0} /\ MaxWaiting \in Nat /\ MaxRefFaults \in Nat
  /\ RefQueries \cap {"idle", "get"} = {}

VARIABLES
  query,         \* the queries of the process
  refActive,     \* active
  refWaiters,    \* waiters, in order; "waiting" counts them
  receipt,       \* the run records
  inspectPod,    \* the Pods
  recovery,      \* the run recoverExpired() is at work on, with its step
  refFaults      \* faults so far

refVars == <<query, refActive, refWaiters, receipt, inspectPod, recovery,
             refFaults>>

\* asked -> (queued ->) receipt -> pod -> stamp -> watch -> settle -> delete
\*   -> gone -> forget -> done
QuerySteps == {"none", "queued", "receipt", "pod", "stamp", "watch", "settle",
               "get", "gone", "forget", "done"}
Live(q) == query[q].step \notin {"none", "queued", "done"}
Query == [step : QuerySteps, uid : BOOLEAN, noted : BOOLEAN,
          answer : {"none", "ok", "failed"}]
NewQuery == [step |-> "none", uid |-> FALSE, noted |-> FALSE, answer |-> "none"]
\* noted: the receipt names the Pod's UID; old: it is older than 90 s.
Receipt == [there : BOOLEAN, noted : BOOLEAN, old : BOOLEAN]
NoReceipt == [there |-> FALSE, noted |-> FALSE, old |-> FALSE]

PodStates == {"none", "running", "answered", "failed", "deleting"}

RefInit ==
  /\ query = [q \in RefQueries |-> NewQuery]
  /\ refActive = 0 /\ refWaiters = <<>>
  /\ receipt = [q \in RefQueries |-> NoReceipt]
  /\ inspectPod = [q \in RefQueries |-> "none"]
  /\ recovery = [step |-> "idle", runs |-> {}]
  /\ refFaults = 0

-----------------------------------------------------------------------------
(* query(): the slots.                                                      *)

QueryGoes(q, step) == [query EXCEPT ![q].step = step]
RefFault == refFaults < MaxRefFaults /\ refFaults' = refFaults + 1

AskRefs(q) ==
  /\ query[q].step = "none"
  /\ IF refActive < MaxActive
     THEN /\ refActive' = refActive + 1
          /\ query' = QueryGoes(q, "receipt") /\ UNCHANGED refWaiters
     ELSE /\ UNCHANGED refActive
          /\ IF Len(refWaiters) < MaxWaiting
             THEN /\ refWaiters' = Append(refWaiters, q)
                  /\ query' = QueryGoes(q, "queued")
             ELSE query' = QueryGoes(q, "done") /\ UNCHANGED refWaiters
  /\ UNCHANGED <<receipt, inspectPod, recovery, refFaults>>

\* 3 s in the queue: the waiter is taken out and its query refused.
QueueTimeout(q) ==
  /\ query[q].step = "queued"
  /\ \E i \in 1 .. Len(refWaiters) :
       refWaiters[i] = q /\ refWaiters' = RemoveAt(refWaiters, i)
  /\ query' = QueryGoes(q, "done")
  /\ UNCHANGED <<refActive, receipt, inspectPod, recovery, refFaults>>

\* The end of run(): the slot is handed to the first waiter, or given up.
LeaveSlot(q) ==
  IF refWaiters = <<>>
  THEN /\ refActive' = refActive - 1 /\ UNCHANGED refWaiters
       /\ query' = QueryGoes(q, "done")
  ELSE /\ refWaiters' = Tail(refWaiters) /\ UNCHANGED refActive
       /\ query' = [QueryGoes(q, "done") EXCEPT ![Head(refWaiters)].step = "receipt"]

-----------------------------------------------------------------------------
(* run().                                                                   *)

\* The record is created; when the call fails it may exist all the same.
CreateReceipt(q) ==
  /\ query[q].step = "receipt"
  /\ \/ /\ receipt' = [receipt EXCEPT ![q].there = TRUE]
        /\ query' = QueryGoes(q, "pod") /\ UNCHANGED refFaults
     \/ /\ RefFault
        /\ \E there \in BOOLEAN : receipt' = [receipt EXCEPT ![q].there = there]
        /\ query' = QueryGoes(q, "settle")
  /\ UNCHANGED <<refActive, refWaiters, inspectPod, recovery>>

CreateInspectPod(q) ==
  /\ query[q].step = "pod"
  /\ \/ /\ inspectPod' = [inspectPod EXCEPT ![q] = "running"]
        /\ query' = [QueryGoes(q, "stamp") EXCEPT ![q].uid = TRUE]
        /\ UNCHANGED refFaults
     \/ /\ RefFault
        /\ \E pod \in {"none", "running"} :
             inspectPod' = [inspectPod EXCEPT ![q] = pod]
        /\ query' = QueryGoes(q, "settle")
  /\ UNCHANGED <<refActive, refWaiters, receipt, recovery>>

\* The Pod's UID goes into the receipt.
StampReceipt(q) ==
  /\ query[q].step = "stamp"
  /\ \/ /\ receipt[q].there
        /\ receipt' = [receipt EXCEPT ![q].noted = TRUE]
        /\ query' = QueryGoes(q, "watch") /\ UNCHANGED refFaults
     \/ /\ \/ ~receipt[q].there /\ UNCHANGED <<receipt, refFaults>>
           \/ /\ receipt[q].there /\ RefFault
              /\ \E noted \in BOOLEAN :
                   receipt' = [receipt EXCEPT ![q].noted = noted]
        /\ query' = QueryGoes(q, "settle")
  /\ UNCHANGED <<refActive, refWaiters, inspectPod, recovery>>

\* The program ends with a message: refs, a verdict, or an error; or the
\* kubelet stops it at its deadline.
InspectorEnds(q) ==
  /\ inspectPod[q] = "running"
  /\ \E end \in {"answered", "failed"} :
       inspectPod' = [inspectPod EXCEPT ![q] = end]
  /\ UNCHANGED <<query, refActive, refWaiters, receipt, recovery, refFaults>>

\* The loop reads the Pod until it ended, is not the run's, or 43 s are over.
WatchInspector(q) ==
  /\ query[q].step = "watch"
  /\ \E answer \in {"ok", "failed"} :
       /\ answer = "ok" => inspectPod[q] = "answered"
       /\ query' = [QueryGoes(q, "settle") EXCEPT ![q].answer = answer]
  /\ UNCHANGED <<refActive, refWaiters, receipt, inspectPod, recovery, refFaults>>

-----------------------------------------------------------------------------
(* cleanupRun(), by the query and by recovery.                              *)

\* Without a receipt nothing is cleaned up, and without a UID nothing can be
\* told from a replacement: recovery will do it.
Settle(q) ==
  /\ query[q].step = "settle"
  /\ IF receipt[q].there /\ (query[q].uid \/ receipt[q].noted)
     THEN /\ query' = [QueryGoes(q, "get") EXCEPT ![q].noted = receipt[q].noted]
          /\ UNCHANGED <<refActive, refWaiters>>
     ELSE LeaveSlot(q)
  /\ UNCHANGED <<receipt, inspectPod, recovery, refFaults>>

\* An API error, or the Pod is still there after 10 s.
CleanupThrows(q) ==
  /\ query[q].step \in {"settle", "get", "gone", "forget"}
  /\ RefFault
  /\ LeaveSlot(q)
  /\ UNCHANGED <<receipt, inspectPod, recovery>>

Deleted(q) == [inspectPod EXCEPT ![q] = IF @ = "none" THEN @ ELSE "deleting"]

DeletePod(q) ==
  /\ query[q].step = "get"
  /\ inspectPod' = Deleted(q)
  /\ query' = QueryGoes(q, "gone")
  /\ UNCHANGED <<refActive, refWaiters, receipt, recovery, refFaults>>

PodIsGone(q) ==
  /\ query[q].step = "gone" /\ inspectPod[q] = "none"
  /\ query' = QueryGoes(q, "forget")
  /\ UNCHANGED <<refActive, refWaiters, receipt, inspectPod, recovery, refFaults>>

\* The receipt is deleted unless it changed since it was read.
DeleteReceipt(q) ==
  /\ query[q].step = "forget"
  /\ receipt' = IF receipt[q].noted = query[q].noted
                THEN [receipt EXCEPT ![q] = NoReceipt] ELSE receipt
  /\ LeaveSlot(q)
  /\ UNCHANGED <<inspectPod, recovery, refFaults>>

-----------------------------------------------------------------------------
(* recoverExpired(), at startup and every 30 s.                             *)

RecoverBegins ==
  LET expired == {q \in RefQueries : receipt[q].there /\ receipt[q].old}
  IN  /\ recovery.step = "idle" /\ expired # {}
      /\ recovery' = [step |-> "get", runs |-> expired]
      /\ UNCHANGED <<query, refActive, refWaiters, receipt, inspectPod, refFaults>>

\* One expired run after another, in any order.
RecoverDeletesPod(q) ==
  /\ recovery.step = "get" /\ q \in recovery.runs
  /\ inspectPod' = Deleted(q)
  /\ recovery' = [recovery EXCEPT !.step = q]
  /\ UNCHANGED <<query, refActive, refWaiters, receipt, refFaults>>

RecoverOn(q) ==
  recovery' = [runs |-> recovery.runs \ {q},
               step |-> IF recovery.runs = {q} THEN "idle" ELSE "get"]

RecoverForgets(q) ==
  /\ recovery.step = q /\ inspectPod[q] = "none"
  /\ receipt' = [receipt EXCEPT ![q] = NoReceipt]
  /\ RecoverOn(q)
  /\ UNCHANGED <<query, refActive, refWaiters, inspectPod, refFaults>>

RecoverSkips(q) ==
  /\ recovery.step = q /\ RefFault
  /\ RecoverOn(q)
  /\ UNCHANGED <<query, refActive, refWaiters, receipt, inspectPod>>

-----------------------------------------------------------------------------
(* The environment.                                                         *)

InspectPodGone(q) ==
  /\ inspectPod[q] = "deleting"
  /\ inspectPod' = [inspectPod EXCEPT ![q] = "none"]
  /\ UNCHANGED <<query, refActive, refWaiters, receipt, recovery, refFaults>>

\* A query that lives ends within 90 s: 43 s of watching, 10 s of cleanup.
ReceiptExpires(q) ==
  /\ receipt[q].there /\ ~receipt[q].old /\ ~Live(q)
  /\ receipt' = [receipt EXCEPT ![q].old = TRUE]
  /\ UNCHANGED <<query, refActive, refWaiters, inspectPod, recovery, refFaults>>

\* The process is replaced; its queries fail.
RefCrash ==
  /\ RefFault
  /\ query' = [q \in RefQueries |->
       IF query[q].step = "none" THEN query[q] ELSE [NewQuery EXCEPT !.step = "done"]]
  /\ refActive' = 0 /\ refWaiters' = <<>>
  /\ recovery' = [step |-> "idle", runs |-> {}]
  /\ UNCHANGED <<receipt, inspectPod>>

RunRefs(q) ==
  \/ CreateReceipt(q) \/ CreateInspectPod(q) \/ StampReceipt(q)
  \/ WatchInspector(q) \/ Settle(q) \/ DeletePod(q) \/ PodIsGone(q)
  \/ DeleteReceipt(q)
Recover ==
  RecoverBegins \/ \E q \in RefQueries : RecoverDeletesPod(q) \/ RecoverForgets(q)

RefNext ==
  \/ \E q \in RefQueries :
       \/ AskRefs(q) \/ QueueTimeout(q) \/ RunRefs(q) \/ CleanupThrows(q)
       \/ InspectorEnds(q) \/ RecoverSkips(q) \/ InspectPodGone(q)
       \/ ReceiptExpires(q)
  \/ Recover \/ RefCrash

RefFairness ==
  /\ \A q \in RefQueries : /\ WF_refVars(RunRefs(q))
                           /\ WF_refVars(InspectPodGone(q))
                           /\ WF_refVars(ReceiptExpires(q))
  /\ WF_refVars(Recover)

RefSpec == RefInit /\ [][RefNext]_refVars /\ RefFairness

-----------------------------------------------------------------------------
(* Properties.                                                              *)

\* The state has its type.
RefTypeOK ==
  /\ query \in [RefQueries -> Query] /\ receipt \in [RefQueries -> Receipt]
  /\ refActive \in Nat /\ refWaiters \in Seq(RefQueries)
  /\ inspectPod \in [RefQueries -> PodStates]
  /\ recovery \in [step : {"idle", "get"} \cup RefQueries, runs : SUBSET RefQueries]
  /\ refFaults \in 0 .. MaxRefFaults

\* "A receipt survives any crash between Pod create, UID capture, and
\* deletion": no inspection Pod exists without the receipt that finds it.
InspectPodHasReceipt ==
  \A q \in RefQueries : inspectPod[q] # "none" => receipt[q].there

\* Slots are neither lost nor invented by hand-over, refusal, timeout and
\* failure, and nobody waits while one is free.
RefSlotsConserved ==
  /\ refActive = Cardinality({q \in RefQueries : Live(q)})
  /\ refActive <= MaxActive
  /\ refWaiters # <<>> => refActive = MaxActive
  /\ ToSet(refWaiters) = {q \in RefQueries : query[q].step = "queued"}

\* Whatever fails on the way, the receipts and Pods of all runs are gone in
\* the end.
InspectionsLeaveNothing ==
  <>[](\A q \in RefQueries : ~receipt[q].there /\ inspectPod[q] = "none")

\* Waiting queries get their slots or their refusals.
QueuedQueriesServed == refWaiters # <<>> ~> refWaiters = <<>>

\* Every inspection Pod has its receipt and every slot its query.
InspectionsAccounted == InspectPodHasReceipt /\ RefSlotsConserved
=============================================================================
