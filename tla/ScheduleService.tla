--------------------------- MODULE ScheduleService ---------------------------
(***************************************************************************)
(* src/gateway/schedules.ts: the durable scheduler.  Schedules and their   *)
(* runs are ConfigMap records written by compare-and-swap; fires, their    *)
(* dispatches, observations and the poll are concurrent tasks of one       *)
(* process, lost when it is replaced.                                      *)
(*                                                                         *)
(* A handler that reads a schedule and writes it back with the version it  *)
(* read is one step: a conflict is an error without effect.  Where checks  *)
(* made on a copy matter (a fire, the poll) reading and writing are steps  *)
(* of their own, and r \in freshTask (s \in freshTick) says that the copy  *)
(* still has the record's version.                                         *)
(***************************************************************************)
EXTENDS Integers, FiniteSets

CONSTANTS
  Schedules,           \* schedule IDs; each is created at most once
  Requests,            \* request IDs of run-once
  NoTime,              \* an absent time
  NoLimit,             \* an absent maxRuns
  RunLimits,           \* the values of maxRuns that clients choose
  Expirations,         \* the values of expiresAt that clients choose
  Policies,            \* the concurrency policies in use
  MaxReservations,     \* outstanding runs per schedule (16)
  MaxDispatches,       \* maxInflightDispatches
  MaxObservations,     \* maxInflightObservations
  HistoryLimit,        \* finished runs kept per schedule
  Grace,               \* lateness beyond which an occurrence is skipped
  Period,              \* bound on the distance of the next occurrence
  MaxTime,             \* bound of the clock
  MaxTotal,            \* bound on the runs after which requests cease
  Faults               \* what the environment may do

Times == 0..(MaxTime + Period)
FaultKinds == {"api", "crash", "unknown", "gaveUp", "operator", "close",
               "edit", "delete"}

ASSUME SchedulesAssumption ==
  /\ IsFiniteSet(Schedules) /\ IsFiniteSet(Requests)
  /\ Requests \cap Int = {} /\ NoTime \notin Int /\ NoLimit \notin Int
  /\ RunLimits \subseteq (Nat \ {0}) \cup {NoLimit}
  /\ Expirations \subseteq Nat \cup {NoTime}
  /\ Policies \subseteq {"Forbid", "Allow"}
  /\ {MaxReservations, MaxDispatches, MaxObservations, HistoryLimit, Period}
       \subseteq Nat \ {0}
  /\ {Grace, MaxTime, MaxTotal} \subseteq Nat
  /\ Faults \subseteq FaultKinds

\* A run ID is a digest of the schedule and its due time or its request ID.
Run == Schedules \X (Times \cup Requests)
Automatic(r) == r[2] \in Times
RunsOf(s) == {r \in Run : r[1] = s}

VARIABLES
  sched,      \* the schedule records
  phase,      \* the phases of the run records
  started,    \* startedAt of the runs
  agent,      \* what a run's dispatch has set going in the cluster
  now,        \* the clock
  mode,       \* the gateway process: up, stopping or down
  recovered,  \* schedules recover() has saved
  purging,    \* schedules whose deletion has yet to delete the runs
  task,       \* the dispatch tasks: where each executeFire() is
  freshTask,  \* fires whose copy of the schedule has the current version
  waiting,    \* run-once requests waiting for a durable intent
  completion, \* completeRun() of the observer and of the operator, per run
  tickPc, tickTime, tickList, tickLeft,  \* the poll
  tickWait,   \* the fire whose durable intent the poll awaits
  freshTick,  \* schedules whose copy in the poll has the current version
  sent,       \* history: dispatches of a run while its record exists (2: more)
  acked       \* history: run-once requests that were acknowledged

recordVars == <<sched, phase, started>>
worldVars == <<agent, now>>
processVars == <<mode, recovered, purging>>
taskVars == <<task, freshTask, waiting>>
tickVars == <<tickPc, tickTime, tickList, tickLeft, tickWait, freshTick>>
historyVars == <<sent, acked>>
vars == <<recordVars, worldVars, processVars, taskVars, completion, tickVars,
          historyVars>>

Status == {"none", "active", "paused", "completed", "deleted"}
Phases == {"none", "dispatching", "running", "finished", "unknown"}
Unprepared == {"check", "read", "save", "create"}
TaskSteps == {"none", "dispatch", "await", "release", "prune"} \cup Unprepared
CompletionSteps == {"none", "observe", "complete", "release", "prune"}
Actors == {"observer", "operator"}

ScheduleState ==
  [status : Status, next : Times \cup {NoTime}, total : Nat,
   reserved : SUBSET Run, concurrency : {"Forbid", "Allow"},
   maxRuns : Nat \cup {NoLimit}, expires : Nat \cup {NoTime}]

NoSchedule ==
  [status |-> "none", next |-> NoTime, total |-> 0, reserved |-> {},
   concurrency |-> "Forbid", maxRuns |-> NoLimit, expires |-> NoTime]

Init ==
  /\ sched = [s \in Schedules |-> NoSchedule]
  /\ phase = [r \in Run |-> "none"]
  /\ started = [r \in Run |-> 0]
  /\ agent = [r \in Run |-> "none"]
  /\ now = 0
  /\ mode = "up" /\ recovered = {} /\ purging = {}
  /\ task = [r \in Run |-> "none"]
  /\ freshTask = {} /\ waiting = {}
  /\ completion = [a \in Actors |-> [r \in Run |-> "none"]]
  /\ tickPc = "idle" /\ tickTime = 0 /\ tickLeft = {} /\ freshTick = {}
  /\ tickList = [s \in Schedules |-> NoSchedule]
  /\ tickWait = {}
  /\ sent = [r \in Run |-> 0]
  /\ acked = {}

-----------------------------------------------------------------------------
(* Records.                                                                 *)

Exists(s) == sched[s].status \notin {"none", "deleted"}

\* updateRecord: a write makes every other copy of the schedule stale.
Put(s, c) ==
  /\ sched' = [sched EXCEPT ![s] = c]
  /\ freshTask' = freshTask \ RunsOf(s)
  /\ freshTick' = freshTick \ {s}

Keep == UNCHANGED <<sched, freshTask, freshTick>>

\* nextScheduleTime: strictly later, for intervals and for cron expressions.
nextScheduleTime(t) == (t + 1)..(t + Period)

LimitReached(c, t) ==
  \/ c.expires # NoTime /\ c.expires <= t
  \/ c.maxRuns # NoLimit /\ c.total >= c.maxRuns

SlotTaken(c) ==
  \/ Cardinality(c.reserved) >= MaxReservations
  \/ c.concurrency = "Forbid" /\ c.reserved # {}

\* prune(): only the latest HistoryLimit finished runs are kept.
Finished(s) == {r \in RunsOf(s) : phase[r] = "finished"}
Pruned(s) ==
  {D \in SUBSET Finished(s) :
     /\ \A d \in D, k \in Finished(s) \ D : started[d] <= started[k]
     /\ Cardinality(Finished(s) \ D) <= HistoryLimit
     /\ D # {} => Cardinality(Finished(s) \ D) = HistoryLimit}

DeleteRuns(D) ==
  /\ phase' = [r \in Run |-> IF r \in D THEN "none" ELSE phase[r]]
  /\ started' = [r \in Run |-> IF r \in D THEN 0 ELSE started[r]]
  /\ sent' = [r \in Run |-> IF r \in D THEN 0 ELSE sent[r]]

\* release(): up to four attempts to take the run out of the reservations.
Release(r) ==
  /\ Exists(r[1])
  /\ Put(r[1], [sched[r[1]] EXCEPT !.reserved = @ \ {r}])

-----------------------------------------------------------------------------
(* handle(): requests of clients, and setConcurrency().                     *)

Edit(s, c) ==
  /\ mode = "up"
  /\ Put(s, c)
  /\ UNCHANGED <<phase, started, worldVars, processVars, task, waiting,
                 completion, tickPc, tickTime, tickList, tickLeft, tickWait,
                 historyVars>>

Create(s) ==
  /\ sched[s].status = "none"
  /\ \E t \in nextScheduleTime(now), m \in RunLimits, e \in Expirations,
        p \in Policies :
       Edit(s, [NoSchedule EXCEPT !.status = "active", !.next = t,
                  !.maxRuns = m, !.expires = e, !.concurrency = p])

Pause(s) ==
  /\ "edit" \in Faults
  /\ Exists(s)
  /\ Edit(s, [sched[s] EXCEPT !.status = "paused", !.next = NoTime])

Resume(s) ==
  /\ "edit" \in Faults
  /\ Exists(s)
  /\ \E t \in nextScheduleTime(now) :
       Edit(s, [sched[s] EXCEPT !.status = "active", !.next = t])

\* Cadence, run limit and expiration; the binding may not change.
Update(s) ==
  /\ "edit" \in Faults
  /\ Exists(s)
  /\ \E m \in RunLimits, e \in Expirations,
        t \in IF sched[s].status = "active"
                THEN nextScheduleTime(now) \cup {sched[s].next}
                ELSE {sched[s].next} :
       Edit(s, [sched[s] EXCEPT !.maxRuns = m, !.expires = e, !.next = t])

setConcurrency(s) ==
  /\ Exists(s)
  /\ \E p \in Policies \ {sched[s].concurrency} :
       Edit(s, [sched[s] EXCEPT !.concurrency = p])

\* Mutant of Delete: outstanding runs are not looked at.
DeleteAlways(s) ==
  /\ "delete" \in Faults
  /\ mode = "up" /\ Exists(s)
  /\ Put(s, [NoSchedule EXCEPT !.status = "deleted"])
  /\ purging' = purging \cup {s}
  /\ UNCHANGED <<phase, started, worldVars, mode, recovered, task, waiting,
                 completion, tickPc, tickTime, tickList, tickLeft, tickWait,
                 historyVars>>

Delete(s) ==
  /\ "delete" \in Faults
  /\ mode = "up" /\ Exists(s)
  /\ sched[s].reserved = {}
  /\ Put(s, [NoSchedule EXCEPT !.status = "deleted"])
  /\ purging' = purging \cup {s}
  /\ UNCHANGED <<phase, started, worldVars, mode, recovered, task, waiting,
                 completion, tickPc, tickTime, tickList, tickLeft, tickWait,
                 historyVars>>

\* The deletion goes on to the schedule's run records, and may fail there.
DeleteHistory(s) ==
  /\ s \in purging
  /\ purging' = purging \ {s}
  /\ \E D \in IF "api" \in Faults
                THEN SUBSET {r \in RunsOf(s) : phase[r] # "none"}
                ELSE {{r \in RunsOf(s) : phase[r] # "none"}} :
       DeleteRuns(D)
  /\ UNCHANGED <<sched, worldVars, mode, recovered, taskVars, completion,
                 tickVars, acked>>

-----------------------------------------------------------------------------
(* fire() and executeFire().                                                *)

Inflight == {r \in Run : task[r] # "none"}
Saturated == Cardinality(Inflight) >= MaxDispatches

\* run-once (and runOnCreate): joins a fire of the same ID or starts one.
RunOnce(r) ==
  /\ mode = "up"
  /\ ~Automatic(r)
  /\ Exists(r[1]) /\ sched[r[1]].total < MaxTotal
  /\ \/ /\ task[r] \in Unprepared
        /\ waiting' = waiting \cup {r}
        /\ UNCHANGED <<task, acked>>
     \/ /\ task[r] \notin Unprepared \cup {"none"}
        /\ acked' = acked \cup {r}
        /\ UNCHANGED <<task, waiting>>
     \/ /\ task[r] = "none" /\ ~Saturated
        /\ task' = [task EXCEPT ![r] = "check"]
        /\ waiting' = waiting \cup {r}
        /\ UNCHANGED acked
  /\ UNCHANGED <<recordVars, worldVars, processVars, freshTask, completion,
                 tickVars, sent>>

\* The poll ends; its local data are of no further use.
TickReturns ==
  /\ tickPc' = "idle"
  /\ tickLeft' = {}
  /\ tickTime' = 0
  /\ tickList' = [s \in Schedules |-> NoSchedule]
  /\ freshTick' = {}
  /\ tickWait' = {}

\* prepared(): the promise `durable` is resolved.
Prepared(r) ==
  /\ acked' = IF r \in waiting THEN acked \cup {r} ELSE acked
  /\ waiting' = waiting \ {r}
  /\ tickWait' = tickWait \ {r}
  /\ UNCHANGED <<tickPc, tickTime, tickList, tickLeft>>

\* preparationFailed(): the poll goes on after a conflict only.
PreparationFailed(r, conflict) ==
  /\ waiting' = waiting \ {r}
  /\ IF r \in tickWait /\ ~conflict
       THEN TickReturns
       ELSE /\ tickWait' = tickWait \ {r}
            /\ UNCHANGED <<tickPc, tickTime, tickList, tickLeft, freshTick>>
  /\ UNCHANGED acked

Step(r, step) == task' = [task EXCEPT ![r] = step]

FireCheck(r) ==
  /\ task[r] = "check"
  /\ IF phase[r] # "none"
       THEN Step(r, "none") /\ Prepared(r)
       ELSE Step(r, "read") /\ UNCHANGED <<acked, waiting, tickPc, tickTime,
                                           tickList, tickLeft, tickWait>>
  /\ UNCHANGED <<recordVars, worldVars, processVars, freshTask, completion,
                 freshTick, sent>>

\* An automatic fire whose schedule moved on since the poll listed it.
Superseded(r) ==
  /\ Automatic(r)
  /\ sched[r[1]].status # "active" \/ sched[r[1]].next # r[2]

FireRead(r) ==
  /\ task[r] = "read"
  /\ LET c == sched[r[1]]
         refused == LimitReached(c, now) \/ SlotTaken(c)
         settled == Superseded(r) \/ r \in c.reserved
     IN \/ /\ ~Exists(r[1]) \/ (~settled /\ refused)
           /\ Step(r, "none")
           /\ PreparationFailed(r, FALSE)
           /\ UNCHANGED <<freshTask, started>>
        \/ /\ Exists(r[1]) /\ settled
           /\ Step(r, "none")
           /\ Prepared(r)
           /\ UNCHANGED <<freshTask, started, freshTick>>
        \/ /\ Exists(r[1]) /\ ~settled /\ ~refused
           /\ Step(r, "save")
           /\ freshTask' = freshTask \cup {r}
           /\ started' = [started EXCEPT ![r] = now]
           /\ UNCHANGED <<acked, waiting, tickVars>>
  /\ UNCHANGED <<sched, phase, worldVars, processVars, completion, sent>>

\* The schedule with the run reserved, counted and its next time set.
Reserved(c, r, t) ==
  LET done == c.maxRuns # NoLimit /\ c.total + 1 >= c.maxRuns
  IN [c EXCEPT !.reserved = @ \cup {r}, !.total = @ + 1,
               !.next = IF done THEN NoTime
                        ELSE IF c.status = "active" THEN t ELSE @,
               !.status = IF done THEN "completed" ELSE @]

\* Mutant of FireSave: a lost race counts as a reservation.
FireSaveSwallows(r) ==
  /\ task[r] = "save"
  /\ \/ /\ r \in freshTask
        /\ \E t \in nextScheduleTime(started[r]) :
             Put(r[1], Reserved(sched[r[1]], r, t))
        /\ Step(r, "create")
        /\ UNCHANGED <<waiting, tickPc, tickTime, tickList, tickLeft, tickWait,
                       acked>>
     \/ /\ r \notin freshTask
        /\ Step(r, "none")
        /\ Prepared(r)
        /\ UNCHANGED <<sched, freshTask, freshTick>>
  /\ UNCHANGED <<phase, started, worldVars, processVars, completion, sent>>

\* The compare-and-swap that reserves the run and the concurrency slot.
FireSave(r) ==
  /\ task[r] = "save"
  /\ \/ /\ r \in freshTask
        /\ \E t \in nextScheduleTime(started[r]) :
             Put(r[1], Reserved(sched[r[1]], r, t))
        /\ Step(r, "create")
        /\ UNCHANGED <<waiting, tickPc, tickTime, tickList, tickLeft, tickWait,
                       acked>>
     \/ /\ r \notin freshTask
        /\ Step(r, "none")
        /\ PreparationFailed(r, TRUE)
        /\ UNCHANGED <<sched, freshTask>>
  /\ UNCHANGED <<phase, started, worldVars, processVars, completion, sent>>

\* The intent: a run record.  Its acknowledgement may be lost.
FireCreate(r) ==
  /\ task[r] = "create"
  /\ phase[r] = "none"
  /\ phase' = [phase EXCEPT ![r] = "dispatching"]
  /\ \/ Step(r, "dispatch") /\ Prepared(r) /\ UNCHANGED freshTick
     \/ "api" \in Faults /\ Step(r, "none") /\ PreparationFailed(r, FALSE)
  /\ UNCHANGED <<sched, started, worldVars, processVars, freshTask, completion,
                 sent>>

\* A store call fails before it takes effect; release() also gives up after
\* four conflicts.
TaskFails(r) ==
  /\ "api" \in Faults
  /\ task[r] \in Unprepared \cup {"release", "prune"}
  /\ Step(r, "none")
  /\ freshTask' = freshTask \ {r}
  /\ IF task[r] \in Unprepared THEN PreparationFailed(r, FALSE)
                               ELSE UNCHANGED <<waiting, tickVars, acked>>
  /\ UNCHANGED <<recordVars, worldVars, processVars, completion, sent>>

\* options.dispatch(): the backend may or may not start an agent.
FireDispatch(r) ==
  /\ task[r] = "dispatch"
  /\ Step(r, "await")
  /\ sent' = [sent EXCEPT ![r] = IF @ = 2 THEN 2 ELSE @ + 1]
  /\ \E a \in {"none", "live"} : agent' = [agent EXCEPT ![r] = a]
  /\ UNCHANGED <<recordVars, now, processVars, freshTask, waiting, completion,
                 tickVars, acked>>

\* Mutant of FireOutcome: an unclear dispatch counts as rejected.
FireOutcomeRejected(r, p, step) ==
  \/ agent[r] # "none" /\ p = "running" /\ step = "prune"
  \/ p = "finished" /\ step = "release"

\* What the record says after the dispatch, and where the task goes on: an
\* acknowledged agent, a rejection before acceptance, an unclear outcome, or a
\* record that could not be written.
FireOutcome(r, p, step) ==
  \/ agent[r] # "none" /\ p = "running" /\ step = "prune"
  \/ agent[r] = "none" /\ p = "finished" /\ step = "release"
  \/ {"unknown", "api"} \cap Faults # {} /\ p = "unknown" /\ step = "prune"
  \/ /\ "api" \in Faults /\ step = "none"
     /\ p \in {"dispatching", IF agent[r] = "none" THEN "finished" ELSE "running"}

FireSettles(r) ==
  /\ task[r] = "await"
  /\ \E p \in Phases, step \in TaskSteps :
       /\ FireOutcome(r, p, step)
       /\ phase' = [phase EXCEPT ![r] = p]
       /\ Step(r, step)
  /\ UNCHANGED <<sched, started, worldVars, processVars, freshTask, waiting,
                 completion, tickVars, historyVars>>

FireRelease(r) ==
  /\ task[r] = "release"
  /\ \/ Release(r) /\ Step(r, "prune")
     \/ ~Exists(r[1]) /\ Step(r, "none") /\ Keep
  /\ UNCHANGED <<phase, started, worldVars, processVars, waiting, completion,
                 tickPc, tickTime, tickList, tickLeft, tickWait, historyVars>>

FirePrune(r) ==
  /\ task[r] = "prune"
  /\ Step(r, "none")
  /\ \E D \in Pruned(r[1]) : DeleteRuns(D)
  /\ UNCHANGED <<sched, worldVars, processVars, freshTask, waiting, completion,
                 tickVars, acked>>

-----------------------------------------------------------------------------
(* observe() and completeRun().                                             *)

CompletionStep(a, r, step) == completion' = [completion EXCEPT ![a][r] = step]

Observing == {r \in Run : completion["observer"][r] # "none"}

\* observeSchedule(): an outcome once the agent ended, and also when the
\* workspace is gone or its status says Failed.
Observe(r) ==
  /\ completion["observer"][r] = "observe"
  /\ \/ /\ agent[r] = "ended" \/ "gaveUp" \in Faults
        /\ CompletionStep("observer", r, "complete")
     \/ agent[r] = "live" /\ CompletionStep("observer", r, "none")
  /\ UNCHANGED <<recordVars, worldVars, processVars, taskVars, tickVars,
                 historyVars>>

\* An operator resolves an unknown run after inspecting the backend.
Resolve(r) ==
  /\ "operator" \in Faults
  /\ mode = "up"
  /\ phase[r] = "unknown"
  /\ agent[r] # "live"
  /\ completion["operator"][r] = "none"
  /\ CompletionStep("operator", r, "complete")
  /\ UNCHANGED <<recordVars, worldVars, processVars, taskVars, tickVars,
                 historyVars>>

\* completeRun(): the run is finished before its slot is released.
Complete(a, r) ==
  /\ completion[a][r] = "complete"
  /\ phase' = IF phase[r] = "none" THEN phase
                                   ELSE [phase EXCEPT ![r] = "finished"]
  /\ CompletionStep(a, r, IF phase[r] = "none" THEN "none" ELSE "release")
  /\ UNCHANGED <<sched, started, worldVars, processVars, taskVars, tickVars,
                 historyVars>>

CompleteRelease(a, r) ==
  /\ completion[a][r] = "release"
  /\ \/ Release(r) /\ CompletionStep(a, r, "prune")
     \/ ~Exists(r[1]) /\ CompletionStep(a, r, "none") /\ Keep
  /\ UNCHANGED <<phase, started, worldVars, processVars, task, waiting, tickPc,
                 tickTime, tickList, tickLeft, tickWait, historyVars>>

CompletePrune(a, r) ==
  /\ completion[a][r] = "prune"
  /\ CompletionStep(a, r, "none")
  /\ \E D \in Pruned(r[1]) : DeleteRuns(D)
  /\ UNCHANGED <<sched, worldVars, processVars, taskVars, tickVars, acked>>

CompletionFails(a, r) ==
  /\ "api" \in Faults
  /\ completion[a][r] # "none"
  /\ CompletionStep(a, r, "none")
  /\ UNCHANGED <<recordVars, worldVars, processVars, taskVars, tickVars,
                 historyVars>>

-----------------------------------------------------------------------------
(* tick(): observe what runs, then walk a list of the schedules.            *)

ObservationRoom == MaxObservations - Cardinality(Observing)

TickBegin ==
  /\ mode = "up"
  /\ tickPc = "idle"
  /\ tickPc' = "list"
  /\ tickTime' = now
  /\ LET idle == {r \in Run : phase[r] = "running" /\ r \notin Observing}
     IN \E O \in SUBSET idle :
          /\ Cardinality(O) <= ObservationRoom
          /\ Cardinality(O) = ObservationRoom \/ O = idle
          /\ completion' = [completion EXCEPT !["observer"] =
               [r \in Run |-> IF r \in O THEN "observe" ELSE @[r]]]
  /\ UNCHANGED <<recordVars, worldVars, processVars, taskVars, tickList,
                 tickLeft, tickWait, freshTick, historyVars>>

TickLists ==
  /\ tickPc = "list"
  /\ tickPc' = "walk"
  /\ tickList' = sched
  /\ tickLeft' = {s \in Schedules : Exists(s)}
  /\ freshTick' = tickLeft'
  /\ UNCHANGED <<recordVars, worldVars, processVars, taskVars, completion,
                 tickTime, tickWait, historyVars>>

\* The poll leaves s behind, after a write that a conflict turns into nothing.
TickPasses(s) ==
  /\ tickLeft' = tickLeft \ {s}
  /\ tickList' = [tickList EXCEPT ![s] = NoSchedule]
  /\ UNCHANGED <<phase, started, worldVars, processVars, task, waiting,
                 completion, tickPc, tickTime, tickWait, historyVars>>

Due(c) == c.status = "active" /\ c.next # NoTime /\ c.next <= tickTime

\* Mutant of Skipped: an outstanding run of a Forbid schedule is overlooked.
SkippedLate(c) == tickTime - c.next > Grace \/ Saturated

\* Occurrences that are late, blocked or beyond capacity are not made up for.
Skipped(c) == tickTime - c.next > Grace \/ SlotTaken(c) \/ Saturated

TickWalk(s) ==
  /\ tickPc = "walk" /\ tickWait = {} /\ mode = "up"
  /\ s \in tickLeft
  /\ LET c == tickList[s] IN
     \/ ~Due(c) /\ TickPasses(s) /\ Keep
     \/ /\ Due(c) /\ (LimitReached(c, tickTime) \/ Skipped(c))
        /\ TickPasses(s)
        /\ IF s \in freshTick
             THEN \E t \in nextScheduleTime(tickTime) :
                    Put(s, IF LimitReached(c, tickTime)
                             THEN [c EXCEPT !.status = "completed", !.next = NoTime]
                             ELSE [c EXCEPT !.next = t])
             ELSE Keep
     \/ /\ Due(c) /\ ~LimitReached(c, tickTime) /\ ~Skipped(c)
        /\ tickWait' = {<<s, c.next>>}
        /\ Step(<<s, c.next>>, "check")
        /\ tickLeft' = tickLeft \ {s}
        /\ tickList' = [tickList EXCEPT ![s] = NoSchedule]
        /\ UNCHANGED <<recordVars, worldVars, processVars, freshTask, waiting,
                       completion, tickPc, tickTime, freshTick, historyVars>>

\* The walk is over, shutdown has begun, or a store call failed.
TickEnd ==
  /\ tickWait = {}
  /\ \/ tickPc = "walk" /\ (tickLeft = {} \/ mode = "stopping")
     \/ tickPc \in {"list", "walk"} /\ "api" \in Faults
  /\ TickReturns
  /\ UNCHANGED <<recordVars, worldVars, processVars, taskVars, completion,
                 historyVars>>

-----------------------------------------------------------------------------
(* Shutdown, replacement of the process, and recover().                     *)

Close ==
  /\ "close" \in Faults
  /\ mode = "up"
  /\ mode' = "stopping"
  /\ UNCHANGED <<recordVars, worldVars, recovered, purging, taskVars,
                 completion, tickVars, historyVars>>

\* The process ends, drained or not; only the records remain.
Crash ==
  /\ "crash" \in Faults \/ mode = "stopping"
  /\ mode # "down"
  /\ mode' = "down"
  /\ recovered' = {} /\ purging' = {}
  /\ task' = [r \in Run |-> "none"]
  /\ freshTask' = {} /\ waiting' = {}
  /\ completion' = [a \in Actors |-> [r \in Run |-> "none"]]
  /\ TickReturns
  /\ UNCHANGED <<recordVars, worldVars, historyVars>>

\* A reservation without a record, or with an intent whose dispatch was cut off.
Interrupted(r) ==
  r \in sched[r[1]].reserved /\ phase[r] \in {"none", "dispatching"}

\* Mutant of RecoverRun: what was interrupted is dropped, to be fired again.
RecoverRunForgets(r) ==
  /\ mode = "down"
  /\ r[1] \notin recovered
  /\ Interrupted(r)
  /\ phase' = [phase EXCEPT ![r] = "none"]
  /\ Put(r[1], [sched[r[1]] EXCEPT !.reserved = @ \ {r}])
  /\ UNCHANGED <<started, worldVars, processVars, task, waiting, completion,
                 tickPc, tickTime, tickList, tickLeft, tickWait, historyVars>>

RecoverRun(r) ==
  /\ mode = "down"
  /\ r[1] \notin recovered
  /\ Interrupted(r)
  /\ phase' = [phase EXCEPT ![r] = "unknown"]
  /\ UNCHANGED <<sched, started, worldVars, processVars, taskVars, completion,
                 tickVars, historyVars>>

\* Mutant of StillReserved: finished runs keep their slots.
StillReservedAll(c) == c.reserved

StillReserved(c) == {r \in c.reserved : phase[r] # "finished"}

RecoverSchedule(s) ==
  /\ mode = "down"
  /\ s \notin recovered /\ Exists(s)
  /\ \A r \in RunsOf(s) : ~Interrupted(r)
  /\ LET c == sched[s]
         stale == c.status = "active" /\ c.next # NoTime /\ c.next < now
     IN \E t \in IF stale THEN nextScheduleTime(now) ELSE {c.next} :
          Put(s, [c EXCEPT !.next = t, !.reserved = StillReserved(c)])
  /\ recovered' = recovered \cup {s}
  /\ UNCHANGED <<phase, started, worldVars, mode, purging, task, waiting,
                 completion, tickPc, tickTime, tickList, tickLeft, tickWait,
                 historyVars>>

Start ==
  /\ mode = "down"
  /\ {s \in Schedules : Exists(s)} \subseteq recovered
  /\ mode' = "up"
  /\ UNCHANGED <<recordVars, worldVars, recovered, purging, taskVars,
                 completion, tickVars, historyVars>>

-----------------------------------------------------------------------------
(* The cluster and the clock.                                               *)

AgentEnds(r) ==
  /\ agent[r] = "live"
  /\ agent' = [agent EXCEPT ![r] = "ended"]
  /\ UNCHANGED <<recordVars, now, processVars, taskVars, completion, tickVars,
                 historyVars>>

Advance ==
  /\ now < MaxTime
  /\ now' = now + 1
  /\ UNCHANGED <<recordVars, agent, processVars, taskVars, completion,
                 tickVars, historyVars>>

-----------------------------------------------------------------------------
Request(s) ==
  \/ Create(s) \/ Pause(s) \/ Resume(s) \/ Update(s) \/ setConcurrency(s)
  \/ Delete(s)

TaskNext(r) ==
  \/ FireCheck(r) \/ FireRead(r) \/ FireSave(r) \/ FireCreate(r)
  \/ FireDispatch(r) \/ FireSettles(r) \/ FireRelease(r) \/ FirePrune(r)

CompletionNext(a, r) ==
  Complete(a, r) \/ CompleteRelease(a, r) \/ CompletePrune(a, r)

TickNext == TickBegin \/ TickLists \/ (\E s \in Schedules : TickWalk(s)) \/ TickEnd

Next ==
  \/ \E s \in Schedules : Request(s) \/ DeleteHistory(s) \/ RecoverSchedule(s)
  \/ \E r \in Run :
       \/ RunOnce(r) \/ TaskNext(r) \/ TaskFails(r)
       \/ Observe(r) \/ Resolve(r) \/ RecoverRun(r) \/ AgentEnds(r)
       \/ \E a \in Actors : CompletionNext(a, r) \/ CompletionFails(a, r)
  \/ TickNext \/ Close \/ Crash \/ Start \/ Advance

Spec == Init /\ [][Next]_vars

\* Promises are run by one event loop that starves none, the poll is called
\* every second, agents end, and a process that is down is started again.
Fairness ==
  /\ WF_vars(TickNext) /\ WF_vars(Start) /\ WF_vars(Advance)
  /\ \A s \in Schedules : WF_vars(RecoverSchedule(s))
  /\ \A r \in Run :
       /\ WF_vars(TaskNext(r)) /\ WF_vars(RecoverRun(r))
       /\ WF_vars(Observe(r)) /\ WF_vars(AgentEnds(r))
       /\ \A a \in Actors : WF_vars(CompletionNext(a, r))

FairSpec == Spec /\ Fairness

-----------------------------------------------------------------------------
\* Every variable has the shape the code gives it.
TypeOK ==
  /\ sched \in [Schedules -> ScheduleState]
  /\ phase \in [Run -> Phases]
  /\ started \in [Run -> Times]
  /\ agent \in [Run -> {"none", "live", "ended"}]
  /\ now \in 0..MaxTime
  /\ mode \in {"up", "stopping", "down"}
  /\ recovered \subseteq Schedules /\ purging \subseteq Schedules
  /\ task \in [Run -> TaskSteps]
  /\ freshTask \subseteq Run /\ waiting \subseteq Run
  /\ completion \in [Actors -> [Run -> CompletionSteps]]
  /\ tickPc \in {"idle", "list", "walk"}
  /\ tickTime \in Times
  /\ tickList \in [Schedules -> ScheduleState]
  /\ tickLeft \subseteq Schedules /\ freshTick \subseteq Schedules
  /\ tickWait \subseteq Run
  /\ sent \in [Run -> 0..2]
  /\ acked \subseteq Run

\* A run that may still have an agent holds a reservation of an existing
\* schedule, so neither a Forbid fire nor a deletion can overlook it.
OutstandingIsReserved ==
  \A r \in Run : phase[r] \in {"dispatching", "running", "unknown"} =>
    Exists(r[1]) /\ r \in sched[r[1]].reserved

\* dispatch() is called at most once for a run ID while its record is kept,
\* whatever is retried, polled again or restarted.
DispatchedOnce == \A r \in Run : sent[r] <= 1

\* "Forbid ... prevents a new fire while a previous run is running or has an
\* unknown dispatch outcome."
ForbidNeverOverlaps ==
  Policies = {"Forbid"} =>
    \A s \in Schedules : Cardinality({r \in RunsOf(s) : agent[r] = "live"}) <= 1

\* No reservation goes beyond the run limit in force when it is made, though
\* limit and count are read before other fires and edits are written.
RunLimitRespected ==
  [][\A s \in Schedules :
       sched'[s].total > sched[s].total =>
         sched[s].maxRuns = NoLimit \/ sched'[s].total <= sched[s].maxRuns]_vars

\* An automatic fire is reserved only for the occurrence the schedule is
\* waiting for at that moment, not for one that an edit or a pause withdrew.
OnlyTheDueOccurrenceFires ==
  [][\A r \in Run :
       (Automatic(r) /\ r \notin sched[r[1]].reserved
                     /\ r \in sched'[r[1]].reserved) =>
         sched[r[1]].status = "active" /\ sched[r[1]].next = r[2]]_vars

\* A run-once request is acknowledged only for a run that is reserved, recorded
\* or was dispatched: not for one whose reservation was refused or lost a race.
AcknowledgedIsDurable ==
  [][\A r \in acked' \ acked :
       r \in sched'[r[1]].reserved \/ phase'[r] # "none" \/ sent[r] > 0]_vars

\* A dispatch is settled: acknowledged, rejected, or unknown after a restart.
DispatchSettles ==
  \A r \in Run : phase[r] = "dispatching" ~> phase[r] # "dispatching"

\* "Completion releases the concurrency slot."
CompletionReleases ==
  \A r \in Run : phase[r] = "finished" ~> r \notin sched[r[1]].reserved

\* A run whose agent ended is observed and finished.
EndedRunsFinish ==
  \A r \in Run :
    (phase[r] = "running" /\ agent[r] = "ended") ~> phase[r] # "running"

\* A due occurrence is fired, skipped or withdrawn; it never blocks the poll.
DueIsHandled ==
  \A s \in Schedules, t \in 0..MaxTime :
    (sched[s].status = "active" /\ sched[s].next = t /\ t <= now)
      ~> ~(sched[s].status = "active" /\ sched[s].next = t)

\* Only the due occurrence is reserved, within the run limit, and a run-once
\* request is acknowledged for a run that is durable; what is stored and under
\* way keeps its shape.
ReservationsHonoured ==
  []TypeOK /\ OnlyTheDueOccurrenceFires /\ RunLimitRespected /\ AcknowledgedIsDurable

\* Dispatches are settled and finished runs give their slots back.
RunsSettle == DispatchSettles /\ CompletionReleases

\* Due occurrences are dealt with and ended runs are seen to have ended.
ServiceAdvances == DueIsHandled /\ EndedRunsFinish
=============================================================================
