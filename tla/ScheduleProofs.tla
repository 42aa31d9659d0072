---------------------------- MODULE ScheduleProofs ----------------------------
(***************************************************************************)
(* What the schedule service promises of its runs, proved for every number *)
(* of schedules and requests, every limit and every set of faults.         *)
(***************************************************************************)
EXTENDS ScheduleService, FiniteSetTheorems, TLAPS

Outstanding == {"dispatching", "running", "unknown"}

\* Where a run is: what its task and the completions of its outcome are about
\* to do fits its record, and whoever has yet to give the slot back holds it,
\* alone.
RunOK(r) ==
  /\ task[r] \in {"read", "save", "create"} => phase[r] = "none"
  /\ task[r] \in {"dispatch", "await"} => phase[r] = "dispatching"
  /\ task[r] = "release" => phase[r] \in {"finished", "none"}
  /\ completion["observer"][r] \in {"observe", "complete"} => phase[r] = "running"
  /\ completion["operator"][r] = "complete" => phase[r] = "unknown"
  /\ \A a \in Actors : completion[a][r] = "release" =>
       /\ phase[r] \in {"finished", "none"} /\ task[r] \notin {"create", "release"}
       /\ \A b \in Actors \ {a} : completion[b][r] # "release"
  /\ \/ phase[r] \in Outstanding \/ task[r] \in {"create", "release"}
     \/ \E a \in Actors : completion[a][r] = "release"
     => r \in sched[r[1]].reserved
  /\ sent[r] <= 1
  /\ phase[r] = "none" \/ task[r] = "dispatch" => sent[r] = 0

\* A copy of a schedule that may still be written back is what is stored, so
\* that what was checked on it holds of the record.
SaveOK(r) ==
  r \in freshTask /\ task[r] = "save" =>
    /\ Exists(r[1]) /\ r \notin sched[r[1]].reserved /\ ~Superseded(r)
    /\ sched[r[1]].maxRuns = NoLimit \/ sched[r[1]].total < sched[r[1]].maxRuns
    /\ sched[r[1]].concurrency = "Forbid" => sched[r[1]].reserved = {}
TickCopiesAgree == \A s \in freshTick \cap tickLeft : tickList[s] = sched[s]

\* Only schedules that exist have reservations, and one that is purged never
\* exists again.
ScheduleOK(s) ==
  /\ sched[s].reserved # {} => Exists(s)
  /\ s \in purging => sched[s].status = "deleted"

\* Whoever waits for a run-once request has a task that answers it.
WaitOK(r) ==
  /\ r \in waiting => ~Automatic(r)
  /\ ~Automatic(r) /\ task[r] \in Unprepared => r \in waiting
  /\ ~Automatic(r) /\ task[r] \notin Unprepared \cup {"none"} => r \in acked

DownIsIdle ==
  mode = "down" =>
    /\ \A r \in Run : task[r] = "none" /\ \A a \in Actors : completion[a][r] = "none"
    /\ purging = {}

ClocksOK == started \in [Run -> 0 .. MaxTime] /\ tickTime \in 0 .. MaxTime

ScheduleIInv ==
  /\ TypeOK /\ ClocksOK /\ DownIsIdle /\ TickCopiesAgree
  /\ \A r \in Run : RunOK(r) /\ SaveOK(r) /\ WaitOK(r)
  /\ \A s \in Schedules : ScheduleOK(s)

\* With the Forbid policy alone, and an observer that reports no end before it
\* came, a live agent has an outstanding run, and no two share a schedule.
LiveOK(r) ==
  /\ agent[r] = "live" => phase[r] \in Outstanding
  /\ \A a \in Actors : completion[a][r] = "complete" => agent[r] # "live"
SlotOK(s) ==
  /\ sched[s].concurrency = "Forbid"
  /\ \A p, q \in sched[s].reserved : p = q

ForbidIInv ==
  ScheduleIInv /\ (\A r \in Run : LiveOK(r)) /\ (\A s \in Schedules : SlotOK(s))
-----------------------------------------------------------------------------
(* Lemmas on the parts: what a step has to leave alone to keep each of them. *)

LEMMA RunParts ==
  /\ \A r \in Run : r[1] \in Schedules /\ r[2] \in Times \cup Requests /\ r \in RunsOf(r[1])
  /\ \A s \in Schedules, t \in Times :
       <<s, t>> \in Run /\ <<s, t>>[1] = s /\ <<s, t>>[2] = t /\ Automatic(<<s, t>>)
  /\ \A s : RunsOf(s) \subseteq Run /\ \A r \in RunsOf(s) : r[1] = s
  BY DEF Run, RunsOf, Automatic

LEMMA ScheduleInitial == Init => ScheduleIInv
  <1> SUFFICES ASSUME Init PROVE ScheduleIInv
    OBVIOUS
  <1> USE SchedulesAssumption DEF Init
  <1>1. NoSchedule \in ScheduleState
    BY DEF NoSchedule, ScheduleState, Status
  <1>2. MaxTime \in Nat /\ Period \in Nat
    OBVIOUS
  <1>3. TypeOK
    BY <1>1, <1>2
    DEF TypeOK, Phases, Times, TaskSteps, CompletionSteps, Actors
  <1>4. ClocksOK /\ DownIsIdle /\ TickCopiesAgree
    BY <1>2 DEF ClocksOK, DownIsIdle, TickCopiesAgree
  <1>5. \A r \in Run : RunOK(r)
    BY DEF RunOK, Outstanding, Actors
  <1>6. \A r \in Run : SaveOK(r) /\ WaitOK(r)
    BY DEF SaveOK, WaitOK, Unprepared
  <1>7. \A s \in Schedules : ScheduleOK(s)
    BY DEF ScheduleOK, NoSchedule
  <1> QED
    BY <1>3, <1>4, <1>5, <1>6, <1>7 DEF ScheduleIInv

\* A run nothing happens to stays where it is; its slot is not taken away.
LEMMA RunKept ==
  ASSUME NEW r \in Run, RunOK(r),
         phase'[r] = phase[r], task'[r] = task[r], sent'[r] = sent[r],
         \A a \in Actors : completion'[a][r] = completion[a][r],
         r \in sched[r[1]].reserved => r \in sched'[r[1]].reserved
  PROVE  RunOK(r)'
  <1>1. "observer" \in Actors /\ "operator" \in Actors
    BY DEF Actors
  <1> QED
    BY <1>1 DEF RunOK

\* A copy with the current version: no step but a fire's reading makes one, and
\* every write of the schedule ends it.
LEMMA SavesKept ==
  ASSUME \A r \in Run : SaveOK(r), freshTask' \subseteq freshTask, freshTask \subseteq Run,
         \A r \in Run : task'[r] = "save" => task[r] = "save",
         \A r \in freshTask' : sched'[r[1]] = sched[r[1]]
  PROVE  \A r \in Run : SaveOK(r)'
  BY DEF SaveOK, Exists, Superseded

LEMMA CopiesKept ==
  ASSUME TickCopiesAgree, freshTick' \subseteq freshTick,
         \A s \in freshTick' : sched'[s] = sched[s],
         \A s \in freshTick' \cap tickLeft' : s \in tickLeft /\ tickList'[s] = tickList[s]
  PROVE  TickCopiesAgree'
  BY DEF TickCopiesAgree

LEMMA WaitKept ==
  ASSUME NEW r \in Run, WaitOK(r), task'[r] = task[r], r \in waiting' <=> r \in waiting,
         acked \subseteq acked'
  PROVE  WaitOK(r)'
  BY DEF WaitOK

LEMMA SchedulesKept ==
  ASSUME \A s \in Schedules : ScheduleOK(s), UNCHANGED sched, purging' \subseteq purging
  PROVE  \A s \in Schedules : ScheduleOK(s)'
  BY DEF ScheduleOK, Exists

\* A write of a schedule by compare-and-swap.
LEMMA PutStep ==
  ASSUME ScheduleIInv, NEW s \in Schedules, NEW c \in ScheduleState, Put(s, c),
         c.reserved # {} => c.status \notin {"none", "deleted"},
         s \in purging' => c.status = "deleted", purging' \subseteq purging \cup {s}
  PROVE  /\ sched' \in [Schedules -> ScheduleState]
         /\ sched'[s] = c /\ \A z \in Schedules \ {s} : sched'[z] = sched[z]
         /\ freshTask' \subseteq freshTask /\ freshTask' \subseteq Run
         /\ freshTick' \subseteq freshTick /\ freshTick' \subseteq Schedules
         /\ \A r \in freshTask' : sched'[r[1]] = sched[r[1]]
         /\ \A z \in freshTick' : sched'[z] = sched[z]
         /\ \A z \in Schedules : ScheduleOK(z)'
  <1>1. /\ sched \in [Schedules -> ScheduleState]
        /\ freshTask \subseteq Run /\ freshTick \subseteq Schedules
        /\ \A z \in Schedules : ScheduleOK(z)
    BY DEF ScheduleIInv, TypeOK
  <1>2. /\ sched' = [sched EXCEPT ![s] = c]
        /\ freshTask' = freshTask \ RunsOf(s) /\ freshTick' = freshTick \ {s}
    BY DEF Put
  <1>3. /\ sched' \in [Schedules -> ScheduleState]
        /\ sched'[s] = c /\ \A z \in Schedules \ {s} : sched'[z] = sched[z]
    BY <1>1, <1>2
  <1>4. \A r \in freshTask' : r \in Run /\ r[1] \in Schedules \ {s}
    BY <1>1, <1>2, RunParts DEF RunsOf
  <1>5. \A z \in Schedules : ScheduleOK(z)'
    BY <1>1, <1>3 DEF ScheduleOK, Exists
  <1> QED
    BY <1>1, <1>2, <1>3, <1>4, <1>5
-----------------------------------------------------------------------------
(* Requests of clients.                                                     *)

LEMMA ScheduleParts ==
  ASSUME ScheduleIInv
  PROVE  /\ TypeOK /\ ClocksOK /\ DownIsIdle /\ TickCopiesAgree
         /\ \A r \in Run : RunOK(r)
         /\ \A r \in Run : SaveOK(r)
         /\ \A r \in Run : WaitOK(r)
         /\ \A s \in Schedules : ScheduleOK(s)
  BY DEF ScheduleIInv

LEMMA EditStep ==
  ASSUME ScheduleIInv, NEW s \in Schedules, NEW c \in ScheduleState, Edit(s, c),
         c.status \notin {"none", "deleted"}, c.reserved = sched[s].reserved,
         sched[s].status # "deleted"
  PROVE  ScheduleIInv'
  <1>1. /\ mode = "up" /\ Put(s, c)
        /\ UNCHANGED <<phase, started, agent, now, mode, recovered, purging, task, waiting,
                       completion, tickPc, tickTime, tickList, tickLeft, tickWait, sent, acked>>
    BY DEF Edit, worldVars, processVars, historyVars
  <1>2. s \notin purging'
    BY <1>1, ScheduleParts DEF ScheduleOK
  <1>3. /\ sched' \in [Schedules -> ScheduleState]
        /\ sched'[s] = c /\ \A z \in Schedules \ {s} : sched'[z] = sched[z]
        /\ freshTask' \subseteq freshTask /\ freshTask' \subseteq Run
        /\ freshTick' \subseteq freshTick /\ freshTick' \subseteq Schedules
        /\ \A r \in freshTask' : sched'[r[1]] = sched[r[1]]
        /\ \A z \in freshTick' : sched'[z] = sched[z]
        /\ \A z \in Schedules : ScheduleOK(z)'
    BY <1>1, <1>2, PutStep
  <1>4. TypeOK' /\ ClocksOK'
    BY <1>1, <1>3, ScheduleParts DEF TypeOK, ClocksOK
  <1>5. DownIsIdle'
    BY <1>1 DEF DownIsIdle
  <1>6. TickCopiesAgree'
    BY <1>1, <1>3, ScheduleParts, CopiesKept
  <1>7. ASSUME NEW r \in Run PROVE RunOK(r)'
    <2>1. r[1] \in Schedules /\ sched'[r[1]].reserved = sched[r[1]].reserved
      BY <1>3, RunParts
    <2> QED
      BY <1>1, <2>1, RunKept, ScheduleParts
  <1>8. \A r \in Run : SaveOK(r)'
    BY <1>1, <1>3, ScheduleParts, SavesKept DEF TypeOK
  <1>9. \A r \in Run : WaitOK(r)'
    BY <1>1, ScheduleParts, WaitKept
  <1> QED
    BY <1>3, <1>4, <1>5, <1>6, <1>7, <1>8, <1>9 DEF ScheduleIInv

\* A next time is one of the times; the clock is within its bound.
LEMMA NextTimes ==
  ASSUME NEW t \in 0 .. MaxTime
  PROVE  nextScheduleTime(t) \subseteq Times /\ nextScheduleTime(t) \subseteq Nat
         /\ \A z \in nextScheduleTime(t) : z > t
  BY SchedulesAssumption DEF nextScheduleTime, Times

LEMMA RequestsKeep ==
  ASSUME ScheduleIInv, NEW s \in Schedules,
         Create(s) \/ Pause(s) \/ Resume(s) \/ Update(s) \/ setConcurrency(s)
  PROVE  ScheduleIInv'
  <1>1. sched[s] \in ScheduleState /\ now \in 0 .. MaxTime /\ ScheduleOK(s)
        /\ (sched[s].reserved # {} => Exists(s))
    BY ScheduleParts DEF TypeOK, ScheduleOK
  <1>2. CASE Create(s)
    <2>1. PICK t \in nextScheduleTime(now), m \in RunLimits, e \in Expirations, p \in Policies :
            Edit(s, [NoSchedule EXCEPT !.status = "active", !.next = t,
                       !.maxRuns = m, !.expires = e, !.concurrency = p])
      BY <1>2 DEF Create
    <2> DEFINE c == [NoSchedule EXCEPT !.status = "active", !.next = t,
                       !.maxRuns = m, !.expires = e, !.concurrency = p]
    <2>2. c \in ScheduleState /\ c.status = "active" /\ c.reserved = {}
      BY <1>1, NextTimes, SchedulesAssumption DEF NoSchedule, ScheduleState, Status
    <2>3. sched[s].status = "none" /\ sched[s].reserved = {}
      BY <1>1, <1>2 DEF Create, Exists
    <2>4. Edit(s, c)
      BY <2>1
    <2> HIDE DEF c
    <2> QED
      BY <2>2, <2>3, <2>4, EditStep
  <1>3. CASE Pause(s)
    <2> DEFINE c == [sched[s] EXCEPT !.status = "paused", !.next = NoTime]
    <2>1. c \in ScheduleState /\ c.status = "paused" /\ c.reserved = sched[s].reserved
      BY <1>1 DEF ScheduleState, Status
    <2>2. Edit(s, c) /\ sched[s].status # "deleted"
      BY <1>3 DEF Pause, Exists
    <2> HIDE DEF c
    <2> QED
      BY <2>1, <2>2, EditStep
  <1>4. CASE Resume(s)
    <2>1. PICK t \in nextScheduleTime(now) :
            Edit(s, [sched[s] EXCEPT !.status = "active", !.next = t])
      BY <1>4 DEF Resume
    <2> DEFINE c == [sched[s] EXCEPT !.status = "active", !.next = t]
    <2>2. c \in ScheduleState /\ c.status = "active" /\ c.reserved = sched[s].reserved
      BY <1>1, NextTimes DEF ScheduleState, Status
    <2>3. Edit(s, c) /\ sched[s].status # "deleted"
      BY <1>4, <2>1 DEF Resume, Exists
    <2> HIDE DEF c
    <2> QED
      BY <2>2, <2>3, EditStep
  <1>5. CASE Update(s)
    <2>1. PICK m \in RunLimits, e \in Expirations,
               t \in IF sched[s].status = "active"
                       THEN nextScheduleTime(now) \cup {sched[s].next}
                       ELSE {sched[s].next} :
            Edit(s, [sched[s] EXCEPT !.maxRuns = m, !.expires = e, !.next = t])
      BY <1>5 DEF Update
    <2> DEFINE c == [sched[s] EXCEPT !.maxRuns = m, !.expires = e, !.next = t]
    <2>2. t \in Times \cup {NoTime}
      BY <1>1, <2>1, NextTimes DEF ScheduleState
    <2>3. /\ c \in ScheduleState /\ c.status = sched[s].status
          /\ c.reserved = sched[s].reserved
      BY <1>1, <2>2, SchedulesAssumption DEF ScheduleState
    <2>4. Edit(s, c) /\ sched[s].status \notin {"none", "deleted"}
      BY <1>5, <2>1 DEF Update, Exists
    <2> HIDE DEF c
    <2> QED
      BY <2>3, <2>4, EditStep
  <1>6. CASE setConcurrency(s)
    <2>1. PICK p \in Policies : Edit(s, [sched[s] EXCEPT !.concurrency = p])
      BY <1>6 DEF setConcurrency
    <2> DEFINE c == [sched[s] EXCEPT !.concurrency = p]
    <2>2. /\ c \in ScheduleState /\ c.status = sched[s].status
          /\ c.reserved = sched[s].reserved
      BY <1>1, SchedulesAssumption DEF ScheduleState
    <2>3. Edit(s, c) /\ sched[s].status \notin {"none", "deleted"}
      BY <1>6, <2>1 DEF setConcurrency, Exists
    <2> HIDE DEF c
    <2> QED
      BY <2>2, <2>3, EditStep
  <1> QED
    BY <1>2, <1>3, <1>4, <1>5, <1>6

\* A deletion finds no reservation, so no run is outstanding or about to be.
LEMMA DeleteKeeps ==
  ASSUME ScheduleIInv, NEW s \in Schedules, Delete(s)
  PROVE  ScheduleIInv'
  <1> DEFINE c == [NoSchedule EXCEPT !.status = "deleted"]
  <1>1. /\ mode = "up" /\ Put(s, c) /\ purging' = purging \cup {s}
        /\ sched[s].reserved = {}
        /\ UNCHANGED <<phase, started, agent, now, mode, recovered, task, waiting,
                       completion, tickPc, tickTime, tickList, tickLeft, tickWait, sent, acked>>
    BY DEF Delete, worldVars, historyVars
  <1>2. c \in ScheduleState /\ c.status = "deleted" /\ c.reserved = {}
    BY DEF NoSchedule, ScheduleState, Status
  <1> HIDE DEF c
  <1>3. /\ sched' \in [Schedules -> ScheduleState]
        /\ sched'[s] = c /\ \A z \in Schedules \ {s} : sched'[z] = sched[z]
        /\ freshTask' \subseteq freshTask /\ freshTask' \subseteq Run
        /\ freshTick' \subseteq freshTick /\ freshTick' \subseteq Schedules
        /\ \A r \in freshTask' : sched'[r[1]] = sched[r[1]]
        /\ \A z \in freshTick' : sched'[z] = sched[z]
        /\ \A z \in Schedules : ScheduleOK(z)'
    BY <1>1, <1>2, PutStep
  <1>4. TypeOK' /\ ClocksOK'
    BY <1>1, <1>3, ScheduleParts DEF TypeOK, ClocksOK
  <1>5. DownIsIdle'
    BY <1>1 DEF DownIsIdle
  <1>6. TickCopiesAgree'
    BY <1>1, <1>3, ScheduleParts, CopiesKept
  <1>7. ASSUME NEW r \in Run PROVE RunOK(r)'
    <2>1. r[1] \in Schedules /\ r \in sched[r[1]].reserved => r \in sched'[r[1]].reserved
      BY <1>1, <1>3, RunParts
    <2> QED
      BY <1>1, <2>1, RunKept, RunParts, ScheduleParts
  <1>8. \A r \in Run : SaveOK(r)'
    BY <1>1, <1>3, ScheduleParts, SavesKept DEF TypeOK
  <1>9. \A r \in Run : WaitOK(r)'
    BY <1>1, ScheduleParts, WaitKept
  <1> QED
    BY <1>3, <1>4, <1>5, <1>6, <1>7, <1>8, <1>9 DEF ScheduleIInv
-----------------------------------------------------------------------------
(* Deletion of run records: only of finished runs, or of a deleted schedule. *)

LEMMA DeleteRunsStep ==
  ASSUME ScheduleIInv, NEW D \in SUBSET Run, DeleteRuns(D), UNCHANGED sched,
         \A r \in D : phase[r] = "finished" \/ r[1] \in purging,
         \A r \in Run : task'[r] \in {task[r], "none"},
         \A r \in Run : \A a \in Actors : completion'[a][r] \in {completion[a][r], "none"}
  PROVE  /\ phase' \in [Run -> Phases] /\ started' \in [Run -> Times]
         /\ sent' \in [Run -> 0 .. 2] /\ started' \in [Run -> 0 .. MaxTime]
         /\ \A r \in Run : RunOK(r)'
  <1>1. /\ phase \in [Run -> Phases] /\ started \in [Run -> Times] /\ sent \in [Run -> 0 .. 2]
        /\ started \in [Run -> 0 .. MaxTime]
    BY ScheduleParts DEF TypeOK, ClocksOK
  <1>2. /\ phase' = [r \in Run |-> IF r \in D THEN "none" ELSE phase[r]]
        /\ started' = [r \in Run |-> IF r \in D THEN 0 ELSE started[r]]
        /\ sent' = [r \in Run |-> IF r \in D THEN 0 ELSE sent[r]]
    BY DEF DeleteRuns
  <1>3. /\ phase' \in [Run -> Phases] /\ started' \in [Run -> Times]
        /\ sent' \in [Run -> 0 .. 2] /\ started' \in [Run -> 0 .. MaxTime]
    BY <1>1, <1>2, SchedulesAssumption DEF Phases, Times
  <1>4. "observer" \in Actors /\ "operator" \in Actors
    BY DEF Actors
  <1>5. ASSUME NEW r \in Run PROVE RunOK(r)'
    <2>1. RunOK(r) /\ r[1] \in Schedules /\ ScheduleOK(r[1])
      BY RunParts, ScheduleParts
    <2>2. CASE r \in D
      <3>1. phase'[r] = "none" /\ sent'[r] = 0
        BY <1>2, <2>2
      <3>2. phase[r] \notin {"dispatching", "running", "unknown"}
        BY <2>1, <2>2 DEF RunOK, ScheduleOK, Outstanding, Exists
      <3> QED
        BY <1>4, <2>1, <3>1, <3>2 DEF RunOK, Outstanding
    <2>3. CASE r \notin D
      <3>1. phase'[r] = phase[r] /\ sent'[r] = sent[r]
        BY <1>2, <2>3
      <3> QED
        BY <1>4, <2>1, <3>1 DEF RunOK, Outstanding
    <2> QED
      BY <2>2, <2>3
  <1> QED
    BY <1>3, <1>5

\* prune() deletes finished runs only.
LEMMA PrunedFinished ==
  ASSUME NEW s, NEW D \in Pruned(s)
  PROVE  D \in SUBSET Run /\ \A r \in D : phase[r] = "finished"
  BY DEF Pruned, Finished, RunsOf

LEMMA DeleteHistoryKeeps ==
  ASSUME ScheduleIInv, NEW s \in Schedules, DeleteHistory(s)
  PROVE  ScheduleIInv'
  <1>1. /\ s \in purging /\ purging' = purging \ {s}
        /\ UNCHANGED <<sched, agent, now, mode, recovered, task, freshTask, waiting, completion,
                       tickPc, tickTime, tickList, tickLeft, tickWait, freshTick, acked>>
    BY DEF DeleteHistory, worldVars, taskVars, tickVars
  <1>2. PICK D \in SUBSET {r \in RunsOf(s) : phase[r] # "none"} : DeleteRuns(D)
    BY DEF DeleteHistory
  <1>3. D \in SUBSET Run /\ \A r \in D : r[1] \in purging
    BY <1>1, <1>2, RunParts
  <1>4. /\ phase' \in [Run -> Phases] /\ started' \in [Run -> Times]
        /\ sent' \in [Run -> 0 .. 2] /\ started' \in [Run -> 0 .. MaxTime]
        /\ \A r \in Run : RunOK(r)'
    BY <1>1, <1>2, <1>3, DeleteRunsStep
  <1>5. TypeOK' /\ ClocksOK'
    BY <1>1, <1>4, ScheduleParts DEF TypeOK, ClocksOK
  <1>6. DownIsIdle'
    BY <1>1, ScheduleParts DEF DownIsIdle
  <1>7. TickCopiesAgree'
    BY <1>1, ScheduleParts, CopiesKept
  <1>8. \A r \in Run : SaveOK(r)'
    BY <1>1, ScheduleParts, SavesKept DEF TypeOK
  <1>9. \A r \in Run : WaitOK(r)'
    BY <1>1, ScheduleParts, WaitKept
  <1>10. \A z \in Schedules : ScheduleOK(z)'
    BY <1>1, ScheduleParts, SchedulesKept
  <1> QED
    BY <1>4, <1>5, <1>6, <1>7, <1>8, <1>9, <1>10 DEF ScheduleIInv
-----------------------------------------------------------------------------
(* Fires.                                                                   *)

\* What a step of the task of r leaves alone, as far as the task goes.
LEMMA StepIs ==
  ASSUME ScheduleIInv, NEW r \in Run, NEW step \in TaskSteps, Step(r, step)
  PROVE  /\ task' \in [Run -> TaskSteps] /\ task'[r] = step
         /\ \A q \in Run \ {r} : task'[q] = task[q]
  BY ScheduleParts DEF TypeOK, Step

\* The promise of a fire is settled, one way or the other: who waits for it is
\* told, and the poll goes on or ends.
Told(r) ==
  /\ waiting' = waiting \ {r}
  /\ acked \subseteq acked' /\ acked' \subseteq acked \cup {r}
  /\ tickPc' \in {"idle", "list", "walk"} /\ tickTime' \in 0 .. MaxTime
  /\ tickList' \in [Schedules -> ScheduleState]
  /\ tickLeft' \subseteq Schedules /\ tickWait' \subseteq Run
  /\ freshTick' = {} \/ (tickLeft' = tickLeft /\ tickList' = tickList)

LEMMA PreparedTells ==
  ASSUME ScheduleIInv, NEW r \in Run, Prepared(r)
  PROVE  Told(r) /\ (r \in waiting => r \in acked')
  BY ScheduleParts DEF TypeOK, ClocksOK, Prepared, Told

LEMMA FailedTells ==
  ASSUME ScheduleIInv, NEW r \in Run, NEW conflict \in BOOLEAN, PreparationFailed(r, conflict)
  PROVE  Told(r) /\ UNCHANGED acked /\ freshTick' \subseteq freshTick
  <1>1. NoSchedule \in ScheduleState /\ 0 \in 0 .. MaxTime
    BY SchedulesAssumption DEF NoSchedule, ScheduleState, Status
  <1>2. /\ tickPc \in {"idle", "list", "walk"} /\ tickTime \in 0 .. MaxTime
        /\ tickList \in [Schedules -> ScheduleState]
        /\ tickLeft \subseteq Schedules /\ tickWait \subseteq Run
    BY ScheduleParts DEF TypeOK, ClocksOK
  <1>3. waiting' = waiting \ {r} /\ UNCHANGED acked
    BY DEF PreparationFailed
  <1>4. CASE TickReturns
    <2>1. /\ tickPc' = "idle" /\ tickLeft' = {} /\ tickTime' = 0 /\ tickWait' = {}
          /\ tickList' = [s \in Schedules |-> NoSchedule] /\ freshTick' = {}
      BY <1>4 DEF TickReturns
    <2>2. tickList' \in [Schedules -> ScheduleState]
      BY <1>1, <2>1
    <2>3. /\ tickPc' \in {"idle", "list", "walk"} /\ tickTime' \in 0 .. MaxTime
          /\ tickLeft' \subseteq Schedules /\ tickWait' \subseteq Run
          /\ freshTick' = {} /\ freshTick' \subseteq freshTick
      BY <1>1, <2>1
    <2>4. acked \subseteq acked' /\ acked' \subseteq acked \cup {r}
      BY <1>3
    <2>5. Told(r)
      BY <1>3, <2>2, <2>3, <2>4 DEF Told
    <2> QED
      BY <1>3, <2>3, <2>5
  <1>5. CASE tickWait' = tickWait \ {r} /\ UNCHANGED <<tickPc, tickTime, tickList, tickLeft, freshTick>>
    BY <1>2, <1>3, <1>5 DEF Told
  <1> QED
    BY <1>4, <1>5 DEF PreparationFailed

\* A fire that goes on is still waited for, one that goes on prepared is
\* acknowledged.
LEMMA FireWaits ==
  ASSUME ScheduleIInv, NEW r \in Run, NEW step \in TaskSteps, Step(r, step),
         Told(r) \/ UNCHANGED <<waiting, acked>>,
         ~Automatic(r) /\ step \in Unprepared => r \in waiting',
         ~Automatic(r) /\ step \notin Unprepared \cup {"none"} => r \in acked'
  PROVE  \A q \in Run : WaitOK(q)'
  <1>1. task'[r] = step /\ \A q \in Run \ {r} : task'[q] = task[q]
    BY StepIs
  <1>2. \A q \in Run \ {r} : q \in waiting' <=> q \in waiting
    BY DEF Told
  <1>3. acked \subseteq acked' /\ (r \in waiting' => r \in waiting)
    BY DEF Told
  <1>4. ASSUME NEW q \in Run \ {r} PROVE WaitOK(q)'
    BY <1>1, <1>2, <1>3, ScheduleParts, WaitKept
  <1>5. WaitOK(r)'
    BY <1>1, <1>3, ScheduleParts DEF WaitOK
  <1> QED
    BY <1>4, <1>5

\* The copies of the poll after a fire that wrote nothing.
LEMMA FireCopies ==
  ASSUME ScheduleIInv, NEW r, Told(r) \/ UNCHANGED <<tickList, tickLeft>>,
         freshTick' \subseteq freshTick, \A s \in freshTick' : sched'[s] = sched[s]
  PROVE  TickCopiesAgree'
  BY ScheduleParts DEF Told, TickCopiesAgree

\* The types of what a fire's settlement touches.
LEMMA FireTypes ==
  ASSUME ScheduleIInv, NEW r \in Run,
         Told(r) \/ UNCHANGED <<waiting, acked, tickPc, tickTime, tickList, tickLeft, tickWait>>
  PROVE  /\ waiting' \subseteq Run /\ acked' \subseteq Run
         /\ tickPc' \in {"idle", "list", "walk"} /\ tickTime' \in 0 .. MaxTime
         /\ tickTime' \in Times
         /\ tickList' \in [Schedules -> ScheduleState]
         /\ tickLeft' \subseteq Schedules /\ tickWait' \subseteq Run
  BY SchedulesAssumption, ScheduleParts DEF TypeOK, ClocksOK, Told, Times

LEMMA FireCheckKeeps ==
  ASSUME ScheduleIInv, NEW r \in Run, FireCheck(r)
  PROVE  ScheduleIInv'
  <1>1. /\ task[r] = "check"
        /\ UNCHANGED <<sched, phase, started, agent, now, mode, recovered, purging, freshTask,
                       completion, freshTick, sent>>
    BY DEF FireCheck, recordVars, worldVars, processVars
  <1>2. PICK step \in {"none", "read"} :
          /\ Step(r, step) /\ (step = "read" => phase[r] = "none")
          /\ \/ step = "none" /\ Prepared(r)
             \/ step = "read" /\ UNCHANGED <<acked, waiting, tickPc, tickTime, tickList,
                                             tickLeft, tickWait>>
    BY DEF FireCheck
  <1>3. step \in TaskSteps
    BY DEF TaskSteps, Unprepared
  <1>4. Told(r) \/ UNCHANGED <<waiting, acked, tickPc, tickTime, tickList, tickLeft, tickWait>>
    BY <1>2, PreparedTells
  <1>5. /\ task' \in [Run -> TaskSteps] /\ task'[r] = step
        /\ \A q \in Run \ {r} : task'[q] = task[q]
    BY <1>2, <1>3, StepIs
  <1>6. TypeOK' /\ ClocksOK'
    BY <1>1, <1>4, <1>5, FireTypes, ScheduleParts DEF TypeOK, ClocksOK
  <1>7. DownIsIdle'
    BY <1>1, ScheduleParts DEF DownIsIdle
  <1>8. TickCopiesAgree'
    BY <1>1, <1>4, FireCopies
  <1>9. ASSUME NEW q \in Run \ {r} PROVE RunOK(q)'
    BY <1>1, <1>5, RunKept, ScheduleParts
  <1>10. RunOK(r)'
    BY <1>1, <1>2, <1>5, ScheduleParts DEF RunOK
  <1>11. \A q \in Run : SaveOK(q)'
    BY <1>1, <1>5, ScheduleParts, SavesKept DEF TypeOK
  <1>12. \A q \in Run : WaitOK(q)'
    <2>1. ~Automatic(r) => r \in waiting
      BY <1>1, ScheduleParts DEF WaitOK, Unprepared
    <2>2. step \in Unprepared \cup {"none"} /\ (step \in Unprepared => waiting' = waiting)
      BY <1>2 DEF Unprepared
    <2>3. Told(r) \/ UNCHANGED <<waiting, acked>>
      BY <1>4
    <2> QED
      BY <1>2, <1>3, <2>1, <2>2, <2>3, FireWaits
  <1>13. \A s \in Schedules : ScheduleOK(s)'
    BY <1>1, ScheduleParts, SchedulesKept
  <1> QED
    BY <1>6, <1>7, <1>8, <1>9, <1>10, <1>11, <1>12, <1>13 DEF ScheduleIInv

\* What a fire checks on the copy it reads is what the write relies on.
LEMMA FireReadKeeps ==
  ASSUME ScheduleIInv, NEW r \in Run, FireRead(r)
  PROVE  ScheduleIInv'
  <1>1. /\ task[r] = "read" /\ phase[r] = "none"
        /\ UNCHANGED <<sched, phase, agent, now, mode, recovered, purging, completion, sent>>
    BY ScheduleParts DEF FireRead, worldVars, processVars, RunOK
  <1>2. CASE /\ Step(r, "none") /\ UNCHANGED <<freshTask, started>>
             /\ Told(r) /\ freshTick' \subseteq freshTick
    <2>1. "none" \in TaskSteps /\ "none" \notin Unprepared
      BY DEF TaskSteps, Unprepared
    <2>2. /\ task' \in [Run -> TaskSteps] /\ task'[r] = "none"
          /\ \A q \in Run \ {r} : task'[q] = task[q]
      BY <1>2, <2>1, StepIs
    <2>3. TypeOK' /\ ClocksOK'
      BY <1>1, <1>2, <2>2, FireTypes, ScheduleParts DEF TypeOK, ClocksOK
    <2>4. DownIsIdle'
      BY <1>1, ScheduleParts DEF DownIsIdle
    <2>5. TickCopiesAgree'
      BY <1>1, <1>2, FireCopies
    <2>6. ASSUME NEW q \in Run \ {r} PROVE RunOK(q)'
      BY <1>1, <2>2, RunKept, ScheduleParts
    <2>7. RunOK(r)'
      BY <1>1, <2>2, ScheduleParts DEF RunOK, Outstanding
    <2>8. \A q \in Run : SaveOK(q)'
      BY <1>1, <1>2, <2>2, ScheduleParts, SavesKept DEF TypeOK
    <2>9. \A q \in Run : WaitOK(q)'
      BY <1>2, <2>1, FireWaits
    <2>10. \A s \in Schedules : ScheduleOK(s)'
      BY <1>1, ScheduleParts, SchedulesKept
    <2> QED
      BY <2>3, <2>4, <2>5, <2>6, <2>7, <2>8, <2>9, <2>10 DEF ScheduleIInv
  <1>3. CASE /\ Exists(r[1]) /\ ~Superseded(r) /\ r \notin sched[r[1]].reserved
             /\ ~LimitReached(sched[r[1]], now) /\ ~SlotTaken(sched[r[1]])
             /\ Step(r, "save") /\ freshTask' = freshTask \cup {r}
             /\ started' = [started EXCEPT ![r] = now]
             /\ UNCHANGED <<acked, waiting, tickVars>>
    <2>1. "save" \in TaskSteps /\ "save" \in Unprepared
      BY DEF TaskSteps, Unprepared
    <2>2. /\ task' \in [Run -> TaskSteps] /\ task'[r] = "save"
          /\ \A q \in Run \ {r} : task'[q] = task[q]
      BY <1>3, <2>1, StepIs
    <2>3. UNCHANGED <<tickPc, tickTime, tickList, tickLeft, tickWait, freshTick>>
      BY <1>3 DEF tickVars
    <2>4. /\ started' \in [Run -> 0 .. MaxTime] /\ started' \in [Run -> Times]
          /\ freshTask' \subseteq Run
      BY <1>3, SchedulesAssumption, ScheduleParts DEF TypeOK, ClocksOK, Times
    <2>5. TypeOK' /\ ClocksOK'
      BY <1>1, <1>3, <2>2, <2>3, <2>4, ScheduleParts DEF TypeOK, ClocksOK
    <2>6. DownIsIdle'
      BY <1>1, ScheduleParts DEF DownIsIdle
    <2>7. TickCopiesAgree'
      BY <1>1, <2>3, ScheduleParts DEF TickCopiesAgree
    <2>8. ASSUME NEW q \in Run \ {r} PROVE RunOK(q)'
      BY <1>1, <2>2, RunKept, ScheduleParts
    <2>9. RunOK(r)'
      BY <1>1, <2>2, ScheduleParts DEF RunOK, Outstanding
    <2>10. ASSUME NEW q \in Run \ {r} PROVE SaveOK(q)'
      BY <1>1, <1>3, <2>2, ScheduleParts DEF SaveOK, Exists, Superseded
    <2>11. SaveOK(r)'
      <3>1. r[1] \in Schedules /\ sched[r[1]] \in ScheduleState
        BY RunParts, ScheduleParts DEF TypeOK
      <3>2. /\ sched[r[1]].maxRuns = NoLimit \/ sched[r[1]].total < sched[r[1]].maxRuns
            /\ sched[r[1]].concurrency = "Forbid" => sched[r[1]].reserved = {}
        BY <1>3, <3>1 DEF LimitReached, SlotTaken, ScheduleState
      <3> QED
        BY <1>1, <1>3, <3>2 DEF SaveOK, Exists, Superseded
    <2>12. \A q \in Run : WaitOK(q)'
      <3>1. ~Automatic(r) => r \in waiting
        BY <1>1, ScheduleParts DEF WaitOK, Unprepared
      <3> QED
        BY <1>3, <2>1, <3>1, FireWaits
    <2>13. \A s \in Schedules : ScheduleOK(s)'
      BY <1>1, ScheduleParts, SchedulesKept
    <2> QED
      BY <2>5, <2>6, <2>7, <2>8, <2>9, <2>10, <2>11, <2>12, <2>13 DEF ScheduleIInv
  <1>4. CASE Step(r, "none") /\ PreparationFailed(r, FALSE) /\ UNCHANGED <<freshTask, started>>
    BY <1>2, <1>4, FailedTells
  <1>5. CASE Step(r, "none") /\ Prepared(r) /\ UNCHANGED <<freshTask, started, freshTick>>
    BY <1>2, <1>5, PreparedTells
  <1> QED
    BY <1>3, <1>4, <1>5 DEF FireRead

\* The schedule a reservation writes.
LEMMA ReservedType ==
  ASSUME NEW c \in ScheduleState, NEW r \in Run, NEW t \in Times
  PROVE  /\ Reserved(c, r, t) \in ScheduleState
         /\ Reserved(c, r, t).reserved = c.reserved \cup {r}
         /\ Reserved(c, r, t).status \in {c.status, "completed"}
         /\ Reserved(c, r, t).total = c.total + 1 /\ Reserved(c, r, t).maxRuns = c.maxRuns
         /\ Reserved(c, r, t).concurrency = c.concurrency
  <1>1. /\ c.reserved \cup {r} \in SUBSET Run /\ c.total + 1 \in Nat
        /\ c.next \in Times \cup {NoTime} /\ c.status \in Status /\ "completed" \in Status
    BY DEF ScheduleState, Status
  <1>2. PICK n \in Times \cup {NoTime}, z \in Status, k \in Nat, R \in SUBSET Run :
          /\ z \in {c.status, "completed"} /\ k = c.total + 1 /\ R = c.reserved \cup {r}
          /\ Reserved(c, r, t) = [c EXCEPT !.reserved = R, !.total = k, !.next = n, !.status = z]
    BY <1>1 DEF Reserved
  <1>3. /\ [c EXCEPT !.reserved = R, !.total = k, !.next = n, !.status = z] \in ScheduleState
        /\ [c EXCEPT !.reserved = R, !.total = k, !.next = n, !.status = z].reserved = R
        /\ [c EXCEPT !.reserved = R, !.total = k, !.next = n, !.status = z].status = z
        /\ [c EXCEPT !.reserved = R, !.total = k, !.next = n, !.status = z].total = k
        /\ [c EXCEPT !.reserved = R, !.total = k, !.next = n, !.status = z].maxRuns = c.maxRuns
        /\ [c EXCEPT !.reserved = R, !.total = k, !.next = n, !.status = z].concurrency
             = c.concurrency
    BY DEF ScheduleState
  <1> QED
    BY <1>2, <1>3

LEMMA FireSaveKeeps ==
  ASSUME ScheduleIInv, NEW r \in Run, FireSave(r)
  PROVE  ScheduleIInv'
  <1>1. /\ task[r] = "save"
        /\ UNCHANGED <<phase, started, agent, now, mode, recovered, purging, completion, sent>>
    BY DEF FireSave, worldVars, processVars
  <1>2. r[1] \in Schedules /\ sched[r[1]] \in ScheduleState
    BY RunParts, ScheduleParts DEF TypeOK
  <1>3. "none" \in TaskSteps /\ "create" \in TaskSteps /\ "create" \in Unprepared /\ "none" \notin Unprepared
    BY DEF TaskSteps, Unprepared
  <1>4. DownIsIdle'
    BY <1>1, ScheduleParts DEF DownIsIdle
  <1>5. CASE r \notin freshTask
    <2>1. Step(r, "none") /\ PreparationFailed(r, TRUE) /\ UNCHANGED <<sched, freshTask>>
      BY <1>5 DEF FireSave
    <2>2. Told(r) /\ UNCHANGED acked /\ freshTick' \subseteq freshTick
      BY <2>1, FailedTells
    <2>3. /\ task' \in [Run -> TaskSteps] /\ task'[r] = "none"
          /\ \A q \in Run \ {r} : task'[q] = task[q]
      BY <1>3, <2>1, StepIs
    <2>4. TypeOK' /\ ClocksOK'
      BY <1>1, <2>1, <2>2, <2>3, FireTypes, ScheduleParts DEF TypeOK, ClocksOK
    <2>5. TickCopiesAgree'
      BY <1>1, <2>1, <2>2, FireCopies
    <2>6. ASSUME NEW q \in Run \ {r} PROVE RunOK(q)'
      BY <1>1, <2>1, <2>3, RunKept, ScheduleParts
    <2>7. RunOK(r)'
      BY <1>1, <2>1, <2>3, ScheduleParts DEF RunOK, Outstanding
    <2>8. \A q \in Run : SaveOK(q)'
      BY <1>1, <2>1, <2>3, ScheduleParts, SavesKept DEF TypeOK
    <2>9. \A q \in Run : WaitOK(q)'
      BY <1>3, <2>1, <2>2, FireWaits
    <2>10. \A s \in Schedules : ScheduleOK(s)'
      BY <1>1, <2>1, ScheduleParts, SchedulesKept
    <2> QED
      BY <1>4, <2>4, <2>5, <2>6, <2>7, <2>8, <2>9, <2>10 DEF ScheduleIInv
  <1>6. CASE r \in freshTask
    <2>1. PICK t \in nextScheduleTime(started[r]) : Put(r[1], Reserved(sched[r[1]], r, t))
      BY <1>5, <1>6 DEF FireSave
    <2>2. /\ Step(r, "create")
          /\ UNCHANGED <<waiting, tickPc, tickTime, tickList, tickLeft, tickWait, acked>>
      BY <1>6 DEF FireSave
    <2>3. t \in Times
      BY <2>1, NextTimes, ScheduleParts DEF ClocksOK
    <2> DEFINE c == Reserved(sched[r[1]], r, t)
    <2>4. /\ Put(r[1], c) /\ c \in ScheduleState
          /\ c.reserved = sched[r[1]].reserved \cup {r}
          /\ c.status \in {sched[r[1]].status, "completed"}
      BY <1>2, <2>1, <2>3, ReservedType
    <2> HIDE DEF c
    <2>5. Exists(r[1]) /\ r \notin sched[r[1]].reserved /\ phase[r] = "none"
      BY <1>1, <1>6, ScheduleParts DEF SaveOK, RunOK
    <2>6. c.status \notin {"none", "deleted"} /\ r[1] \notin purging'
      BY <1>1, <1>2, <2>4, <2>5, ScheduleParts DEF Exists, ScheduleOK
    <2>7. /\ sched' \in [Schedules -> ScheduleState]
          /\ sched'[r[1]] = c /\ \A z \in Schedules \ {r[1]} : sched'[z] = sched[z]
          /\ freshTask' \subseteq freshTask /\ freshTask' \subseteq Run
          /\ freshTick' \subseteq freshTick /\ freshTick' \subseteq Schedules
          /\ \A q \in freshTask' : sched'[q[1]] = sched[q[1]]
          /\ \A z \in freshTick' : sched'[z] = sched[z]
          /\ \A z \in Schedules : ScheduleOK(z)'
      BY <1>1, <1>2, <2>4, <2>6, PutStep
    <2>8. /\ task' \in [Run -> TaskSteps] /\ task'[r] = "create"
          /\ \A q \in Run \ {r} : task'[q] = task[q]
      BY <1>3, <2>2, StepIs
    <2>9. TypeOK' /\ ClocksOK'
      BY <1>1, <2>2, <2>7, <2>8, ScheduleParts DEF TypeOK, ClocksOK
    <2>10. TickCopiesAgree'
      BY <2>2, <2>7, FireCopies
    <2>11. ASSUME NEW q \in Run \ {r} PROVE RunOK(q)'
      <3>1. q[1] \in Schedules /\ (q \in sched[q[1]].reserved => q \in sched'[q[1]].reserved)
        BY <2>4, <2>7, RunParts
      <3> QED
        BY <1>1, <2>8, <3>1, RunKept, ScheduleParts
    <2>12. RunOK(r)'
      <3>1. r \in sched'[r[1]].reserved /\ phase'[r] = "none" /\ sent'[r] = sent[r]
            /\ \A a \in Actors : completion'[a][r] = completion[a][r]
        BY <1>1, <2>4, <2>5, <2>7
      <3>2. \A a \in Actors : completion[a][r] # "release"
        BY <2>5, ScheduleParts DEF RunOK
      <3> QED
        BY <1>1, <2>5, <2>8, <3>1, <3>2, ScheduleParts DEF RunOK, Outstanding, Actors
    <2>13. \A q \in Run : SaveOK(q)'
      BY <2>7, <2>8, ScheduleParts, SavesKept DEF TypeOK
    <2>14. \A q \in Run : WaitOK(q)'
      <3>1. ~Automatic(r) => r \in waiting'
        BY <1>1, <2>2, ScheduleParts DEF WaitOK, Unprepared
      <3> QED
        BY <1>3, <2>2, <3>1, FireWaits
    <2> QED
      BY <1>4, <2>7, <2>9, <2>10, <2>11, <2>12, <2>13, <2>14 DEF ScheduleIInv
  <1> QED
    BY <1>5, <1>6

\* The record is written under the reservation.
LEMMA FireCreateKeeps ==
  ASSUME ScheduleIInv, NEW r \in Run, FireCreate(r)
  PROVE  ScheduleIInv'
  <1>1. /\ task[r] = "create" /\ phase[r] = "none"
        /\ phase' = [phase EXCEPT ![r] = "dispatching"]
        /\ UNCHANGED <<sched, started, agent, now, mode, recovered, purging, freshTask,
                       completion, sent>>
    BY DEF FireCreate, worldVars, processVars
  <1>2. PICK step \in {"dispatch", "none"} :
          /\ Step(r, step)
          /\ \/ step = "dispatch" /\ Prepared(r) /\ UNCHANGED freshTick
             \/ step = "none" /\ PreparationFailed(r, FALSE)
    BY DEF FireCreate
  <1>3. step \in TaskSteps /\ step \notin Unprepared
    BY DEF TaskSteps, Unprepared
  <1>4. /\ Told(r) /\ freshTick' \subseteq freshTick
        /\ step = "dispatch" /\ r \in waiting => r \in acked'
    BY <1>2, PreparedTells, FailedTells
  <1>5. /\ task' \in [Run -> TaskSteps] /\ task'[r] = step
        /\ \A q \in Run \ {r} : task'[q] = task[q]
    BY <1>2, <1>3, StepIs
  <1>6. /\ phase' \in [Run -> Phases] /\ phase'[r] = "dispatching"
        /\ \A q \in Run \ {r} : phase'[q] = phase[q]
    BY <1>1, ScheduleParts DEF TypeOK, Phases
  <1>7. TypeOK' /\ ClocksOK'
    BY <1>1, <1>4, <1>5, <1>6, FireTypes, ScheduleParts DEF TypeOK, ClocksOK
  <1>8. DownIsIdle'
    BY <1>1, ScheduleParts DEF DownIsIdle
  <1>9. TickCopiesAgree'
    BY <1>1, <1>4, FireCopies
  <1>10. ASSUME NEW q \in Run \ {r} PROVE RunOK(q)'
    BY <1>1, <1>5, <1>6, RunKept, ScheduleParts
  <1>11. RunOK(r)'
    <2>1. /\ \A a \in Actors : completion'[a][r] \notin {"release", "complete"}
          /\ completion'["observer"][r] # "observe"
          /\ r \in sched'[r[1]].reserved /\ sent'[r] = 0
      BY <1>1, ScheduleParts DEF RunOK, Outstanding, Actors
    <2> QED
      BY <1>2, <1>5, <1>6, <2>1 DEF RunOK, Outstanding, Actors
  <1>12. \A q \in Run : SaveOK(q)'
    BY <1>1, <1>2, <1>5, ScheduleParts, SavesKept DEF TypeOK
  <1>13. \A q \in Run : WaitOK(q)'
    <2>1. ~Automatic(r) => r \in waiting
      BY <1>1, ScheduleParts DEF WaitOK, Unprepared
    <2> QED
      BY <1>2, <1>3, <1>4, <2>1, FireWaits
  <1>14. \A s \in Schedules : ScheduleOK(s)'
    BY <1>1, ScheduleParts, SchedulesKept
  <1> QED
    BY <1>7, <1>8, <1>9, <1>10, <1>11, <1>12, <1>13, <1>14 DEF ScheduleIInv

LEMMA TaskFailsKeeps ==
  ASSUME ScheduleIInv, NEW r \in Run, TaskFails(r)
  PROVE  ScheduleIInv'
  <1>1. /\ task[r] \in Unprepared \cup {"release", "prune"}
        /\ Step(r, "none") /\ freshTask' = freshTask \ {r}
        /\ UNCHANGED <<sched, phase, started, agent, now, mode, recovered, purging, completion, sent>>
    BY DEF TaskFails, recordVars, worldVars, processVars
  <1>2. "none" \in TaskSteps /\ "none" \notin Unprepared /\ task[r] # "none"
    BY <1>1 DEF TaskSteps, Unprepared
  <1>3. /\ Told(r) \/ UNCHANGED <<waiting, acked, tickPc, tickTime, tickList, tickLeft, tickWait>>
        /\ UNCHANGED acked /\ freshTick' \subseteq freshTick
    BY FailedTells DEF TaskFails, tickVars
  <1>4. /\ task' \in [Run -> TaskSteps] /\ task'[r] = "none"
        /\ \A q \in Run \ {r} : task'[q] = task[q]
    BY <1>1, <1>2, StepIs
  <1>5. TypeOK' /\ ClocksOK'
    BY <1>1, <1>3, <1>4, FireTypes, ScheduleParts DEF TypeOK, ClocksOK
  <1>6. DownIsIdle'
    BY <1>1, <1>2, ScheduleParts DEF DownIsIdle
  <1>7. TickCopiesAgree'
    BY <1>1, <1>3, FireCopies
  <1>8. ASSUME NEW q \in Run \ {r} PROVE RunOK(q)'
    BY <1>1, <1>4, RunKept, ScheduleParts
  <1>9. RunOK(r)'
    BY <1>1, <1>4, ScheduleParts DEF RunOK, Outstanding
  <1>10. \A q \in Run : SaveOK(q)'
    BY <1>1, <1>4, ScheduleParts, SavesKept DEF TypeOK
  <1>11. \A q \in Run : WaitOK(q)'
    BY <1>1, <1>2, <1>3, FireWaits
  <1>12. \A s \in Schedules : ScheduleOK(s)'
    BY <1>1, ScheduleParts, SchedulesKept
  <1> QED
    BY <1>5, <1>6, <1>7, <1>8, <1>9, <1>10, <1>11, <1>12 DEF ScheduleIInv

\* The one call of dispatch(): the record has never seen another.
LEMMA FireDispatchKeeps ==
  ASSUME ScheduleIInv, NEW r \in Run, FireDispatch(r)
  PROVE  ScheduleIInv'
  <1>1. /\ task[r] = "dispatch" /\ Step(r, "await")
        /\ sent' = [sent EXCEPT ![r] = IF @ = 2 THEN 2 ELSE @ + 1]
        /\ UNCHANGED <<sched, phase, started, now, mode, recovered, purging, freshTask, waiting,
                       completion, tickPc, tickTime, tickList, tickLeft, tickWait, freshTick, acked>>
    BY DEF FireDispatch, recordVars, processVars, tickVars
  <1>2. PICK a \in {"none", "live"} : agent' = [agent EXCEPT ![r] = a]
    BY DEF FireDispatch
  <1>3. "await" \in TaskSteps /\ "await" \notin Unprepared /\ "dispatch" \notin Unprepared
    BY DEF TaskSteps, Unprepared
  <1>4. /\ task' \in [Run -> TaskSteps] /\ task'[r] = "await"
        /\ \A q \in Run \ {r} : task'[q] = task[q]
    BY <1>1, <1>3, StepIs
  <1>5. /\ agent' \in [Run -> {"none", "live", "ended"}]
    BY <1>2, ScheduleParts DEF TypeOK
  <1>6. /\ phase[r] = "dispatching" /\ sent[r] = 0 /\ r \in sched[r[1]].reserved
    BY <1>1, ScheduleParts DEF RunOK, Outstanding
  <1>7. /\ sent' \in [Run -> 0 .. 2] /\ sent'[r] = 1 /\ \A q \in Run \ {r} : sent'[q] = sent[q]
    BY <1>1, <1>6, ScheduleParts DEF TypeOK
  <1>8. TypeOK' /\ ClocksOK'
    BY <1>1, <1>4, <1>5, <1>7, ScheduleParts DEF TypeOK, ClocksOK
  <1>9. DownIsIdle'
    BY <1>1, ScheduleParts DEF DownIsIdle
  <1>10. TickCopiesAgree'
    BY <1>1, ScheduleParts, CopiesKept
  <1>11. ASSUME NEW q \in Run \ {r} PROVE RunOK(q)'
    BY <1>1, <1>4, <1>7, RunKept, ScheduleParts
  <1>12. RunOK(r)'
    BY <1>1, <1>4, <1>6, <1>7, ScheduleParts DEF RunOK, Outstanding
  <1>13. \A q \in Run : SaveOK(q)'
    BY <1>1, <1>4, ScheduleParts, SavesKept DEF TypeOK
  <1>14. \A q \in Run : WaitOK(q)'
    <2>1. ~Automatic(r) => r \in acked
      BY <1>1, <1>3, ScheduleParts DEF WaitOK
    <2> QED
      BY <1>1, <1>3, <2>1, FireWaits
  <1>15. \A s \in Schedules : ScheduleOK(s)'
    BY <1>1, ScheduleParts, SchedulesKept
  <1> QED
    BY <1>8, <1>9, <1>10, <1>11, <1>12, <1>13, <1>14, <1>15 DEF ScheduleIInv

\* Whatever became of the dispatch, the slot is held until the run is finished.
LEMMA FireSettlesKeeps ==
  ASSUME ScheduleIInv, NEW r \in Run, FireSettles(r)
  PROVE  ScheduleIInv'
  <1>1. /\ task[r] = "await"
        /\ UNCHANGED <<sched, started, agent, now, mode, recovered, purging, freshTask, waiting,
                       completion, tickPc, tickTime, tickList, tickLeft, tickWait, freshTick,
                       sent, acked>>
    BY DEF FireSettles, worldVars, processVars, tickVars, historyVars
  <1>2. PICK p \in Phases, step \in TaskSteps :
          FireOutcome(r, p, step) /\ phase' = [phase EXCEPT ![r] = p] /\ Step(r, step)
    BY DEF FireSettles
  <1>3. /\ \/ p \in Outstanding /\ step \in {"prune", "none"}
           \/ p = "finished" /\ step \in {"release", "none"}
        /\ step \notin Unprepared /\ "await" \notin Unprepared
    BY <1>2 DEF FireOutcome, Outstanding, Unprepared
  <1>4. /\ task' \in [Run -> TaskSteps] /\ task'[r] = step
        /\ \A q \in Run \ {r} : task'[q] = task[q]
    BY <1>2, StepIs
  <1>5. /\ phase' \in [Run -> Phases] /\ phase'[r] = p
        /\ \A q \in Run \ {r} : phase'[q] = phase[q]
    BY <1>2, ScheduleParts DEF TypeOK
  <1>6. TypeOK' /\ ClocksOK'
    BY <1>1, <1>4, <1>5, ScheduleParts DEF TypeOK, ClocksOK
  <1>7. DownIsIdle'
    BY <1>1, ScheduleParts DEF DownIsIdle
  <1>8. TickCopiesAgree'
    BY <1>1, ScheduleParts, CopiesKept
  <1>9. ASSUME NEW q \in Run \ {r} PROVE RunOK(q)'
    BY <1>1, <1>4, <1>5, RunKept, ScheduleParts
  <1>10. RunOK(r)'
    <2>1. /\ phase[r] = "dispatching" /\ r \in sched'[r[1]].reserved /\ sent'[r] <= 1
          /\ \A a \in Actors : completion'[a][r] \notin {"release", "complete"}
          /\ completion'["observer"][r] # "observe"
      BY <1>1, ScheduleParts DEF RunOK, Outstanding, Actors
    <2> QED
      BY <1>3, <1>4, <1>5, <2>1 DEF RunOK, Outstanding, Actors
  <1>11. \A q \in Run : SaveOK(q)'
    BY <1>1, <1>3, <1>4, ScheduleParts, SavesKept DEF TypeOK, Unprepared
  <1>12. \A q \in Run : WaitOK(q)'
    <2>1. ~Automatic(r) => r \in acked
      BY <1>1, <1>3, ScheduleParts DEF WaitOK
    <2> QED
      BY <1>1, <1>2, <1>3, <2>1, FireWaits
  <1>13. \A s \in Schedules : ScheduleOK(s)'
    BY <1>1, ScheduleParts, SchedulesKept
  <1> QED
    BY <1>6, <1>7, <1>8, <1>9, <1>10, <1>11, <1>12, <1>13 DEF ScheduleIInv

\* A released slot: the run was the only one to hold it, and is finished.
LEMMA ReleaseStep ==
  ASSUME ScheduleIInv, NEW r \in Run, Release(r), UNCHANGED <<purging, phase, sent>>,
         phase[r] \in {"finished", "none"},
         task'[r] \notin {"create", "release"} /\ \A a \in Actors : completion'[a][r] # "release",
         task'[r] \in {task[r], "prune"},
         \A a \in Actors : completion'[a][r] \in {completion[a][r], "prune"},
         \A q \in Run \ {r} : task'[q] = task[q] /\ \A a \in Actors : completion'[a][q] = completion[a][q]
  PROVE  /\ sched' \in [Schedules -> ScheduleState]
         /\ freshTask' \subseteq freshTask /\ freshTask' \subseteq Run
         /\ freshTick' \subseteq freshTick /\ freshTick' \subseteq Schedules
         /\ \A q \in freshTask' : sched'[q[1]] = sched[q[1]]
         /\ \A s \in freshTick' : sched'[s] = sched[s]
         /\ \A s \in Schedules : ScheduleOK(s)'
         /\ \A q \in Run : RunOK(q)'
  <1> DEFINE s == r[1]
             c == [sched[s] EXCEPT !.reserved = @ \ {r}]
  <1>1. s \in Schedules /\ sched[s] \in ScheduleState /\ Exists(s) /\ Put(s, c)
    BY RunParts, ScheduleParts DEF TypeOK, Release
  <1>2. /\ c \in ScheduleState /\ c.reserved = sched[s].reserved \ {r}
        /\ c.status = sched[s].status
    BY <1>1 DEF ScheduleState
  <1>3. c.status \notin {"none", "deleted"} /\ s \notin purging'
    BY <1>1, <1>2, ScheduleParts DEF Exists, ScheduleOK
  <1> HIDE DEF c
  <1>4. /\ sched' \in [Schedules -> ScheduleState]
        /\ sched'[s] = c /\ \A z \in Schedules \ {s} : sched'[z] = sched[z]
        /\ freshTask' \subseteq freshTask /\ freshTask' \subseteq Run
        /\ freshTick' \subseteq freshTick /\ freshTick' \subseteq Schedules
        /\ \A q \in freshTask' : sched'[q[1]] = sched[q[1]]
        /\ \A z \in freshTick' : sched'[z] = sched[z]
        /\ \A z \in Schedules : ScheduleOK(z)'
    BY <1>1, <1>2, <1>3, PutStep
  <1>5. ASSUME NEW q \in Run \ {r} PROVE RunOK(q)'
    <2>1. q[1] \in Schedules /\ (q \in sched[q[1]].reserved => q \in sched'[q[1]].reserved)
      BY <1>2, <1>4, RunParts
    <2> QED
      BY <2>1, RunKept, ScheduleParts
  <1>6. RunOK(r)'
    BY ScheduleParts DEF RunOK, Outstanding, Actors
  <1> QED
    BY <1>4, <1>5, <1>6

LEMMA FireReleaseKeeps ==
  ASSUME ScheduleIInv, NEW r \in Run, FireRelease(r)
  PROVE  ScheduleIInv'
  <1>1. /\ task[r] = "release"
        /\ UNCHANGED <<phase, started, agent, now, mode, recovered, purging, waiting, completion,
                       tickPc, tickTime, tickList, tickLeft, tickWait, sent, acked>>
    BY DEF FireRelease, worldVars, processVars, historyVars
  <1>2. Release(r) /\ Step(r, "prune")
    BY <1>1, RunParts, ScheduleParts DEF FireRelease, RunOK, ScheduleOK
  <1>3. "prune" \in TaskSteps /\ "prune" \notin Unprepared /\ "release" \notin Unprepared
    BY DEF TaskSteps, Unprepared
  <1>4. /\ task' \in [Run -> TaskSteps] /\ task'[r] = "prune"
        /\ \A q \in Run \ {r} : task'[q] = task[q]
    BY <1>2, <1>3, StepIs
  <1>5. /\ phase[r] \in {"finished", "none"} /\ \A a \in Actors : completion[a][r] # "release"
    BY <1>1, ScheduleParts DEF RunOK
  <1>6. /\ sched' \in [Schedules -> ScheduleState]
        /\ freshTask' \subseteq freshTask /\ freshTask' \subseteq Run
        /\ freshTick' \subseteq freshTick /\ freshTick' \subseteq Schedules
        /\ \A q \in freshTask' : sched'[q[1]] = sched[q[1]]
        /\ \A s \in freshTick' : sched'[s] = sched[s]
        /\ \A s \in Schedules : ScheduleOK(s)'
        /\ \A q \in Run : RunOK(q)'
    BY <1>1, <1>2, <1>4, <1>5, ReleaseStep
  <1>7. TypeOK' /\ ClocksOK'
    BY <1>1, <1>4, <1>6, ScheduleParts DEF TypeOK, ClocksOK
  <1>8. DownIsIdle'
    BY <1>1, ScheduleParts DEF DownIsIdle
  <1>9. TickCopiesAgree'
    BY <1>1, <1>6, ScheduleParts, CopiesKept
  <1>10. \A q \in Run : SaveOK(q)'
    BY <1>4, <1>6, ScheduleParts, SavesKept DEF TypeOK
  <1>11. \A q \in Run : WaitOK(q)'
    <2>1. ~Automatic(r) => r \in acked
      BY <1>1, <1>3, ScheduleParts DEF WaitOK
    <2> QED
      BY <1>1, <1>2, <1>3, <2>1, FireWaits
  <1> QED
    BY <1>6, <1>7, <1>8, <1>9, <1>10, <1>11 DEF ScheduleIInv

LEMMA FirePruneKeeps ==
  ASSUME ScheduleIInv, NEW r \in Run, FirePrune(r)
  PROVE  ScheduleIInv'
  <1>1. /\ task[r] = "prune" /\ Step(r, "none")
        /\ UNCHANGED <<sched, agent, now, mode, recovered, purging, freshTask, waiting, completion,
                       tickPc, tickTime, tickList, tickLeft, tickWait, freshTick, acked>>
    BY DEF FirePrune, worldVars, processVars, tickVars
  <1>2. PICK D \in Pruned(r[1]) : DeleteRuns(D)
    BY DEF FirePrune
  <1>3. "none" \in TaskSteps /\ "none" \notin Unprepared
    BY DEF TaskSteps, Unprepared
  <1>4. /\ task' \in [Run -> TaskSteps] /\ task'[r] = "none"
        /\ \A q \in Run \ {r} : task'[q] = task[q]
    BY <1>1, <1>3, StepIs
  <1>5. /\ phase' \in [Run -> Phases] /\ started' \in [Run -> Times]
        /\ sent' \in [Run -> 0 .. 2] /\ started' \in [Run -> 0 .. MaxTime]
        /\ \A q \in Run : RunOK(q)'
    BY <1>1, <1>2, <1>4, PrunedFinished, DeleteRunsStep
  <1>6. TypeOK' /\ ClocksOK'
    BY <1>1, <1>4, <1>5, ScheduleParts DEF TypeOK, ClocksOK
  <1>7. DownIsIdle'
    BY <1>1, ScheduleParts DEF DownIsIdle
  <1>8. TickCopiesAgree'
    BY <1>1, ScheduleParts, CopiesKept
  <1>9. \A q \in Run : SaveOK(q)'
    BY <1>1, <1>4, ScheduleParts, SavesKept DEF TypeOK
  <1>10. \A q \in Run : WaitOK(q)'
    BY <1>1, <1>3, FireWaits
  <1>11. \A s \in Schedules : ScheduleOK(s)'
    BY <1>1, ScheduleParts, SchedulesKept
  <1> QED
    BY <1>5, <1>6, <1>7, <1>8, <1>9, <1>10, <1>11 DEF ScheduleIInv

\* run-once: whoever joins a fire under way is acknowledged with it.
LEMMA RunOnceKeeps ==
  ASSUME ScheduleIInv, NEW r \in Run, RunOnce(r)
  PROVE  ScheduleIInv'
  <1>1. /\ mode = "up" /\ ~Automatic(r)
        /\ UNCHANGED <<sched, phase, started, agent, now, mode, recovered, purging, freshTask,
                       completion, tickPc, tickTime, tickList, tickLeft, tickWait, freshTick, sent>>
    BY DEF RunOnce, recordVars, worldVars, processVars, tickVars
  <1>2. /\ waiting' \in {waiting, waiting \cup {r}} /\ acked' \in {acked, acked \cup {r}}
        /\ task' \in [Run -> TaskSteps]
        /\ (task[r] = "none" /\ task'[r] = "check") \/ task'[r] = task[r]
        /\ \A q \in Run \ {r} : task'[q] = task[q]
        /\ task'[r] \in Unprepared => r \in waiting'
        /\ task'[r] \in Unprepared \cup {"none"} \/ r \in acked'
    BY <1>1, ScheduleParts DEF RunOnce, TypeOK, TaskSteps, Unprepared
  <1>3. waiting' \subseteq Run /\ acked' \subseteq Run
    BY <1>2, ScheduleParts DEF TypeOK
  <1>4. TypeOK' /\ ClocksOK'
    BY <1>1, <1>2, <1>3, ScheduleParts DEF TypeOK, ClocksOK
  <1>5. DownIsIdle'
    BY <1>1 DEF DownIsIdle
  <1>6. TickCopiesAgree'
    BY <1>1, ScheduleParts, CopiesKept
  <1>7. ASSUME NEW q \in Run \ {r} PROVE RunOK(q)'
    BY <1>1, <1>2, RunKept, ScheduleParts
  <1>8. RunOK(r)'
    BY <1>1, <1>2, ScheduleParts DEF RunOK
  <1>9. \A q \in Run : SaveOK(q)'
    BY <1>1, <1>2, ScheduleParts, SavesKept DEF TypeOK
  <1>10. ASSUME NEW q \in Run \ {r} PROVE WaitOK(q)'
    BY <1>2, ScheduleParts, WaitKept
  <1>11. WaitOK(r)'
    BY <1>1, <1>2 DEF WaitOK
  <1>12. \A s \in Schedules : ScheduleOK(s)'
    BY <1>1, ScheduleParts, SchedulesKept
  <1> QED
    BY <1>4, <1>5, <1>6, <1>7, <1>8, <1>9, <1>10, <1>11, <1>12 DEF ScheduleIInv
-----------------------------------------------------------------------------
(* Completions.                                                             *)

LEMMA CompletionIs ==
  ASSUME ScheduleIInv, NEW a \in Actors, NEW r \in Run, NEW step \in CompletionSteps,
         CompletionStep(a, r, step)
  PROVE  /\ completion' \in [Actors -> [Run -> CompletionSteps]]
         /\ completion'[a][r] = step
         /\ \A b \in Actors \ {a} : completion'[b][r] = completion[b][r]
         /\ \A q \in Run \ {r} : \A b \in Actors : completion'[b][q] = completion[b][q]
  <1>1. completion \in [Actors -> [Run -> CompletionSteps]]
    BY ScheduleParts DEF TypeOK
  <1>2. completion' = [completion EXCEPT ![a] = [completion[a] EXCEPT ![r] = step]]
    BY <1>1 DEF CompletionStep
  <1>3. [completion[a] EXCEPT ![r] = step] \in [Run -> CompletionSteps]
    BY <1>1
  <1> QED
    BY <1>1, <1>2, <1>3

\* A completion that touches neither schedules nor tasks.
LEMMA CompletionRest ==
  ASSUME ScheduleIInv,
         UNCHANGED <<sched, agent, now, mode, recovered, purging, task, freshTask, waiting,
                     tickPc, tickTime, tickList, tickLeft, tickWait, freshTick, acked>>,
         completion' \in [Actors -> [Run -> CompletionSteps]],
         phase' \in [Run -> Phases], started' \in [Run -> Times], sent' \in [Run -> 0 .. 2],
         started' \in [Run -> 0 .. MaxTime],
         mode # "down" \/ \A q \in Run, a \in Actors : completion'[a][q] = "none",
         \A q \in Run : RunOK(q)'
  PROVE  ScheduleIInv'
  <1>1. TypeOK' /\ ClocksOK'
    BY ScheduleParts DEF TypeOK, ClocksOK
  <1>2. DownIsIdle'
    BY ScheduleParts DEF DownIsIdle
  <1>3. TickCopiesAgree'
    BY ScheduleParts, CopiesKept
  <1>4. \A q \in Run : SaveOK(q)'
    BY ScheduleParts, SavesKept DEF TypeOK
  <1>5. \A q \in Run : WaitOK(q)'
    BY ScheduleParts, WaitKept
  <1>6. \A s \in Schedules : ScheduleOK(s)'
    BY ScheduleParts, SchedulesKept
  <1> QED
    BY <1>1, <1>2, <1>3, <1>4, <1>5, <1>6 DEF ScheduleIInv

\* Observations, resolutions and failures: only the completion itself moves.
LEMMA CompletionMoves ==
  ASSUME ScheduleIInv, NEW a \in Actors, NEW r \in Run,
         NEW step \in {"none", "complete"}, CompletionStep(a, r, step),
         mode # "down",
         step = "complete" => IF a = "observer" THEN phase[r] = "running" ELSE phase[r] = "unknown",
         UNCHANGED <<recordVars, worldVars, processVars, taskVars, tickVars, historyVars>>
  PROVE  ScheduleIInv'
  <1>1. UNCHANGED <<sched, phase, started, agent, now, mode, recovered, purging, task, freshTask,
                    waiting, tickPc, tickTime, tickList, tickLeft, tickWait, freshTick, sent, acked>>
    BY DEF recordVars, worldVars, processVars, taskVars, tickVars, historyVars
  <1>2. step \in CompletionSteps
    BY DEF CompletionSteps
  <1>3. /\ completion' \in [Actors -> [Run -> CompletionSteps]]
        /\ completion'[a][r] = step
        /\ \A b \in Actors \ {a} : completion'[b][r] = completion[b][r]
        /\ \A q \in Run \ {r} : \A b \in Actors : completion'[b][q] = completion[b][q]
    BY <1>2, CompletionIs
  <1>4. ASSUME NEW q \in Run \ {r} PROVE RunOK(q)'
    BY <1>1, <1>3, RunKept, ScheduleParts
  <1>5. RunOK(r)'
    BY <1>1, <1>3, ScheduleParts DEF RunOK, Outstanding, Actors
  <1>6. \A q \in Run : RunOK(q)'
    BY <1>4, <1>5
  <1>7. /\ phase' \in [Run -> Phases] /\ started' \in [Run -> Times] /\ sent' \in [Run -> 0 .. 2]
        /\ started' \in [Run -> 0 .. MaxTime]
    BY <1>1, ScheduleParts DEF TypeOK, ClocksOK
  <1> QED
    BY <1>1, <1>3, <1>6, <1>7, CompletionRest

LEMMA ObservationsKeep ==
  ASSUME ScheduleIInv, NEW r \in Run,
         Observe(r) \/ Resolve(r) \/ \E a \in Actors : CompletionFails(a, r)
  PROVE  ScheduleIInv'
  <1> USE DEF Actors
  <1>1. CASE Observe(r)
    <2>1. PICK step \in {"none", "complete"} : CompletionStep("observer", r, step)
      BY <1>1 DEF Observe
    <2>2. phase[r] = "running" /\ mode # "down"
      BY <1>1, ScheduleParts DEF Observe, RunOK, DownIsIdle
    <2> QED
      BY <1>1, <2>1, <2>2, CompletionMoves DEF Observe
  <1>2. CASE Resolve(r)
    BY <1>2, CompletionMoves DEF Resolve
  <1>3. ASSUME NEW a \in Actors, CompletionFails(a, r) PROVE ScheduleIInv'
    <2>1. mode # "down"
      BY <1>3, ScheduleParts DEF CompletionFails, DownIsIdle
    <2> QED
      BY <1>3, <2>1, CompletionMoves DEF CompletionFails
  <1> QED
    BY <1>1, <1>2, <1>3

\* The run is finished, and from here on its slot is the completion's to give back.
LEMMA CompleteKeeps ==
  ASSUME ScheduleIInv, NEW a \in Actors, NEW r \in Run, Complete(a, r)
  PROVE  ScheduleIInv'
  <1>1. /\ completion[a][r] = "complete"
        /\ UNCHANGED <<sched, started, agent, now, mode, recovered, purging, task, freshTask,
                       waiting, tickPc, tickTime, tickList, tickLeft, tickWait, freshTick, sent, acked>>
    BY DEF Complete, worldVars, processVars, taskVars, tickVars, historyVars
  <1>2. phase[r] = IF a = "observer" THEN "running" ELSE "unknown"
    BY <1>1, ScheduleParts DEF RunOK, Actors
  <1>3. phase' = [phase EXCEPT ![r] = "finished"] /\ CompletionStep(a, r, "release")
    BY <1>2 DEF Complete
  <1>4. /\ completion' \in [Actors -> [Run -> CompletionSteps]]
        /\ completion'[a][r] = "release"
        /\ \A b \in Actors \ {a} : completion'[b][r] = completion[b][r]
        /\ \A q \in Run \ {r} : \A b \in Actors : completion'[b][q] = completion[b][q]
    BY <1>3, CompletionIs DEF CompletionSteps
  <1>5. /\ phase' \in [Run -> Phases] /\ phase'[r] = "finished"
        /\ \A q \in Run \ {r} : phase'[q] = phase[q]
    BY <1>3, ScheduleParts DEF TypeOK, Phases
  <1>6. ASSUME NEW q \in Run \ {r} PROVE RunOK(q)'
    BY <1>1, <1>4, <1>5, RunKept, ScheduleParts
  <1>7. RunOK(r)'
    <2>1. /\ task[r] \notin {"read", "save", "create", "dispatch", "await", "release"}
          /\ r \in sched[r[1]].reserved /\ sent[r] <= 1
      BY <1>2, ScheduleParts DEF RunOK, Outstanding
    <2>2. \A b \in Actors \ {a} : completion[b][r] # "release" /\ completion[b][r] # "complete"
                                  /\ (b = "observer" => completion[b][r] # "observe")
      BY <1>2, ScheduleParts DEF RunOK, Actors
    <2> QED
      BY <1>1, <1>4, <1>5, <2>1, <2>2 DEF RunOK, Outstanding, Actors
  <1>8. \A q \in Run : RunOK(q)'
    BY <1>6, <1>7
  <1>9. mode # "down"
    BY <1>1, ScheduleParts DEF DownIsIdle
  <1>10. /\ started' \in [Run -> Times] /\ sent' \in [Run -> 0 .. 2] /\ started' \in [Run -> 0 .. MaxTime]
    BY <1>1, ScheduleParts DEF TypeOK, ClocksOK
  <1> QED
    BY <1>1, <1>4, <1>5, <1>8, <1>9, <1>10, CompletionRest

LEMMA CompleteReleaseKeeps ==
  ASSUME ScheduleIInv, NEW a \in Actors, NEW r \in Run, CompleteRelease(a, r)
  PROVE  ScheduleIInv'
  <1>1. /\ completion[a][r] = "release"
        /\ UNCHANGED <<phase, started, agent, now, mode, recovered, purging, task, waiting,
                       tickPc, tickTime, tickList, tickLeft, tickWait, sent, acked>>
    BY DEF CompleteRelease, worldVars, processVars, historyVars
  <1>2. Release(r) /\ CompletionStep(a, r, "prune")
    BY <1>1, RunParts, ScheduleParts DEF CompleteRelease, RunOK, ScheduleOK
  <1>3. /\ completion' \in [Actors -> [Run -> CompletionSteps]]
        /\ completion'[a][r] = "prune"
        /\ \A b \in Actors \ {a} : completion'[b][r] = completion[b][r]
        /\ \A q \in Run \ {r} : \A b \in Actors : completion'[b][q] = completion[b][q]
    BY <1>2, CompletionIs DEF CompletionSteps
  <1>4. /\ phase[r] \in {"finished", "none"} /\ task[r] \notin {"create", "release"}
        /\ \A b \in Actors \ {a} : completion[b][r] # "release"
    BY <1>1, ScheduleParts DEF RunOK
  <1>5. /\ sched' \in [Schedules -> ScheduleState]
        /\ freshTask' \subseteq freshTask /\ freshTask' \subseteq Run
        /\ freshTick' \subseteq freshTick /\ freshTick' \subseteq Schedules
        /\ \A q \in freshTask' : sched'[q[1]] = sched[q[1]]
        /\ \A s \in freshTick' : sched'[s] = sched[s]
        /\ \A s \in Schedules : ScheduleOK(s)'
        /\ \A q \in Run : RunOK(q)'
    <2>1. \A b \in Actors : completion'[b][r] # "release"
                            /\ completion'[b][r] \in {completion[b][r], "prune"}
      BY <1>3, <1>4
    <2> QED
      BY <1>1, <1>2, <1>3, <1>4, <2>1, ReleaseStep
  <1>6. TypeOK' /\ ClocksOK'
    BY <1>1, <1>3, <1>5, ScheduleParts DEF TypeOK, ClocksOK
  <1>7. DownIsIdle'
    BY <1>1, ScheduleParts DEF DownIsIdle
  <1>8. TickCopiesAgree'
    BY <1>1, <1>5, ScheduleParts, CopiesKept
  <1>9. \A q \in Run : SaveOK(q)'
    BY <1>1, <1>5, ScheduleParts, SavesKept DEF TypeOK
  <1>10. \A q \in Run : WaitOK(q)'
    BY <1>1, ScheduleParts, WaitKept
  <1> QED
    BY <1>5, <1>6, <1>7, <1>8, <1>9, <1>10 DEF ScheduleIInv

LEMMA CompletePruneKeeps ==
  ASSUME ScheduleIInv, NEW a \in Actors, NEW r \in Run, CompletePrune(a, r)
  PROVE  ScheduleIInv'
  <1>1. /\ completion[a][r] = "prune" /\ CompletionStep(a, r, "none")
        /\ UNCHANGED <<sched, agent, now, mode, recovered, purging, task, freshTask, waiting,
                       tickPc, tickTime, tickList, tickLeft, tickWait, freshTick, acked>>
    BY DEF CompletePrune, worldVars, processVars, taskVars, tickVars
  <1>2. PICK D \in Pruned(r[1]) : DeleteRuns(D)
    BY DEF CompletePrune
  <1>3. /\ completion' \in [Actors -> [Run -> CompletionSteps]]
        /\ completion'[a][r] = "none"
        /\ \A b \in Actors \ {a} : completion'[b][r] = completion[b][r]
        /\ \A q \in Run \ {r} : \A b \in Actors : completion'[b][q] = completion[b][q]
    BY <1>1, CompletionIs DEF CompletionSteps
  <1>4. \A q \in Run : \A b \in Actors : completion'[b][q] \in {completion[b][q], "none"}
    BY <1>3
  <1>5. /\ phase' \in [Run -> Phases] /\ started' \in [Run -> Times]
        /\ sent' \in [Run -> 0 .. 2] /\ started' \in [Run -> 0 .. MaxTime]
        /\ \A q \in Run : RunOK(q)'
    BY <1>1, <1>2, <1>4, PrunedFinished, DeleteRunsStep
  <1>6. mode # "down"
    BY <1>1, ScheduleParts DEF DownIsIdle
  <1> QED
    BY <1>1, <1>3, <1>5, <1>6, CompletionRest
-----------------------------------------------------------------------------
(* The poll.                                                                *)

LEMMA TickBeginKeeps == ASSUME ScheduleIInv, TickBegin PROVE ScheduleIInv'
  <1>1. /\ mode = "up" /\ tickPc' = "list" /\ tickTime' = now
        /\ UNCHANGED <<sched, phase, started, agent, now, mode, recovered, purging, task, freshTask,
                       waiting, tickList, tickLeft, tickWait, freshTick, sent, acked>>
    BY DEF TickBegin, recordVars, worldVars, processVars, taskVars, historyVars
  <1>2. PICK O \in SUBSET {r \in Run : phase[r] = "running" /\ r \notin Observing} :
          completion' = [completion EXCEPT !["observer"] =
                           [r \in Run |-> IF r \in O THEN "observe" ELSE @[r]]]
    BY DEF TickBegin
  <1>3. completion \in [Actors -> [Run -> CompletionSteps]]
        /\ "observe" \in CompletionSteps /\ "observer" \in Actors
    BY ScheduleParts DEF TypeOK, CompletionSteps, Actors
  <1>4. [r \in Run |-> IF r \in O THEN "observe" ELSE completion["observer"][r]]
          \in [Run -> CompletionSteps]
    BY <1>3
  <1>5. /\ completion' \in [Actors -> [Run -> CompletionSteps]]
        /\ \A r \in Run : completion'["observer"][r] =
             IF r \in O THEN "observe" ELSE completion["observer"][r]
        /\ \A a \in Actors \ {"observer"} : completion'[a] = completion[a]
    BY <1>2, <1>3, <1>4
  <1>6. tickTime' \in Times /\ tickTime' \in 0 .. MaxTime
    BY <1>1, SchedulesAssumption, ScheduleParts DEF TypeOK, Times
  <1>7. TypeOK' /\ ClocksOK'
    BY <1>1, <1>5, <1>6, ScheduleParts DEF TypeOK, ClocksOK
  <1>8. DownIsIdle'
    BY <1>1 DEF DownIsIdle
  <1>9. TickCopiesAgree'
    BY <1>1, ScheduleParts, CopiesKept
  <1>10. ASSUME NEW r \in Run PROVE RunOK(r)'
    <2>1. CASE r \in O
      <3>1. phase[r] = "running" /\ completion'["observer"][r] = "observe"
        BY <1>5, <2>1
      <3>2. completion'["operator"][r] = completion["operator"][r]
        BY <1>5 DEF Actors
      <3> QED
        BY <1>1, <3>1, <3>2, ScheduleParts DEF RunOK, Outstanding, Actors
    <2>2. CASE r \notin O
      <3>1. \A a \in Actors : completion'[a][r] = completion[a][r]
        BY <1>5, <2>2
      <3> QED
        BY <1>1, <3>1, RunKept, ScheduleParts
    <2> QED
      BY <2>1, <2>2
  <1>11. \A r \in Run : SaveOK(r)'
    BY <1>1, ScheduleParts, SavesKept DEF TypeOK
  <1>12. \A r \in Run : WaitOK(r)'
    BY <1>1, ScheduleParts, WaitKept
  <1>13. \A s \in Schedules : ScheduleOK(s)'
    BY <1>1, ScheduleParts, SchedulesKept
  <1> QED
    BY <1>7, <1>8, <1>9, <1>10, <1>11, <1>12, <1>13 DEF ScheduleIInv

\* A step of the poll, the clock or the cluster that touches no run and no
\* schedule.
LEMMA RunsAndSchedulesRest ==
  ASSUME ScheduleIInv,
         UNCHANGED <<sched, phase, started, purging, task, freshTask, waiting, completion, sent, acked>>,
         TypeOK', ClocksOK', mode' # "down" \/ mode' = mode, TickCopiesAgree'
  PROVE  ScheduleIInv'
  <1>1. DownIsIdle'
    BY ScheduleParts DEF DownIsIdle
  <1>2. \A r \in Run : RunOK(r)'
    BY RunKept, ScheduleParts
  <1>3. \A r \in Run : SaveOK(r)'
    BY ScheduleParts, SavesKept DEF TypeOK
  <1>4. \A r \in Run : WaitOK(r)'
    BY ScheduleParts, WaitKept
  <1>5. \A s \in Schedules : ScheduleOK(s)'
    BY ScheduleParts, SchedulesKept
  <1> QED
    BY <1>1, <1>2, <1>3, <1>4, <1>5 DEF ScheduleIInv

LEMMA ReturnsType ==
  ASSUME TickReturns
  PROVE  /\ tickPc' \in {"idle", "list", "walk"} /\ tickTime' \in Times /\ tickTime' \in 0 .. MaxTime
         /\ tickList' \in [Schedules -> ScheduleState]
         /\ tickLeft' \subseteq Schedules /\ freshTick' \subseteq Schedules
         /\ tickWait' \subseteq Run /\ freshTick' = {}
  <1>1. NoSchedule \in ScheduleState /\ 0 \in 0 .. MaxTime /\ 0 \in Times
    BY SchedulesAssumption DEF NoSchedule, ScheduleState, Status, Times
  <1>2. /\ tickPc' = "idle" /\ tickLeft' = {} /\ tickTime' = 0 /\ tickWait' = {}
        /\ tickList' = [s \in Schedules |-> NoSchedule] /\ freshTick' = {}
    BY DEF TickReturns
  <1>3. tickList' \in [Schedules -> ScheduleState]
    BY <1>1, <1>2
  <1> QED
    BY <1>1, <1>2, <1>3

LEMMA TickListsKeeps == ASSUME ScheduleIInv, TickLists PROVE ScheduleIInv'
  <1>1. /\ tickPc' = "walk" /\ tickList' = sched /\ tickLeft' = {s \in Schedules : Exists(s)}
        /\ freshTick' = tickLeft'
        /\ UNCHANGED <<sched, phase, started, agent, now, mode, recovered, purging, task, freshTask,
                       waiting, completion, tickTime, tickWait, sent, acked>>
    BY DEF TickLists, recordVars, worldVars, processVars, taskVars, historyVars
  <1>2. TypeOK' /\ ClocksOK'
    BY <1>1, ScheduleParts DEF TypeOK, ClocksOK
  <1>3. TickCopiesAgree'
    BY <1>1 DEF TickCopiesAgree
  <1> QED
    BY <1>1, <1>2, <1>3, RunsAndSchedulesRest

LEMMA TickEndKeeps == ASSUME ScheduleIInv, TickEnd PROVE ScheduleIInv'
  <1>1. /\ TickReturns
        /\ UNCHANGED <<sched, phase, started, agent, now, mode, recovered, purging, task, freshTask,
                       waiting, completion, sent, acked>>
    BY DEF TickEnd, recordVars, worldVars, processVars, taskVars, historyVars
  <1>2. TypeOK' /\ ClocksOK'
    BY <1>1, ReturnsType, ScheduleParts DEF TypeOK, ClocksOK
  <1>3. TickCopiesAgree'
    BY <1>1, ReturnsType DEF TickCopiesAgree
  <1> QED
    BY <1>1, <1>2, <1>3, RunsAndSchedulesRest

\* The poll writes a schedule back as it listed it only while nobody else wrote
\* it, and starts at most the fire of the occurrence it listed.
LEMMA TickWalkKeeps ==
  ASSUME ScheduleIInv, NEW s \in Schedules, TickWalk(s)
  PROVE  ScheduleIInv'
  <1> DEFINE c == tickList[s]
  <1>1. mode = "up" /\ s \in tickLeft /\ c \in ScheduleState
        /\ NoSchedule \in ScheduleState
    BY ScheduleParts DEF TickWalk, TypeOK, NoSchedule, ScheduleState, Status
  <1>2. /\ tickLeft' = tickLeft \ {s} /\ tickList' = [tickList EXCEPT ![s] = NoSchedule]
        /\ UNCHANGED <<phase, started, agent, now, mode, recovered, purging, waiting, completion,
                       tickPc, tickTime, sent, acked>>
    BY DEF TickWalk, TickPasses, recordVars, worldVars, processVars, historyVars
  <1>3. /\ tickLeft' \subseteq Schedules /\ tickList' \in [Schedules -> ScheduleState]
        /\ \A z \in tickLeft' : z \in tickLeft /\ tickList'[z] = tickList[z]
    BY <1>1, <1>2, ScheduleParts DEF TypeOK
  <1>4. DownIsIdle'
    BY <1>1, <1>2 DEF DownIsIdle
  <1>5. CASE UNCHANGED <<sched, freshTask, freshTick, task, tickWait>>
    <2>1. TypeOK' /\ ClocksOK'
      BY <1>2, <1>3, <1>5, ScheduleParts DEF TypeOK, ClocksOK
    <2>2. TickCopiesAgree'
      BY <1>3, <1>5, ScheduleParts, CopiesKept
    <2> QED
      BY <1>2, <1>5, <2>1, <2>2, RunsAndSchedulesRest
  <1>6. ASSUME NEW new \in ScheduleState, Put(s, new), s \in freshTick, UNCHANGED <<task, tickWait>>,
               new.status \in {c.status, "completed"}, new.reserved = c.reserved, Due(c)
        PROVE  ScheduleIInv'
    <2>1. c = sched[s]
      BY <1>1, <1>6, ScheduleParts DEF TickCopiesAgree
    <2>2. c.status = "active" /\ s \notin purging'
      BY <1>2, <1>6, <2>1, ScheduleParts DEF Due, ScheduleOK
    <2>3. new.status \notin {"none", "deleted"}
      BY <1>6, <2>2
    <2>4. /\ sched' \in [Schedules -> ScheduleState]
          /\ sched'[s] = new /\ \A z \in Schedules \ {s} : sched'[z] = sched[z]
          /\ freshTask' \subseteq freshTask /\ freshTask' \subseteq Run
          /\ freshTick' \subseteq freshTick /\ freshTick' \subseteq Schedules
          /\ \A r \in freshTask' : sched'[r[1]] = sched[r[1]]
          /\ \A z \in freshTick' : sched'[z] = sched[z]
          /\ \A z \in Schedules : ScheduleOK(z)'
      BY <1>2, <1>6, <2>2, <2>3, PutStep
    <2>5. TypeOK' /\ ClocksOK'
      BY <1>2, <1>3, <1>6, <2>4, ScheduleParts DEF TypeOK, ClocksOK
    <2>6. TickCopiesAgree'
      BY <1>3, <2>4, ScheduleParts, CopiesKept
    <2>7. ASSUME NEW r \in Run PROVE RunOK(r)'
      <3>1. r[1] \in Schedules /\ sched'[r[1]].reserved = sched[r[1]].reserved
        BY <1>6, <2>1, <2>4, RunParts
      <3> QED
        BY <1>2, <1>6, <3>1, RunKept, ScheduleParts
    <2>8. \A r \in Run : SaveOK(r)'
      BY <1>6, <2>4, ScheduleParts, SavesKept DEF TypeOK
    <2>9. \A r \in Run : WaitOK(r)'
      BY <1>2, <1>6, ScheduleParts, WaitKept
    <2> QED
      BY <1>4, <2>4, <2>5, <2>6, <2>7, <2>8, <2>9 DEF ScheduleIInv
  <1>7. CASE /\ Due(c) /\ tickWait' = {<<s, c.next>>} /\ Step(<<s, c.next>>, "check")
             /\ UNCHANGED <<sched, freshTask, freshTick>>
    <2>1. PICK r \in Run : r = <<s, c.next>> /\ Automatic(r)
      <3>1. c.next \in Times
        BY <1>1, <1>7 DEF Due, ScheduleState
      <3> QED
        BY <3>1, RunParts
    <2>2. "check" \in TaskSteps
      BY DEF TaskSteps, Unprepared
    <2>3. Step(r, "check")
      BY <1>7, <2>1
    <2>4. /\ task' \in [Run -> TaskSteps] /\ task'[r] = "check"
          /\ \A q \in Run \ {r} : task'[q] = task[q]
      BY <2>2, <2>3, StepIs
    <2>5. tickWait' \subseteq Run
      BY <1>7, <2>1
    <2>6. TypeOK' /\ ClocksOK'
      BY <1>2, <1>3, <1>7, <2>4, <2>5, ScheduleParts DEF TypeOK, ClocksOK
    <2>7. TickCopiesAgree'
      BY <1>3, <1>7, ScheduleParts, CopiesKept
    <2>8. ASSUME NEW q \in Run \ {r} PROVE RunOK(q)'
      BY <1>2, <1>7, <2>4, RunKept, ScheduleParts
    <2>9. RunOK(r)'
      BY <1>2, <1>7, <2>4, ScheduleParts DEF RunOK
    <2>10. \A q \in Run : SaveOK(q)'
      BY <1>7, <2>4, ScheduleParts, SavesKept DEF TypeOK
    <2>11. ASSUME NEW q \in Run \ {r} PROVE WaitOK(q)'
      BY <1>2, <2>4, ScheduleParts, WaitKept
    <2>12. WaitOK(r)'
      BY <1>2, <2>1, ScheduleParts DEF WaitOK, Automatic
    <2>13. \A z \in Schedules : ScheduleOK(z)'
      BY <1>2, <1>7, ScheduleParts, SchedulesKept
    <2> QED
      BY <1>4, <2>6, <2>7, <2>8, <2>9, <2>10, <2>11, <2>12, <2>13 DEF ScheduleIInv
  <1>8. CASE TickPasses(s) /\ Keep
    BY <1>5, <1>8 DEF TickPasses, Keep
  <1>9. ASSUME Due(c), TickPasses(s), s \in freshTick,
               NEW t \in nextScheduleTime(tickTime),
               Put(s, IF LimitReached(c, tickTime)
                        THEN [c EXCEPT !.status = "completed", !.next = NoTime]
                        ELSE [c EXCEPT !.next = t])
        PROVE  ScheduleIInv'
    <2>1. t \in Times
      BY <1>9, NextTimes, ScheduleParts DEF ClocksOK
    <2>2. PICK new \in ScheduleState :
            /\ Put(s, new) /\ new.status \in {c.status, "completed"} /\ new.reserved = c.reserved
      <3>1. /\ [c EXCEPT !.status = "completed", !.next = NoTime] \in ScheduleState
            /\ [c EXCEPT !.status = "completed", !.next = NoTime].status = "completed"
            /\ [c EXCEPT !.status = "completed", !.next = NoTime].reserved = c.reserved
        BY <1>1 DEF ScheduleState, Status
      <3>2. /\ [c EXCEPT !.next = t] \in ScheduleState /\ [c EXCEPT !.next = t].status = c.status
            /\ [c EXCEPT !.next = t].reserved = c.reserved
        BY <1>1, <2>1 DEF ScheduleState
      <3> QED
        BY <1>9, <3>1, <3>2
    <2> QED
      BY <1>6, <1>9, <2>2 DEF TickPasses
  <1> QED
    BY <1>7, <1>8, <1>9 DEF TickWalk, recordVars
-----------------------------------------------------------------------------
(* Shutdown, replacement of the process and recovery.                       *)

LEMMA CrashKeeps == ASSUME ScheduleIInv, Crash PROVE ScheduleIInv'
  <1>1. /\ mode' = "down" /\ recovered' = {} /\ purging' = {}
        /\ task' = [r \in Run |-> "none"] /\ freshTask' = {} /\ waiting' = {}
        /\ completion' = [a \in Actors |-> [r \in Run |-> "none"]]
        /\ TickReturns
        /\ UNCHANGED <<sched, phase, started, agent, now, sent, acked>>
    BY DEF Crash, recordVars, worldVars, historyVars
  <1>2. task' \in [Run -> TaskSteps] /\ completion' \in [Actors -> [Run -> CompletionSteps]]
    BY <1>1 DEF TaskSteps, CompletionSteps
  <1>3. TypeOK' /\ ClocksOK'
    BY <1>1, <1>2, ReturnsType, ScheduleParts DEF TypeOK, ClocksOK
  <1>4. DownIsIdle'
    BY <1>1 DEF DownIsIdle
  <1>5. TickCopiesAgree'
    BY <1>1, ReturnsType DEF TickCopiesAgree
  <1>6. ASSUME NEW r \in Run PROVE RunOK(r)'
    <2>1. task'[r] = "none" /\ \A a \in Actors : completion'[a][r] = "none"
      BY <1>1
    <2>2. "observer" \in Actors /\ "operator" \in Actors
      BY DEF Actors
    <2> QED
      BY <1>1, <2>1, <2>2, ScheduleParts DEF RunOK, Outstanding
  <1>7. \A r \in Run : SaveOK(r)'
    BY <1>1 DEF SaveOK
  <1>8. \A r \in Run : WaitOK(r)'
    BY <1>1 DEF WaitOK, Unprepared
  <1>9. \A s \in Schedules : ScheduleOK(s)'
    BY <1>1, ScheduleParts, SchedulesKept
  <1> QED
    BY <1>3, <1>4, <1>5, <1>6, <1>7, <1>8, <1>9 DEF ScheduleIInv

\* What was interrupted is unknown and keeps its slot.
LEMMA RecoverRunKeeps ==
  ASSUME ScheduleIInv, NEW r \in Run, RecoverRun(r)
  PROVE  ScheduleIInv'
  <1>1. /\ mode = "down" /\ r \in sched[r[1]].reserved /\ phase[r] \in {"none", "dispatching"}
        /\ phase' = [phase EXCEPT ![r] = "unknown"]
        /\ UNCHANGED <<sched, started, agent, now, mode, recovered, purging, task, freshTask, waiting,
                       completion, tickPc, tickTime, tickList, tickLeft, tickWait, freshTick,
                       sent, acked>>
    BY DEF RecoverRun, Interrupted, worldVars, processVars, taskVars, tickVars, historyVars
  <1>2. /\ phase' \in [Run -> Phases] /\ phase'[r] = "unknown"
        /\ \A q \in Run \ {r} : phase'[q] = phase[q]
    BY <1>1, ScheduleParts DEF TypeOK, Phases
  <1>3. \A q \in Run : task[q] = "none" /\ \A a \in Actors : completion[a][q] = "none"
    BY <1>1, ScheduleParts DEF DownIsIdle
  <1>4. ASSUME NEW q \in Run \ {r} PROVE RunOK(q)'
    BY <1>1, <1>2, RunKept, ScheduleParts
  <1>5. RunOK(r)'
    BY <1>1, <1>2, <1>3, ScheduleParts DEF RunOK, Outstanding, Actors
  <1>6. \A q \in Run : RunOK(q)'
    BY <1>4, <1>5
  <1>7. /\ started' \in [Run -> Times] /\ sent' \in [Run -> 0 .. 2] /\ started' \in [Run -> 0 .. MaxTime]
        /\ completion' \in [Actors -> [Run -> CompletionSteps]]
    BY <1>1, ScheduleParts DEF TypeOK, ClocksOK
  <1> QED
    BY <1>1, <1>2, <1>3, <1>6, <1>7, CompletionRest

LEMMA RecoverScheduleKeeps ==
  ASSUME ScheduleIInv, NEW s \in Schedules, RecoverSchedule(s)
  PROVE  ScheduleIInv'
  <1>1. /\ mode = "down" /\ Exists(s) /\ recovered' = recovered \cup {s}
        /\ UNCHANGED <<phase, started, agent, now, mode, purging, task, waiting, completion,
                       tickPc, tickTime, tickList, tickLeft, tickWait, sent, acked>>
    BY DEF RecoverSchedule, worldVars, historyVars
  <1>2. PICK t \in Times \cup {NoTime} :
          Put(s, [sched[s] EXCEPT !.next = t, !.reserved = StillReserved(sched[s])])
    <2>1. sched[s].next \in Times \cup {NoTime} /\ nextScheduleTime(now) \subseteq Times
      BY NextTimes, ScheduleParts DEF TypeOK, ScheduleState
    <2> QED
      BY <2>1 DEF RecoverSchedule
  <1> DEFINE c == [sched[s] EXCEPT !.next = t, !.reserved = StillReserved(sched[s])]
  <1>3. /\ Put(s, c) /\ c \in ScheduleState /\ c.status = sched[s].status
        /\ c.reserved = {r \in sched[s].reserved : phase[r] # "finished"}
    BY ZenonT(60), <1>2, ScheduleParts DEF TypeOK, ScheduleState, StillReserved
  <1> HIDE DEF c
  <1>4. c.status \notin {"none", "deleted"} /\ s \notin purging'
    BY <1>1, <1>3, ScheduleParts DEF Exists, ScheduleOK
  <1>5. /\ sched' \in [Schedules -> ScheduleState]
        /\ sched'[s] = c /\ \A z \in Schedules \ {s} : sched'[z] = sched[z]
        /\ freshTask' \subseteq freshTask /\ freshTask' \subseteq Run
        /\ freshTick' \subseteq freshTick /\ freshTick' \subseteq Schedules
        /\ \A r \in freshTask' : sched'[r[1]] = sched[r[1]]
        /\ \A z \in freshTick' : sched'[z] = sched[z]
        /\ \A z \in Schedules : ScheduleOK(z)'
    BY <1>1, <1>3, <1>4, PutStep
  <1>6. recovered' \subseteq Schedules
    BY <1>1, ScheduleParts DEF TypeOK
  <1>7. TypeOK' /\ ClocksOK'
    BY <1>1, <1>5, <1>6, ScheduleParts DEF TypeOK, ClocksOK
  <1>8. DownIsIdle'
    BY <1>1, ScheduleParts DEF DownIsIdle
  <1>9. TickCopiesAgree'
    BY <1>1, <1>5, ScheduleParts, CopiesKept
  <1>10. ASSUME NEW r \in Run PROVE RunOK(r)'
    <2>1. task[r] = "none" /\ \A a \in Actors : completion[a][r] = "none"
      BY <1>1, ScheduleParts DEF DownIsIdle
    <2>2. r[1] \in Schedules
          /\ (r \in sched[r[1]].reserved /\ phase[r] # "finished" => r \in sched'[r[1]].reserved)
      BY <1>3, <1>5, RunParts
    <2> QED
      BY <1>1, <2>1, <2>2, ScheduleParts DEF RunOK, Outstanding, Actors
  <1>11. \A r \in Run : SaveOK(r)'
    BY <1>1, <1>5, ScheduleParts, SavesKept DEF TypeOK
  <1>12. \A r \in Run : WaitOK(r)'
    BY <1>1, ScheduleParts, WaitKept
  <1> QED
    BY <1>5, <1>7, <1>8, <1>9, <1>10, <1>11, <1>12 DEF ScheduleIInv

\* Closing, starting, the end of an agent and the clock move nothing else.
LEMMA WorldKeeps ==
  ASSUME ScheduleIInv, Close \/ Start \/ Advance \/ \E r \in Run : AgentEnds(r)
  PROVE  ScheduleIInv'
  <1>1. UNCHANGED <<sched, phase, started, recovered, purging, task, freshTask, waiting, completion,
                    tickPc, tickTime, tickList, tickLeft, tickWait, freshTick, sent, acked>>
    BY DEF Close, Start, Advance, AgentEnds, recordVars, processVars, taskVars, tickVars, historyVars
  <1>2. mode' \in {"up", "stopping", mode}
    BY DEF Close, Start, Advance, AgentEnds, processVars
  <1>3. now' \in 0 .. MaxTime
    BY SchedulesAssumption, ScheduleParts DEF Close, Start, Advance, AgentEnds, worldVars, TypeOK
  <1>4. agent' \in [Run -> {"none", "live", "ended"}]
    BY ScheduleParts DEF Close, Start, Advance, AgentEnds, worldVars, TypeOK
  <1>5. TypeOK' /\ ClocksOK'
    BY <1>1, <1>2, <1>3, <1>4, ScheduleParts DEF TypeOK, ClocksOK
  <1>6. TickCopiesAgree'
    BY <1>1, ScheduleParts, CopiesKept
  <1> QED
    BY <1>1, <1>2, <1>5, <1>6, RunsAndSchedulesRest

LEMMA ScheduleInductive == ScheduleIInv /\ [Next]_vars => ScheduleIInv'
  <1> SUFFICES ASSUME ScheduleIInv, [Next]_vars PROVE ScheduleIInv'
    OBVIOUS
  <1>1. CASE UNCHANGED vars
    <2>1. UNCHANGED <<sched, phase, started, agent, now, mode, recovered, purging, task, freshTask,
                      waiting, completion, tickPc, tickTime, tickList, tickLeft, tickWait,
                      freshTick, sent, acked>>
      BY <1>1 DEF vars, recordVars, worldVars, processVars, taskVars, tickVars, historyVars
    <2>2. TypeOK' /\ ClocksOK'
      BY <2>1, ScheduleParts DEF TypeOK, ClocksOK
    <2>3. TickCopiesAgree'
      BY <2>1, ScheduleParts, CopiesKept
    <2> QED
      BY <2>1, <2>2, <2>3, RunsAndSchedulesRest
  <1>2. ASSUME NEW s \in Schedules, Request(s) \/ DeleteHistory(s) \/ RecoverSchedule(s)
        PROVE  ScheduleIInv'
    BY <1>2, RequestsKeep, DeleteKeeps, DeleteHistoryKeeps, RecoverScheduleKeeps DEF Request
  <1>3. ASSUME NEW r \in Run, RunOnce(r) \/ TaskNext(r) \/ TaskFails(r) PROVE ScheduleIInv'
    BY <1>3, RunOnceKeeps, FireCheckKeeps, FireReadKeeps, FireSaveKeeps, FireCreateKeeps,
       FireDispatchKeeps, FireSettlesKeeps, FireReleaseKeeps, FirePruneKeeps, TaskFailsKeeps
    DEF TaskNext
  <1>4. ASSUME NEW r \in Run, Observe(r) \/ Resolve(r) \/ RecoverRun(r) \/ AgentEnds(r)
        PROVE  ScheduleIInv'
    BY <1>4, ObservationsKeep, RecoverRunKeeps, WorldKeeps
  <1>5. ASSUME NEW r \in Run, NEW a \in Actors, CompletionNext(a, r) \/ CompletionFails(a, r)
        PROVE  ScheduleIInv'
    BY <1>5, CompleteKeeps, CompleteReleaseKeeps, CompletePruneKeeps, ObservationsKeep
    DEF CompletionNext
  <1>6. CASE TickNext
    BY <1>6, TickBeginKeeps, TickListsKeeps, TickWalkKeeps, TickEndKeeps DEF TickNext
  <1>7. CASE Close \/ Crash \/ Start \/ Advance
    BY <1>7, CrashKeeps, WorldKeeps
  <1> QED
    BY <1>1, <1>2, <1>3, <1>4, <1>5, <1>6, <1>7 DEF Next

LEMMA ScheduleInvariant == Spec => []ScheduleIInv
  BY ScheduleInitial, ScheduleInductive, PTL DEF Spec

\* dispatch() is called at most once for a run ID while its record is kept,
\* whatever is retried, polled again or restarted (executeFire()).
THEOREM DispatchesOnce == Spec => []DispatchedOnce
  <1>1. ScheduleIInv => DispatchedOnce
    BY DEF ScheduleIInv, RunOK, DispatchedOnce
  <1> QED
    BY <1>1, ScheduleInvariant, PTL

\* A run that may still have an agent holds a slot of a schedule that exists,
\* through crashes, recovery, pruning and deletion.
THEOREM OutstandingStaysReserved == Spec => []OutstandingIsReserved
  <1>1. ScheduleIInv => OutstandingIsReserved
    BY RunParts DEF ScheduleIInv, RunOK, Outstanding, ScheduleOK, OutstandingIsReserved
  <1> QED
    BY <1>1, ScheduleInvariant, PTL
-----------------------------------------------------------------------------
(* The steps that reserve and acknowledge.                                  *)

\* Only the compare-and-swap of a fire whose copy is fresh adds a reservation
\* or counts a run.
Reserves(s) ==
  \E r \in freshTask :
    /\ r \in Run /\ r[1] = s /\ task[r] = "save"
    /\ sched'[s].reserved = sched[s].reserved \cup {r}
    /\ sched'[s].total = sched[s].total + 1
    /\ sched'[s].concurrency = sched[s].concurrency
Frees(s) ==
  /\ sched'[s].reserved \subseteq sched[s].reserved /\ sched'[s].total <= sched[s].total
  /\ sched'[s].concurrency \in Policies \cup {"Forbid", sched[s].concurrency}

LEMMA SchedTypes ==
  ASSUME ScheduleIInv
  PROVE  /\ sched \in [Schedules -> ScheduleState]
         /\ \A s \in Schedules : sched[s] \in ScheduleState /\ sched[s].total \in Nat
  BY ScheduleParts DEF TypeOK, ScheduleState

\* What a write that changes other fields leaves alone.
SameCounts(d, R, c) == d.reserved = R /\ d.total = c.total /\ d.concurrency = c.concurrency

LEMMA EditsKeepCounts ==
  ASSUME NEW c \in ScheduleState, NEW x, NEW y, NEW z
  PROVE  /\ SameCounts([c EXCEPT !.status = x, !.next = y], c.reserved, c)
         /\ SameCounts([c EXCEPT !.next = x], c.reserved, c)
         /\ SameCounts([c EXCEPT !.maxRuns = x, !.expires = y, !.next = z], c.reserved, c)
         /\ SameCounts([c EXCEPT !.next = x, !.reserved = y], y, c)
         /\ SameCounts([c EXCEPT !.reserved = y], y, c)
         /\ [c EXCEPT !.concurrency = x].reserved = c.reserved
         /\ [c EXCEPT !.concurrency = x].total = c.total
         /\ [c EXCEPT !.concurrency = x].concurrency = x
  BY DEF ScheduleState, SameCounts

LEMMA WritesAre ==
  ASSUME ScheduleIInv, [Next]_vars
  PROVE  \A s \in Schedules : Frees(s) \/ Reserves(s)
  <1> USE SchedTypes
  <1>1. ASSUME UNCHANGED sched PROVE \A s \in Schedules : Frees(s)
    BY <1>1 DEF Frees
  <1>2. ASSUME NEW z \in Schedules, NEW c, Put(z, c), c.reserved \subseteq sched[z].reserved,
               c.total <= sched[z].total,
               c.concurrency \in Policies \cup {"Forbid", sched[z].concurrency}
        PROVE  \A s \in Schedules : Frees(s)
    <2>1. sched'[z] = c /\ \A s \in Schedules \ {z} : sched'[s] = sched[s]
      BY <1>2 DEF Put
    <2> QED
      BY <1>2, <2>1 DEF Frees
  <1>3. ASSUME NEW z \in Schedules, Request(z) PROVE \A s \in Schedules : Frees(s)
    <2>1. CASE Create(z) \/ Delete(z)
      <3>1. CASE Create(z)
        <4>1. PICK p \in Policies : \E t, m, e :
                Put(z, [NoSchedule EXCEPT !.status = "active", !.next = t, !.maxRuns = m,
                                          !.expires = e, !.concurrency = p])
          BY <3>1 DEF Create, Edit
        <4>3. PICK t, m, e :
                Put(z, [NoSchedule EXCEPT !.status = "active", !.next = t, !.maxRuns = m,
                                          !.expires = e, !.concurrency = p])
          BY <4>1
        <4> DEFINE c == [NoSchedule EXCEPT !.status = "active", !.next = t,
                           !.maxRuns = m, !.expires = e, !.concurrency = p]
        <4>2. Put(z, c) /\ c.reserved = {} /\ c.total = 0 /\ c.concurrency = p
          BY <4>3 DEF NoSchedule
        <4> HIDE DEF c
        <4> QED
          BY <1>2, <4>2
      <3>2. CASE Delete(z)
        <4> DEFINE c == [NoSchedule EXCEPT !.status = "deleted"]
        <4>1. Put(z, c) /\ c.reserved = {} /\ c.total = 0 /\ c.concurrency = "Forbid"
          BY <3>2 DEF Delete, NoSchedule
        <4> HIDE DEF c
        <4> QED
          BY <1>2, <4>1
      <3> QED
        BY <2>1, <3>1, <3>2
    <2>2. CASE Pause(z) \/ Resume(z) \/ Update(z) \/ setConcurrency(z)
      <3>1. CASE Pause(z)
        <4> DEFINE c == [sched[z] EXCEPT !.status = "paused", !.next = NoTime]
        <4>1. Put(z, c)
          BY <3>1 DEF Pause, Edit
        <4>2. SameCounts(c, sched[z].reserved, sched[z])
          BY EditsKeepCounts
        <4> HIDE DEF c
        <4> QED
          BY <1>2, <4>1, <4>2 DEF SameCounts
      <3>2. CASE Resume(z)
        <4>1. PICK t : Put(z, [sched[z] EXCEPT !.status = "active", !.next = t])
          BY ZenonT(60), <3>2 DEF Resume, Edit
        <4> DEFINE c == [sched[z] EXCEPT !.status = "active", !.next = t]
        <4>2. Put(z, c) /\ SameCounts(c, sched[z].reserved, sched[z])
          BY <4>1, EditsKeepCounts
        <4> HIDE DEF c
        <4> QED
          BY <1>2, <4>2 DEF SameCounts
      <3>3. CASE Update(z)
        <4>1. PICK m, e, t : Put(z, [sched[z] EXCEPT !.maxRuns = m, !.expires = e, !.next = t])
          BY ZenonT(60), <3>3 DEF Update, Edit
        <4> DEFINE c == [sched[z] EXCEPT !.maxRuns = m, !.expires = e, !.next = t]
        <4>2. Put(z, c) /\ SameCounts(c, sched[z].reserved, sched[z])
          BY <4>1, EditsKeepCounts
        <4> HIDE DEF c
        <4> QED
          BY <1>2, <4>2 DEF SameCounts
      <3>4. CASE setConcurrency(z)
        <4>1. PICK p \in Policies : Put(z, [sched[z] EXCEPT !.concurrency = p])
          BY <3>4 DEF setConcurrency, Edit
        <4> DEFINE c == [sched[z] EXCEPT !.concurrency = p]
        <4>2. /\ Put(z, c) /\ c.reserved = sched[z].reserved /\ c.total = sched[z].total
              /\ c.concurrency = p
          BY <4>1, EditsKeepCounts
        <4> HIDE DEF c
        <4> QED
          BY <1>2, <4>2
      <3> QED
        BY <2>2, <3>1, <3>2, <3>3, <3>4
    <2> QED
      BY <1>3, <2>1, <2>2 DEF Request
  <1>4. ASSUME NEW z \in Schedules, RecoverSchedule(z) PROVE \A s \in Schedules : Frees(s)
    <2>1. PICK t : Put(z, [sched[z] EXCEPT !.next = t, !.reserved = StillReserved(sched[z])])
      BY <1>4 DEF RecoverSchedule
    <2>2. StillReserved(sched[z]) \subseteq sched[z].reserved
      BY DEF StillReserved
    <2> DEFINE c == [sched[z] EXCEPT !.next = t, !.reserved = StillReserved(sched[z])]
    <2>3. Put(z, c) /\ SameCounts(c, StillReserved(sched[z]), sched[z])
      BY <2>1, EditsKeepCounts
    <2> HIDE DEF c
    <2> QED
      BY <1>2, <2>2, <2>3 DEF SameCounts
  <1>5. ASSUME NEW r \in Run, Release(r) PROVE \A s \in Schedules : Frees(s)
    <2> DEFINE q == sched[r[1]].reserved \ {r}
               c == [sched[r[1]] EXCEPT !.reserved = q]
    <2>1. r[1] \in Schedules /\ Put(r[1], c)
      BY <1>5, RunParts DEF Release
    <2>2. SameCounts(c, q, sched[r[1]])
      BY <2>1, EditsKeepCounts
    <2>3. q \subseteq sched[r[1]].reserved
      OBVIOUS
    <2> HIDE DEF c
    <2> QED
      BY <1>2, <2>1, <2>2, <2>3 DEF SameCounts
  <1>6. ASSUME NEW r \in Run, FireSave(r) PROVE \A s \in Schedules : Frees(s) \/ Reserves(s)
    <2>1. CASE UNCHANGED sched
      BY <1>1, <2>1
    <2>2. CASE task[r] = "save" /\ r \in freshTask
               /\ \E t \in nextScheduleTime(started[r]) : Put(r[1], Reserved(sched[r[1]], r, t))
      <3>1. PICK t \in nextScheduleTime(started[r]) : Put(r[1], Reserved(sched[r[1]], r, t))
        BY <2>2
      <3>2. t \in Times /\ r[1] \in Schedules
        BY <3>1, NextTimes, RunParts, ScheduleParts DEF ClocksOK
      <3>3. /\ sched'[r[1]] = Reserved(sched[r[1]], r, t)
            /\ \A s \in Schedules \ {r[1]} : sched'[s] = sched[s]
        BY <3>1, <3>2 DEF Put
      <3>4. Reserves(r[1])
        BY <2>2, <3>2, <3>3, ReservedType DEF Reserves
      <3> QED
        BY <3>3, <3>4 DEF Frees
    <2> QED
      BY <1>6, <2>1, <2>2 DEF FireSave
  <1>7. ASSUME NEW z \in Schedules, TickWalk(z) PROVE \A s \in Schedules : Frees(s)
    <2>1. CASE UNCHANGED sched
      BY <1>1, <2>1
    <2>2. ASSUME z \in freshTick, NEW t,
                 Put(z, IF LimitReached(tickList[z], tickTime)
                          THEN [tickList[z] EXCEPT !.status = "completed", !.next = NoTime]
                          ELSE [tickList[z] EXCEPT !.next = t])
          PROVE  \A s \in Schedules : Frees(s)
      <3>1. tickList[z] = sched[z]
        BY <1>7, <2>2, ScheduleParts DEF TickWalk, TickCopiesAgree
      <3> DEFINE d == [sched[z] EXCEPT !.status = "completed", !.next = NoTime]
                 e == [sched[z] EXCEPT !.next = t]
                 c == IF LimitReached(tickList[z], tickTime) THEN d ELSE e
      <3>2. Put(z, c)
        BY <2>2, <3>1
      <3>3. /\ SameCounts(d, sched[z].reserved, sched[z])
            /\ SameCounts(e, sched[z].reserved, sched[z])
        BY EditsKeepCounts
      <3> HIDE DEF d, e
      <3>4. SameCounts(c, sched[z].reserved, sched[z])
        BY <3>3
      <3> HIDE DEF c
      <3> QED
        BY <1>2, <3>2, <3>4 DEF SameCounts
    <2> QED
      BY <1>7, <2>1, <2>2 DEF TickWalk, Keep, recordVars
  <1>8. ASSUME NEW r \in Run, FireRelease(r) \/ \E a \in Actors : CompleteRelease(a, r)
        PROVE  \A s \in Schedules : Frees(s)
    BY <1>1, <1>5, <1>8 DEF FireRelease, CompleteRelease, Keep
  <1>9. ASSUME NEW r \in Run,
               \/ RunOnce(r) \/ FireCheck(r) \/ FireRead(r) \/ FireCreate(r) \/ FireDispatch(r)
               \/ FireSettles(r) \/ FirePrune(r) \/ TaskFails(r) \/ Observe(r) \/ Resolve(r)
               \/ RecoverRun(r) \/ AgentEnds(r)
               \/ \E a \in Actors : Complete(a, r) \/ CompletePrune(a, r) \/ CompletionFails(a, r)
        PROVE  UNCHANGED sched
    BY <1>9
    DEF RunOnce, FireCheck, FireRead, FireCreate, FireDispatch, FireSettles, FirePrune, TaskFails,
        Observe, Resolve, RecoverRun, AgentEnds, Complete, CompletePrune, CompletionFails, recordVars
  <1>10. ASSUME \/ UNCHANGED vars \/ Close \/ Crash \/ Start \/ Advance
                \/ TickBegin \/ TickLists \/ TickEnd
                \/ \E z \in Schedules : DeleteHistory(z)
         PROVE  UNCHANGED sched
    BY <1>10
    DEF vars, Close, Crash, Start, Advance, TickBegin, TickLists, TickEnd, DeleteHistory, recordVars
  <1> QED
    BY <1>1, <1>3, <1>4, <1>6, <1>7, <1>8, <1>9, <1>10
    DEF Next, TickNext, TaskNext, CompletionNext

LEMMA OnlyDue ==
  ASSUME ScheduleIInv, [Next]_vars, NEW r \in Run, Automatic(r),
         r \notin sched[r[1]].reserved, r \in sched'[r[1]].reserved
  PROVE  sched[r[1]].status = "active" /\ sched[r[1]].next = r[2]
  <1>1. r[1] \in Schedules
    BY RunParts
  <1>2. Reserves(r[1])
    BY <1>1, WritesAre DEF Frees
  <1>3. r \in freshTask /\ task[r] = "save"
    BY <1>2 DEF Reserves
  <1> QED
    BY <1>3, ScheduleParts DEF SaveOK, Superseded

LEMMA WithinRunLimit ==
  ASSUME ScheduleIInv, [Next]_vars, NEW s \in Schedules, sched'[s].total > sched[s].total
  PROVE  sched[s].maxRuns = NoLimit \/ sched'[s].total <= sched[s].maxRuns
  <1>1. sched[s].total \in Nat /\ sched[s].maxRuns \in Nat \cup {NoLimit}
    BY SchedTypes DEF ScheduleState
  <1>2. ~(sched'[s].total <= sched[s].total) \/ Reserves(s)
    <2>1. CASE Reserves(s)
      BY <2>1
    <2>2. CASE sched'[s].total \in Int
      BY <1>1, <2>2
    <2>3. sched'[s].total \in Int
      <3>1. ScheduleIInv'
        BY ScheduleInductive
      <3> QED
        BY <3>1 DEF ScheduleIInv, TypeOK, ScheduleState
    <2> QED
      BY <2>2, <2>3
  <1>3. Reserves(s)
    BY <1>2, WritesAre DEF Frees
  <1>4. PICK r \in freshTask : /\ r \in Run /\ r[1] = s /\ task[r] = "save"
                               /\ sched'[s].total = sched[s].total + 1
    BY <1>3 DEF Reserves
  <1>5. sched[s].maxRuns = NoLimit \/ sched[s].total < sched[s].maxRuns
    BY <1>4, ScheduleParts DEF SaveOK
  <1>6. CASE sched[s].maxRuns = NoLimit
    BY <1>6
  <1>7. CASE sched[s].maxRuns # NoLimit
    BY <1>1, <1>4, <1>5, <1>7
  <1> QED
    BY <1>6, <1>7

\* Nothing is acknowledged before the reservation or the record of the run is
\* in the store.
LEMMA AcknowledgesDurably ==
  ASSUME ScheduleIInv, [Next]_vars, NEW r \in acked', r \notin acked
  PROVE  r \in sched'[r[1]].reserved \/ phase'[r] # "none"
  <1> USE RunParts
  <1>1. ASSUME NEW q \in Run, Prepared(q) PROVE r = q /\ q \in waiting
    BY <1>1 DEF Prepared
  <1>2. ASSUME NEW q \in Run, RunOnce(q) PROVE FALSE
    BY <1>2, ScheduleParts DEF RunOnce, WaitOK
  <1>3. ASSUME NEW q \in Run, FireCheck(q) PROVE phase'[r] # "none"
    BY <1>1, <1>3 DEF FireCheck, recordVars
  <1>4. ASSUME NEW q \in Run, FireRead(q) PROVE r \in sched'[r[1]].reserved
    <2>1. sched' = sched /\ Prepared(q) /\ (Superseded(q) \/ q \in sched[q[1]].reserved)
      BY <1>4 DEF FireRead, PreparationFailed
    <2>2. r = q /\ q \in waiting
      BY <1>1, <2>1
    <2>3. ~Automatic(q)
      BY <2>2, ScheduleParts DEF WaitOK
    <2> QED
      BY <2>1, <2>2, <2>3 DEF Superseded
  <1>5. ASSUME NEW q \in Run, FireCreate(q) PROVE phase'[r] # "none"
    <2>1. Prepared(q) /\ phase' = [phase EXCEPT ![q] = "dispatching"]
      BY <1>5 DEF FireCreate, PreparationFailed
    <2>2. r = q
      BY <1>1, <2>1
    <2> QED
      BY <2>1, <2>2, ScheduleParts DEF TypeOK
  <1>6. ASSUME NEW q \in Run,
               \/ FireSave(q) \/ FireDispatch(q) \/ FireSettles(q) \/ FireRelease(q)
               \/ FirePrune(q) \/ TaskFails(q) \/ Observe(q) \/ Resolve(q) \/ RecoverRun(q)
               \/ AgentEnds(q)
        PROVE  FALSE
    BY <1>6
    DEF FireSave, FireDispatch, FireSettles, FireRelease, FirePrune, TaskFails, Observe, Resolve,
        RecoverRun, AgentEnds, PreparationFailed, historyVars
  <1>7. ASSUME NEW q \in Run, NEW a \in Actors, CompletionNext(a, q) \/ CompletionFails(a, q)
        PROVE  FALSE
    BY <1>7 DEF CompletionNext, Complete, CompleteRelease, CompletePrune, CompletionFails,
                historyVars
  <1>8. ASSUME NEW s \in Schedules, Request(s) \/ DeleteHistory(s) \/ RecoverSchedule(s)
        PROVE  FALSE
    BY <1>8
    DEF Request, Create, Pause, Resume, Update, setConcurrency, Delete, Edit, DeleteHistory,
        RecoverSchedule, historyVars
  <1>9. ASSUME UNCHANGED vars \/ TickNext \/ Close \/ Crash \/ Start \/ Advance PROVE FALSE
    BY <1>9
    DEF vars, TickNext, TickBegin, TickLists, TickWalk, TickPasses, TickEnd, Close, Crash, Start,
        Advance, historyVars
  <1> QED
    BY <1>2, <1>3, <1>4, <1>5, <1>6, <1>7, <1>8, <1>9 DEF Next, TaskNext

\* A fire reserves only the occurrence its schedule waits for, and within the
\* run limit, however edits, other fires and the poll come between its reading
\* and its write; a run-once request is told of a run only when the store has it.
THEOREM ReservationsAreHonoured == Spec => ReservationsHonoured
  <1>1. ScheduleIInv => TypeOK
    BY DEF ScheduleIInv
  <1>2. ScheduleIInv /\ [Next]_vars =>
          [\A r \in Run :
             (Automatic(r) /\ r \notin sched[r[1]].reserved
                           /\ r \in sched'[r[1]].reserved) =>
               sched[r[1]].status = "active" /\ sched[r[1]].next = r[2]]_vars
    BY OnlyDue
  <1>3. ScheduleIInv /\ [Next]_vars =>
          [\A s \in Schedules :
             sched'[s].total > sched[s].total =>
               sched[s].maxRuns = NoLimit \/ sched'[s].total <= sched[s].maxRuns]_vars
    BY WithinRunLimit
  <1>4. ScheduleIInv /\ [Next]_vars =>
          [\A r \in acked' \ acked :
             r \in sched'[r[1]].reserved \/ phase'[r] # "none" \/ sent[r] > 0]_vars
    BY AcknowledgesDurably
  <1> QED
    BY <1>1, <1>2, <1>3, <1>4, ScheduleInvariant, PTL
    DEF Spec, ReservationsHonoured, OnlyTheDueOccurrenceFires, RunLimitRespected,
        AcknowledgedIsDurable

-----------------------------------------------------------------------------
(* The Forbid policy.                                                       *)

LEMMA SlotsKept ==
  ASSUME ScheduleIInv, [Next]_vars, Policies = {"Forbid"}, \A s \in Schedules : SlotOK(s)
  PROVE  \A s \in Schedules : SlotOK(s)'
  <1> SUFFICES ASSUME NEW s \in Schedules PROVE SlotOK(s)'
    OBVIOUS
  <1>1. sched[s].concurrency = "Forbid" /\ \A p, q \in sched[s].reserved : p = q
    BY DEF SlotOK
  <1>2. CASE Frees(s)
    BY <1>1, <1>2 DEF Frees, SlotOK
  <1>3. CASE Reserves(s)
    <2>1. PICK r \in freshTask :
            /\ r \in Run /\ r[1] = s /\ task[r] = "save"
            /\ sched'[s].reserved = sched[s].reserved \cup {r}
            /\ sched'[s].concurrency = sched[s].concurrency
      BY <1>3 DEF Reserves
    <2>2. sched[s].reserved = {}
      BY <1>1, <2>1, ScheduleParts DEF SaveOK
    <2> QED
      BY <1>1, <2>1, <2>2 DEF SlotOK
  <1> QED
    BY <1>2, <1>3, WritesAre

\* A run that nothing but its slot, its task or a later end happens to.
LEMMA LiveKept ==
  ASSUME NEW r \in Run, LiveOK(r), agent'[r] = "live" => agent[r] = "live",
         agent'[r] = "live" => (phase'[r] = phase[r] \/ phase'[r] \in Outstanding),
         \A a \in Actors : completion'[a][r] = "complete" => completion[a][r] = "complete"
  PROVE  LiveOK(r)'
  BY DEF LiveOK

\* Runs are deleted when they are finished, or with a schedule nothing
\* outstanding belongs to.
LEMMA DeletionsSpareLive ==
  ASSUME NEW D, DeleteRuns(D), \A r \in D \cap Run : phase[r] \notin Outstanding,
         \A r \in Run : LiveOK(r), UNCHANGED agent,
         \A r \in Run, a \in Actors :
           completion'[a][r] = "complete" => completion[a][r] = "complete"
  PROVE  \A r \in Run : LiveOK(r)'
  <1> SUFFICES ASSUME NEW r \in Run PROVE LiveOK(r)'
    OBVIOUS
  <1>1. phase'[r] = IF r \in D THEN "none" ELSE phase[r]
    BY DEF DeleteRuns
  <1>2. CASE r \in D
    BY <1>2 DEF LiveOK
  <1>3. CASE r \notin D
    BY <1>1, <1>3, LiveKept
  <1> QED
    BY <1>2, <1>3

LEMMA LiveTaskSteps ==
  ASSUME ScheduleIInv, \A r \in Run : LiveOK(r), NEW q \in Run, TaskNext(q)
  PROVE  \A r \in Run : LiveOK(r)'
  <1>1. /\ phase \in [Run -> Phases] /\ agent \in [Run -> {"none", "live", "ended"}]
        /\ "observer" \in Actors /\ "operator" \in Actors /\ Actors = {"observer", "operator"}
    BY ScheduleParts DEF TypeOK, Actors
  <1>2. CASE FireCheck(q) \/ FireRead(q) \/ FireSave(q) \/ FireRelease(q)
    <2>1. UNCHANGED <<phase, agent, completion>>
      BY <1>2 DEF FireCheck, FireRead, FireSave, FireRelease, recordVars, worldVars
    <2> QED
      BY <2>1, LiveKept
  <1>3. CASE FireCreate(q)
    <2>1. phase' = [phase EXCEPT ![q] = "dispatching"] /\ UNCHANGED <<agent, completion>>
      BY <1>3 DEF FireCreate, worldVars
    <2>2. \A r \in Run : phase'[r] = phase[r] \/ phase'[r] \in Outstanding
      BY <1>1, <2>1 DEF Outstanding
    <2> QED
      BY <2>1, <2>2, LiveKept
  <1>4. CASE FireDispatch(q)
    <2>1. /\ phase[q] = "dispatching" /\ UNCHANGED <<phase, completion>>
          /\ \A r \in Run \ {q} : agent'[r] = agent[r]
      BY <1>1, <1>4, ScheduleParts DEF FireDispatch, RunOK, recordVars
    <2>2. LiveOK(q)'
      <3>1. \A a \in Actors : completion[a][q] # "complete"
        BY <1>1, <2>1, ScheduleParts DEF RunOK
      <3> QED
        BY <2>1, <3>1 DEF LiveOK, Outstanding
    <2> QED
      BY <2>1, <2>2, LiveKept
  <1>5. CASE FireSettles(q)
    <2>1. PICK p \in Phases, step \in TaskSteps :
            FireOutcome(q, p, step) /\ phase' = [phase EXCEPT ![q] = p]
      BY <1>5 DEF FireSettles
    <2>2. UNCHANGED <<agent, completion>>
      BY <1>5 DEF FireSettles, worldVars
    <2>3. agent[q] = "live" => p \in Outstanding
      BY <2>1 DEF FireOutcome, Outstanding
    <2>4. \A r \in Run : agent[r] = "live" => (phase'[r] = phase[r] \/ phase'[r] \in Outstanding)
      BY <1>1, <2>1, <2>3
    <2> QED
      BY <2>2, <2>4, LiveKept
  <1>6. CASE FirePrune(q)
    <2>1. PICK D \in Pruned(q[1]) : DeleteRuns(D) /\ UNCHANGED <<agent, completion>>
      BY <1>6 DEF FirePrune, worldVars
    <2>2. \A r \in D : phase[r] \notin Outstanding
      BY <2>1 DEF Pruned, Finished, Outstanding
    <2> QED
      BY <2>1, <2>2, DeletionsSpareLive
  <1> QED
    BY <1>2, <1>3, <1>4, <1>5, <1>6 DEF TaskNext

LEMMA LiveCompletionSteps ==
  ASSUME ScheduleIInv, \A r \in Run : LiveOK(r), "gaveUp" \notin Faults, NEW q \in Run,
         \/ Observe(q) \/ Resolve(q)
         \/ \E a \in Actors : CompletionNext(a, q) \/ CompletionFails(a, q)
  PROVE  \A r \in Run : LiveOK(r)'
  <1>1. /\ "observer" \in Actors /\ "operator" \in Actors /\ phase \in [Run -> Phases]
        /\ {"complete", "none", "release", "prune"} \subseteq CompletionSteps
    BY ScheduleParts DEF TypeOK, Actors, CompletionSteps
  <1>2. ASSUME NEW a \in Actors, NEW step \in CompletionSteps, CompletionStep(a, q, step),
               step = "complete" => agent[q] # "live", UNCHANGED agent,
               \A r \in Run : phase'[r] # phase[r] => r = q /\ agent[q] # "live"
        PROVE  \A r \in Run : LiveOK(r)'
    <2>1. /\ completion'[a][q] = step
          /\ \A b \in Actors \ {a} : completion'[b][q] = completion[b][q]
          /\ \A r \in Run \ {q} : \A b \in Actors : completion'[b][r] = completion[b][r]
      BY <1>2, CompletionIs
    <2>2. LiveOK(q)'
      BY <1>2, <2>1 DEF LiveOK
    <2> QED
      BY <1>2, <2>1, <2>2, LiveKept
  <1>3. CASE Observe(q)
    BY <1>1, <1>2, <1>3 DEF Observe, recordVars, worldVars
  <1>4. CASE Resolve(q)
    BY <1>1, <1>2, <1>4 DEF Resolve, recordVars, worldVars
  <1>5. ASSUME NEW a \in Actors, Complete(a, q) PROVE \A r \in Run : LiveOK(r)'
    <2>1. PICK step \in {"none", "release"} : CompletionStep(a, q, step)
      BY <1>5 DEF Complete
    <2>2. agent[q] # "live"
      BY <1>5 DEF Complete, LiveOK
    <2>3. \A r \in Run : phase'[r] # phase[r] => r = q
      BY <1>1, <1>5 DEF Complete
    <2>4. UNCHANGED agent
      BY <1>5 DEF Complete, worldVars
    <2> QED
      BY <1>1, <1>2, <2>1, <2>2, <2>3, <2>4
  <1>6. ASSUME NEW a \in Actors, CompleteRelease(a, q) \/ CompletionFails(a, q)
        PROVE  \A r \in Run : LiveOK(r)'
    <2>1. \E step \in {"none", "prune"} : CompletionStep(a, q, step)
      BY <1>6 DEF CompleteRelease, CompletionFails
    <2>2. UNCHANGED <<agent, phase>>
      BY <1>6 DEF CompleteRelease, CompletionFails, recordVars, worldVars
    <2> QED
      BY <1>1, <1>2, <2>1, <2>2
  <1>7. ASSUME NEW a \in Actors, CompletePrune(a, q) PROVE \A r \in Run : LiveOK(r)'
    <2>1. PICK D \in Pruned(q[1]) : DeleteRuns(D)
      BY <1>7 DEF CompletePrune
    <2>2. \A r \in D : phase[r] \notin Outstanding
      BY <2>1 DEF Pruned, Finished, Outstanding
    <2>3. UNCHANGED agent /\ CompletionStep(a, q, "none")
      BY <1>7 DEF CompletePrune, worldVars
    <2>4. \A r \in Run, b \in Actors :
            completion'[b][r] = "complete" => completion[b][r] = "complete"
      <3>1. /\ completion'[a][q] = "none"
            /\ \A b \in Actors \ {a} : completion'[b][q] = completion[b][q]
            /\ \A r \in Run \ {q} : \A b \in Actors : completion'[b][r] = completion[b][r]
        BY <1>1, <1>7, <2>3, CompletionIs
      <3> QED
        BY <3>1
    <2> QED
      BY <2>1, <2>2, <2>3, <2>4, DeletionsSpareLive
  <1> QED
    BY <1>3, <1>4, <1>5, <1>6, <1>7 DEF CompletionNext

LEMMA LiveInductive ==
  ASSUME ScheduleIInv, [Next]_vars, "gaveUp" \notin Faults, \A r \in Run : LiveOK(r)
  PROVE  \A r \in Run : LiveOK(r)'
  <1>1. /\ phase \in [Run -> Phases] /\ agent \in [Run -> {"none", "live", "ended"}]
        /\ completion \in [Actors -> [Run -> CompletionSteps]] /\ "observer" \in Actors
    BY ScheduleParts DEF TypeOK, Actors
  <1>2. ASSUME UNCHANGED <<phase, agent, completion>> PROVE \A r \in Run : LiveOK(r)'
    BY <1>2, LiveKept
  <1>3. ASSUME NEW s \in Schedules, Request(s) \/ RecoverSchedule(s)
        PROVE  \A r \in Run : LiveOK(r)'
    BY <1>2, <1>3
    DEF Request, Create, Pause, Resume, Update, setConcurrency, Delete, Edit, RecoverSchedule,
        worldVars
  <1>4. ASSUME NEW s \in Schedules, DeleteHistory(s) PROVE \A r \in Run : LiveOK(r)'
    <2>1. PICK D \in SUBSET RunsOf(s) : DeleteRuns(D)
      BY <1>4 DEF DeleteHistory
    <2>2. s \in purging /\ UNCHANGED <<agent, completion>>
      BY <1>4 DEF DeleteHistory, worldVars
    <2>3. sched[s].reserved = {}
      BY <2>2, ScheduleParts DEF ScheduleOK, Exists
    <2>4. \A r \in D : phase[r] \notin Outstanding
      BY <2>1, <2>3, RunParts, ScheduleParts DEF RunOK
    <2> QED
      BY <2>1, <2>2, <2>4, DeletionsSpareLive
  <1>5. ASSUME NEW q \in Run, RunOnce(q) \/ TaskFails(q) PROVE \A r \in Run : LiveOK(r)'
    BY <1>2, <1>5 DEF RunOnce, TaskFails, recordVars, worldVars
  <1>6. ASSUME NEW q \in Run, RecoverRun(q) PROVE \A r \in Run : LiveOK(r)'
    <2>1. phase' = [phase EXCEPT ![q] = "unknown"] /\ UNCHANGED <<agent, completion>>
      BY <1>6 DEF RecoverRun, worldVars
    <2>2. \A r \in Run : phase'[r] = phase[r] \/ phase'[r] \in Outstanding
      BY <1>1, <2>1 DEF Outstanding
    <2> QED
      BY <2>1, <2>2, LiveKept
  <1>7. ASSUME NEW q \in Run, AgentEnds(q) PROVE \A r \in Run : LiveOK(r)'
    <2>1. agent' = [agent EXCEPT ![q] = "ended"] /\ UNCHANGED <<phase, completion>>
      BY <1>7 DEF AgentEnds, recordVars
    <2>2. \A r \in Run : agent'[r] = "live" => agent[r] = "live"
      BY <1>1, <2>1
    <2> QED
      BY <2>1, <2>2, LiveKept
  <1>8. CASE Crash
    <2>1. /\ UNCHANGED <<phase, agent>>
          /\ \A r \in Run, a \in Actors : completion'[a][r] # "complete"
      BY <1>8 DEF Crash, recordVars, worldVars
    <2> QED
      BY <2>1, LiveKept
  <1>9. CASE TickBegin
    <2>1. /\ UNCHANGED <<phase, agent>>
          /\ \E O \in SUBSET Run : completion' = [completion EXCEPT !["observer"] =
               [r \in Run |-> IF r \in O THEN "observe" ELSE completion["observer"][r]]]
      BY <1>9 DEF TickBegin, recordVars, worldVars
    <2>2. \A r \in Run, a \in Actors :
            completion'[a][r] = "complete" => completion[a][r] = "complete"
      BY <1>1, <2>1
    <2> QED
      BY <2>1, <2>2, LiveKept
  <1>10. ASSUME \/ UNCHANGED vars \/ TickLists \/ TickEnd \/ Close \/ Start \/ Advance
                \/ \E s \in Schedules : TickWalk(s)
         PROVE  \A r \in Run : LiveOK(r)'
    BY <1>2, <1>10
    DEF vars, TickLists, TickEnd, Close, Start, Advance, TickWalk, TickPasses, recordVars, worldVars
  <1> QED
    BY <1>3, <1>4, <1>5, <1>6, <1>7, <1>8, <1>9, <1>10, LiveTaskSteps, LiveCompletionSteps
    DEF Next, TickNext

\* "Forbid ... prevents a new fire while a previous run is running or has an
\* unknown dispatch outcome": a live agent keeps its run's slot, whatever
\* crashes, edits and unclear dispatches come between, unless a workspace is
\* given up and its run reported as ended.
THEOREM ForbidIsKept ==
  "gaveUp" \notin Faults /\ Policies = {"Forbid"} => (Spec => []ForbidNeverOverlaps)
  <1> SUFFICES ASSUME "gaveUp" \notin Faults, Policies = {"Forbid"}
               PROVE  Spec => []ForbidNeverOverlaps
    OBVIOUS
  <1>1. Init => ForbidIInv
    <2>1. Init => \A r \in Run : LiveOK(r)
      BY DEF Init, LiveOK, Actors
    <2>2. Init => \A s \in Schedules : SlotOK(s)
      BY DEF Init, SlotOK, NoSchedule
    <2> QED
      BY <2>1, <2>2, ScheduleInitial DEF ForbidIInv
  <1>2. ForbidIInv /\ [Next]_vars => ForbidIInv'
    <2> SUFFICES ASSUME ForbidIInv, [Next]_vars PROVE ForbidIInv'
      OBVIOUS
    <2>1. ScheduleIInv /\ (\A r \in Run : LiveOK(r)) /\ (\A s \in Schedules : SlotOK(s))
      BY DEF ForbidIInv
    <2>2. ScheduleIInv'
      BY <2>1, ScheduleInductive
    <2>3. \A r \in Run : LiveOK(r)'
      BY <2>1, LiveInductive
    <2>4. \A s \in Schedules : SlotOK(s)'
      BY <2>1, SlotsKept
    <2> QED
      BY <2>2, <2>3, <2>4 DEF ForbidIInv
  <1>3. ForbidIInv => ForbidNeverOverlaps
    <2> SUFFICES ASSUME ForbidIInv, NEW s \in Schedules
                 PROVE  Cardinality({r \in RunsOf(s) : agent[r] = "live"}) <= 1
      BY DEF ForbidNeverOverlaps
    <2> DEFINE L == {r \in RunsOf(s) : agent[r] = "live"}
    <2>1. \A r \in L : r \in sched[s].reserved
      BY RunParts, ScheduleParts DEF ForbidIInv, LiveOK, RunOK
    <2>2. \A p, q \in L : p = q
      BY <2>1 DEF ForbidIInv, SlotOK
    <2> HIDE DEF L
    <2>3. CASE L = {}
      <3>1. Cardinality(L) = 0
        BY <2>3, FS_EmptySet
      <3> QED
        BY <3>1 DEF L
    <2>4. CASE L # {}
      <3>1. PICK x : x \in L
        BY <2>4
      <3>2. L = {x}
        BY <2>2, <3>1
      <3>3. Cardinality(L) = 1
        BY <3>2, FS_Singleton
      <3> QED
        BY <3>3 DEF L
    <2> QED
      BY <2>3, <2>4
  <1> QED
    BY <1>1, <1>2, <1>3, PTL DEF Spec
=============================================================================
