--------------------------- MODULE HistoryReader ---------------------------
(***************************************************************************)
(* Reading the transcript of a stopped workspace: the timeline request of  *)
(* src/gateway/session.ts, and readRetainedHistory() with its reader Pod   *)
(* in src/kubernetes/client.ts.  A request reads the workspace, its        *)
(* receipt, and then, one reader at a time, the file the receipt names     *)
(* through a Pod that mounts the retained claim; the answer goes out only  *)
(* when the workspace has not changed since it was first read.             *)
(*                                                                         *)
(* One workspace, whose versions stand for its resourceVersion.  The file  *)
(* of a receipt is known by the generation it was captured for             *)
(* (RetainedHistory models the capture).  A request creates at most one    *)
(* Pod, so the request stands for the Pod's UID.                           *)
(***************************************************************************)
EXTENDS Integers, FiniteSets

CONSTANTS
  Reads,            \* timeline requests
  NoRead,           \* no Pod
  MaxReaders,       \* activeHistoryReaders' limit (4)
  MaxWsVersion,     \* bound: versions of the workspace
  MaxReaderFaults   \* bound: failed calls, lost answers and crashes

ASSUME ReaderAssumption ==
  /\ NoRead \notin Reads /\ IsFiniteSet(Reads)
  /\ MaxReaders \in Nat \ {0} /\ MaxWsVersion \in Nat \ {0}
  /\ MaxReaderFaults \in Nat

VARIABLES
  stoppable,      \* the workspace: version, generation, running, stopped, stored
  captured,       \* the generation of the receipt; 0: none
  compute,        \* the workspace's Pod: "none", "starting" (checked), "there"
  read,           \* the timeline requests
  activeReaders,  \* activeHistoryReaders
  creating,       \* the creations of reader Pods on their way to the API
  readerPod,      \* the Pod of the workspace's reader: owner and phase
  readerFaults    \* faults so far

readerVars == <<stoppable, captured, compute, read, activeReaders, creating,
                readerPod, readerFaults>>

ReadSteps == {"none", "agent", "receipt", "queued", "inspect", "recheck",
              "create", "startup", "verify", "exec", "cleanup", "final", "done"}
Stopped == [version |-> 1, generation |-> 1, running |-> FALSE,
            stopped |-> TRUE, stored |-> TRUE]
\* seen: the workspace first read; after: the reads whose turns come before;
\* owns: readerUid is known; late: past the deadline, or the session closed;
\* got, shown: the generation of the history read, and of the one answered.
NewRead == [step |-> "none", seen |-> Stopped, after |-> {}, owns |-> FALSE,
            late |-> FALSE, got |-> 0, shown |-> 0]
NoPod == [owner |-> NoRead, phase |-> "none"]

Stoppable == [version : 1..MaxWsVersion, generation : 1..MaxWsVersion,
              running : BOOLEAN, stopped : BOOLEAN, stored : BOOLEAN]
Read == [step : ReadSteps, seen : Stoppable, after : SUBSET Reads, owns : BOOLEAN,
         late : BOOLEAN, got : 0..MaxWsVersion, shown : 0..MaxWsVersion]
ReaderPod == [owner : Reads \cup {NoRead},
              phase : {"none", "starting", "running", "ended", "terminating"}]

\* Between activeHistoryReaders++ and its decrement.
Admitted(r) == read[r].step \in {"queued", "inspect", "recheck", "create",
                                 "startup", "verify", "exec", "cleanup"}
\* In its turn: at work on the Pod.
Reading(r) == \/ read[r].step \in {"inspect", "recheck", "create", "startup",
                                   "verify", "exec"}
              \/ read[r].step = "cleanup" /\ read[r].owns

ReaderInit ==
  /\ stoppable = Stopped
  /\ captured = 1 /\ compute = "none"
  /\ read = [r \in Reads |-> NewRead]
  /\ activeReaders = 0 /\ creating = {}
  /\ readerPod = NoPod
  /\ readerFaults = 0

-----------------------------------------------------------------------------
(* The workspace and its controller.                                        *)

ChangeWorkspace(changes) ==
  /\ stoppable.version < MaxWsVersion
  /\ stoppable' = [changes EXCEPT !.version = @ + 1]

\* spec.residency is written: a new generation, not yet observed.
ChangeResidency ==
  /\ stoppable.stored
  /\ ChangeWorkspace([stoppable EXCEPT !.running = ~@, !.stopped = FALSE,
                                       !.generation = @ + 1])
  /\ UNCHANGED <<captured, compute, read, activeReaders, creating, readerPod,
                 readerFaults>>

\* The controller starts the Pod only when it has seen no reader; the
\* creation comes later, whatever happened to the workspace meanwhile.
ControllerChecksReader ==
  /\ stoppable.running /\ compute = "none" /\ readerPod.phase = "none"
  /\ compute' = "starting"
  /\ UNCHANGED <<stoppable, captured, read, activeReaders, creating, readerPod,
                 readerFaults>>

ControllerStartsPod ==
  /\ compute = "starting" /\ compute' = "there"
  /\ UNCHANGED <<stoppable, captured, read, activeReaders, creating, readerPod,
                 readerFaults>>

\* The transcript is captured, or not, before the Pod goes.
ControllerStopsPod ==
  /\ ~stoppable.running /\ compute = "there"
  /\ compute' = "none"
  /\ captured' \in {captured, stoppable.generation}
  /\ UNCHANGED <<stoppable, read, activeReaders, creating, readerPod,
                 readerFaults>>

\* A stop completes when neither Pod is there.
StopCompletes ==
  /\ ~stoppable.running /\ ~stoppable.stopped
  /\ compute = "none" /\ readerPod.phase = "none"
  /\ ChangeWorkspace([stoppable EXCEPT !.stopped = TRUE])
  /\ UNCHANGED <<captured, compute, read, activeReaders, creating, readerPod,
                 readerFaults>>

\* The storage of an archived workspace is released, with its last reader.
StorageReleased ==
  /\ stoppable.stopped /\ stoppable.stored /\ readerPod.phase = "none"
  /\ ChangeWorkspace([stoppable EXCEPT !.stored = FALSE])
  /\ UNCHANGED <<captured, compute, read, activeReaders, creating, readerPod,
                 readerFaults>>

WorkspaceStep ==
  \/ ChangeResidency \/ ControllerChecksReader \/ ControllerStartsPod
  \/ ControllerStopsPod \/ StopCompletes \/ StorageReleased

-----------------------------------------------------------------------------
(* The timeline request.                                                    *)

ReadGoes(r, step) == [read EXCEPT ![r].step = step]
\* What a finished request knew is dropped with it.
ReadEnds(r, history) ==
  [read EXCEPT ![r] = [NewRead EXCEPT !.step = "done", !.shown = history]]
ReaderFault == readerFaults < MaxReaderFaults /\ readerFaults' = readerFaults + 1

\* dispatch() reads the records; a running workspace is asked itself.
AskTimeline(r) ==
  /\ read[r].step = "none"
  /\ ~stoppable.running
  /\ read' = [ReadGoes(r, "agent") EXCEPT ![r].seen = stoppable]
  /\ UNCHANGED <<stoppable, captured, compute, activeReaders, creating,
                 readerPod, readerFaults>>

\* Mutant of StillRetained: the workspace may have been resumed meanwhile.
StillStored(r) == stoppable.stored

\* retainedTimelineAgent(): the workspace is still the version first read.
StillRetained(r) ==
  /\ stoppable.version = read[r].seen.version
  /\ stoppable.stored

CheckAgent(r) ==
  /\ read[r].step = "agent"
  /\ read' = IF StillRetained(r) THEN ReadGoes(r, "receipt") ELSE ReadEnds(r, 0)
  /\ UNCHANGED <<stoppable, captured, compute, activeReaders, creating,
                 readerPod, readerFaults>>

\* The turns the tail of the workspace's promises still waits for.
TurnsBefore(r) == {q \in Reads \ {r} : Admitted(q)}

\* The receipt is of the generation first read, or there is none; then
\* readRetainedHistory() up to its first await.
ReadCapture(r) ==
  /\ read[r].step = "receipt"
  /\ IF \/ captured # read[r].seen.generation
        \/ ~read[r].seen.stopped \/ activeReaders >= MaxReaders
     THEN read' = ReadGoes(r, "final") /\ UNCHANGED activeReaders
     ELSE /\ activeReaders' = activeReaders + 1
          /\ read' = [ReadGoes(r, IF TurnsBefore(r) = {} THEN "inspect" ELSE "queued")
                        EXCEPT ![r].after = TurnsBefore(r)]
  /\ UNCHANGED <<stoppable, captured, compute, creating, readerPod, readerFaults>>

TurnComes(r) ==
  /\ read[r].step = "queued"
  /\ \A q \in read[r].after : ~Admitted(q)
  /\ read' = [ReadGoes(r, "inspect") EXCEPT ![r].after = {}]
  /\ UNCHANGED <<stoppable, captured, compute, activeReaders, creating,
                 readerPod, readerFaults>>

-----------------------------------------------------------------------------
(* readerPod() and the rest of readRetainedHistory().                       *)

\* No Pod of the name; one that is on its way out is waited for, any other
\* is left alone.
InspectReader(r) ==
  /\ read[r].step = "inspect"
  /\ readerPod.phase # "terminating"
  /\ read' = ReadGoes(r, IF readerPod.phase = "none" /\ stoppable.stored
                         THEN "recheck" ELSE "cleanup")
  /\ UNCHANGED <<stoppable, captured, compute, activeReaders, creating,
                 readerPod, readerFaults>>

\* Nothing of the workspace or its claim has changed: the creation is sent.
RecheckWorkspace(r) ==
  /\ read[r].step = "recheck"
  /\ IF stoppable = read[r].seen
     THEN read' = ReadGoes(r, "create") /\ creating' = creating \cup {r}
     ELSE read' = ReadGoes(r, "cleanup") /\ UNCHANGED creating
  /\ UNCHANGED <<stoppable, captured, compute, activeReaders, readerPod,
                 readerFaults>>

\* The creation arrives, perhaps after its request gave up: then the Pod is
\* deleted again as soon as the answer is back.  The name may be taken, and
\* either answer, or the deletion, may be lost.
CreateLands(r) ==
  /\ r \in creating /\ creating' = creating \ {r}
  /\ LET free == readerPod.phase = "none"
         waits == read[r].step = "create"
     IN \/ /\ free /\ waits
           /\ readerPod' = [owner |-> r, phase |-> "starting"]
           /\ read' = [ReadGoes(r, "startup") EXCEPT ![r].owns = TRUE]
           /\ UNCHANGED readerFaults
        \/ /\ free /\ ~waits
           /\ readerPod' = [owner |-> r, phase |-> "terminating"]
           /\ UNCHANGED <<read, readerFaults>>
        \/ /\ free /\ ReaderFault
           /\ readerPod' = [owner |-> r, phase |-> "starting"]
           /\ read' = IF waits THEN ReadGoes(r, "cleanup") ELSE read
        \/ /\ ~free
           /\ read' = IF waits THEN ReadGoes(r, "cleanup") ELSE read
           /\ UNCHANGED <<readerPod, readerFaults>>
  /\ UNCHANGED <<stoppable, captured, compute, activeReaders>>

\* The Pod is polled until it runs; it may be gone, over, or too slow.
WatchReader(r) ==
  /\ read[r].step = "startup"
  /\ \/ /\ readerPod = [owner |-> r, phase |-> "running"]
        /\ read' = ReadGoes(r, "verify")
     \/ /\ readerPod # [owner |-> r, phase |-> "running"]
        /\ read' = ReadGoes(r, "cleanup")
  /\ UNCHANGED <<stoppable, captured, compute, activeReaders, creating,
                 readerPod, readerFaults>>

\* The workspace has not been resumed while the Pod came up.
VerifyWorkspace(r) ==
  /\ read[r].step = "verify"
  /\ LET same == /\ stoppable.generation = read[r].seen.generation
                 /\ stoppable.running = read[r].seen.running
                 /\ stoppable.stored
     IN read' = ReadGoes(r, IF same THEN "exec" ELSE "cleanup")
  /\ UNCHANGED <<stoppable, captured, compute, activeReaders, creating,
                 readerPod, readerFaults>>

\* The program reads the receipt's file, where the agent may not be; the
\* answer must be of the generation first read.
ExecRead(r) ==
  /\ read[r].step = "exec"
  /\ \/ /\ readerPod.phase = "running" /\ captured = read[r].seen.generation
        /\ read' = [ReadGoes(r, "cleanup") EXCEPT ![r].got = captured]
     \/ read' = ReadGoes(r, "cleanup")
  /\ UNCHANGED <<stoppable, captured, compute, activeReaders, creating,
                 readerPod, readerFaults>>

\* finally: the Pod is deleted by its UID, the turn passes on and the place
\* is free.  A failed deletion is only logged.
CleanUp(r) ==
  /\ read[r].step = "cleanup"
  /\ \/ /\ readerPod' = IF read[r].owns /\ readerPod.owner = r
                        THEN [readerPod EXCEPT !.phase = "terminating"]
                        ELSE readerPod
        /\ UNCHANGED readerFaults
     \/ /\ read[r].owns /\ ReaderFault /\ UNCHANGED readerPod
  /\ read' = IF read[r].late THEN ReadEnds(r, 0) ELSE ReadGoes(r, "final")
  /\ activeReaders' = activeReaders - 1
  /\ UNCHANGED <<stoppable, captured, compute, creating>>

\* The workspace is checked once more against the version first read.
AnswerTimeline(r) ==
  /\ read[r].step = "final"
  /\ read' = ReadEnds(r, IF StillRetained(r) THEN read[r].got ELSE 0)
  /\ UNCHANGED <<stoppable, captured, compute, activeReaders, creating,
                 readerPod, readerFaults>>

\* The deadline of the request passes, or its session closes.
ReadIsLate(r) ==
  /\ read[r].step \notin {"none", "cleanup", "done"}
  /\ read' = IF Admitted(r)
             THEN [ReadGoes(r, "cleanup") EXCEPT ![r].late = TRUE]
             ELSE ReadEnds(r, 0)
  /\ UNCHANGED <<stoppable, captured, compute, activeReaders, creating,
                 readerPod, readerFaults>>

ReadStep(r) ==
  \/ CheckAgent(r) \/ ReadCapture(r) \/ TurnComes(r) \/ InspectReader(r)
  \/ RecheckWorkspace(r) \/ WatchReader(r) \/ VerifyWorkspace(r)
  \/ ExecRead(r) \/ CleanUp(r) \/ AnswerTimeline(r)

-----------------------------------------------------------------------------
(* The Pod, the periodic cleanup, and the process.                          *)

\* The kubelet starts the Pod, ends it after 90 s, and removes a deleted one.
ReaderPodStep ==
  /\ \/ readerPod.phase = "starting" /\ readerPod' = [readerPod EXCEPT !.phase = "running"]
     \/ /\ readerPod.phase \in {"starting", "running"}
        /\ readerPod' = [readerPod EXCEPT !.phase = "ended"]
     \/ readerPod.phase = "terminating" /\ readerPod' = NoPod
  /\ UNCHANGED <<stoppable, captured, compute, read, activeReaders, creating,
                 readerFaults>>

\* cleanupRetainedHistoryReaders() deletes a Pod older than 120 s: the 35 s of
\* the request that created it are over.
CleanupReaders ==
  /\ readerPod.phase \notin {"none", "terminating"}
  /\ ~Admitted(readerPod.owner)
  /\ readerPod' = [readerPod EXCEPT !.phase = "terminating"]
  /\ UNCHANGED <<stoppable, captured, compute, read, activeReaders, creating,
                 readerFaults>>

\* The gateway dies; what it had sent may still arrive, and nobody is left
\* to delete the Pod.
GatewayDies ==
  /\ ReaderFault
  /\ \E r \in Reads : read[r].step \notin {"none", "done"}
  /\ read' = [r \in Reads |->
                IF read[r].step \in {"none", "done"} THEN read[r]
                ELSE [NewRead EXCEPT !.step = "done"]]
  /\ activeReaders' = 0 /\ creating' = {}
  /\ \/ UNCHANGED readerPod
     \/ \E r \in creating : /\ readerPod.phase = "none"
                            /\ readerPod' = [owner |-> r, phase |-> "starting"]
  /\ UNCHANGED <<stoppable, captured, compute>>

ReaderNext ==
  \/ WorkspaceStep
  \/ \E r \in Reads : AskTimeline(r) \/ ReadStep(r) \/ ReadIsLate(r) \/ CreateLands(r)
  \/ ReaderPodStep \/ CleanupReaders \/ GatewayDies

\* Every call ends within its deadline, the kubelet and the controller keep
\* working, and the cleanup runs every 30 s.
ReaderFairness ==
  /\ \A r \in Reads : WF_readerVars(ReadStep(r)) /\ WF_readerVars(CreateLands(r))
                      /\ WF_readerVars(ReadIsLate(r))
  /\ WF_readerVars(readerPod.phase = "terminating" /\ ReaderPodStep)
  /\ WF_readerVars(CleanupReaders)
  /\ WF_readerVars(ControllerChecksReader) /\ WF_readerVars(ControllerStartsPod)

ReaderSpec == ReaderInit /\ [][ReaderNext]_readerVars /\ ReaderFairness

-----------------------------------------------------------------------------
(* Properties.                                                              *)

\* The type of the reader's state.
ReaderTypeOK ==
  /\ stoppable \in Stoppable
  /\ captured \in 0..MaxWsVersion /\ compute \in {"none", "starting", "there"}
  /\ read \in [Reads -> Read]
  /\ activeReaders \in 0..MaxReaders /\ creating \subseteq Reads
  /\ readerPod \in ReaderPod
  /\ readerFaults \in 0..MaxReaderFaults

\* One request at a time has its turn at the workspace's reader, also when a
\* request that waited for its turn gives up (the transitive tail of
\* historyReaderTails), and activeHistoryReaders counts the admitted ones.
ReadersTakeTurns ==
  /\ \A r, q \in Reads : Reading(r) /\ Reading(q) => r = q
  /\ activeReaders = Cardinality({r \in Reads : Admitted(r)})

\* A transcript is answered only while the workspace is stopped, without its
\* Pod and with its storage, and is that of its present generation: neither a
\* resume nor a resume and a second stop may slip in between the reads of
\* one request (the two calls of retainedTimelineAgent()).
ShownHistoryIsCurrent ==
  [][\A r \in Reads : read[r].shown # read'[r].shown =>
        /\ stoppable.stopped /\ stoppable.stored /\ compute = "none"
        /\ read'[r].shown = stoppable.generation]_readerVars

\* No request hangs on its turn, and no reader Pod, whoever lost track of it,
\* keeps a resumed workspace from starting.
ReadersLeave ==
  /\ \A r \in Reads : read[r].step # "none" ~> read[r].step = "done"
  /\ stoppable.running /\ compute = "none" ~> ~stoppable.running \/ compute # "none"

\* Readers take turns, and what one has read is shown only if still true.
ReadersSafe == []ReadersTakeTurns /\ ShownHistoryIsCurrent
=============================================================================
