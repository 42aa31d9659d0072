-------------------------- MODULE RetainedHistory --------------------------
(***************************************************************************)
(* What is kept of an agent's transcript when its workspace stops:         *)
(* captureRetainedHistory() and the receipt of                             *)
(* src/gateway/retained-history.ts, driven by snapshotInventory() of       *)
(* workspace-operations.ts, and the files that docker/retained-history.mjs *)
(* writes and prunes on the workspace's volume.  Two recorders overlap     *)
(* when an archive and a suspension, or two gateways, record at once.      *)
(*                                                                         *)
(* One agent, whose native timeline has an epoch and rows 1 .. n, served   *)
(* in pages.  A file is named by generation, time and a random UUID, here  *)
(* its recorder: a recorder captures once per tick.                        *)
(***************************************************************************)
EXTENDS Integers, FiniteSets

CONSTANTS
  Recorders,        \* concurrent snapshots
  MaxGeneration,    \* bound: workspace generations
  MaxCaptureTime,   \* bound: ticks of the capture clock
  MaxEpoch,         \* bound: epochs of the timeline
  MaxRows,          \* bound: rows of the timeline
  HistoryPageSize,  \* PAGE_SIZE
  MaxHistoryEntries,\* MAX_ENTRIES, standing for both budgets of an agent
  MaxHistoryFiles   \* MAX_FILES_PER_UID

ASSUME HistoryAssumption ==
  /\ {MaxGeneration, MaxCaptureTime, MaxEpoch, MaxRows, HistoryPageSize,
      MaxHistoryEntries, MaxHistoryFiles} \subseteq Nat \ {0}

VARIABLES
  timeline,         \* the native timeline of the agent
  workspaceGen,     \* metadata.generation of the workspace
  captureClock,     \* Date.now() at captures
  recorder,         \* snapshots in progress
  historyFiles,     \* snapshot files on the volume
  historyReceipt    \* the published receipt

historyVars == <<timeline, workspaceGen, captureClock, recorder, historyFiles,
                 historyReceipt>>

NoFile == [gen |-> 0, at |-> 0, by |-> "nobody"]
Rows == (1 .. MaxEpoch) \X (1 .. MaxRows)
EmptyCapture == [rows |-> {}, first |-> {}, epoch |-> 0, next |-> 0,
                 truncated |-> FALSE]
\* capture -> older* -> peek -> prune -> write -> publish -> swap -> tidy
RecorderSteps == {"idle", "tail", "older", "peek", "prune", "write", "publish",
                  "swap", "tidy"}
Unrecorded == [step |-> "idle", gen |-> 0, at |-> 0, capture |-> EmptyCapture,
               copy |-> NoFile, held |-> FALSE]
FileId == [gen : 1 .. MaxGeneration, at : 1 .. MaxCaptureTime, by : Recorders]
Capture == [rows : SUBSET Rows, first : SUBSET Rows, epoch : 0 .. MaxEpoch,
            next : 0 .. MaxRows + 1, truncated : BOOLEAN]
Recorder == [step : RecorderSteps, gen : 0 .. MaxGeneration, at : 0 .. MaxCaptureTime,
             capture : Capture, copy : FileId \cup {NoFile}, held : BOOLEAN]
Snapshot == [gen : 1 .. MaxGeneration, at : 1 .. MaxCaptureTime, by : Recorders,
             rows : SUBSET Rows, truncated : BOOLEAN]

HistoryInit ==
  /\ timeline = [epoch |-> 1, n |-> 1]
  /\ workspaceGen = 1 /\ captureClock = 1
  /\ recorder = [r \in Recorders |-> Unrecorded]
  /\ historyFiles = {} /\ historyReceipt = NoFile

-----------------------------------------------------------------------------
(* The capture: pages backwards from the tail.                              *)

RecorderGoes(r, step) == [recorder EXCEPT ![r].step = step]
RecorderRests(r) ==
  [recorder EXCEPT ![r] = [Unrecorded EXCEPT !.at = recorder[r].at]]

\* The page of rows before a cursor (after the last row, for the tail).
Page(before) ==
  LET high == IF before > timeline.n THEN timeline.n ELSE before - 1
  IN  {timeline.epoch} \X ((high - HistoryPageSize + 1) .. high \cap 1 .. timeline.n)
Seqs(rows) == {row[2] : row \in rows}
Least(S) == CHOOSE s \in S : \A t \in S : s <= t

BeginCapture(r) ==
  /\ recorder[r].step = "idle" /\ recorder[r].at < captureClock
  /\ recorder' = [recorder EXCEPT ![r].step = "tail", ![r].gen = workspaceGen]
  /\ UNCHANGED <<timeline, workspaceGen, captureClock, historyFiles, historyReceipt>>

\* One page is added: the baseline, or an older one that still belongs to it.
\* The capture stops at the first row or at its budget.
Extended(c, page) ==
  LET first == c.next = 0
      base == IF first THEN [c EXCEPT !.first = page, !.epoch = timeline.epoch,
                                      !.next = timeline.n + 1] ELSE c
      rows == c.rows \cup page
  IN  IF base.epoch # timeline.epoch \/ base.next # timeline.n + 1
      THEN [base EXCEPT !.rows = base.first, !.truncated = TRUE]
      ELSE IF Cardinality(rows) > MaxHistoryEntries
           THEN [base EXCEPT !.truncated = TRUE]
           ELSE [base EXCEPT !.rows = rows]

FetchPage(r) ==
  LET c == recorder[r].capture
      page == IF recorder[r].step = "tail" THEN Page(timeline.n + 1)
              ELSE Page(Least(Seqs(c.rows)))
      next == Extended(c, page)
      done == next.truncated \/ page = {} \/ 1 \in Seqs(page)
  IN  /\ recorder[r].step \in {"tail", "older"}
      /\ recorder' = IF done
           THEN [recorder EXCEPT ![r].step = "peek", ![r].capture = next,
                                 ![r].at = captureClock]
           ELSE [recorder EXCEPT ![r].step = "older", ![r].capture = next]
      /\ UNCHANGED <<timeline, workspaceGen, captureClock, historyFiles,
                     historyReceipt>>

\* The daemon fails or the deadline passes: the baseline page is what is kept.
FetchFails(r) ==
  LET c == recorder[r].capture
  IN  /\ recorder[r].step \in {"tail", "older"}
      /\ recorder' = IF recorder[r].step = "tail" THEN RecorderRests(r)
           ELSE [recorder EXCEPT ![r].step = "peek", ![r].at = captureClock,
                   ![r].capture = [c EXCEPT !.rows = c.first, !.truncated = TRUE]]
      /\ UNCHANGED <<timeline, workspaceGen, captureClock, historyFiles,
                     historyReceipt>>

-----------------------------------------------------------------------------
(* The files and the receipt.                                               *)

NotNewer(f, g) == f.gen < g.gen \/ (f.gen = g.gen /\ f.at <= g.at)
FileName(r) == [gen |-> recorder[r].gen, at |-> recorder[r].at, by |-> r]
NameOf(f) == [gen |-> f.gen, at |-> f.at, by |-> f.by]

\* latestRetainedHistoryReceipt()
PeekReceipt(r) ==
  /\ recorder[r].step = "peek"
  /\ recorder' = [recorder EXCEPT ![r].step = "prune", ![r].copy = historyReceipt]
  /\ UNCHANGED <<timeline, workspaceGen, captureClock, historyFiles, historyReceipt>>

\* Mutant of Pruned: the newest file is the one to keep.
PrunedToNewest(committed) ==
  {f \in historyFiles : \A g \in historyFiles : NotNewer(g, f)}

\* pruneSnapshots(): "never remove the receipt file or a generation/capture
\* newer than it"; without a receipt no finished file goes.
Pruned(committed) ==
  IF committed = NoFile THEN historyFiles
  ELSE {f \in historyFiles : NameOf(f) = committed \/ ~NotNewer(f, committed)}

Prune(r) ==
  LET before == recorder[r].step = "prune"
  IN  /\ recorder[r].step \in {"prune", "tidy"}
      /\ historyFiles' = Pruned(recorder[r].copy)
      /\ recorder' = IF before THEN RecorderGoes(r, "write") ELSE RecorderRests(r)
      /\ UNCHANGED <<timeline, workspaceGen, captureClock, historyReceipt>>

\* writeSnapshot(): a temporary file renamed, refused when there are too many.
\* The command may time out after it has written.
WriteFile(r) ==
  LET c == recorder[r].capture
      file == [gen |-> recorder[r].gen, at |-> recorder[r].at, by |-> r,
               rows |-> c.rows, truncated |-> c.truncated]
      room == Cardinality(historyFiles) < MaxHistoryFiles
  IN  /\ recorder[r].step = "write"
      /\ historyFiles' = IF room THEN historyFiles \cup {file} ELSE historyFiles
      /\ \/ room /\ recorder' = [RecorderGoes(r, "publish") EXCEPT
                                   ![r].capture = EmptyCapture]
         \/ recorder' = RecorderRests(r)
      /\ UNCHANGED <<timeline, workspaceGen, captureClock, historyReceipt>>

\* publishRetainedHistoryReceipt(): a receipt at least as new stays.
ReadReceipt(r) ==
  /\ recorder[r].step = "publish"
  /\ recorder' = [recorder EXCEPT
       ![r].step = IF historyReceipt # NoFile
                      /\ NotNewer(FileName(r), historyReceipt)
                   THEN "tidy" ELSE "swap",
       ![r].copy = historyReceipt, ![r].held = TRUE]
  /\ UNCHANGED <<timeline, workspaceGen, captureClock, historyFiles, historyReceipt>>

\* Create or compare-and-swap; on a conflict it is read again, up to 4 times.
SwapReceipt(r) ==
  /\ recorder[r].step = "swap"
  /\ IF recorder[r].held
     THEN /\ historyReceipt' = FileName(r)
          /\ recorder' = [s \in Recorders |->
               IF s = r THEN [recorder[r] EXCEPT !.step = "tidy", !.copy = FileName(r)]
               ELSE [recorder[s] EXCEPT !.held = FALSE]]
     ELSE /\ historyReceipt' = historyReceipt
          /\ recorder' \in {RecorderGoes(r, "publish"), RecorderRests(r)}
  /\ UNCHANGED <<timeline, workspaceGen, captureClock, historyFiles>>

-----------------------------------------------------------------------------
(* The environment.                                                         *)

TimelineChanges ==
  /\ \/ /\ timeline.n < MaxRows
        /\ timeline' = [timeline EXCEPT !.n = @ + 1]
     \/ /\ timeline.epoch < MaxEpoch
        /\ \E n \in 1 .. timeline.n :
             timeline' = [epoch |-> timeline.epoch + 1, n |-> n]
  /\ UNCHANGED <<workspaceGen, captureClock, recorder, historyFiles, historyReceipt>>

\* Resumed and stopped again: a new generation.
WorkspaceCycles ==
  /\ workspaceGen < MaxGeneration /\ workspaceGen' = workspaceGen + 1
  /\ UNCHANGED <<timeline, captureClock, recorder, historyFiles, historyReceipt>>

CaptureClockTicks ==
  /\ captureClock < MaxCaptureTime /\ captureClock' = captureClock + 1
  /\ UNCHANGED <<timeline, workspaceGen, recorder, historyFiles, historyReceipt>>

\* The gateway dies, or a call fails.
RecorderAborts(r) ==
  /\ recorder[r].step # "idle"
  /\ recorder' = RecorderRests(r)
  /\ UNCHANGED <<timeline, workspaceGen, captureClock, historyFiles, historyReceipt>>

HistoryNext ==
  \/ \E r \in Recorders :
       \/ BeginCapture(r) \/ FetchPage(r) \/ FetchFails(r) \/ PeekReceipt(r)
       \/ Prune(r) \/ WriteFile(r) \/ ReadReceipt(r) \/ SwapReceipt(r)
       \/ RecorderAborts(r)
  \/ TimelineChanges \/ WorkspaceCycles \/ CaptureClockTicks

HistorySpec == HistoryInit /\ [][HistoryNext]_historyVars

-----------------------------------------------------------------------------
(* Properties.                                                              *)

\* The state has its type.
HistoryTypeOK ==
  /\ timeline \in [epoch : 1 .. MaxEpoch, n : 1 .. MaxRows]
  /\ workspaceGen \in 1 .. MaxGeneration /\ captureClock \in 1 .. MaxCaptureTime
  /\ recorder \in [Recorders -> Recorder]
  /\ \A f \in historyFiles : f \in Snapshot
  /\ historyReceipt \in FileId \cup {NoFile}

\* The file the receipt names is on the volume: no recorder that holds an
\* older receipt, or lost the race to publish, prunes it.
ReceiptFileKept ==
  historyReceipt # NoFile => \E f \in historyFiles : NameOf(f) = historyReceipt

Greatest(S) == CHOOSE s \in S : \A t \in S : t <= s

\* A stored transcript is an unbroken end of one timeline, complete unless it
\* says that it was cut, though the timeline grew or restarted meanwhile.
TranscriptIsUnbroken ==
  \A f \in historyFiles :
    f.rows # {} =>
      /\ \A a, b \in f.rows : a[1] = b[1]
      /\ Seqs(f.rows) = Least(Seqs(f.rows)) .. Greatest(Seqs(f.rows))
      /\ ~f.truncated => 1 \in Seqs(f.rows)

\* A receipt is only replaced by that of a later generation or capture.
ReceiptOnlyAdvances ==
  [][historyReceipt # NoFile /\ historyReceipt' # historyReceipt
       => NotNewer(historyReceipt, historyReceipt')]_historyVars

\* The receipt moves forward only, its file stays, and what is stored is an
\* unbroken piece of one transcript.
HistoryKept == [](ReceiptFileKept /\ TranscriptIsUnbroken) /\ ReceiptOnlyAdvances
=============================================================================
