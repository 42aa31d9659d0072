-------------------------- MODULE ArchiveOperation --------------------------
(***************************************************************************)
(* WorkspaceOperations.archive() of src/gateway/workspace-operations.ts:   *)
(* the gateway's own archive, which tears down a Running workspace before  *)
(* it asks for residency Archived.  It runs in the same process as the     *)
(* controller and races it through the record's resourceVersion.           *)
(***************************************************************************)
EXTENDS TeardownHelper

VARIABLES
  archivePc,  \* where the archive of each workspace is
  resumed     \* archives that found their workspace Suspended

archiveVars == <<archivePc, resumed>>

ArchiveSteps == {"idle", "resume", "ready", "snapshot", "teardown", "await",
                 "undo", "mark", "recheck", "commit"}

ArchiveInit ==
  /\ archivePc = [w \in Workspaces |-> "idle"]
  /\ resumed = {}

GoArchive(w, step) ==
  /\ archivePc' = [archivePc EXCEPT ![w] = step]
  /\ resumed' = IF step = "idle" THEN resumed \ {w} ELSE resumed

\* The archive handler holds a copy of the record; reading renews it.
ReadCopy(w) == fresh' = fresh \cup {<<"archive", w>>}

ArchiveBegin(w) ==
  /\ "archive" \in Faults
  /\ archivePc[w] = "idle"
  /\ rec[w].res # "Archived"
  /\ ReadCopy(w)
  /\ archivePc' = [archivePc EXCEPT
       ![w] = IF rec[w].res = "Suspended" THEN "resume" ELSE "ready"]
  /\ resumed' = IF rec[w].res = "Suspended" THEN resumed \cup {w} ELSE resumed
  /\ UNCHANGED <<rec, sameGeneration, pod, claim, runtime, reader, verified,
                 inventory, hooks, helper, now, runs, stoppedAt, gated>>

\* setResidency on the copy read by archive(): a conflict ends the request.
ArchiveResume(w) ==
  /\ archivePc[w] = "resume"
  /\ IF <<"archive", w>> \in fresh
       THEN WriteResidency(w, "Running") /\ GoArchive(w, "ready")
       ELSE GoArchive(w, "idle") /\ UNCHANGED <<rec, fresh, sameGeneration>>
  /\ UNCHANGED <<pod, claim, runtime, reader, verified, inventory, hooks,
                 helper, now, runs, stoppedAt, gated>>

\* ready() polls the record until it is Ready, Failed, not Running or late.
ArchiveReady(w) ==
  /\ archivePc[w] = "ready"
  /\ \/ /\ rec[w].res = "Running" /\ rec[w].phase = "Ready"
        /\ ReadCopy(w)
        /\ sameGeneration' = sameGeneration \cup {w}
        /\ GoArchive(w, "snapshot")
     \/ /\ \/ rec[w].res # "Running"
           \/ rec[w].phase = "Failed"
           \/ rec[w].phase # "Ready" /\ "timeout" \in Faults
        /\ GoArchive(w, "undo")
        /\ UNCHANGED <<fresh, sameGeneration>>
  /\ UNCHANGED <<rec, pod, claim, runtime, reader, verified, inventory, hooks,
                 helper, now, runs, stoppedAt, gated>>

ArchiveSnapshot(w) ==
  /\ archivePc[w] = "snapshot"
  /\ \/ /\ CanExec(w)
        /\ inventory' = [inventory EXCEPT ![w] = "kept"]
        /\ GoArchive(w, "teardown")
     \/ /\ ~CanExec(w) \/ "snapshot" \in Faults
        /\ GoArchive(w, "undo")
        /\ UNCHANGED inventory
  /\ UNCHANGED <<rec, fresh, sameGeneration, pod, claim, runtime, reader,
                 verified, hooks, helper, now, runs, stoppedAt, gated>>

ArchiveTeardown(w) ==
  /\ archivePc[w] = "teardown"
  /\ \/ TeardownStarts(w) /\ GoArchive(w, "await")
     \/ /\ TeardownAlreadyDone(w)
        /\ GoArchive(w, "mark")
        /\ UNCHANGED <<hooks, helper, runs>>
     \/ /\ TeardownRefused(w)
        /\ GoArchive(w, "undo")
        /\ UNCHANGED <<hooks, helper, runs>>
  /\ UNCHANGED <<rec, fresh, sameGeneration, pod, claim, runtime, reader,
                 verified, inventory, now, stoppedAt, gated>>

ArchiveAwait(w) ==
  /\ archivePc[w] = "await"
  /\ \/ TeardownSucceeded(w) /\ GoArchive(w, "mark")
     \/ TeardownFailed(w) /\ GoArchive(w, "undo")
  /\ UNCHANGED clusterVars

\* The catch block suspends again what this archive resumed, on a new copy;
\* another writer may come between that read and the write, and the CRD refuses
\* the write for an Archived workspace.
ArchiveUndo(w) ==
  /\ archivePc[w] = "undo"
  /\ \/ w \in resumed /\ WriteResidency(w, "Suspended")
     \/ UNCHANGED <<rec, fresh, sameGeneration>>
  /\ GoArchive(w, "idle")
  /\ UNCHANGED <<pod, claim, runtime, reader, verified, inventory, hooks,
                 helper, now, runs, stoppedAt, gated>>

\* status(): teardownCompletedAt on the copy that ready() returned.
ArchiveMark(w) ==
  /\ archivePc[w] = "mark"
  /\ \/ /\ PutStatus("archive", w, [rec[w] EXCEPT !.teardown = TRUE])
        /\ GoArchive(w, "recheck")
     \/ /\ <<"archive", w>> \notin fresh
        /\ GoArchive(w, "idle")
        /\ UNCHANGED <<rec, fresh, sameGeneration>>
  /\ UNCHANGED <<pod, claim, runtime, reader, verified, inventory, hooks,
                 helper, now, runs, stoppedAt, gated>>

\* A new copy, accepted only if its generation is the one torn down.
ArchiveRecheck(w) ==
  /\ archivePc[w] = "recheck"
  /\ IF w \in sameGeneration
       THEN ReadCopy(w) /\ GoArchive(w, "commit")
       ELSE GoArchive(w, "idle") /\ UNCHANGED fresh
  /\ UNCHANGED <<rec, sameGeneration, pod, claim, runtime, reader, verified,
                 inventory, hooks, helper, now, runs, stoppedAt, gated>>

ArchiveCommit(w) ==
  /\ archivePc[w] = "commit"
  /\ IF <<"archive", w>> \in fresh
       THEN WriteResidency(w, "Archived")
       ELSE UNCHANGED <<rec, fresh, sameGeneration>>
  /\ GoArchive(w, "idle")
  /\ UNCHANGED <<pod, claim, runtime, reader, verified, inventory, hooks,
                 helper, now, runs, stoppedAt, gated>>

ArchiveNext(w) ==
  \/ ArchiveBegin(w) \/ ArchiveResume(w) \/ ArchiveReady(w)
  \/ ArchiveSnapshot(w) \/ ArchiveTeardown(w) \/ ArchiveAwait(w)
  \/ ArchiveUndo(w) \/ ArchiveMark(w) \/ ArchiveRecheck(w) \/ ArchiveCommit(w)
=============================================================================
