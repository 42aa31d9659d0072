---------------------------- MODULE UploadStaging ----------------------------
(***************************************************************************)
(* Staged uploads, UploadStaging of src/gateway/uploads.ts.  Every client  *)
(* session has its own maps of pending and staged files; the number of     *)
(* reserved bytes is one for the process.                                  *)
(*                                                                         *)
(* An upload is the row of its file.  A message that names attachments is  *)
(* a call of replace(): it takes each row out of the map, sends the file   *)
(* to the workspace, and gives the bytes back when the send has ended.     *)
(***************************************************************************)
EXTENDS Naturals, FiniteSets

CONSTANTS
  UploadSessions,  \* client sessions
  Uploads,         \* rows
  FileSizes,       \* sizes of the files
  MaxUploadTotal,  \* maxTotal
  MaxUploadRows,   \* maxEntries, for each session
  UploadLife,      \* ttl, in ticks
  Messages         \* calls of replace() in progress

ASSUME UploadAssumption ==
  /\ FileSizes \subseteq Nat \ {0} /\ MaxUploadTotal \in Nat
  /\ MaxUploadRows \in Nat /\ UploadLife \in Nat \ {0}
  /\ IsFiniteSet(Uploads)

VARIABLES
  upload,         \* the rows
  reservedBytes,  \* UploadStaging.reservedBytes
  expiryTimer,    \* sessions whose interval timer runs
  sessionOpen,    \* sessions that were not closed
  message         \* the calls of replace()

uploadVars == <<upload, reservedBytes, expiryTimer, sessionOpen, message>>

NoUpload == [state |-> "none"]
UploadRow == {NoUpload} \cup
  [state : {"pending", "staged", "sending"}, session : UploadSessions,
   size : FileSizes, bytes : Nat, begun : BOOLEAN,
   life : 0 .. UploadLife, sends : 0 .. 2]
NoMessage == [step |-> "idle"]
MessageCall == {NoMessage} \cup
  [step : {"next"}, session : UploadSessions, files : SUBSET Uploads] \cup
  [step : {"sending"}, session : UploadSessions, files : SUBSET Uploads,
   file : Uploads]

UploadInit ==
  /\ upload = [u \in Uploads |-> NoUpload] /\ reservedBytes = 0
  /\ expiryTimer = {} /\ sessionOpen = UploadSessions
  /\ message = [m \in Messages |-> NoMessage]

-----------------------------------------------------------------------------

Held(s) == {u \in Uploads : /\ upload[u].state \in {"pending", "staged"}
                            /\ upload[u].session = s}
Lapsed(s) == {u \in Held(s) : upload[u].life = 0}
\* The sizes of the rows, in sum: their bytes are counted one by one.
Bytes(rows) == Cardinality(UNION {{u} \X (1 .. upload[u].size) : u \in rows})
\* The rows that are left when those in gone are deleted.
Without(gone) == [u \in Uploads |-> IF u \in gone THEN NoUpload ELSE upload[u]]

\* expire(): the timer stops with the last row.
TimerTicks(s) ==
  /\ s \in expiryTimer
  /\ upload' = Without(Lapsed(s))
  /\ reservedBytes' = reservedBytes - Bytes(Lapsed(s))
  /\ expiryTimer' = IF Held(s) = Lapsed(s) THEN expiryTimer \ {s} ELSE expiryTimer
  /\ UNCHANGED <<sessionOpen, message>>

\* Mutant of BeginUpload: the timer is not started again.
BeginUploadUntimed(s, u, size) ==
  LET rows == Held(s) \ Lapsed(s)
      left == reservedBytes - Bytes(Lapsed(s))
  IN  /\ upload[u] = NoUpload
      /\ Cardinality(rows) < MaxUploadRows
      /\ Bytes(rows) + size <= MaxUploadTotal
      /\ left + size <= MaxUploadTotal
      /\ upload' = [Without(Lapsed(s)) EXCEPT ![u] =
           [state |-> "pending", session |-> s, size |-> size, bytes |-> 0,
            begun |-> FALSE, life |-> UploadLife, sends |-> 0]]
      /\ reservedBytes' = left + size
      /\ UNCHANGED <<expiryTimer, sessionOpen, message>>

\* begin(): rows that lapsed make room first.  The request was accepted before
\* the session closed, and may come here after clear().
BeginUpload(s, u, size) ==
  LET rows == Held(s) \ Lapsed(s)
      left == reservedBytes - Bytes(Lapsed(s))
  IN  /\ upload[u] = NoUpload
      /\ Cardinality(rows) < MaxUploadRows
      /\ Bytes(rows) + size <= MaxUploadTotal
      /\ left + size <= MaxUploadTotal
      /\ upload' = [Without(Lapsed(s)) EXCEPT ![u] =
           [state |-> "pending", session |-> s, size |-> size, bytes |-> 0,
            begun |-> FALSE, life |-> UploadLife, sends |-> 0]]
      /\ reservedBytes' = left + size
      /\ expiryTimer' = expiryTimer \cup {s}
      /\ UNCHANGED <<sessionOpen, message>>

\* binary(): the begin frame, a chunk within the declared size, and the end
\* frame, which stages the file under a new life.
Frame(u) ==
  LET row == upload[u]
      s == row.session
      into(new) == /\ upload' = [Without(Lapsed(s)) EXCEPT ![u] = new]
                   /\ reservedBytes' = reservedBytes - Bytes(Lapsed(s))
                   /\ UNCHANGED <<expiryTimer, sessionOpen, message>>
  IN  /\ row.state = "pending" /\ s \in sessionOpen /\ row.life > 0
      /\ \/ ~row.begun /\ into([row EXCEPT !.begun = TRUE])
         \/ /\ row.begun
            /\ \E n \in 1 .. row.size - row.bytes :
                 into([row EXCEPT !.bytes = @ + n])
         \/ /\ row.begun /\ row.bytes = row.size
            /\ into([row EXCEPT !.state = "staged", !.life = UploadLife])

\* replace(): the message of a session names staged files.
BeginReplace(m, s, files) ==
  /\ message[m] = NoMessage /\ s \in sessionOpen /\ files # {}
  /\ message' = [message EXCEPT ![m] =
       [step |-> "next", session |-> s, files |-> files]]
  /\ upload' = Without(Lapsed(s))
  /\ reservedBytes' = reservedBytes - Bytes(Lapsed(s))
  /\ expiryTimer' = IF Held(s) = Lapsed(s) THEN expiryTimer \ {s} ELSE expiryTimer
  /\ UNCHANGED sessionOpen

\* The next attachment is taken out of the map before anything is awaited; one
\* that is not there ends the call.
TakeAttachment(m, u) ==
  LET call == message[m]
      here == upload[u].state = "staged" /\ upload[u].session = call.session
  IN  /\ call.step = "next" /\ u \in call.files
      /\ message' = [message EXCEPT ![m] =
           IF here THEN [step |-> "sending", session |-> call.session,
                         files |-> call.files \ {u}, file |-> u]
           ELSE NoMessage]
      /\ upload' = IF here THEN [upload EXCEPT ![u].state = "sending",
                                               ![u].sends = @ + 1]
                   ELSE upload
      /\ UNCHANGED <<reservedBytes, expiryTimer, sessionOpen>>

\* Mutant of SendEnds: the bytes are given back after a success only.
SendEndsWell(m) ==
  LET call == message[m]
      done == IF call.files = {} THEN NoMessage
              ELSE [step |-> "next", session |-> call.session, files |-> call.files]
  IN  /\ call.step = "sending"
      /\ upload' = Without({call.file})
      /\ \/ /\ reservedBytes' = reservedBytes - upload[call.file].size
            /\ message' = [message EXCEPT ![m] = done]
         \/ /\ UNCHANGED reservedBytes
            /\ message' = [message EXCEPT ![m] = NoMessage]
      /\ UNCHANGED <<expiryTimer, sessionOpen>>

\* The send ends: the workspace has the file, or the access check, the
\* backend or its answer failed.  The bytes are given back either way.
SendEnds(m) ==
  LET call == message[m]
      done == IF call.files = {} THEN NoMessage
              ELSE [step |-> "next", session |-> call.session, files |-> call.files]
  IN  /\ call.step = "sending"
      /\ upload' = Without({call.file})
      /\ reservedBytes' = reservedBytes - upload[call.file].size
      /\ \E outcome \in {done, NoMessage} :
           message' = [message EXCEPT ![m] = outcome]
      /\ UNCHANGED <<expiryTimer, sessionOpen>>

\* clear(), when the session closes; a call that is sending goes on.
ClearUploads(s) ==
  /\ s \in sessionOpen /\ sessionOpen' = sessionOpen \ {s}
  /\ upload' = Without(Held(s))
  /\ reservedBytes' = reservedBytes - Bytes(Held(s))
  /\ expiryTimer' = expiryTimer \ {s}
  /\ UNCHANGED message

\* Another client connects, in a session of its own.
SessionOpens(s) ==
  /\ s \notin sessionOpen /\ sessionOpen' = sessionOpen \cup {s}
  /\ Held(s) = {} /\ s \notin expiryTimer
  /\ \A m \in Messages : message[m] # NoMessage => message[m].session # s
  /\ UNCHANGED <<upload, reservedBytes, expiryTimer, message>>

UploadTick ==
  /\ \E u \in Uploads : upload[u] # NoUpload /\ upload[u].life > 0
  /\ upload' = [u \in Uploads |->
       IF upload[u] # NoUpload /\ upload[u].life > 0
       THEN [upload[u] EXCEPT !.life = @ - 1] ELSE upload[u]]
  /\ UNCHANGED <<reservedBytes, expiryTimer, sessionOpen, message>>

ReplaceStep(m) == (\E u \in Uploads : TakeAttachment(m, u)) \/ SendEnds(m)

UploadNext ==
  \/ \E s \in UploadSessions :
       \/ TimerTicks(s) \/ ClearUploads(s) \/ SessionOpens(s)
       \/ \E u \in Uploads, size \in FileSizes : BeginUpload(s, u, size)
       \/ \E m \in Messages, files \in SUBSET Uploads : BeginReplace(m, s, files)
  \/ \E u \in Uploads : Frame(u)
  \/ \E m \in Messages : ReplaceStep(m)
  \/ UploadTick

\* The clock runs, interval timers fire, and a send ends: requests to the
\* backend have timeouts, as has the wait for its socket to drain.
UploadFairness ==
  /\ WF_uploadVars(UploadTick)
  /\ \A s \in UploadSessions : WF_uploadVars(TimerTicks(s))
  /\ \A m \in Messages : WF_uploadVars(ReplaceStep(m))

UploadSpec == UploadInit /\ [][UploadNext]_uploadVars /\ UploadFairness

-----------------------------------------------------------------------------

UploadTypeOK ==
  /\ upload \in [Uploads -> UploadRow]
  /\ \A u \in Uploads : upload[u] # NoUpload => upload[u].bytes <= upload[u].size
  /\ reservedBytes \in 0 .. MaxUploadTotal
  /\ expiryTimer \subseteq UploadSessions /\ sessionOpen \subseteq UploadSessions
  /\ message \in [Messages -> MessageCall]

\* Every byte of a row is reserved until the row is gone, and no longer, with
\* the row pending, staged, or on its way to a workspace, and whether it ends
\* by expiry, by use, or with its session.
ReservedMatchesHeld ==
  reservedBytes = Bytes({u \in Uploads : upload[u] # NoUpload})

\* A staged file is sent once, whoever names it, also after a lost answer.
FileSentOnce == \A u \in Uploads : upload[u] # NoUpload => upload[u].sends <= 1

\* What a client leaves behind is released, even a file announced as the
\* session closed.
StagingReleased == \A u \in Uploads : upload[u] # NoUpload ~> upload[u] = NoUpload

\* Bytes are released exactly when their row goes, and a row is sent once.
StagingAccounted == ReservedMatchesHeld /\ FileSentOnce
=============================================================================
