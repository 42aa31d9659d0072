-------------------------- MODULE FileSubscriptions --------------------------
(***************************************************************************)
(* File subscriptions over one backend connection: the bindings that       *)
(* forward() of src/gateway/session.ts keeps for fs.file.subscribe and     *)
(* fs.file.unsubscribe, and the events that onMessage() puts on the serial *)
(* event queue of the connection.                                          *)
(*                                                                         *)
(* The daemon, outside the repository, answers requests in order over one  *)
(* socket and publishes a version of a watched file when it changes.  A    *)
(* binding is an object, compared by identity: here its number.  A version *)
(* stands for the whole file.                                              *)
(***************************************************************************)
EXTENDS Naturals, Sequences

CONSTANTS
  FileSlots,     \* subscription IDs
  FileRequests,  \* requests of the client in progress
  MaxVersion,    \* bound: versions of the file
  MaxBindings,   \* bound: subscribe requests
  MaxFileFaults  \* bound: lost answers, oversized updates

ASSUME FileAssumption ==
  MaxVersion \in Nat \ {0} /\ MaxBindings \in Nat \ {0} /\ MaxFileFaults \in Nat

VARIABLES
  fileVersion,   \* the file in the workspace
  workspaceOk,   \* the workspace is Running and Ready, under the same UID
  watched,       \* native watchers
  toDaemon,      \* requests on the socket
  toGateway,     \* answers and events on the socket
  bindings,      \* fileSubscriptions
  bound,         \* bindings made so far
  fileRequest,   \* the client's requests
  eventTail,     \* the event queue
  handling,      \* the update at its head, between two awaits
  client,        \* what the client was told
  missed,        \* IDs an update was dropped for while the workspace was not ready
  connected,     \* FALSE once disconnect() was called
  fileFaults

fileVars == <<fileVersion, workspaceOk, watched, toDaemon, toGateway, bindings,
              bound, fileRequest, eventTail, handling, client, missed, connected,
              fileFaults>>

Versions == 0 .. MaxVersion
NoFileBinding == [state |-> "none"]
Binding == {NoFileBinding} \cup
  [state : {"subscribing", "active", "releasing"}, number : 1 .. MaxBindings,
   pendingUpdate : Versions]
NoRequest == [step |-> "idle"]
FileRequest == {NoRequest} \cup
  [step : {"sent", "replied", "queued"}, kind : {"subscribe", "unsubscribe"},
   slot : FileSlots, mine : 1 .. MaxBindings, previous : Binding, version : Versions]

\* What travels: calls to the daemon; its answers, and updates of a file; and,
\* on the event queue, acknowledgements.
FileCall == [kind : {"subscribe", "unsubscribe"}, slot : FileSlots, of : FileRequests]
FileReply == [kind : {"reply"}, of : FileRequests, version : Versions]
FileUpdate == [kind : {"update"}, slot : FileSlots, version : 1 .. MaxVersion]
FileAck == [kind : {"ack"}, of : FileRequests]

FileInit ==
  /\ fileVersion = [s \in FileSlots |-> 1]
  /\ workspaceOk = TRUE /\ watched = {}
  /\ toDaemon = <<>> /\ toGateway = <<>>
  /\ bindings = [s \in FileSlots |-> NoFileBinding] /\ bound = 0
  /\ fileRequest = [r \in FileRequests |-> NoRequest]
  /\ eventTail = <<>> /\ handling = 0
  /\ client = [s \in FileSlots |-> [subscribed |-> FALSE, version |-> 0]]
  /\ missed = {} /\ connected = TRUE /\ fileFaults = 0

daemonVars == <<fileVersion, workspaceOk, watched, toDaemon, toGateway>>
sessionVars == <<bindings, bound, fileRequest, eventTail, handling, client,
                 missed, connected, fileFaults>>

-----------------------------------------------------------------------------
(* The workspace and its daemon *)

FileChanges(s) ==
  /\ fileVersion[s] < MaxVersion
  /\ fileVersion' = [fileVersion EXCEPT ![s] = @ + 1]
  /\ toGateway' = IF s \in watched
                  THEN Append(toGateway, [kind |-> "update", slot |-> s,
                                          version |-> fileVersion[s] + 1])
                  ELSE toGateway
  /\ UNCHANGED <<workspaceOk, watched, toDaemon>> /\ UNCHANGED sessionVars

WorkspaceFlips ==
  /\ workspaceOk' = ~workspaceOk
  /\ UNCHANGED <<fileVersion, watched, toDaemon, toGateway>>
  /\ UNCHANGED sessionVars

\* A failed first read is version 0; the watcher is released before it is sent.
DaemonAnswers ==
  /\ toDaemon # <<>> /\ toDaemon' = Tail(toDaemon)
  /\ LET q == Head(toDaemon)
         reply(v) == Append(toGateway, [kind |-> "reply", of |-> q.of, version |-> v])
     IN  \/ /\ q.kind = "subscribe" /\ watched' = watched \cup {q.slot}
            /\ toGateway' = reply(fileVersion[q.slot])
         \/ /\ watched' = watched \ {q.slot} /\ toGateway' = reply(0)
  /\ UNCHANGED <<fileVersion, workspaceOk>> /\ UNCHANGED sessionVars

-----------------------------------------------------------------------------
(* The session *)

FileRests(r) == [fileRequest EXCEPT ![r] = NoRequest]
SendNative(r, kind, s) ==
  toDaemon' = Append(toDaemon, [kind |-> kind, slot |-> s, of |-> r])
UnchangedWorld == UNCHANGED <<fileVersion, workspaceOk, watched>>

\* The client subscribes under an ID only when its last request for the ID was
\* answered: until then the event queue may hold an update of that time.
ClientMaySubscribe(s) ==
  \A r \in FileRequests : fileRequest[r].step # "idle" => fileRequest[r].slot # s

\* A slot is free, or is active and is subscribed again in place.
Subscribe(r, s) ==
  /\ ClientMaySubscribe(s)
  /\ connected /\ fileRequest[r] = NoRequest /\ bound < MaxBindings
  /\ bindings[s].state \in {"none", "active"}
  /\ bound' = bound + 1
  /\ bindings' = [bindings EXCEPT ![s] =
       [state |-> "subscribing", number |-> bound + 1, pendingUpdate |-> 0]]
  /\ fileRequest' = [fileRequest EXCEPT ![r] =
       [step |-> "sent", kind |-> "subscribe", slot |-> s, mine |-> bound + 1,
        previous |-> bindings[s], version |-> 0]]
  /\ SendNative(r, "subscribe", s) /\ missed' = missed \ {s}
  /\ UNCHANGED <<toGateway, eventTail, handling, client, connected, fileFaults>>
  /\ UnchangedWorld

\* An unknown ID is acknowledged at once; a known one must be active.
Unsubscribe(r, s) ==
  /\ connected /\ fileRequest[r] = NoRequest
  /\ \/ /\ bindings[s].state = "none"
        /\ client' = [client EXCEPT ![s].subscribed = FALSE]
        /\ UNCHANGED <<bindings, fileRequest, toDaemon>>
     \/ /\ bindings[s].state = "active"
        /\ bindings' = [bindings EXCEPT ![s].state = "releasing"]
        /\ fileRequest' = [fileRequest EXCEPT ![r] =
             [step |-> "sent", kind |-> "unsubscribe", slot |-> s,
              mine |-> bindings[s].number, previous |-> NoFileBinding, version |-> 0]]
        /\ SendNative(r, "unsubscribe", s) /\ UNCHANGED client
  /\ UNCHANGED <<toGateway, bound, eventTail, handling, missed, connected,
                 fileFaults>>
  /\ UnchangedWorld

MyFileBinding(r) == /\ bindings[fileRequest[r].slot].state # "none"
           /\ bindings[fileRequest[r].slot].number = fileRequest[r].mine

\* rollbackFileBinding() and disconnect()
Rollback(r) ==
  LET q == fileRequest[r]
  IN  /\ bindings' = IF ~MyFileBinding(r) THEN bindings
                     ELSE IF q.kind = "subscribe"
                     THEN [bindings EXCEPT ![q.slot] = q.previous]
                     ELSE [bindings EXCEPT ![q.slot].state = "active"]
      /\ fileRequest' = FileRests(r) /\ connected' = FALSE

\* A message arrives: an update joins the event queue, an answer its request.
Receive ==
  /\ toGateway # <<>> /\ toGateway' = Tail(toGateway)
  /\ LET m == Head(toGateway)
     IN  \/ /\ m.kind = "update" /\ eventTail' = Append(eventTail, m)
            /\ UNCHANGED fileRequest
         \/ /\ m.kind = "reply" /\ fileRequest[m.of].step = "sent"
            /\ fileRequest' = [fileRequest EXCEPT ![m.of].step = "replied",
                                                  ![m.of].version = m.version]
            /\ UNCHANGED eventTail
         \/ /\ m.kind = "reply" /\ fileRequest[m.of].step # "sent"
            /\ UNCHANGED <<fileRequest, eventTail>>
  /\ UNCHANGED <<toDaemon, bindings, bound, handling, client, missed, connected,
                 fileFaults>>
  /\ UnchangedWorld

\* No answer within the time of a request.
AnswerLost(r) ==
  /\ fileRequest[r].step = "sent" /\ fileFaults < MaxFileFaults
  /\ fileFaults' = fileFaults + 1
  /\ Rollback(r)
  /\ UNCHANGED <<toDaemon, toGateway, bound, eventTail, handling, client, missed>>
  /\ UnchangedWorld

\* The answer is validated, the binding checked, and the acknowledgement joins
\* the queue behind the updates that came before it.
Replied(r) ==
  LET q == fileRequest[r]
      gone == q.kind = "unsubscribe" \/ q.version = 0
  IN  /\ q.step = "replied"
      /\ IF workspaceOk /\ connected /\ (q.kind = "subscribe" => MyFileBinding(r))
         THEN /\ bindings' = IF gone /\ MyFileBinding(r)
                             THEN [bindings EXCEPT ![q.slot] = NoFileBinding]
                             ELSE bindings
              /\ fileRequest' = [fileRequest EXCEPT ![r].step = "queued"]
              /\ eventTail' = Append(eventTail, [kind |-> "ack", of |-> r])
              /\ UNCHANGED connected
         ELSE Rollback(r) /\ UNCHANGED eventTail
      /\ UNCHANGED <<toDaemon, toGateway, bound, handling, client, missed,
                     fileFaults>>
      /\ UnchangedWorld

HeadIs(kind) == eventTail # <<>> /\ Head(eventTail).kind = kind
Emit(s, v) == [client EXCEPT ![s].version = v]

\* The first look at an update: the binding it is for, before the records.
TakeUpdate ==
  /\ HeadIs("update") /\ handling = 0
  /\ LET b == bindings[Head(eventTail).slot]
     IN  IF connected /\ b.state \in {"subscribing", "active"}
         THEN handling' = b.number /\ UNCHANGED eventTail
         ELSE eventTail' = Tail(eventTail) /\ UNCHANGED handling
  /\ UNCHANGED <<toDaemon, toGateway, bindings, bound, fileRequest, client,
                 missed, connected, fileFaults>>
  /\ UnchangedWorld

\* After the records: the same binding, still wanted, holds the update until
\* its acknowledgement or passes it on.
FinishUpdate ==
  LET m == Head(eventTail)
      b == bindings[m.slot]
      kept == /\ connected /\ workspaceOk
              /\ b.state \in {"subscribing", "active"} /\ b.number = handling
  IN  /\ HeadIs("update") /\ handling # 0
      /\ eventTail' = Tail(eventTail) /\ handling' = 0
      /\ missed' = IF connected /\ ~workspaceOk THEN missed \cup {m.slot} ELSE missed
      /\ \/ /\ ~kept /\ UNCHANGED <<bindings, client, connected, fileFaults>>
         \/ /\ kept /\ b.state = "active" /\ client' = Emit(m.slot, m.version)
            /\ UNCHANGED <<bindings, connected, fileFaults>>
         \/ /\ kept /\ b.state = "subscribing"
            /\ bindings' = [bindings EXCEPT ![m.slot].pendingUpdate = m.version]
            /\ UNCHANGED <<client, connected, fileFaults>>
         \/ /\ kept /\ b.state = "subscribing" /\ fileFaults < MaxFileFaults
            /\ fileFaults' = fileFaults + 1 /\ connected' = FALSE
            /\ UNCHANGED <<bindings, client>>
      /\ UNCHANGED <<toDaemon, toGateway, bound, fileRequest>>
      /\ UnchangedWorld

\* Mutant of Acknowledge: the update that came before it is not emitted.
AcknowledgeOnly ==
  LET r == Head(eventTail).of
      q == fileRequest[r]
      s == q.slot
      live == q.kind = "subscribe" /\ q.version # 0
  IN  /\ HeadIs("ack") /\ eventTail' = Tail(eventTail)
      /\ fileRequest' = FileRests(r)
      /\ IF workspaceOk /\ connected
              /\ (live => MyFileBinding(r) /\ bindings[s].state = "subscribing")
         THEN /\ bindings' = IF live
                   THEN [bindings EXCEPT ![s].state = "active",
                                         ![s].pendingUpdate = 0]
                   ELSE bindings
              /\ client' = [client EXCEPT ![s] =
                   [subscribed |-> live, version |-> q.version]]
              /\ UNCHANGED connected
         ELSE connected' = FALSE /\ UNCHANGED <<bindings, client>>
      /\ UNCHANGED <<toDaemon, toGateway, bound, handling, missed, fileFaults>>
      /\ UnchangedWorld

\* The acknowledgement: validated again, activated, emitted, and followed by
\* the newest update that came before it.
Acknowledge ==
  LET r == Head(eventTail).of
      q == fileRequest[r]
      s == q.slot
      live == q.kind = "subscribe" /\ q.version # 0
  IN  /\ HeadIs("ack") /\ eventTail' = Tail(eventTail)
      /\ fileRequest' = FileRests(r)
      /\ IF workspaceOk /\ connected
              /\ (live => MyFileBinding(r) /\ bindings[s].state = "subscribing")
         THEN /\ bindings' = IF live
                   THEN [bindings EXCEPT ![s].state = "active",
                                         ![s].pendingUpdate = 0]
                   ELSE bindings
              /\ client' = [client EXCEPT ![s] =
                   [subscribed |-> live,
                    version |-> IF live /\ bindings[s].pendingUpdate # 0
                                THEN bindings[s].pendingUpdate ELSE q.version]]
              /\ UNCHANGED connected
         ELSE connected' = FALSE /\ UNCHANGED <<bindings, client>>
      /\ UNCHANGED <<toDaemon, toGateway, bound, handling, missed, fileFaults>>
      /\ UnchangedWorld

FileNext ==
  \/ \E s \in FileSlots : FileChanges(s)
  \/ WorkspaceFlips \/ DaemonAnswers \/ Receive
  \/ \E r \in FileRequests, s \in FileSlots : Subscribe(r, s) \/ Unsubscribe(r, s)
  \/ \E r \in FileRequests : AnswerLost(r) \/ Replied(r)
  \/ TakeUpdate \/ FinishUpdate \/ Acknowledge

FileSpec == FileInit /\ [][FileNext]_fileVars

-----------------------------------------------------------------------------

FileTypeOK ==
  /\ fileVersion \in [FileSlots -> 1 .. MaxVersion] /\ workspaceOk \in BOOLEAN
  /\ watched \subseteq FileSlots /\ bound \in 0 .. MaxBindings
  /\ toDaemon \in Seq(FileCall) /\ toGateway \in Seq(FileReply \cup FileUpdate)
  /\ bindings \in [FileSlots -> Binding]
  /\ fileRequest \in [FileRequests -> FileRequest]
  /\ eventTail \in Seq(FileUpdate \cup FileAck) /\ handling \in 0 .. MaxBindings
  /\ client \in [FileSlots -> [subscribed : BOOLEAN, version : Versions]]
  /\ missed \subseteq FileSlots /\ connected \in BOOLEAN
  /\ fileFaults \in 0 .. MaxFileFaults

Quiet ==
  /\ connected /\ toDaemon = <<>> /\ toGateway = <<>> /\ eventTail = <<>>
  /\ \A r \in FileRequests : fileRequest[r] = NoRequest

\* When everything on its way has arrived, a subscribed client holds the newest
\* version, however updates, answers and acknowledgements were interleaved;
\* except for an update that found the workspace not ready, which is dropped.
NewestVersionSeen ==
  Quiet => \A s \in FileSlots :
    client[s].subscribed /\ s \notin missed => client[s].version = fileVersion[s]

\* Then also the gateway's bindings, the watchers of the daemon and what the
\* client was told agree: no watcher is left that nobody can release.
WatchersAgree ==
  Quiet => \A s \in FileSlots :
    /\ (bindings[s].state = "active") = (s \in watched)
    /\ (bindings[s].state = "active") = client[s].subscribed

\* A version reaches the client only between the acknowledgement of its
\* subscription and the acknowledgement of its release.
UpdatesWithinSubscription ==
  [][\A s \in FileSlots :
       client'[s].version # client[s].version /\ client'[s].version # 0
         => client'[s].subscribed]_fileVars

\* A subscriber ends up with the newest version, hears of the file only while
\* it subscribes, and leaves no watcher behind.
WatchersServed == [](NewestVersionSeen /\ WatchersAgree) /\ UpdatesWithinSubscription
=============================================================================
