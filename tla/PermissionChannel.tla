-------------------------- MODULE PermissionChannel --------------------------
(***************************************************************************)
(* One client socket and the permission decisions it carries, from the     *)
(* connection handler of startGateway() in src/gateway/server.ts.  A       *)
(* decision is one-way: the command-line client sends it and closes.  It   *)
(* travels through a session of its own, so that closing the socket, which *)
(* cancels the work of the main session, does not cancel the decision.     *)
(*                                                                         *)
(* A channel is the dedicated GatewaySession of a batch of decisions,      *)
(* tracked by trackSession(); it is live until its close was asked for.    *)
(***************************************************************************)
EXTENDS Naturals, FiniteSets

CONSTANTS
  Decisions,      \* permission responses handled at once
  Channels,       \* dedicated sessions somebody still refers to
  NoChannel,      \* permissionSession is undefined
  MaxLosses       \* bound: backends lost by themselves

ASSUME PermissionAssumption == NoChannel \notin Channels /\ MaxLosses \in Nat

VARIABLES
  socket,        \* "open", "closing", "closed", and the handler of its close:
                 \* "grace" while it waits for decisions, "over" when it is done
  cleanClose,    \* the client closed, with code 1000 or 1005
  policyClosing,
  shuttingDown,
  channel,       \* the dedicated sessions
  current,       \* permissionSession
  pendingPermissions,
  decision,      \* the decisions
  excused,       \* why a decision may be lost
  closedByIdle,  \* the client was disconnected by an expected close
  losses

permVars == <<socket, cleanClose, policyClosing, shuttingDown, channel, current,
              pendingPermissions, decision, excused, closedByIdle, losses>>

NoDecision == [step |-> "none"]
Decision == {NoDecision} \cup
  [step : {"accepted", "sent", "lost"}, target : Channels]
ChannelStates == {"unused", "live", "closed"}

PermInit ==
  /\ socket = "open" /\ cleanClose = FALSE /\ policyClosing = FALSE
  /\ shuttingDown = FALSE
  /\ channel = [c \in Channels |-> "unused"] /\ current = NoChannel
  /\ pendingPermissions = {} /\ decision = [d \in Decisions |-> NoDecision]
  /\ excused = FALSE /\ closedByIdle = FALSE /\ losses = 0

-----------------------------------------------------------------------------

ChannelIdle(c) == \A d \in Decisions :
             decision[d] # NoDecision => decision[d].target # c
CloseChannel(c) == IF c = NoChannel THEN channel
                   ELSE [channel EXCEPT ![c] = "closed"]

\* A decision arrives; the first of a batch opens a channel.
Accept(d) ==
  /\ socket \in {"open", "closing"} /\ decision[d] = NoDecision
  /\ \E c \in Channels :
       /\ IF current # NoChannel THEN c = current /\ UNCHANGED channel
          ELSE /\ channel[c] # "live" /\ ChannelIdle(c)
               /\ channel' = [channel EXCEPT ![c] = "live"]
       /\ current' = c
       /\ decision' = [decision EXCEPT ![d] = [step |-> "accepted", target |-> c]]
  /\ pendingPermissions' = pendingPermissions \cup {d}
  /\ UNCHANGED <<socket, cleanClose, policyClosing, shuttingDown, excused,
                 closedByIdle, losses>>

\* handle() ends: the decision went to the workspace, or its session was
\* closed before the last check, or access was refused.
Handled(d) ==
  /\ decision[d].step = "accepted"
  /\ decision' = [decision EXCEPT ![d].step =
       IF channel[decision[d].target] = "live" THEN "sent" ELSE "lost"]
  /\ UNCHANGED <<socket, cleanClose, policyClosing, shuttingDown, channel,
                 current, pendingPermissions, excused, closedByIdle, losses>>

\* Mutant of Finish: the channel is closed before it is given up.
FinishInPlace(d) ==
  LET target == decision[d].target
      left == pendingPermissions \ {d}
      idle == left = {} /\ socket = "open" /\ current = target
  IN  /\ decision[d].step \in {"sent", "lost"}
      /\ pendingPermissions' = left
      /\ decision' = [decision EXCEPT ![d] = NoDecision]
      /\ channel' = IF idle THEN CloseChannel(target) ELSE channel
      /\ UNCHANGED <<current, socket, cleanClose, policyClosing, shuttingDown,
                     excused, closedByIdle, losses>>

\* finish(): the last decision of a batch closes its channel, on an open socket
\* and if the channel is still the one in use.
Finish(d) ==
  LET target == decision[d].target
      left == pendingPermissions \ {d}
      idle == left = {} /\ socket = "open" /\ current = target
  IN  /\ decision[d].step \in {"sent", "lost"}
      /\ pendingPermissions' = left
      /\ decision' = [decision EXCEPT ![d] = NoDecision]
      /\ current' = IF idle THEN NoChannel ELSE current
      /\ channel' = IF idle THEN CloseChannel(target) ELSE channel
      /\ UNCHANGED <<socket, cleanClose, policyClosing, shuttingDown, excused,
                     closedByIdle, losses>>

\* The backends of a closed channel report that they are gone; disconnect()
\* ends the client's socket only for the channel in use.
ChannelGone(c) ==
  /\ channel[c] = "closed" /\ channel' = [channel EXCEPT ![c] = "unused"]
  /\ IF current = c /\ socket \in {"open", "closing"}
     THEN /\ policyClosing' = TRUE /\ excused' = TRUE /\ socket' = "closing"
          /\ closedByIdle' = (closedByIdle \/ ~shuttingDown)
     ELSE UNCHANGED <<socket, policyClosing, excused, closedByIdle>>
  /\ UNCHANGED <<cleanClose, shuttingDown, current, pendingPermissions, decision,
                 losses>>

\* A backend is lost by itself: that does end the client's socket.
PermissionBackendLost ==
  /\ losses < MaxLosses /\ losses' = losses + 1
  /\ current # NoChannel /\ channel[current] = "live"
  /\ socket \in {"open", "closing"}
  /\ policyClosing' = TRUE /\ excused' = TRUE /\ socket' = "closing"
  /\ UNCHANGED <<cleanClose, shuttingDown, channel, current, pendingPermissions,
                 decision, closedByIdle>>

\* The socket starts to close: by the client, by an error, by a policy.
SocketCloses ==
  /\ socket = "open" /\ socket' = "closing"
  /\ \/ cleanClose' = TRUE /\ UNCHANGED <<policyClosing, excused>>
     \/ excused' = TRUE /\ UNCHANGED <<cleanClose, policyClosing>>
     \/ policyClosing' = TRUE /\ excused' = TRUE /\ UNCHANGED cleanClose
  /\ UNCHANGED <<shuttingDown, channel, current, pendingPermissions, decision,
                 closedByIdle, losses>>

\* The close event: decisions that were accepted get a grace period after a
\* clean close, everything else closes the channel at once.
CloseEvent ==
  LET waits == /\ current # NoChannel /\ ~policyClosing /\ cleanClose
               /\ pendingPermissions # {} /\ ~shuttingDown
  IN  /\ socket = "closing"
      /\ socket' = IF waits THEN "grace" ELSE "over"
      /\ channel' = IF waits THEN channel ELSE CloseChannel(current)
      /\ UNCHANGED <<cleanClose, policyClosing, shuttingDown, current,
                     pendingPermissions, decision, excused, closedByIdle, losses>>

\* The grace period ends: every decision settled, time is up, or shutdown.
GraceEnds ==
  /\ socket = "grace"
  /\ \/ pendingPermissions = {} /\ UNCHANGED excused
     \/ excused' = TRUE
  /\ socket' = "over" /\ channel' = CloseChannel(current)
  /\ UNCHANGED <<cleanClose, policyClosing, shuttingDown, current,
                 pendingPermissions, decision, closedByIdle, losses>>

\* The server closes: sockets are terminated and every tracked session closed.
Shutdown ==
  /\ ~shuttingDown /\ shuttingDown' = TRUE /\ excused' = TRUE
  /\ channel' = [c \in Channels |-> IF channel[c] = "live" THEN "closed"
                                    ELSE channel[c]]
  /\ socket' = IF socket = "open" THEN "closing" ELSE socket
  /\ UNCHANGED <<cleanClose, policyClosing, current, pendingPermissions, decision,
                 closedByIdle, losses>>

\* The client comes again, on a socket of its own.
Reconnect ==
  /\ socket = "over" /\ pendingPermissions = {} /\ ~shuttingDown
  /\ \A c \in Channels : channel[c] # "live"
  /\ socket' = "open" /\ current' = NoChannel
  /\ cleanClose' = FALSE /\ policyClosing' = FALSE /\ excused' = FALSE
  /\ UNCHANGED <<shuttingDown, channel, pendingPermissions, decision, closedByIdle,
                 losses>>

PermNext ==
  \/ \E d \in Decisions : Accept(d) \/ Handled(d) \/ Finish(d)
  \/ \E c \in Channels : ChannelGone(c)
  \/ PermissionBackendLost \/ SocketCloses \/ CloseEvent \/ GraceEnds \/ Shutdown
  \/ Reconnect

\* A decision ends (its requests have timeouts), a socket that closes is
\* closed, and the grace period is limited.
PermFairness ==
  /\ \A d \in Decisions : WF_permVars((Handled(d) \/ Finish(d)))
  /\ WF_permVars(CloseEvent) /\ WF_permVars(GraceEnds)

PermSpec == PermInit /\ [][PermNext]_permVars /\ PermFairness

-----------------------------------------------------------------------------

PermTypeOK ==
  /\ socket \in {"open", "closing", "grace", "over"}
  /\ cleanClose \in BOOLEAN /\ policyClosing \in BOOLEAN /\ shuttingDown \in BOOLEAN
  /\ excused \in BOOLEAN /\ closedByIdle \in BOOLEAN
  /\ channel \in [Channels -> ChannelStates]
  /\ current \in Channels \cup {NoChannel}
  /\ pendingPermissions \subseteq Decisions
  /\ decision \in [Decisions -> Decision] /\ losses \in 0 .. MaxLosses

\* A decision accepted from a client that then closes cleanly is sent: it is
\* lost only to a policy or error close, the end of the grace period, a lost
\* backend or a shutdown.
AcceptedDecisionSent ==
  (\E d \in Decisions : decision[d].step = "lost") => excused

\* Closing a channel that has done its work never disconnects the client, nor
\* does an old batch retire the channel of a newer one.
IdleCloseKeepsClient == ~closedByIdle

\* A channel does not outlive its work: one that has no decision left, or whose
\* socket has started to close, is closed in the end.
ChannelsClosed ==
  \A c \in Channels :
    (channel[c] = "live" /\ (socket # "open" \/ pendingPermissions = {}))
      ~> channel[c] # "live"

\* An accepted decision is sent, and sending it costs nobody the connection.
DecisionsSent == AcceptedDecisionSent /\ IdleCloseKeepsClient
=============================================================================
