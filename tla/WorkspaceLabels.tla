--------------------------- MODULE WorkspaceLabels ---------------------------
(***************************************************************************)
(* The label catalog every session of the gateway shares                   *)
(* (src/gateway/workspace-labels.ts): one record with the labels and who   *)
(* wears them, changed by compare-and-swap in at most MaxAttempts tries,   *)
(* and published to the followers of the list after each change.           *)
(*                                                                         *)
(* Workspaces are told apart by name and UID.  A swap needs the version    *)
(* that was read: "fresh" is lost by every change of the record in         *)
(* between.  A workspace's own token follows only what it wears itself.    *)
(***************************************************************************)
EXTENDS Integers

CONSTANTS
  LabelEdits,      \* requests that change the catalog
  Followers,       \* subscriptions to the list
  LabelNames,
  Targets,         \* workspace names
  MaxColour,       \* colours are 1..MaxColour, 0 when there is no label
  MaxAttempts,     \* 5
  MaxTargetUid     \* bound: workspaces that ever have one name

ASSUME LabelsAssumption ==
  /\ MaxColour \in Nat \ {0} /\ MaxAttempts \in Nat \ {0} /\ MaxTargetUid \in Nat
  /\ Targets \cap {"none", "owner"} = {}

VARIABLES
  wearer,     \* the workspaces
  catalog,    \* the record: the colour of each label, and who wears which
  edit,       \* the requests
  follower    \* the subscriptions

labelVars == <<wearer, catalog, edit, follower>>

Palette == [LabelNames -> 0..MaxColour]
Blank == [n \in LabelNames |-> 0]
NoTarget == [uid |-> 0, living |-> FALSE]
NoWearer == [uid |-> 0, names |-> {}]
EmptyCatalog == [colour |-> Blank, worn |-> [w \in Targets |-> NoWearer]]
NoEdit == [kind |-> "assign", target |-> NoTarget, at |-> "none",
              name |-> "none", next |-> "none", colour |-> 0]
IdleEdit == [step |-> "none", request |-> NoEdit, attempt |-> 0, fresh |-> FALSE,
             list |-> [w \in Targets |-> NoTarget], base |-> EmptyCatalog,
             told |-> {}]
NoFollower == [step |-> "off", principal |-> "owner", uid |-> 0,
               list |-> [w \in Targets |-> NoTarget], seen |-> Blank,
               shown |-> Blank]

LabelsInit ==
  /\ wearer = [w \in Targets |-> NoTarget]
  /\ catalog = EmptyCatalog
  /\ edit = [e \in LabelEdits |-> IdleEdit]
  /\ follower = [f \in Followers |-> NoFollower]

-----------------------------------------------------------------------------
(* Reading the catalog.                                                     *)

\* labelsFor(): the labels of a workspace, not those of an earlier one.
LabelsFor(state, list, w) ==
  IF state.worn[w].uid = list[w].uid THEN state.worn[w].names ELSE {}

\* scope(): the workspaces a principal may see, and whether it still may.
Active(f, list) ==
  follower[f].principal = "owner"
    \/ /\ list[follower[f].principal].living
       /\ list[follower[f].principal].uid = follower[f].uid

\* visible(): the owner sees every label, a workspace's token those it wears.
Visible(f, state, list) ==
  [n \in LabelNames |->
     IF follower[f].principal = "owner"
        \/ n \in LabelsFor(state, list, follower[f].principal)
     THEN state.colour[n] ELSE 0]

-----------------------------------------------------------------------------
(* change(): list the workspaces, read the catalog, swap it.                *)

\* The workspaces of the platform come and go, a name may be used again.
TargetStarts(w) ==
  /\ ~wearer[w].living /\ wearer[w].uid < MaxTargetUid
  /\ wearer' = [wearer EXCEPT ![w] = [uid |-> @.uid + 1, living |-> TRUE]]
  /\ UNCHANGED <<catalog, edit, follower>>

TargetStops(w) ==
  /\ wearer[w].living
  /\ wearer' = [wearer EXCEPT ![w].living = FALSE]
  /\ UNCHANGED <<catalog, edit, follower>>

Requests ==
  [kind : {"assign", "unassign"}, at : Targets, name : LabelNames,
   next : {"none"}, colour : 1..MaxColour]
    \cup [kind : {"update"}, at : {"none"}, name : LabelNames,
          next : LabelNames, colour : 0..MaxColour]
    \cup [kind : {"delete"}, at : {"none"}, name : LabelNames,
          next : {"none"}, colour : {0}]

\* handle(): an assignment is for the workspace that has the name now.
AskEdit(e, r) ==
  /\ edit[e].step = "none"
  /\ r.at # "none" => wearer[r.at].living
  /\ LET chosen == IF r.at = "none" THEN NoTarget ELSE wearer[r.at]
     IN edit' = [edit EXCEPT ![e] =
                   [IdleEdit EXCEPT !.step = "list", !.attempt = 1,
                      !.request = [kind |-> r.kind, at |-> r.at, name |-> r.name,
                                   next |-> r.next, colour |-> r.colour,
                                   target |-> chosen]]]
  /\ UNCHANGED <<wearer, catalog, follower>>

ListTargets(e) ==
  /\ edit[e].step = "list"
  /\ edit' = [edit EXCEPT ![e].step = "read", ![e].list = wearer]
  /\ UNCHANGED <<wearer, catalog, follower>>

\* The errors of the four requests.
Refused(r, list, state) ==
  \/ /\ r.at # "none"
     /\ \/ list[r.at] # r.target
        \/ state.colour[r.name] \notin {0, r.colour}
  \/ /\ r.kind = "update"
     /\ \/ r.colour = 0 /\ state.colour[r.name] = 0
        \/ r.next # r.name /\ state.colour[r.next] # 0

\* Assignments of workspaces that are not on the list go first.
Purged(state, list) ==
  [state EXCEPT !.worn =
     [w \in Targets |-> IF list[w].living /\ list[w].uid = @[w].uid
                        THEN @[w] ELSE NoWearer]]

Wears(state, w, uid, names) ==
  [state EXCEPT !.worn[w] = IF names = {} THEN NoWearer
                            ELSE [uid |-> uid, names |-> names]]
Renamed(state, old, new) ==
  LET renamed(names) == IF old \in names THEN (names \ {old}) \cup {new} ELSE names
  IN [state EXCEPT !.worn =
        [w \in Targets |-> [uid |-> state.worn[w].uid,
                            names |-> renamed(state.worn[w].names)]]]

Assigned(state, r) ==
  LET worn == state.worn[r.at].names
  IN IF r.kind = "assign"
     THEN [Wears(state, r.at, r.target.uid, worn \cup {r.name})
             EXCEPT !.colour[r.name] = r.colour]
     ELSE Wears(state, r.at, r.target.uid, worn \ {r.name})
Recoloured(state, r) ==
  [Renamed(state, r.name, r.next)
     EXCEPT !.colour = [@ EXCEPT ![r.name] = 0,
              ![r.next] = IF r.colour = 0 THEN state.colour[r.name] ELSE r.colour]]
Erased(state, r) ==
  [state EXCEPT !.colour[r.name] = 0,
     !.worn = [w \in Targets |-> [uid |-> state.worn[w].uid,
                                  names |-> state.worn[w].names \ {r.name}]]]
Edited(state, r) ==
  CASE r.kind \in {"assign", "unassign"} -> Assigned(state, r)
    [] r.kind = "update" -> Recoloured(state, r)
    [] r.kind = "delete" -> Erased(state, r)

\* The record is read; the change is made in memory or refused.
ReadCatalog(e) ==
  /\ edit[e].step = "read"
  /\ LET state == Purged(catalog, edit[e].list)
         r == edit[e].request
     IN edit' = [edit EXCEPT ![e] =
                   IF Refused(r, edit[e].list, state) THEN IdleEdit
                   ELSE [@ EXCEPT !.step = "write", !.fresh = TRUE,
                                  !.base = Edited(state, r)]]
  /\ UNCHANGED <<wearer, catalog, follower>>

\* Mutant of Swappable: the record is written whatever version it has.
SwappableAlways(e) == TRUE

Swappable(e) == edit[e].fresh

\* The swap; the answer of one that was made may be lost, which is an error.
WriteCatalog(e) ==
  /\ edit[e].step = "write" /\ Swappable(e)
  /\ catalog' = edit[e].base
  /\ \E answered \in BOOLEAN :
       edit' = [d \in LabelEdits |->
                  CASE d # e -> [edit[d] EXCEPT !.fresh = FALSE]
                    [] d = e /\ answered ->
                         [IdleEdit EXCEPT !.step = "publish"]
                    [] OTHER -> IdleEdit]
  /\ UNCHANGED <<wearer, follower>>

\* A lost swap starts the edit over from the list, or it gives up.
WriteConflicts(e) ==
  /\ edit[e].step = "write" /\ ~edit[e].fresh
  /\ edit' = [edit EXCEPT ![e] =
                IF edit[e].attempt = MaxAttempts THEN IdleEdit
                ELSE [edit[e] EXCEPT !.step = "list", !.attempt = edit[e].attempt + 1,
                                     !.base = EmptyCatalog, !.list = IdleEdit.list]]
  /\ UNCHANGED <<wearer, catalog, follower>>

-----------------------------------------------------------------------------
(* publish(): the catalog is read once, the workspaces again for each       *)
(* follower; those that follow meanwhile have their turn too.               *)

ReadToPublish(e) ==
  /\ edit[e].step = "publish"
  /\ edit' = [edit EXCEPT ![e] = [IdleEdit EXCEPT !.step = "tell", !.base = catalog]]
  /\ UNCHANGED <<wearer, catalog, follower>>

Untold(e) == {f \in Followers : follower[f].step = "on"} \ edit[e].told

Upserts(seen, now) == {n \in LabelNames : now[n] # 0 /\ now[n] # seen[n]}
Removals(seen, now) == {n \in LabelNames : now[n] = 0 /\ seen[n] # 0}
Shown(shown, seen, now) ==
  [n \in LabelNames |-> CASE n \in Upserts(seen, now) -> now[n]
                          [] n \in Removals(seen, now) -> 0
                          [] OTHER -> shown[n]]

Tell(e, f) ==
  /\ edit[e].step = "tell" /\ f \in Untold(e)
  /\ edit' = [edit EXCEPT ![e].told = @ \cup {f}]
  /\ follower' = [follower EXCEPT ![f] =
       IF Active(f, wearer)
       THEN LET now == Visible(f, edit[e].base, wearer)
            IN [follower[f] EXCEPT
                  !.seen = now,
                  !.shown = Shown(follower[f].shown, follower[f].seen, now)]
       ELSE NoFollower]
  /\ UNCHANGED <<wearer, catalog>>

AllTold(e) ==
  /\ edit[e].step = "tell" /\ Untold(e) = {}
  /\ edit' = [edit EXCEPT ![e] = IdleEdit]
  /\ UNCHANGED <<wearer, catalog, follower>>

-----------------------------------------------------------------------------
(* The list and its subscription.                                           *)

Follow(f, p) ==
  /\ follower[f].step = "off"
  /\ p # "owner" => wearer[p].living
  /\ follower' = [follower EXCEPT ![f] =
       [NoFollower EXCEPT !.step = "list", !.principal = p, !.list = wearer,
                          !.uid = IF p = "owner" THEN 0 ELSE wearer[p].uid]]
  /\ UNCHANGED <<wearer, catalog, edit>>

\* The catalog is read, the subscription registered and the list answered.
Registers(f) ==
  /\ follower[f].step = "list"
  /\ LET labels == Visible(f, catalog, follower[f].list)
     IN follower' = [follower EXCEPT ![f] =
          [@ EXCEPT !.step = "on", !.seen = labels, !.shown = labels,
                    !.list = NoFollower.list]]
  /\ edit' = [e \in LabelEdits |-> [edit[e] EXCEPT !.told = @ \ {f}]]
  /\ UNCHANGED <<wearer, catalog>>

\* It is released, or its session closes.
Unfollow(f) ==
  /\ follower[f].step = "on"
  /\ follower' = [follower EXCEPT ![f] = NoFollower]
  /\ UNCHANGED <<wearer, catalog, edit>>

-----------------------------------------------------------------------------
EditStep(e) ==
  \/ ListTargets(e) \/ ReadCatalog(e) \/ WriteCatalog(e) \/ WriteConflicts(e)
  \/ ReadToPublish(e) \/ AllTold(e)
  \/ \E f \in Followers : Tell(e, f)

LabelsNext ==
  \/ \E e \in LabelEdits : EditStep(e) \/ \E r \in Requests : AskEdit(e, r)
  \/ \E w \in Targets : TargetStarts(w) \/ TargetStops(w)
  \/ \E f \in Followers :
       Registers(f) \/ Unfollow(f) \/ \E p \in {"owner"} \cup Targets : Follow(f, p)

LabelsSpec == LabelsInit /\ [][LabelsNext]_labelVars

-----------------------------------------------------------------------------
(* Type correctness: the record holds one assignment of each name.          *)
LabelsTypeOK ==
  /\ wearer \in [Targets -> [uid : 0..MaxTargetUid, living : BOOLEAN]]
  /\ catalog.colour \in Palette
  /\ catalog.worn \in [Targets -> [uid : 0..MaxTargetUid, names : SUBSET LabelNames]]
  /\ \A e \in LabelEdits :
       /\ edit[e].step \in {"none", "list", "read", "write", "publish", "tell"}
       /\ edit[e].attempt \in 0..MaxAttempts /\ edit[e].told \subseteq Followers
  /\ \A f \in Followers :
       /\ follower[f].step \in {"off", "list", "on"}
       /\ follower[f].seen \in Palette /\ follower[f].shown \in Palette

(* Whoever wears a label wears one the catalog defines, whatever renames,   *)
(* deletions and assignments of concurrent requests were swapped in.        *)
WornLabelsDefined ==
  \A w \in Targets : \A n \in catalog.worn[w].names : catalog.colour[n] # 0

(* What a follower was shown, the list and then the updates, is what the    *)
(* gateway believes it has shown it: publish() computes the next updates    *)
(* from that.                                                               *)
ShownIsSeen == \A f \in Followers : follower[f].shown = follower[f].seen

(* A label leaves a living workspace only in the swap of a request that takes it   *)
(* off, renames it or deletes it, or of one that listed the workspaces      *)
(* before this one existed: change() filters the assignments of the record  *)
(* it reads by a list it took earlier.                                      *)
TakesOff(e, w, n) ==
  /\ edit[e].step = "write" /\ edit'[e].step # "write"
  /\ \/ edit[e].request.name = n /\ edit[e].request.kind # "assign"
     \/ edit[e].list[w] # wearer[w]
AssignmentsKept ==
  [][\A w \in {v \in Targets : wearer[v].living} :
       LET before == LabelsFor(catalog, wearer, w)
           after == LabelsFor(catalog', wearer, w)
       IN \A n \in before \ after : \E e \in LabelEdits : TakesOff(e, w, n)]_labelVars

\* Labels in use stay defined and assigned.
LabelsKept == []WornLabelsDefined /\ AssignmentsKept
=============================================================================
