------------------------------ MODULE Downloads ------------------------------
(***************************************************************************)
(* Download handles, DownloadHandles of src/gateway/downloads.ts: a session *)
(* issues a handle for a file of a workspace, and an HTTP request redeems  *)
(* it once.                                                                *)
(*                                                                         *)
(* What the handles' principal may do is one value, as the API server has  *)
(* it at the time of each read.  The check before a transfer asks for more *)
(* than the check during it, which neither looks at deletionTimestamp nor  *)
(* calls authorizeWorkspace(): a workspace that is being deleted starts no *)
(* transfer and ends none.                                                 *)
(***************************************************************************)
EXTENDS Naturals, FiniteSets

CONSTANTS
  Handles,        \* handles in use at once
  Downloaders,    \* HTTP requests handled at once
  MaxHandles,     \* 1024 in the code
  MaxDownloads    \* 16 in the code

ASSUME DownloadAssumption ==
  MaxHandles \in Nat \ {0} /\ MaxDownloads \in Nat \ {0} /\ IsFiniteSet(Downloaders)

VARIABLES
  readAccess,    \* "good", "leaving" (the workspace is being deleted), "refused"
  handle,    \* the map of handles: "none", "issued", "expired"
  redeemed,  \* how often each handle was accepted since it was issued
  download,  \* the HTTP requests
  active     \* transfers, as the code counts them

downloadVars == <<readAccess, handle, redeemed, download, active>>

Accesses == {"good", "leaving", "refused"}
NoDownload == [step |-> "idle"]
Download == {NoDownload} \cup
  [step : {"authorize", "transfer", "aborted"}, with : Handles]
DownloadInit ==
  /\ readAccess = "good" /\ handle = [h \in Handles |-> "none"]
  /\ redeemed = [h \in Handles |-> 0]
  /\ download = [d \in Downloaders |-> NoDownload] /\ active = 0

-----------------------------------------------------------------------------

DownloadGoes(d, step) == [download EXCEPT ![d].step = step]
DownloadRests(d) == [download EXCEPT ![d] = NoDownload]
\* A handle that no request refers to any more is issued anew.
HandleUnused(h) == /\ handle[h] = "none"
             /\ \A d \in Downloaders : download[d] # NoDownload => download[d].with # h

\* issue(): handles that expired are deleted, then the limit counts.
Issue(h) ==
  LET kept == {g \in Handles : handle[g] = "issued"}
  IN  /\ HandleUnused(h) /\ Cardinality(kept) < MaxHandles
      /\ handle' = [g \in Handles |-> IF g = h \/ g \in kept
                                      THEN "issued" ELSE "none"]
      /\ redeemed' = [redeemed EXCEPT ![h] = 0]
      /\ UNCHANGED <<readAccess, download, active>>

HandleExpires(h) ==
  /\ handle[h] = "issued" /\ handle' = [handle EXCEPT ![h] = "expired"]
  /\ UNCHANGED <<readAccess, redeemed, download, active>>

AccessChanges ==
  /\ readAccess' \in Accesses \ {readAccess}
  /\ UNCHANGED <<handle, redeemed, download, active>>

\* handle(): the handle is consumed before anything is awaited.
Redeem(d, h) ==
  /\ download[d] = NoDownload /\ handle[h] # "none"
  /\ handle' = [handle EXCEPT ![h] = "none"]
  /\ IF handle[h] = "issued"
     THEN /\ download' = [download EXCEPT ![d] = [step |-> "authorize", with |-> h]]
          /\ redeemed' = [redeemed EXCEPT ![h] = @ + 1]
     ELSE UNCHANGED <<download, redeemed>>
  /\ UNCHANGED <<readAccess, active>>

\* The workspaces are read; then the limit on transfers, counted in one step
\* with the check.
Authorize(d) ==
  /\ download[d].step = "authorize"
  /\ IF readAccess = "good" /\ active < MaxDownloads
     THEN /\ download' = DownloadGoes(d, "transfer") /\ active' = active + 1
     ELSE /\ download' = DownloadRests(d) /\ UNCHANGED active
  /\ UNCHANGED <<readAccess, handle, redeemed>>

\* The check made every second reads the workspaces; a refusal aborts the
\* transfer, and so does a read that fails.
RevokeCheck(d) ==
  /\ download[d].step = "transfer" /\ readAccess = "refused"
  /\ download' = DownloadGoes(d, "aborted")
  /\ UNCHANGED <<readAccess, handle, redeemed, active>>

RevokeReadFails(d) ==
  /\ download[d].step = "transfer"
  /\ download' = DownloadGoes(d, "aborted")
  /\ UNCHANGED <<readAccess, handle, redeemed, active>>

\* The transfer ends: complete, refused by the backend, over the size, past
\* its deadline, left by the client, or aborted.
TransferEnds(d) ==
  /\ download[d].step \in {"transfer", "aborted"}
  /\ download' = DownloadRests(d) /\ active' = active - 1
  /\ UNCHANGED <<readAccess, handle, redeemed>>

DownloadNext ==
  \/ AccessChanges
  \/ \E h \in Handles : Issue(h) \/ HandleExpires(h)
  \/ \E d \in Downloaders :
       \/ \E h \in Handles : Redeem(d, h)
       \/ Authorize(d) \/ RevokeCheck(d) \/ RevokeReadFails(d)
       \/ TransferEnds(d)

\* Reads of the cluster return, the interval fires, and an aborted transfer
\* ends; a transfer that is not aborted may take as long as it likes.
DownloadFairness ==
  \A d \in Downloaders :
    /\ WF_downloadVars(Authorize(d))
    /\ WF_downloadVars(RevokeCheck(d))
    /\ WF_downloadVars(download[d].step = "aborted" /\ TransferEnds(d))

DownloadSpec ==
  DownloadInit /\ [][DownloadNext]_downloadVars /\ DownloadFairness

-----------------------------------------------------------------------------

DownloadTypeOK ==
  /\ readAccess \in Accesses /\ handle \in [Handles -> {"none", "issued", "expired"}]
  /\ redeemed \in [Handles -> Nat]
  /\ download \in [Downloaders -> Download]
  /\ active \in 0 .. MaxDownloads

\* A handle is good for one request, however many arrive with it at once and
\* whatever becomes of the first.
HandleRedeemedOnce == \A h \in Handles : redeemed[h] <= 1

\* The count of transfers is exact, so that the limit is neither passed nor
\* used up by requests that ended.
Transferring == {d \in Downloaders : download[d].step \in {"transfer", "aborted"}}
DownloadsCounted == active = Cardinality(Transferring)

\* Access that is withdrawn for good ends the transfers it allowed, by the check
\* alone: the deadline of ten minutes is not relied on.
RevokedTransfersEnd ==
  <>[](readAccess = "refused") =>
    \A d \in Downloaders :
      <>[](download[d].step \notin {"transfer", "aborted"})

\* A handle serves one request, and the count of transfers is exact.
HandlesAccounted == HandleRedeemedOnce /\ DownloadsCounted
=============================================================================
