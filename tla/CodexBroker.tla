---------------------------- MODULE CodexBroker ----------------------------
(***************************************************************************)
(* The Codex subscription broker: CodexSubscriptionBroker of               *)
(* src/credentials/codex-subscription.ts with the native refresh of        *)
(* src/credentials/codex-native.ts, run by several gateway processes (a    *)
(* rollout overlaps the old and the new one) over one bootstrap Secret     *)
(* (the authority) and one output Secret.                                  *)
(*                                                                         *)
(* A compare-and-swap succeeds when the Secret is still the version that   *)
(* was read: "held" names the Secrets whose copy is still current, and     *)
(* every write of a Secret drops it from every process.  A lease is a      *)
(* random UUID; a process has one attempt at a time and a new claim        *)
(* overwrites the lease, so the process stands for it.  Times count down.  *)
(* Refresh tokens are numbered in the order of their issue; an OAuth       *)
(* refresh consumes one and issues the next.                               *)
(***************************************************************************)
EXTENDS Integers, FiniteSets

CONSTANTS
  CodexProcesses,   \* gateway processes that run the broker
  CodexProfiles,    \* credential profiles
  NoCodexProfile,   \* the owner of an unowned Secret
  MaxCodexToken,    \* bound: refresh tokens ever issued
  CodexConfigs,     \* bound: configurations each profile goes through
  CodexLease,       \* LEASE_MS in ticks
  CodexEarly,       \* RENEW_EARLY_MS in ticks
  CodexMinLife,     \* the least remaining life of a committed access token
  CodexLife,        \* the longest life of an issued access token
  MaxAbandoned      \* bound: attempts cut off by a crash or a failed call

ASSUME CodexAssumption ==
  /\ NoCodexProfile \notin CodexProfiles
  /\ MaxCodexToken \in Nat \ {0} /\ MaxAbandoned \in Nat
  /\ CodexConfigs \in [CodexProfiles -> Nat \ {0}]
  /\ CodexLease \in Nat \ {0} /\ CodexLife \in Nat
  /\ CodexEarly \in 0 .. CodexLife /\ CodexMinLife \in 0 .. CodexLife

VARIABLES
  authority,   \* the bootstrap Secret
  access,      \* the output Secret
  renewer,     \* the attempt of each process
  codexConfig, \* the current configuration of each profile
  issued,      \* refresh tokens issued so far
  spent,       \* history: how often a token was refreshed (0, 1, or 2 for more)
  abandoned    \* attempts cut off so far

codexVars == <<authority, access, renewer, codexConfig, issued, spent,
               abandoned>>

CodexTokens == 1 .. MaxCodexToken
\* An access token, named by the refresh token issued with it.
NoAccess == [of |-> 0, left |-> 0]
Access == {NoAccess} \cup [of : CodexTokens, left : 0 .. CodexLife]
\* fingerprint(config, uid, owner)
Bindings == UNION {{p} \X (1 .. CodexConfigs[p]) : p \in CodexProfiles}
NoBinding == <<NoCodexProfile, 0>>
CodexOwners == CodexProfiles \cup {NoCodexProfile}

Authority ==
  [token : CodexTokens, owner : CodexOwners, intent : 0 .. MaxCodexToken,
   lease : CodexProcesses \cup {NoCodexProfile}, left : 0 .. CodexLease,
   access : Access, binding : Bindings \cup {NoBinding},
   digest : 0 .. MaxCodexToken]
Output == [owner : CodexOwners, access : Access,
           binding : Bindings \cup {NoBinding}]

\* Unread also stands for a copy no code looks at any more.
Unread == [owner |-> NoCodexProfile, access |-> NoAccess, binding |-> NoBinding]
Bootstrap ==
  [token |-> 1, owner |-> NoCodexProfile, intent |-> 0,
   lease |-> NoCodexProfile, left |-> 0, access |-> NoAccess,
   binding |-> NoBinding, digest |-> 0]

RenewerSteps == {"idle", "output", "expel", "invalidate", "claim", "native",
                 "rotated", "latest", "commit", "durable", "lookup", "recheck",
                 "put"}
Renewer ==
  [step : RenewerSteps, profile : CodexProfiles, binding : Bindings \cup {NoBinding},
   authority : Authority, output : Output,
   held : SUBSET {"authority", "output"}, result : Access]
Resting(p) == [step |-> "idle", profile |-> p, binding |-> NoBinding,
               authority |-> Bootstrap, output |-> Unread, held |-> {},
               result |-> NoAccess]

CodexInit ==
  /\ authority = Bootstrap
  /\ \E p \in CodexOwners :     \* none yet, or one some profile published
       access = IF p = NoCodexProfile THEN Unread
                ELSE [Unread EXCEPT !.owner = p, !.binding = <<p, 1>>]
  /\ \E profile \in [CodexProcesses -> CodexProfiles] :
       renewer = [b \in CodexProcesses |-> Resting(profile[b])]
  /\ codexConfig = [p \in CodexProfiles |-> 1]
  /\ issued = 1
  /\ spent = [t \in CodexTokens |-> 0]
  /\ abandoned = 0

-----------------------------------------------------------------------------
(* Helpers.                                                                 *)

\* Of the authority an attempt wrote, it only looks at the token again.
Forget(a) == [Bootstrap EXCEPT !.token = a.token]
Goto(b, step) == [renewer EXCEPT ![b].step = step]
Rest(b) == [renewer EXCEPT ![b] = Resting(renewer[b].profile)]

\* compareAndSwapSecret: replaces the version that was read, or refuses.
Drop(rs, secret) ==
  [b \in CodexProcesses |-> [rs[b] EXCEPT !.held = @ \ {secret}]]
SwapAuthority(b, new, next) ==
  IF "authority" \in renewer[b].held
  THEN /\ authority' = new
       /\ renewer' = Drop([Goto(b, next) EXCEPT ![b].authority =
                             Forget(@)], "authority")
  ELSE authority' = authority /\ renewer' = Rest(b)
SwapOutput(b, new, rs) ==
  IF "output" \in renewer[b].held
  THEN access' = new /\ renewer' = Drop(rs, "output")
  ELSE access' = access /\ renewer' = Rest(b)

Foreign(owner, b) == owner \notin {NoCodexProfile, renewer[b].profile}

\* The cached access token belongs to this bootstrap and will last.
Current(b) ==
  LET a == renewer[b].authority
  IN  /\ a.access # NoAccess
      /\ a.binding = renewer[b].binding /\ a.digest = a.token
      /\ a.access.left > CodexEarly

\* What publish() first asks of the authority it was given.
Publishable(a, b, token) ==
  /\ a.binding = renewer[b].binding
  /\ a.access.of = token
  /\ a.digest = a.token
  /\ a.intent = 0

-----------------------------------------------------------------------------
(* One attempt: renew().                                                    *)

ReadAuthority(b) ==
  LET p == renewer[b].profile
  IN  /\ renewer[b].step = "idle"
      /\ ~Foreign(authority.owner, b)
      /\ renewer' = [renewer EXCEPT
           ![b].step = "output", ![b].binding = <<p, codexConfig[p]>>,
           ![b].authority = authority, ![b].held = {"authority"}]
      /\ UNCHANGED <<authority, access, codexConfig, issued, spent, abandoned>>

\* Mutant of Decide: an unfinished refresh is repeated once its lease is over.
DecideRetries(b, out) ==
  LET a == renewer[b].authority
  IN  CASE Foreign(out.owner, b) \/ a.left > 0 -> "idle"
        [] a.intent # a.token /\ Current(b) -> "lookup"
        [] OTHER -> "claim"

\* Where renew() goes once it has read both Secrets.
Decide(b, out) ==
  LET a == renewer[b].authority
      fenced == a.intent = a.token
  IN  CASE Foreign(out.owner, b) -> "idle"
        [] fenced /\ a.left > 0 -> "idle"             \* in progress
        [] fenced /\ a.left = 0 -> "expel"            \* outcome unknown
        [] ~fenced /\ Current(b) ->
             IF Publishable(a, b, a.access.of) THEN "lookup" ELSE "idle"
        [] OTHER ->
             IF out.binding # renewer[b].binding \/ a.digest # a.token
             THEN "invalidate" ELSE "claim"

ReadOutput(b) ==
  /\ renewer[b].step = "output"
  /\ LET next == Decide(b, access)
     IN  renewer' =
           CASE next = "idle" -> Rest(b)
             [] next \in {"expel", "invalidate"} ->
                  [renewer EXCEPT ![b].step = next, ![b].output = access,
                     ![b].held = @ \cup {"output"}]
             [] next = "claim" -> Goto(b, next)
             [] next = "lookup" ->
                  [renewer EXCEPT ![b].step = next,
                     ![b].result = renewer[b].authority.access]
  /\ UNCHANGED <<authority, access, codexConfig, issued, spent, abandoned>>

\* invalidateOutput(): empties the access token unless it is empty already.
InvalidateOutput(b) ==
  LET out == renewer[b].output
      rs == IF renewer[b].step = "expel" THEN Rest(b)
            ELSE [Goto(b, "claim") EXCEPT ![b].output = Unread,
                    ![b].held = @ \ {"output"}]
  IN  /\ renewer[b].step \in {"expel", "invalidate"}
      /\ IF out.access = NoAccess
         THEN access' = access /\ renewer' = rs
         ELSE SwapOutput(b, [out EXCEPT !.access = NoAccess], rs)
      /\ UNCHANGED <<authority, codexConfig, issued, spent, abandoned>>

\* The durable refresh intent, written before the token is touched.
Claim(b) ==
  LET r == renewer[b]
  IN  /\ r.step = "claim"
      /\ SwapAuthority(b, [r.authority EXCEPT
           !.owner = r.profile, !.intent = r.authority.token, !.lease = b,
           !.left = CodexLease], "native")
      /\ UNCHANGED <<access, codexConfig, issued, spent, abandoned>>

\* refreshWithNativeCodex(): initialize, a first getAuthStatus that loads the
\* credentials, and the one that refreshes them.  OAuth consumes the token.
NativeRefresh(b) ==
  LET t == renewer[b].authority.token
  IN  /\ renewer[b].step = "native"
      /\ issued < MaxCodexToken
      /\ issued' = issued + 1
      /\ spent' = [spent EXCEPT ![t] = IF @ = 0 THEN 1 ELSE 2]
      /\ \E life \in 0 .. CodexLife :
           renewer' = [renewer EXCEPT
             ![b].step = "rotated", ![b].result = [of |-> issued + 1, left |-> life]]
      /\ UNCHANGED <<authority, access, codexConfig, abandoned>>

\* The new state is read back, compared and exported; the process is killed.
NativeReturns(b) ==
  /\ renewer[b].step = "rotated"
  /\ renewer' = Goto(b, "latest")
  /\ UNCHANGED <<authority, access, codexConfig, issued, spent, abandoned>>

\* The process exits, an answer is unusable, or 30 s are over: before the
\* token was consumed or after it.
NativeFails(b) ==
  /\ renewer[b].step \in {"native", "rotated"}
  /\ renewer' = Rest(b)
  /\ UNCHANGED <<authority, access, codexConfig, issued, spent, abandoned>>

\* The lease must still be this attempt's and the bootstrap unchanged.
ReadLatest(b) ==
  LET r == renewer[b]
      committable ==
        /\ authority.lease = b
        /\ authority.token = r.authority.token
        /\ authority.left > 0
        /\ r.result.left > CodexMinLife
  IN  /\ r.step = "latest"
      /\ renewer' = IF committable
                    THEN [renewer EXCEPT ![b].step = "commit",
                            ![b].authority = authority,
                            ![b].held = {"authority"}]
                    ELSE Rest(b)
      /\ UNCHANGED <<authority, access, codexConfig, issued, spent, abandoned>>

Commit(b) ==
  LET r == renewer[b]
  IN  /\ r.step = "commit"
      /\ SwapAuthority(b, [r.authority EXCEPT
           !.token = r.result.of, !.access = r.result,
           !.binding = r.binding, !.digest = r.result.of,
           !.intent = 0, !.lease = NoCodexProfile, !.left = 0], "durable")
      /\ UNCHANGED <<access, codexConfig, issued, spent, abandoned>>

ReadDurable(b) ==
  /\ renewer[b].step = "durable"
  /\ renewer' = IF Publishable(authority, b, renewer[b].result.of)
                THEN [renewer EXCEPT ![b].step = "lookup",
                        ![b].authority = authority,
                        ![b].held = {"authority"}]
                ELSE Rest(b)
  /\ UNCHANGED <<authority, access, codexConfig, issued, spent, abandoned>>

-----------------------------------------------------------------------------
(* publish().                                                               *)

LookupOutput(b) ==
  LET r == renewer[b]
      published == /\ access.access.of = r.result.of
                   /\ access.binding = r.binding
  IN  /\ r.step = "lookup"
      /\ renewer' = IF Foreign(access.owner, b) \/ published THEN Rest(b)
                    ELSE [renewer EXCEPT ![b].step = "recheck",
                            ![b].output = access,
                            ![b].held = @ \cup {"output"}]
      /\ UNCHANGED <<authority, access, codexConfig, issued, spent, abandoned>>

\* The authority must be the version the access token was taken from.
RecheckAuthority(b) ==
  /\ renewer[b].step = "recheck"
  /\ renewer' = IF "authority" \in renewer[b].held THEN Goto(b, "put")
                ELSE Rest(b)
  /\ UNCHANGED <<authority, access, codexConfig, issued, spent, abandoned>>

PutOutput(b) ==
  LET r == renewer[b]
  IN  /\ r.step = "put"
      /\ SwapOutput(b, [owner |-> r.profile, binding |-> r.binding,
                        access |-> r.result], Rest(b))
      /\ UNCHANGED <<authority, codexConfig, issued, spent, abandoned>>

-----------------------------------------------------------------------------
(* The environment.                                                         *)

\* The process dies, or a call throws and reconcile() goes on: after a write,
\* this is also the loss of its answer.
Abandon(b) ==
  /\ renewer[b].step # "idle" /\ abandoned < MaxAbandoned
  /\ abandoned' = abandoned + 1
  /\ renewer' = Rest(b)
  /\ UNCHANGED <<authority, access, codexConfig, issued, spent>>

\* The operator stores a new bootstrap; the annotations stay.
Rebootstrap ==
  /\ issued < MaxCodexToken
  /\ issued' = issued + 1
  /\ authority' = [authority EXCEPT !.token = issued + 1]
  /\ renewer' = Drop(renewer, "authority")
  /\ UNCHANGED <<access, codexConfig, spent, abandoned>>

EditProfile(p) ==
  /\ codexConfig[p] < CodexConfigs[p]
  /\ codexConfig' = [codexConfig EXCEPT ![p] = @ + 1]
  /\ UNCHANGED <<authority, access, renewer, issued, spent, abandoned>>

Older(a) == [a EXCEPT !.left = IF @ = 0 THEN 0 ELSE @ - 1]
OlderAuthority(a) == [Older(a) EXCEPT !.access = Older(@)]
OlderOutput(o) == [o EXCEPT !.access = Older(@)]

CodexTick ==
  /\ authority' = OlderAuthority(authority)
  /\ access' = OlderOutput(access)
  /\ renewer' = [b \in CodexProcesses |-> [renewer[b] EXCEPT
       !.authority = OlderAuthority(@), !.output = OlderOutput(@),
       !.result = Older(@)]]
  /\ UNCHANGED <<codexConfig, issued, spent, abandoned>>

RenewStep(b) ==
  \/ ReadAuthority(b) \/ ReadOutput(b) \/ InvalidateOutput(b) \/ Claim(b)
  \/ NativeRefresh(b) \/ NativeReturns(b) \/ NativeFails(b)
  \/ ReadLatest(b) \/ Commit(b) \/ ReadDurable(b)
  \/ LookupOutput(b) \/ RecheckAuthority(b) \/ PutOutput(b)

CodexNext ==
  \/ \E b \in CodexProcesses : RenewStep(b) \/ Abandon(b)
  \/ Rebootstrap
  \/ \E p \in CodexProfiles : EditProfile(p)
  \/ CodexTick

\* Every process runs the broker every 10 s, a native refresh ends by itself
\* or by its timeout, and time passes.
CodexFairness ==
  /\ \A b \in CodexProcesses : WF_codexVars(RenewStep(b))
  /\ WF_codexVars(CodexTick)

CodexSpec == CodexInit /\ [][CodexNext]_codexVars /\ CodexFairness

-----------------------------------------------------------------------------
(* Properties.                                                              *)

\* The state has its type.
CodexTypeOK ==
  /\ authority \in Authority /\ access \in Output
  /\ codexConfig \in [CodexProfiles -> Nat]
  /\ \A p \in CodexProfiles : codexConfig[p] \in 1 .. CodexConfigs[p]
  /\ issued \in 0 .. MaxCodexToken /\ abandoned \in 0 .. MaxAbandoned
  /\ spent \in [CodexTokens -> 0 .. 2]
  /\ renewer \in [CodexProcesses -> Renewer]

\* "Never retry an ambiguous refresh token": no refresh token is given to the
\* native refresh twice, whatever dies, conflicts or expires in between.
RefreshTokenUsedOnce == \A t \in CodexTokens : spent[t] <= 1

\* A bootstrap whose token was consumed carries the intent that keeps every
\* process from it, however the attempt that consumed it ended.
SpentTokenFenced ==
  spent[authority.token] # 0 => authority.intent = authority.token

\* publish(): a published access token is never replaced by an older one, when
\* a process that read the authority earlier publishes later.
AccessNeverRegresses ==
  [][access'.access.of # 0 => access'.access.of >= access.access.of]_codexVars

\* A profile never takes over a Secret another one owns, though both may have
\* found it unowned.
CodexOwnersKept ==
  [][/\ authority.owner # NoCodexProfile => authority'.owner = authority.owner
     /\ access.owner # NoCodexProfile => access'.owner = access.owner]_codexVars

\* Once an unfinished rotation has outlived its lease, the output is emptied,
\* unless the operator supplies a new bootstrap or another profile owns it.
AmbiguousAccessCleared ==
  (authority.intent = authority.token /\ authority.left = 0)
    ~> \/ access.access = NoAccess
       \/ authority.intent # authority.token
       \/ access.owner # authority.owner

\* What the broker owes the authority and the workspaces: a one-use token is
\* used once and fenced afterwards, and neither the published token nor the
\* ownership of a Secret goes back.
AuthorityHolds ==
  /\ [](RefreshTokenUsedOnce /\ SpentTokenFenced)
  /\ AccessNeverRegresses
  /\ CodexOwnersKept
=============================================================================
