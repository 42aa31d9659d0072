---------------------------- MODULE GitHubBroker ----------------------------
(***************************************************************************)
(* The GitHub App token broker, GitHubAppBroker of                         *)
(* src/credentials/github-app.ts, run by several gateway processes over    *)
(* the output Secret of one profile.  The Secret is the lock, the token,   *)
(* and the record of failures at once.                                     *)
(*                                                                         *)
(* As in CodexBroker, a compare-and-swap succeeds while the copy that was  *)
(* read is "held", and a process stands for its lock id.  Times count      *)
(* down, a little below zero, because renew() reads the clock once, before *)
(* it reads the Secret, and judges the Secret by that clock.               *)
(***************************************************************************)
EXTENDS Integers

CONSTANTS
  Minters,        \* gateway processes that run the broker
  NoMinter,       \* nobody holds the lock
  AppConfigs,     \* bound: configurations of the App (its repositories), 1 .. n
  LockTime,       \* LOCK_MS in ticks
  RequestTime,    \* the timeout of the request to GitHub, and its margin
  RenewEarly,     \* RENEW_EARLY_MS in ticks
  TokenLife,      \* the longest life GitHub grants
  MaxBackoff,     \* the longest back-off, in ticks
  MaxFailures,    \* the cap of the failure counter (10 in the code)
  ReadTime,       \* bound: the age of renew()'s clock when it claims the lock
  MaxGitAborts    \* bound: attempts cut off by a crash or a failed call

ASSUME GitHubAssumption ==
  /\ NoMinter \notin Minters
  /\ AppConfigs \in Nat \ {0} /\ RequestTime \in Nat \ {0}
  /\ LockTime \in Nat /\ LockTime > RequestTime
  /\ ReadTime \in 0 .. LockTime
  /\ RenewEarly \in Nat /\ TokenLife \in Nat /\ TokenLife > RenewEarly
  /\ MaxBackoff \in Nat \ {0} /\ MaxFailures \in Nat \ {0}
  /\ MaxGitAborts \in Nat

VARIABLES
  tokenSecret,   \* the output Secret
  minter,        \* the attempt of each process
  appConfig,     \* the configuration in the profile
  gitAborts      \* attempts cut off so far

gitVars == <<tokenSecret, minter, appConfig, gitAborts>>

Downward(n) == (0 - ReadTime) .. n
\* A token is named by the configuration it was minted for; 0 is no token.
TokenSecret ==
  [owner : {"absent", "profile", "operator"}, config : 0 .. AppConfigs,
   token : 0 .. AppConfigs, expires : Downward(TokenLife),
   lock : Minters \cup {NoMinter}, until : Downward(LockTime),
   failures : 0 .. MaxFailures, next : Downward(MaxBackoff)]

AbsentSecret ==
  [owner |-> "absent", config |-> 0, token |-> 0, expires |-> 0 - ReadTime,
   lock |-> NoMinter, until |-> 0 - ReadTime, failures |-> 0,
   next |-> 0 - ReadTime]
MinterSteps == {"idle", "read", "claim", "key", "lease", "post", "finish",
                "publish"}
Minter ==
  [step : MinterSteps, config : 0 .. AppConfigs, age : 0 .. ReadTime,
   copy : TokenSecret, held : BOOLEAN, left : 0 .. RequestTime,
   life : Downward(TokenLife)]
MintResting ==
  [step |-> "idle", config |-> 0, age |-> 0, copy |-> AbsentSecret,
   held |-> FALSE, left |-> 0, life |-> 0 - ReadTime]

GitInit ==
  /\ \E owner \in {"absent", "operator"} :
       tokenSecret = [AbsentSecret EXCEPT !.owner = owner]
  /\ minter = [b \in Minters |-> MintResting]
  /\ appConfig = 1 /\ gitAborts = 0

-----------------------------------------------------------------------------

MinterGoes(b, step) == [minter EXCEPT ![b].step = step]
MinterRests(b) == [minter EXCEPT ![b] = MintResting]
SwapTokenSecret(b, new, ms) ==
  IF minter[b].held
  THEN /\ tokenSecret' = new
       /\ minter' = [c \in Minters |-> [ms[c] EXCEPT !.held = FALSE,
                       !.copy = IF c = b THEN AbsentSecret ELSE @]]
  ELSE tokenSecret' = tokenSecret /\ minter' = MinterRests(b)

\* renew() takes the profile and the time.
BeginMint(b) ==
  /\ minter[b].step = "idle"
  /\ minter' = [minter EXCEPT ![b].step = "read", ![b].config = appConfig]
  /\ UNCHANGED <<tokenSecret, appConfig, gitAborts>>

\* The Secret is nobody else's, unlocked, and in need of a token now.
Due(b) ==
  LET age == minter[b].age
      matches == tokenSecret.config = minter[b].config
  IN  /\ tokenSecret.owner # "operator"
      /\ tokenSecret.until + age <= 0
      /\ ~(matches /\ tokenSecret.token # 0
             /\ tokenSecret.expires + age > RenewEarly)
      /\ ~(matches /\ tokenSecret.next + age > 0)

ReadTokenSecret(b) ==
  /\ minter[b].step = "read"
  /\ minter' = IF Due(b)
               THEN [minter EXCEPT ![b].step = "claim",
                       ![b].copy = tokenSecret, ![b].held = TRUE]
               ELSE MinterRests(b)
  /\ UNCHANGED <<tokenSecret, appConfig, gitAborts>>

\* The lock; a token of another configuration is emptied with it.
ClaimLock(b) ==
  LET m == minter[b]
  IN  /\ m.step = "claim"
      /\ SwapTokenSecret(b, [m.copy EXCEPT
           !.owner = "profile", !.config = m.config, !.lock = b,
           !.until = LockTime - m.age,
           !.token = IF m.copy.config = m.config THEN @ ELSE 0],
           [MinterGoes(b, "key") EXCEPT ![b].age = 0])
      /\ UNCHANGED <<appConfig, gitAborts>>

\* The private key is read and the request signed, or there is no usable key.
ReadKey(b) ==
  /\ minter[b].step = "key"
  /\ minter' \in {MinterGoes(b, "lease"), MinterGoes(b, "finish")}
  /\ UNCHANGED <<tokenSecret, appConfig, gitAborts>>

\* Mutant of CheckLease: a lease that ends during the request is good enough.
CheckLeaseNow(b) ==
  /\ minter[b].step = "lease"
  /\ minter' = IF tokenSecret.lock = b /\ tokenSecret.until > 0
               THEN [minter EXCEPT ![b].step = "post", ![b].left = RequestTime]
               ELSE MinterGoes(b, "finish")
  /\ UNCHANGED <<tokenSecret, appConfig, gitAborts>>

\* The lease must outlast the request about to be made.
CheckLease(b) ==
  /\ minter[b].step = "lease"
  /\ minter' = IF tokenSecret.lock = b /\ tokenSecret.until > RequestTime
               THEN [minter EXCEPT ![b].step = "post", ![b].left = RequestTime]
               ELSE MinterGoes(b, "finish")
  /\ UNCHANGED <<tokenSecret, appConfig, gitAborts>>

\* GitHub answers with a token for the repositories asked for that lasts.
MintAnswers(b) ==
  /\ minter[b].step = "post"
  /\ \E life \in (RenewEarly + 1) .. TokenLife :
       minter' = [MinterGoes(b, "finish") EXCEPT ![b].life = life, ![b].left = 0]
  /\ UNCHANGED <<tokenSecret, appConfig, gitAborts>>

\* An error, an unacceptable answer, or the timeout.
MintFails(b) ==
  /\ minter[b].step = "post"
  /\ minter' = [MinterGoes(b, "finish") EXCEPT ![b].left = 0]
  /\ UNCHANGED <<tokenSecret, appConfig, gitAborts>>

Minted(b) == minter[b].life > 0 - ReadTime

\* The lock must still be this attempt's and unexpired.
ReadLocked(b) ==
  /\ minter[b].step = "finish"
  /\ minter' = IF tokenSecret.lock = b /\ tokenSecret.until > 0
               THEN [minter EXCEPT ![b].step = "publish",
                       ![b].copy = tokenSecret, ![b].held = TRUE]
               ELSE MinterRests(b)
  /\ UNCHANGED <<tokenSecret, appConfig, gitAborts>>

\* 5 s, doubled with every failure and capped; a tick is no shorter.
Backoff(n) ==
  LET delay == 2 ^ (n - 1)
  IN  IF delay \in 1 .. MaxBackoff THEN delay ELSE MaxBackoff

Released(s) == [s EXCEPT !.lock = NoMinter, !.until = 0 - ReadTime]
WithToken(s, b) ==
  [Released(s) EXCEPT !.token = minter[b].config, !.expires = minter[b].life,
     !.failures = 0, !.next = 0 - ReadTime]
WithFailure(s) ==
  LET n == IF s.failures < MaxFailures THEN s.failures + 1 ELSE MaxFailures
  IN  [Released(s) EXCEPT !.failures = n, !.next = Backoff(n)]

PublishToken(b) ==
  LET s == minter[b].copy
  IN  /\ minter[b].step = "publish"
      /\ SwapTokenSecret(b, IF Minted(b) THEN WithToken(s, b) ELSE WithFailure(s),
                         MinterRests(b))
      /\ UNCHANGED <<appConfig, gitAborts>>

-----------------------------------------------------------------------------

AbortMint(b) ==
  /\ minter[b].step # "idle" /\ gitAborts < MaxGitAborts
  /\ gitAborts' = gitAborts + 1
  /\ minter' = MinterRests(b)
  /\ UNCHANGED <<tokenSecret, appConfig>>

EditApp ==
  /\ appConfig < AppConfigs
  /\ appConfig' = appConfig + 1
  /\ UNCHANGED <<tokenSecret, minter, gitAborts>>

Sooner(n) == IF n > 0 - ReadTime THEN n - 1 ELSE n
SoonerSecret(s) == [s EXCEPT !.expires = Sooner(@), !.until = Sooner(@),
                             !.next = Sooner(@)]
Dated == {"read", "claim"}   \* steps that still use renew()'s clock

\* A request is aborted when its time is up, and so does not outlast it.
GitTick ==
  /\ \A b \in Minters : /\ minter[b].step = "post" => minter[b].left > 0
                        /\ minter[b].step \in Dated => minter[b].age < ReadTime
  /\ tokenSecret' = SoonerSecret(tokenSecret)
  /\ minter' = [b \in Minters |-> [minter[b] EXCEPT
       !.age = IF minter[b].step \in Dated THEN @ + 1 ELSE @,
       !.left = IF minter[b].step = "post" THEN @ - 1 ELSE @,
       !.copy = IF @ = AbsentSecret THEN @ ELSE SoonerSecret(@),
       !.life = Sooner(@)]]
  /\ UNCHANGED <<appConfig, gitAborts>>

MintStep(b) ==
  \/ BeginMint(b) \/ ReadTokenSecret(b) \/ ClaimLock(b) \/ ReadKey(b)
  \/ CheckLease(b) \/ MintAnswers(b) \/ MintFails(b) \/ ReadLocked(b)
  \/ PublishToken(b)

GitNext ==
  \/ \E b \in Minters : MintStep(b) \/ AbortMint(b)
  \/ EditApp \/ GitTick

\* Every process runs the broker every 10 s; time passes.
GitFairness ==
  /\ \A b \in Minters : WF_gitVars(MintStep(b))
  /\ WF_gitVars(GitTick)

GitSpec == GitInit /\ [][GitNext]_gitVars /\ GitFairness

-----------------------------------------------------------------------------

\* The state has its type.
GitTypeOK ==
  /\ tokenSecret \in TokenSecret
  /\ appConfig \in 1 .. AppConfigs /\ gitAborts \in 0 .. MaxGitAborts
  /\ minter \in [Minters -> Minter]

\* The token workspaces are given was minted for the configuration the Secret
\* names, though renewals for different configurations overlap: a late answer
\* never publishes the repositories of an earlier configuration.
TokenMatchesConfig == tokenSecret.token \in {0, tokenSecret.config}

\* The lock and its margin let one process at a time ask GitHub for a token,
\* even when an earlier holder was slow or its lock expired.
OneMintAtATime ==
  \A b, c \in Minters :
    minter[b].step = "post" /\ minter[c].step = "post" => b = c

\* "Never adopt or overwrite an operator-managed Secret": and a token that is
\* current for its configuration is only replaced by one that lasts longer.
TokenNeverShortened ==
  [][/\ tokenSecret.owner = "operator" => tokenSecret' = tokenSecret
     /\ (tokenSecret.lock # NoMinter /\ tokenSecret'.lock = NoMinter
           /\ tokenSecret'.token = tokenSecret.token /\ tokenSecret.token # 0)
          => tokenSecret'.expires >= tokenSecret.expires]_gitVars

\* The lock of a process that died or was too slow is taken over.
StaleLockTakenOver ==
  (tokenSecret.lock # NoMinter /\ tokenSecret.until <= 0)
    ~> (tokenSecret.lock = NoMinter \/ tokenSecret.until > 0)

\* What the lock is for: one mint at a time, a token of the configuration it
\* is published with, and no renewal that takes a better token away.
AppTokenHolds ==
  /\ [](TokenMatchesConfig /\ OneMintAtATime)
  /\ TokenNeverShortened
=============================================================================
