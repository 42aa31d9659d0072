-------------------------- MODULE CredentialProofs --------------------------
(***************************************************************************)
(* What the credential brokers promise, for every number of gateway        *)
(* processes, profiles, configurations and attempts: a one-use refresh     *)
(* token is used once and published tokens never go back (CodexBroker);    *)
(* one process at a time obtains a token, of the right configuration, that *)
(* replaces none that lasts longer (GitHubBroker).                         *)
(***************************************************************************)
EXTENDS CodexBroker, GitHubBroker, TLAPS

-----------------------------------------------------------------------------
(* The Codex subscription: the invariant.                                   *)

\* While a copy is held the Secret has not been written since it was read.
CopiesAreCurrent ==
  \A b \in CodexProcesses :
    /\ "authority" \in renewer[b].held => renewer[b].authority = authority
    /\ "output" \in renewer[b].held => renewer[b].output = access

\* The token a native refresh is about to consume.
TokenOf(b) == renewer[b].authority.token
\* A rotated token that is in nobody's Secret yet.
Carries(b) == renewer[b].step \in {"rotated", "latest", "commit"}

\* Tokens are issued in order: the Secret's is issued, and what is not issued
\* is not spent.
TokensIssued ==
  /\ authority.token <= issued
  /\ \A t \in CodexTokens : spent[t] # 0 => t <= issued

\* An attempt that may claim saw no intent; a native refresh has a fresh token
\* for itself that is fenced if the Secret still carries it.
RefreshesAreExclusive ==
  /\ \A b \in CodexProcesses :
       renewer[b].step \in {"invalidate", "claim"}
         => renewer[b].authority.intent # TokenOf(b)
  /\ \A b \in CodexProcesses :
       renewer[b].step = "native" =>
         /\ TokenOf(b) <= issued /\ spent[TokenOf(b)] = 0
         /\ authority.token = TokenOf(b) => authority.intent = TokenOf(b)
         /\ \A c \in CodexProcesses :
              renewer[c].step = "native" /\ c # b => TokenOf(c) # TokenOf(b)

\* A rotated token is fresh, newer than the one it was obtained with, and
\* known to the one attempt that carries it.
RotatedIsFresh ==
  \A b \in CodexProcesses : Carries(b) =>
    LET t == renewer[b].result.of
    IN  /\ t \in CodexTokens /\ t <= issued /\ spent[t] = 0
        /\ t # authority.token /\ TokenOf(b) < t
        /\ \A c \in CodexProcesses :
             /\ renewer[c].step = "native" => TokenOf(c) # t
             /\ Carries(c) /\ c # b => renewer[c].result.of # t

\* The published access token is no newer than the authority's, nor than the
\* one an attempt that still holds the output is about to put there.
PublishedInOrder ==
  /\ authority.access.of <= authority.token
  /\ access.access.of <= authority.access.of
  /\ \A b \in CodexProcesses :
       LET r == renewer[b]
       IN  /\ r.step \in {"durable", "lookup", "recheck", "put"}
                => r.result.of <= authority.access.of
           /\ r.step = "output" => r.authority.access.of <= authority.access.of
           /\ r.step \in {"lookup", "recheck"} => r.result.of = r.authority.access.of
           /\ r.step = "put" /\ "output" \in r.held => access.access.of <= r.result.of

\* What an attempt is about to write it found unowned or its profile's.
OwnersChecked ==
  \A b \in CodexProcesses :
    /\ renewer[b].step \in {"output", "invalidate", "claim", "expel"}
         => ~Foreign(renewer[b].authority.owner, b)
    /\ renewer[b].step \in {"recheck", "put"} => ~Foreign(renewer[b].output.owner, b)

CodexIInv ==
  /\ CodexTypeOK /\ CopiesAreCurrent /\ TokensIssued /\ RefreshesAreExclusive
  /\ RotatedIsFresh /\ PublishedInOrder /\ OwnersChecked
  /\ RefreshTokenUsedOnce /\ SpentTokenFenced

-----------------------------------------------------------------------------
(* Lemmas about the values the broker writes.                               *)

\* The empty and the initial values have the types of the values they stand for.
LEMMA CodexValues ==
  /\ NoAccess \in Access /\ Bootstrap \in Authority /\ Unread \in Output
  /\ \A p \in CodexProfiles : Resting(p) \in Renewer
  <1> USE CodexAssumption
  <1>1. NoAccess \in Access
    BY DEF Access
  <1>2. Bootstrap \in Authority
    BY <1>1 DEF Bootstrap, Authority, CodexTokens, CodexOwners
  <1>3. Unread \in Output
    BY <1>1 DEF Unread, Output, CodexOwners
  <1>4. ASSUME NEW p \in CodexProfiles PROVE Resting(p) \in Renewer
    BY <1>1, <1>2, <1>3 DEF Resting, Renewer, RenewerSteps
  <1> QED
    BY <1>1, <1>2, <1>3, <1>4

\* A configuration a profile goes through has a fingerprint.
LEMMA BindingOfConfig ==
  ASSUME NEW p \in CodexProfiles, NEW k \in 1 .. CodexConfigs[p]
  PROVE  <<p, k>> \in Bindings
  <1>1. {p} \X (1 .. CodexConfigs[p]) \in {{q} \X (1 .. CodexConfigs[q]) : q \in CodexProfiles}
    OBVIOUS
  <1>2. <<p, k>> \in {p} \X (1 .. CodexConfigs[p])
    OBVIOUS
  <1> QED
    BY <1>1, <1>2 DEF Bindings

\* What the authority, an output and an access token are made of.
LEMMA OlderAccess ==
  ASSUME NEW a \in Access
  PROVE  Older(a) \in Access /\ Older(a).of = a.of
  BY CodexAssumption DEF Access, NoAccess, Older, CodexTokens

LEMMA OlderAuthorityIs ==
  ASSUME NEW a \in Authority
  PROVE  /\ OlderAuthority(a) \in Authority
         /\ OlderAuthority(a).token = a.token /\ OlderAuthority(a).owner = a.owner
         /\ OlderAuthority(a).intent = a.intent
         /\ OlderAuthority(a).access.of = a.access.of
  <1>1. a.access \in Access /\ a.left \in 0 .. CodexLease
    BY DEF Authority
  <1>2. /\ OlderAuthority(a) =
             [a EXCEPT !.left = IF @ = 0 THEN 0 ELSE @ - 1, !.access = Older(@)]
        /\ (IF a.left = 0 THEN 0 ELSE a.left - 1) \in 0 .. CodexLease
    BY <1>1, CodexAssumption DEF OlderAuthority, Older, Authority
  <1> QED
    BY <1>1, <1>2, OlderAccess DEF Authority

LEMMA OlderOutputIs ==
  ASSUME NEW o \in Output
  PROVE  /\ OlderOutput(o) \in Output /\ OlderOutput(o).owner = o.owner
         /\ OlderOutput(o).access.of = o.access.of
  <1>1. o.access \in Access
    BY DEF Output
  <1> QED
    BY <1>1, OlderAccess DEF OlderOutput, Output

\* Of a forgotten authority the token is left.
LEMMA ForgetIs ==
  ASSUME NEW a \in Authority
  PROVE  Forget(a) \in Authority /\ Forget(a).token = a.token
         /\ Forget(a).access = NoAccess
  BY CodexValues DEF Forget, Authority, Bootstrap
-----------------------------------------------------------------------------
(* The Codex subscription: every step keeps the invariant.                  *)

\* An attempt whose copy of a Secret is no longer current.
LEMMA DroppedIs ==
  ASSUME NEW r \in Renewer, NEW secret
  PROVE  LET d == [r EXCEPT !.held = @ \ {secret}]
         IN  /\ d \in Renewer /\ d.held = r.held \ {secret}
             /\ d.step = r.step /\ d.profile = r.profile /\ d.binding = r.binding
             /\ d.authority = r.authority /\ d.output = r.output /\ d.result = r.result
  BY DEF Renewer

LEMMA DropIs ==
  ASSUME NEW rs \in [CodexProcesses -> Renewer], NEW secret
  PROVE  /\ Drop(rs, secret) \in [CodexProcesses -> Renewer]
         /\ \A c \in CodexProcesses :
              /\ Drop(rs, secret)[c].held = rs[c].held \ {secret}
              /\ Drop(rs, secret)[c].step = rs[c].step
              /\ Drop(rs, secret)[c].profile = rs[c].profile
              /\ Drop(rs, secret)[c].binding = rs[c].binding
              /\ Drop(rs, secret)[c].authority = rs[c].authority
              /\ Drop(rs, secret)[c].output = rs[c].output
              /\ Drop(rs, secret)[c].result = rs[c].result
  <1>1. ASSUME NEW c \in CodexProcesses
        PROVE  LET d == Drop(rs, secret)[c]
                   r == rs[c]
               IN  /\ d \in Renewer /\ d.held = r.held \ {secret}
                   /\ d.step = r.step /\ d.profile = r.profile /\ d.binding = r.binding
                   /\ d.authority = r.authority /\ d.output = r.output /\ d.result = r.result
    BY DroppedIs, rs[c] \in Renewer DEF Drop
  <1> QED
    BY <1>1 DEF Drop

\* What a compare-and-swap of the authority does.
LEMMA SwapAuthorityIs ==
  ASSUME CodexTypeOK, NEW b \in CodexProcesses, NEW new \in Authority,
         NEW next \in RenewerSteps, SwapAuthority(b, new, next)
  PROVE  \/ authority' = authority /\ renewer' = Rest(b)
         \/ /\ "authority" \in renewer[b].held /\ authority' = new
            /\ renewer' \in [CodexProcesses -> Renewer]
            /\ renewer'[b].step = next
            /\ renewer'[b].authority = Forget(renewer[b].authority)
            /\ \A c \in CodexProcesses :
                 /\ renewer'[c].held = renewer[c].held \ {"authority"}
                 /\ renewer'[c].profile = renewer[c].profile
                 /\ renewer'[c].output = renewer[c].output
                 /\ renewer'[c].result = renewer[c].result
                 /\ c # b => /\ renewer'[c].step = renewer[c].step
                             /\ renewer'[c].authority = renewer[c].authority
  <1> DEFINE rs == [Goto(b, next) EXCEPT ![b].authority = Forget(@)]
             new1 == [[renewer[b] EXCEPT !.step = next] EXCEPT !.authority = Forget(@)]
  <1>1. renewer \in [CodexProcesses -> Renewer]
    BY DEF CodexTypeOK
  <1>2. /\ new1 \in Renewer /\ new1.step = next
        /\ new1.authority = Forget(renewer[b].authority) /\ new1.held = renewer[b].held
        /\ new1.profile = renewer[b].profile /\ new1.output = renewer[b].output
        /\ new1.result = renewer[b].result
    BY <1>1, ForgetIs DEF Renewer
  <1>3. rs = [renewer EXCEPT ![b] = new1]
    BY <1>1 DEF Goto
  <1>4. CASE "authority" \in renewer[b].held
    <2>1. authority' = new /\ renewer' = Drop(rs, "authority")
      BY <1>4 DEF SwapAuthority
    <2> HIDE DEF rs, new1
    <2>2. /\ rs \in [CodexProcesses -> Renewer] /\ rs[b] = new1
          /\ \A c \in CodexProcesses : c # b => rs[c] = renewer[c]
      BY <1>1, <1>2, <1>3
    <2> QED
      BY <1>2, <1>4, <2>1, <2>2, DropIs
  <1>5. CASE "authority" \notin renewer[b].held
    BY <1>5 DEF SwapAuthority
  <1> QED
    BY <1>4, <1>5

\* What a compare-and-swap of the output does.
LEMMA SwapOutputIs ==
  ASSUME CodexTypeOK, NEW b \in CodexProcesses, NEW new,
         NEW rs \in [CodexProcesses -> Renewer], SwapOutput(b, new, rs)
  PROVE  \/ access' = access /\ renewer' = Rest(b)
         \/ /\ "output" \in renewer[b].held /\ access' = new
            /\ renewer' \in [CodexProcesses -> Renewer]
            /\ \A c \in CodexProcesses :
                 /\ renewer'[c].held = rs[c].held \ {"output"}
                 /\ renewer'[c].profile = rs[c].profile
                 /\ renewer'[c].output = rs[c].output
                 /\ renewer'[c].result = rs[c].result
                 /\ renewer'[c].step = rs[c].step
                 /\ renewer'[c].authority = rs[c].authority
  <1>1. CASE "output" \in renewer[b].held
    <2>1. access' = new /\ renewer' = Drop(rs, "output")
      BY <1>1 DEF SwapOutput
    <2> QED
      BY <1>1, <2>1, DropIs
  <1>2. CASE "output" \notin renewer[b].held
    BY <1>2 DEF SwapOutput
  <1> QED
    BY <1>1, <1>2

\* An attempt that ends leaves the others alone.
LEMMA RestIs ==
  ASSUME CodexTypeOK, NEW b \in CodexProcesses
  PROVE  /\ Rest(b) \in [CodexProcesses -> Renewer]
         /\ Rest(b)[b] = Resting(renewer[b].profile)
         /\ \A c \in CodexProcesses : c # b => Rest(b)[c] = renewer[c]
  BY CodexValues DEF CodexTypeOK, Renewer, Rest

LEMMA CodexInitial == CodexInit => CodexIInv
  <1> SUFFICES ASSUME CodexInit PROVE CodexIInv
    OBVIOUS
  <1> USE CodexAssumption DEF CodexInit
  <1>1. \A p \in CodexProfiles : <<p, 1>> \in Bindings
    <2>1. \A p \in CodexProfiles : 1 \in 1 .. CodexConfigs[p]
      OBVIOUS
    <2> QED
      BY <2>1, BindingOfConfig
  <1>2. access \in Output /\ access.access = NoAccess
    <2>1. PICK p \in CodexOwners :
            access = IF p = NoCodexProfile THEN Unread
                     ELSE [Unread EXCEPT !.owner = p, !.binding = <<p, 1>>]
      OBVIOUS
    <2>2. CASE p = NoCodexProfile
      BY <2>1, <2>2, CodexValues DEF Unread
    <2>3. CASE p # NoCodexProfile
      <3>1. access = [owner |-> p, access |-> NoAccess, binding |-> <<p, 1>>]
        BY <2>1, <2>3 DEF Unread
      <3> QED
        BY <1>1, <2>3, <3>1, CodexValues DEF Output, CodexOwners
    <2> QED
      BY <2>2, <2>3
  <1>3. renewer \in [CodexProcesses -> Renewer]
    BY CodexValues
  <1>4. CodexTypeOK
    BY <1>2, <1>3, CodexValues DEF CodexTypeOK, CodexTokens
  <1>5. \A b \in CodexProcesses : renewer[b].step = "idle" /\ renewer[b].held = {}
    BY DEF Resting
  <1>6. CopiesAreCurrent /\ TokensIssued /\ RefreshesAreExclusive /\ RotatedIsFresh
    BY <1>5 DEF CopiesAreCurrent, TokensIssued, RefreshesAreExclusive, RotatedIsFresh,
         Carries, Bootstrap
  <1>7. PublishedInOrder /\ OwnersChecked
    BY <1>2, <1>5 DEF PublishedInOrder, OwnersChecked, Bootstrap, NoAccess
  <1>8. RefreshTokenUsedOnce /\ SpentTokenFenced
    BY DEF RefreshTokenUsedOnce, SpentTokenFenced, CodexTokens, Bootstrap
  <1> QED
    BY <1>4, <1>6, <1>7, <1>8 DEF CodexIInv

\* What has to hold of the attempt r for a process to go on with it while the
\* Secrets and the tokens stay as they are.
Sound(r, old) ==
  /\ "authority" \in r.held => r.authority = authority
  /\ "output" \in r.held => r.output = access
  /\ r.step \in {"invalidate", "claim"} => r.authority.intent # r.authority.token
  /\ r.step # "native"
  /\ r.step \in {"rotated", "latest", "commit"} =>
       /\ old.step \in {"rotated", "latest", "commit"}
       /\ r.result.of = old.result.of /\ r.authority.token = old.authority.token
  /\ r.step \in {"durable", "lookup", "recheck", "put"}
       => r.result.of <= authority.access.of
  /\ r.step = "output" => r.authority.access.of <= authority.access.of
  /\ r.step \in {"lookup", "recheck"} => r.result.of = r.authority.access.of
  /\ r.step = "put" /\ "output" \in r.held => access.access.of <= r.result.of
  /\ r.step \in {"output", "invalidate", "claim", "expel"}
       => r.authority.owner \in {NoCodexProfile, r.profile}
  /\ r.step \in {"recheck", "put"} => r.output.owner \in {NoCodexProfile, r.profile}

\* A step of one attempt that writes nothing keeps the invariant.
LEMMA LocalStep ==
  ASSUME CodexIInv, NEW b \in CodexProcesses, NEW r \in Renewer,
         renewer' = [renewer EXCEPT ![b] = r], Sound(r, renewer[b]),
         UNCHANGED <<authority, access, issued, spent>>,
         UNCHANGED codexConfig, abandoned' \in 0 .. MaxAbandoned
  PROVE  CodexIInv'
  <1>1. /\ renewer \in [CodexProcesses -> Renewer]
        /\ renewer' \in [CodexProcesses -> Renewer] /\ renewer'[b] = r
        /\ \A c \in CodexProcesses : c # b => renewer'[c] = renewer[c]
    BY DEF CodexIInv, CodexTypeOK
  <1>2. CodexTypeOK'
    BY <1>1 DEF CodexIInv, CodexTypeOK
  <1>3. CopiesAreCurrent'
    BY <1>1 DEF CodexIInv, CopiesAreCurrent, Sound
  <1>4. RefreshesAreExclusive'
    BY <1>1 DEF CodexIInv, RefreshesAreExclusive, TokenOf, Sound
  <1>5. RotatedIsFresh'
    BY <1>1 DEF CodexIInv, RotatedIsFresh, Carries, TokenOf, Sound
  <1>6. PublishedInOrder'
    BY <1>1 DEF CodexIInv, PublishedInOrder, Sound
  <1>7. OwnersChecked'
    BY <1>1 DEF CodexIInv, OwnersChecked, Foreign, Sound
  <1>8. (TokensIssued /\ RefreshTokenUsedOnce /\ SpentTokenFenced)'
    BY DEF CodexIInv, TokensIssued, RefreshTokenUsedOnce, SpentTokenFenced
  <1> QED
    BY <1>2, <1>3, <1>4, <1>5, <1>6, <1>7, <1>8 DEF CodexIInv

\* In particular an attempt may end at any time.
LEMMA AttemptEnds ==
  ASSUME CodexIInv, NEW b \in CodexProcesses, renewer' = Rest(b),
         UNCHANGED <<authority, access, issued, spent>>,
         UNCHANGED codexConfig, abandoned' \in 0 .. MaxAbandoned
  PROVE  CodexIInv'
  <1>1. Resting(renewer[b].profile) \in Renewer
    BY CodexValues DEF CodexIInv, CodexTypeOK, Renewer
  <1>2. Sound(Resting(renewer[b].profile), renewer[b])
    BY DEF Sound, Resting
  <1> QED
    BY <1>1, <1>2, LocalStep DEF Rest

\* The steps that read, decide and give up.
LEMMA ReadingKeeps ==
  ASSUME CodexIInv, NEW b \in CodexProcesses,
         \/ ReadAuthority(b) \/ ReadOutput(b) \/ NativeReturns(b) \/ NativeFails(b)
         \/ ReadLatest(b) \/ ReadDurable(b) \/ LookupOutput(b)
         \/ RecheckAuthority(b) \/ Abandon(b)
  PROVE  CodexIInv'
  <1> DEFINE q == renewer[b]
  <1>1. /\ q \in Renewer /\ renewer \in [CodexProcesses -> Renewer]
        /\ authority \in Authority /\ access \in Output
        /\ abandoned \in 0 .. MaxAbandoned
    BY DEF CodexIInv, CodexTypeOK
  <1>2. CASE ReadAuthority(b)
    <2> DEFINE r == [q EXCEPT !.step = "output", !.binding = <<q.profile, codexConfig[q.profile]>>,
                       !.authority = authority, !.held = {"authority"}]
    <2>1. <<q.profile, codexConfig[q.profile]>> \in Bindings
      BY <1>1, BindingOfConfig DEF CodexIInv, CodexTypeOK, Renewer
    <2>2. r \in Renewer
      BY <1>1, <2>1 DEF Renewer, RenewerSteps
    <2>3. authority.owner \in {NoCodexProfile, q.profile}
      BY <1>2 DEF ReadAuthority, Foreign
    <2>4. authority.access.of <= authority.access.of
      BY <1>1 DEF Authority, Access, NoAccess, CodexTokens
    <2>5. Sound(r, q)
      BY <1>1, <2>3, <2>4 DEF Sound, Renewer
    <2>6. renewer' = [renewer EXCEPT ![b] = r]
      BY <1>1, <1>2 DEF ReadAuthority
    <2> QED
      BY <1>1, <1>2, <2>2, <2>5, <2>6, LocalStep DEF ReadAuthority
  <1>3. CASE ReadOutput(b)
    <2> DEFINE next == Decide(b, access)
    <2>1. /\ UNCHANGED <<authority, access, issued, spent>>
          /\ UNCHANGED codexConfig /\ abandoned' \in 0 .. MaxAbandoned
      BY <1>1, <1>3 DEF ReadOutput
    <2>2. CASE next = "idle"
      BY <1>3, <2>1, <2>2, AttemptEnds DEF ReadOutput
    <2>3. /\ q.step = "output" /\ q.authority \in Authority
          /\ q.authority.owner \in {NoCodexProfile, q.profile}
          /\ q.authority.access.of <= authority.access.of
          /\ "authority" \in q.held => q.authority = authority
          /\ "output" \in q.held => q.output = access
      BY <1>1, <1>3 DEF ReadOutput, CodexIInv, OwnersChecked, Foreign, PublishedInOrder,
           CopiesAreCurrent, Renewer
    <2>4. next # "idle" =>
            /\ next \in {"expel", "invalidate", "claim", "lookup"}
            /\ next \in {"invalidate", "claim"} => q.authority.intent # q.authority.token
      BY <2>3 DEF Decide, Authority
    <2>5. CASE next \in {"expel", "invalidate"}
      <3> DEFINE r == [q EXCEPT !.step = next, !.output = access, !.held = @ \cup {"output"}]
      <3>1. r \in Renewer
        BY <1>1, <2>5 DEF Renewer, RenewerSteps
      <3>2. Sound(r, q)
        BY <1>1, <2>3, <2>4, <2>5 DEF Sound, Renewer
      <3>3. renewer' = [renewer EXCEPT ![b] = r]
        BY <1>1, <1>3, <2>5 DEF ReadOutput
      <3> QED
        BY <1>1, <2>1, <3>1, <3>2, <3>3, LocalStep
    <2>6. CASE next = "claim"
      <3> DEFINE r == [q EXCEPT !.step = next]
      <3>1. r \in Renewer
        BY <1>1, <2>6 DEF Renewer, RenewerSteps
      <3>2. Sound(r, q)
        BY <1>1, <2>3, <2>4, <2>6 DEF Sound, Renewer
      <3>3. renewer' = [renewer EXCEPT ![b] = r]
        BY <1>1, <1>3, <2>6 DEF ReadOutput, Goto
      <3> QED
        BY <1>1, <2>1, <3>1, <3>2, <3>3, LocalStep
    <2>7. CASE next = "lookup"
      <3> DEFINE r == [q EXCEPT !.step = next, !.result = q.authority.access]
      <3>1. r \in Renewer
        BY <1>1, <2>3, <2>7 DEF Renewer, RenewerSteps, Authority
      <3>2. Sound(r, q)
        BY <1>1, <2>3, <2>7 DEF Sound, Renewer
      <3>3. renewer' = [renewer EXCEPT ![b] = r]
        BY <1>1, <1>3, <2>7 DEF ReadOutput
      <3> QED
        BY <1>1, <2>1, <3>1, <3>2, <3>3, LocalStep
    <2> QED
      BY <2>2, <2>4, <2>5, <2>6, <2>7
  <1>4. CASE NativeReturns(b)
    <2> DEFINE r == [q EXCEPT !.step = "latest"]
    <2>1. r \in Renewer
      BY <1>1 DEF Renewer, RenewerSteps
    <2>2. Sound(r, q)
      BY <1>1, <1>4 DEF Sound, Renewer, NativeReturns, CodexIInv, CopiesAreCurrent
    <2>3. renewer' = [renewer EXCEPT ![b] = r]
      BY <1>1, <1>4 DEF NativeReturns, Goto
    <2> QED
      BY <1>1, <1>4, <2>1, <2>2, <2>3, LocalStep DEF NativeReturns
  <1>5. CASE NativeFails(b)
    BY <1>1, <1>5, AttemptEnds DEF NativeFails
  <1>6. CASE ReadLatest(b)
    <2>1. CASE renewer' = Rest(b)
      BY <1>1, <1>6, <2>1, AttemptEnds DEF ReadLatest
    <2>2. CASE renewer' # Rest(b)
      <3> DEFINE r == [q EXCEPT !.step = "commit", !.authority = authority, !.held = {"authority"}]
      <3>1. r \in Renewer
        BY <1>1 DEF Renewer, RenewerSteps
      <3>2. /\ q.step = "latest" /\ authority.token = q.authority.token
            /\ renewer' = [renewer EXCEPT ![b] = r]
        BY <1>1, <1>6, <2>2 DEF ReadLatest
      <3>3. Sound(r, q)
        BY <1>1, <3>2 DEF Sound, Renewer
      <3> QED
        BY <1>1, <1>6, <3>1, <3>2, <3>3, LocalStep DEF ReadLatest
    <2> QED
      BY <2>1, <2>2
  <1>7. CASE ReadDurable(b)
    <2>1. CASE renewer' = Rest(b)
      BY <1>1, <1>7, <2>1, AttemptEnds DEF ReadDurable
    <2>2. CASE renewer' # Rest(b)
      <3> DEFINE r == [q EXCEPT !.step = "lookup", !.authority = authority, !.held = {"authority"}]
      <3>1. r \in Renewer
        BY <1>1 DEF Renewer, RenewerSteps
      <3>2. /\ q.step = "durable" /\ authority.access.of = q.result.of
            /\ renewer' = [renewer EXCEPT ![b] = r]
        BY <1>1, <1>7, <2>2 DEF ReadDurable, Publishable
      <3>3. q.result.of <= authority.access.of
        BY <3>2 DEF CodexIInv, PublishedInOrder
      <3>4. Sound(r, q)
        BY <1>1, <3>2, <3>3 DEF Sound, Renewer
      <3> QED
        BY <1>1, <1>7, <3>1, <3>2, <3>4, LocalStep DEF ReadDurable
    <2> QED
      BY <2>1, <2>2
  <1>8. CASE LookupOutput(b)
    <2>1. CASE renewer' = Rest(b)
      BY <1>1, <1>8, <2>1, AttemptEnds DEF LookupOutput
    <2>2. CASE renewer' # Rest(b)
      <3> DEFINE r == [q EXCEPT !.step = "recheck", !.output = access, !.held = @ \cup {"output"}]
      <3>1. r \in Renewer
        BY <1>1 DEF Renewer, RenewerSteps
      <3>2. /\ q.step = "lookup" /\ access.owner \in {NoCodexProfile, q.profile}
            /\ renewer' = [renewer EXCEPT ![b] = r]
        BY <1>1, <1>8, <2>2 DEF LookupOutput, Foreign
      <3>3. /\ q.result.of <= authority.access.of /\ q.result.of = q.authority.access.of
            /\ "authority" \in q.held => q.authority = authority
        BY <3>2 DEF CodexIInv, PublishedInOrder, CopiesAreCurrent
      <3>4. Sound(r, q)
        BY <1>1, <3>2, <3>3 DEF Sound, Renewer
      <3> QED
        BY <1>1, <1>8, <3>1, <3>2, <3>4, LocalStep DEF LookupOutput
    <2> QED
      BY <2>1, <2>2
  <1>9. CASE RecheckAuthority(b)
    <2>1. CASE "authority" \notin q.held
      BY <1>1, <1>9, <2>1, AttemptEnds DEF RecheckAuthority
    <2>2. CASE "authority" \in q.held
      <3> DEFINE r == [q EXCEPT !.step = "put"]
      <3>1. r \in Renewer
        BY <1>1 DEF Renewer, RenewerSteps
      <3>2. /\ q.step = "recheck" /\ q.output.owner \in {NoCodexProfile, q.profile}
            /\ q.result.of = q.authority.access.of /\ q.authority = authority
            /\ q.result.of <= authority.access.of /\ access.access.of <= authority.access.of
            /\ "output" \in q.held => q.output = access
        BY <1>9, <2>2 DEF RecheckAuthority, CodexIInv, OwnersChecked, Foreign,
             PublishedInOrder, CopiesAreCurrent
      <3>3. Sound(r, q)
        BY <1>1, <3>2 DEF Sound, Renewer
      <3>4. renewer' = [renewer EXCEPT ![b] = r]
        BY <1>1, <1>9, <2>2 DEF RecheckAuthority, Goto
      <3> QED
        BY <1>1, <1>9, <3>1, <3>3, <3>4, LocalStep DEF RecheckAuthority
    <2> QED
      BY <2>1, <2>2
  <1>10. CASE Abandon(b)
    BY <1>1, <1>10, CodexAssumption, AttemptEnds DEF Abandon
  <1> QED
    BY <1>2, <1>3, <1>4, <1>5, <1>6, <1>7, <1>8, <1>9, <1>10

\* Emptying the output.
LEMMA InvalidateKeeps ==
  ASSUME CodexIInv, NEW b \in CodexProcesses, InvalidateOutput(b)
  PROVE  CodexIInv'
  <1> DEFINE q == renewer[b]
             out == q.output
             r == [q EXCEPT !.step = "claim", !.output = Unread, !.held = @ \ {"output"}]
             rs == IF q.step = "expel" THEN Rest(b) ELSE [renewer EXCEPT ![b] = r]
  <1>1. /\ q \in Renewer /\ renewer \in [CodexProcesses -> Renewer]
        /\ authority \in Authority /\ access \in Output /\ out \in Output
        /\ abandoned \in 0 .. MaxAbandoned /\ CodexTypeOK
    BY DEF CodexIInv, CodexTypeOK, Renewer
  <1>2. /\ UNCHANGED <<authority, issued, spent>> /\ UNCHANGED codexConfig
        /\ abandoned' \in 0 .. MaxAbandoned /\ q.step \in {"expel", "invalidate"}
    BY <1>1 DEF InvalidateOutput
  <1>3. r \in Renewer
    BY <1>1, CodexValues DEF Renewer, RenewerSteps
  <1>4. /\ "authority" \in q.held => q.authority = authority
        /\ "output" \in q.held => q.output = access
        /\ q.authority.owner \in {NoCodexProfile, q.profile}
        /\ q.step = "invalidate" => q.authority.intent # q.authority.token
    BY <1>2 DEF CodexIInv, CopiesAreCurrent, OwnersChecked, Foreign, RefreshesAreExclusive, TokenOf
  <1>5. q.step # "expel" => Sound(r, q)
    BY <1>1, <1>2, <1>4 DEF Sound, Renewer
  <1>6. [Goto(b, "claim") EXCEPT ![b].output = Unread, ![b].held = @ \ {"output"}]
          = [renewer EXCEPT ![b] = r]
    BY <1>1 DEF Goto, Renewer
  <1>7. \/ access' = access /\ renewer' = rs
        \/ SwapOutput(b, [out EXCEPT !.access = NoAccess], rs)
    BY <1>6 DEF InvalidateOutput
  <1>8. CASE access' = access /\ renewer' = rs
    BY <1>2, <1>3, <1>5, <1>8, AttemptEnds, LocalStep
  <1>9. CASE access' = access /\ renewer' = Rest(b)
    BY <1>2, <1>9, AttemptEnds
  <1>10. CASE /\ SwapOutput(b, [out EXCEPT !.access = NoAccess], rs)
              /\ ~(access' = access /\ renewer' = Rest(b))
    <2>1. rs \in [CodexProcesses -> Renewer]
      BY <1>1, <1>3, RestIs
    <2>2. /\ rs[b].step \in {"idle", "claim"} /\ "output" \notin rs[b].held
          /\ rs[b].profile = q.profile
          /\ rs[b].step = "claim" => /\ rs[b].authority = q.authority
                                     /\ q.step = "invalidate"
          /\ "authority" \in rs[b].held => q.step # "expel" /\ "authority" \in q.held
                                           /\ rs[b].authority = q.authority
          /\ \A c \in CodexProcesses : c # b => rs[c] = renewer[c]
      <3>1. CASE q.step = "expel"
        <4>1. /\ rs[b] = Resting(q.profile)
              /\ \A c \in CodexProcesses : c # b => rs[c] = renewer[c]
          BY <1>1, <3>1, RestIs
        <4> HIDE DEF rs
        <4> QED
          BY <1>2, <3>1, <4>1 DEF Resting
      <3>2. CASE q.step # "expel"
        <4>1. rs[b] = r /\ \A c \in CodexProcesses : c # b => rs[c] = renewer[c]
          BY <1>1, <3>2
        <4>2. /\ r.step = "claim" /\ r.authority = q.authority /\ r.profile = q.profile
              /\ r.held = q.held \ {"output"}
          BY <1>1 DEF Renewer
        <4> HIDE DEF rs, r
        <4> QED
          BY <1>2, <3>2, <4>1, <4>2
      <3> QED
        BY <3>1, <3>2
    <2> HIDE DEF rs, r
    <2>3. /\ "output" \in q.held /\ access' = [out EXCEPT !.access = NoAccess]
          /\ renewer' \in [CodexProcesses -> Renewer]
          /\ \A c \in CodexProcesses :
               /\ renewer'[c].held = rs[c].held \ {"output"}
               /\ renewer'[c].profile = rs[c].profile
               /\ renewer'[c].output = rs[c].output
               /\ renewer'[c].result = rs[c].result
               /\ renewer'[c].step = rs[c].step
               /\ renewer'[c].authority = rs[c].authority
      BY <1>1, <1>10, <2>1, SwapOutputIs
    <2>4. access' \in Output /\ access'.access = NoAccess
      BY <1>1, <2>3, CodexValues DEF Output
    <2>5. CodexTypeOK'
      BY <1>2, <2>3, <2>4 DEF CodexIInv, CodexTypeOK
    <2>6. CopiesAreCurrent'
      BY <1>2, <1>4, <2>2, <2>3 DEF CodexIInv, CopiesAreCurrent
    <2>7. RefreshesAreExclusive'
      BY <1>2, <1>4, <2>2, <2>3 DEF CodexIInv, RefreshesAreExclusive, TokenOf
    <2>8. RotatedIsFresh'
      BY <1>2, <2>2, <2>3 DEF CodexIInv, RotatedIsFresh, Carries, TokenOf
    <2>9. PublishedInOrder'
      <3>1. 0 <= authority.access.of
        BY <1>1 DEF Authority, Access, NoAccess, CodexTokens
      <3> QED
        BY <1>2, <2>2, <2>3, <2>4, <3>1 DEF CodexIInv, PublishedInOrder, NoAccess
    <2>10. OwnersChecked'
      BY <1>2, <1>4, <2>2, <2>3 DEF CodexIInv, OwnersChecked, Foreign
    <2>11. (TokensIssued /\ RefreshTokenUsedOnce /\ SpentTokenFenced)'
      BY <1>2 DEF CodexIInv, TokensIssued, RefreshTokenUsedOnce, SpentTokenFenced
    <2> QED
      BY <2>5, <2>6, <2>7, <2>8, <2>9, <2>10, <2>11 DEF CodexIInv
  <1> QED
    BY <1>7, <1>8, <1>9, <1>10

\* The refresh intent.
LEMMA ClaimKeeps ==
  ASSUME CodexIInv, NEW b \in CodexProcesses, Claim(b)
  PROVE  CodexIInv'
  <1> DEFINE q == renewer[b]
             new == [q.authority EXCEPT !.owner = q.profile, !.intent = q.authority.token,
                       !.lease = b, !.left = CodexLease]
  <1>1. /\ q \in Renewer /\ renewer \in [CodexProcesses -> Renewer]
        /\ authority \in Authority /\ access \in Output /\ q.authority \in Authority
        /\ abandoned \in 0 .. MaxAbandoned /\ CodexTypeOK /\ q.profile \in CodexProfiles
    BY DEF CodexIInv, CodexTypeOK, Renewer
  <1>2. /\ UNCHANGED <<access, issued, spent>> /\ UNCHANGED codexConfig
        /\ abandoned' \in 0 .. MaxAbandoned /\ q.step = "claim"
        /\ SwapAuthority(b, new, "native")
    BY <1>1 DEF Claim
  <1>3. new \in Authority
    <2>1. /\ q.profile \in CodexOwners /\ CodexLease \in 0 .. CodexLease
          /\ q.authority.token \in 0 .. MaxCodexToken
          /\ b \in CodexProcesses \cup {NoCodexProfile}
      BY <1>1, CodexAssumption DEF Authority, CodexTokens, CodexOwners
    <2> QED
      BY <1>1, <2>1 DEF Authority
  <1>4. CASE authority' = authority /\ renewer' = Rest(b)
    BY <1>2, <1>4, AttemptEnds
  <1>5. CASE ~(authority' = authority /\ renewer' = Rest(b))
    <2>1. /\ "authority" \in q.held /\ authority' = new
          /\ renewer' \in [CodexProcesses -> Renewer]
          /\ renewer'[b].step = "native"
          /\ renewer'[b].authority = Forget(q.authority)
          /\ \A c \in CodexProcesses :
               /\ renewer'[c].held = renewer[c].held \ {"authority"}
               /\ renewer'[c].profile = renewer[c].profile
               /\ renewer'[c].output = renewer[c].output
               /\ renewer'[c].result = renewer[c].result
               /\ c # b => /\ renewer'[c].step = renewer[c].step
                           /\ renewer'[c].authority = renewer[c].authority
      BY <1>1, <1>2, <1>3, <1>5, SwapAuthorityIs DEF RenewerSteps
    <2>2. /\ q.authority = authority /\ authority.intent # authority.token
          /\ spent[authority.token] = 0 /\ authority.token \in CodexTokens
          /\ authority.token <= issued
      BY <1>1, <1>2, <2>1 DEF CodexIInv, CopiesAreCurrent, RefreshesAreExclusive, TokenOf,
           SpentTokenFenced, TokensIssued, Authority
    <2>3. /\ authority'.token = authority.token /\ authority'.intent = authority.token
          /\ authority'.access = authority.access /\ authority' \in Authority
          /\ renewer'[b].authority.token = authority.token
      BY <1>1, <1>3, <2>1, <2>2, ForgetIs DEF Authority
    <2> HIDE DEF new
    <2>4. CodexTypeOK'
      BY <1>2, <2>1, <2>3 DEF CodexIInv, CodexTypeOK
    <2>5. CopiesAreCurrent'
      BY <1>2, <2>1 DEF CodexIInv, CopiesAreCurrent
    <2>6. RefreshesAreExclusive'
      BY <1>2, <2>1, <2>2, <2>3 DEF CodexIInv, RefreshesAreExclusive, TokenOf
    <2>7. RotatedIsFresh'
      BY <1>2, <2>1, <2>2, <2>3 DEF CodexIInv, RotatedIsFresh, Carries, TokenOf
    <2>8. PublishedInOrder'
      BY <1>2, <2>1, <2>3 DEF CodexIInv, PublishedInOrder
    <2>9. OwnersChecked'
      BY <1>2, <2>1 DEF CodexIInv, OwnersChecked, Foreign
    <2>10. (TokensIssued /\ RefreshTokenUsedOnce /\ SpentTokenFenced)'
      BY <1>2, <2>2, <2>3 DEF CodexIInv, TokensIssued, RefreshTokenUsedOnce, SpentTokenFenced
    <2> QED
      BY <2>4, <2>5, <2>6, <2>7, <2>8, <2>9, <2>10 DEF CodexIInv
  <1> QED
    BY <1>4, <1>5

\* The native refresh consumes its token and obtains the next.
LEMMA NativeRefreshKeeps ==
  ASSUME CodexIInv, NEW b \in CodexProcesses, NativeRefresh(b)
  PROVE  CodexIInv'
  <1> DEFINE q == renewer[b]
             t == q.authority.token
  <1>1. /\ q \in Renewer /\ renewer \in [CodexProcesses -> Renewer]
        /\ authority \in Authority /\ q.authority \in Authority
        /\ abandoned \in 0 .. MaxAbandoned /\ issued \in 0 .. MaxCodexToken
        /\ spent \in [CodexTokens -> 0 .. 2] /\ t \in CodexTokens
        /\ authority.token \in CodexTokens /\ authority.token <= issued
    BY DEF CodexIInv, CodexTypeOK, Renewer, Authority, TokensIssued
  <1>2. PICK life \in 0 .. CodexLife :
          renewer' = [renewer EXCEPT
            ![b].step = "rotated", ![b].result = [of |-> issued + 1, left |-> life]]
    BY DEF NativeRefresh
  <1>3. /\ UNCHANGED <<authority, access, codexConfig, abandoned>>
        /\ q.step = "native" /\ issued + 1 \in CodexTokens /\ issued' = issued + 1
        /\ spent[t] = 0 /\ t <= issued /\ spent' = [spent EXCEPT ![t] = 1]
        /\ authority.token = t => authority.intent = t
    <2>1. /\ UNCHANGED <<authority, access, codexConfig, abandoned>> /\ q.step = "native"
          /\ issued < MaxCodexToken /\ issued' = issued + 1
          /\ spent' = [spent EXCEPT ![t] = IF @ = 0 THEN 1 ELSE 2]
      BY DEF NativeRefresh
    <2>2. spent[t] = 0 /\ t <= issued /\ (authority.token = t => authority.intent = t)
      BY <2>1 DEF CodexIInv, RefreshesAreExclusive, TokenOf
    <2>3. issued + 1 \in CodexTokens
      BY <1>1, <2>1, CodexAssumption DEF CodexTokens
    <2> QED
      BY <1>1, <2>1, <2>2, <2>3
  <1> DEFINE r == [q EXCEPT !.step = "rotated", !.result = [of |-> issued + 1, left |-> life]]
  <1>4. r \in Renewer
    BY ZenonT(60), <1>1, <1>3 DEF Renewer, RenewerSteps, Access
  <1>5. renewer' = [renewer EXCEPT ![b] = r]
    BY <1>1, <1>2
  <1>6. /\ r.step = "rotated" /\ r.result.of = issued + 1 /\ r.authority = q.authority
        /\ r.held = q.held /\ r.output = q.output /\ r.profile = q.profile
    BY <1>1 DEF Renewer
  <1> HIDE DEF r
  <1>7. /\ renewer' \in [CodexProcesses -> Renewer] /\ renewer'[b] = r
        /\ \A c \in CodexProcesses : c # b => renewer'[c] = renewer[c]
    BY <1>1, <1>4, <1>5
  <1>8. \A u \in CodexTokens : spent'[u] = IF u = t THEN 1 ELSE spent[u]
    BY <1>1, <1>3
  <1>9. CodexTypeOK'
    <2>1. spent' \in [CodexTokens -> 0 .. 2] /\ issued' \in 0 .. MaxCodexToken
      BY <1>1, <1>3 DEF CodexTokens
    <2> QED
      BY <1>3, <1>7, <2>1 DEF CodexIInv, CodexTypeOK
  <1>10. CopiesAreCurrent'
    BY <1>3, <1>6, <1>7 DEF CodexIInv, CopiesAreCurrent
  <1>11. RefreshesAreExclusive'
    <2>1. \A c \in CodexProcesses : renewer[c].authority.token \in CodexTokens
      BY <1>1 DEF Renewer, Authority
    <2>2. ASSUME NEW c \in CodexProcesses
          PROVE  renewer'[c].step \in {"invalidate", "claim"}
                   => renewer'[c].authority.intent # renewer'[c].authority.token
      BY <1>6, <1>7 DEF CodexIInv, RefreshesAreExclusive, TokenOf
    <2>3. ASSUME NEW c \in CodexProcesses, renewer'[c].step = "native"
          PROVE  /\ TokenOf(c)' <= issued' /\ spent'[TokenOf(c)'] = 0
                 /\ authority'.token = TokenOf(c)' => authority'.intent = TokenOf(c)'
                 /\ \A e \in CodexProcesses :
                      renewer'[e].step = "native" /\ e # c => TokenOf(e)' # TokenOf(c)'
      <3>1. c # b /\ renewer'[c] = renewer[c] /\ renewer[c].step = "native"
        BY <1>6, <1>7, <2>3
      <3>2. /\ TokenOf(c) <= issued /\ spent[TokenOf(c)] = 0 /\ TokenOf(c) # t
            /\ authority.token = TokenOf(c) => authority.intent = TokenOf(c)
            /\ \A e \in CodexProcesses :
                 renewer[e].step = "native" /\ e # c => TokenOf(e) # TokenOf(c)
        BY <1>3, <3>1 DEF CodexIInv, RefreshesAreExclusive, TokenOf
      <3>3. TokenOf(c)' = TokenOf(c) /\ TokenOf(c) \in CodexTokens
        BY <2>1, <3>1 DEF TokenOf
      <3>4. TokenOf(c) <= issued'
        BY <1>1, <1>3, <3>2, <3>3 DEF CodexTokens
      <3> QED
        BY <1>3, <1>6, <1>7, <1>8, <3>2, <3>3, <3>4 DEF TokenOf
    <2> QED
      BY <2>2, <2>3 DEF RefreshesAreExclusive, TokenOf
  <1>12. RotatedIsFresh'
    <2>1. \A c \in CodexProcesses : renewer[c].authority.token \in CodexTokens
      BY <1>1 DEF Renewer, Authority
    <2>2. spent[issued + 1] = 0
      BY <1>1, <1>3 DEF CodexIInv, TokensIssued, CodexTokens
    <2>3. \A c \in CodexProcesses :
            /\ renewer[c].step = "native" => TokenOf(c) <= issued
            /\ Carries(c) => renewer[c].result.of \in CodexTokens /\ renewer[c].result.of <= issued
      BY DEF CodexIInv, RefreshesAreExclusive, RotatedIsFresh
    <2>4. ASSUME NEW c \in CodexProcesses, Carries(c)'
          PROVE  LET u == renewer'[c].result.of
                 IN  /\ u \in CodexTokens /\ u <= issued' /\ spent'[u] = 0
                     /\ u # authority'.token /\ TokenOf(c)' < u
                     /\ \A e \in CodexProcesses :
                          /\ renewer'[e].step = "native" => TokenOf(e)' # u
                          /\ Carries(e)' /\ e # c => renewer'[e].result.of # u
      <3>1. CASE c = b
        <4>1. \A e \in CodexProcesses :
                /\ renewer'[e].step = "native" => TokenOf(e)' # issued + 1
                /\ Carries(e)' /\ e # b => renewer'[e].result.of # issued + 1
          BY <1>1, <1>6, <1>7, <2>1, <2>3 DEF TokenOf, Carries, CodexTokens
        <4>2. t < issued + 1 /\ issued + 1 # t /\ authority.token # issued + 1
          BY <1>1, <1>3 DEF CodexTokens
        <4> QED
          BY <1>1, <1>3, <1>6, <1>7, <1>8, <2>2, <3>1, <4>1, <4>2 DEF TokenOf
      <3>2. CASE c # b
        <4>1. renewer'[c] = renewer[c] /\ Carries(c)
          BY <1>7, <2>4, <3>2 DEF Carries
        <4>2. LET u == renewer[c].result.of
              IN  /\ u \in CodexTokens /\ u <= issued /\ spent[u] = 0
                  /\ u # authority.token /\ TokenOf(c) < u /\ u # t
                  /\ \A e \in CodexProcesses :
                       /\ renewer[e].step = "native" => TokenOf(e) # u
                       /\ Carries(e) /\ e # c => renewer[e].result.of # u
          BY <1>3, <4>1 DEF CodexIInv, RotatedIsFresh, TokenOf
        <4>3. renewer[c].result.of <= issued' /\ renewer[c].result.of # issued + 1
          BY <1>1, <1>3, <4>2 DEF CodexTokens
        <4> QED
          BY <1>3, <1>6, <1>7, <1>8, <3>2, <4>1, <4>2, <4>3 DEF TokenOf, Carries
      <3> QED
        BY <3>1, <3>2
    <2> QED
      BY <2>4 DEF RotatedIsFresh
  <1>13. PublishedInOrder'
    BY <1>3, <1>6, <1>7 DEF CodexIInv, PublishedInOrder
  <1>14. OwnersChecked'
    BY <1>3, <1>6, <1>7 DEF CodexIInv, OwnersChecked, Foreign
  <1>15. TokensIssued'
    <2>1. authority'.token <= issued'
      BY <1>1, <1>3 DEF CodexTokens
    <2>2. \A u \in CodexTokens : spent'[u] # 0 => u <= issued'
      BY <1>1, <1>3, <1>8 DEF CodexIInv, TokensIssued, CodexTokens
    <2> QED
      BY <2>1, <2>2 DEF TokensIssued
  <1>16. (RefreshTokenUsedOnce /\ SpentTokenFenced)'
    BY <1>1, <1>3, <1>8 DEF CodexIInv, RefreshTokenUsedOnce, SpentTokenFenced
  <1> QED
    BY <1>9, <1>10, <1>11, <1>12, <1>13, <1>14, <1>15, <1>16 DEF CodexIInv

\* The rotated token is stored.
LEMMA CommitKeeps ==
  ASSUME CodexIInv, NEW b \in CodexProcesses, Commit(b)
  PROVE  CodexIInv'
  <1> DEFINE q == renewer[b]
             new == [q.authority EXCEPT
                       !.token = q.result.of, !.access = q.result,
                       !.binding = q.binding, !.digest = q.result.of,
                       !.intent = 0, !.lease = NoCodexProfile, !.left = 0]
  <1>1. /\ q \in Renewer /\ renewer \in [CodexProcesses -> Renewer]
        /\ authority \in Authority /\ access \in Output /\ q.authority \in Authority
        /\ abandoned \in 0 .. MaxAbandoned /\ CodexTypeOK
        /\ q.result \in Access /\ q.binding \in Bindings \cup {NoBinding}
    BY DEF CodexIInv, CodexTypeOK, Renewer
  <1>2. /\ UNCHANGED <<access, issued, spent>> /\ UNCHANGED codexConfig
        /\ abandoned' \in 0 .. MaxAbandoned /\ q.step = "commit"
        /\ SwapAuthority(b, new, "durable")
    BY <1>1 DEF Commit
  <1>3. LET t == q.result.of
        IN  /\ t \in CodexTokens /\ t <= issued /\ spent[t] = 0
            /\ t # authority.token /\ TokenOf(b) < t
            /\ \A c \in CodexProcesses :
                 /\ renewer[c].step = "native" => TokenOf(c) # t
                 /\ Carries(c) /\ c # b => renewer[c].result.of # t
    BY <1>2 DEF CodexIInv, RotatedIsFresh, Carries
  <1>4. new \in Authority
    <2>1. 0 \in 0 .. MaxCodexToken /\ 0 \in 0 .. CodexLease /\ q.result.of \in 0 .. MaxCodexToken
      BY <1>3, CodexAssumption DEF CodexTokens
    <2> QED
      BY <1>1, <1>3, <2>1 DEF Authority
  <1>5. CASE authority' = authority /\ renewer' = Rest(b)
    BY <1>2, <1>5, AttemptEnds
  <1>6. CASE ~(authority' = authority /\ renewer' = Rest(b))
    <2>1. /\ "authority" \in q.held /\ authority' = new
          /\ renewer' \in [CodexProcesses -> Renewer]
          /\ renewer'[b].step = "durable"
          /\ \A c \in CodexProcesses :
               /\ renewer'[c].held = renewer[c].held \ {"authority"}
               /\ renewer'[c].profile = renewer[c].profile
               /\ renewer'[c].output = renewer[c].output
               /\ renewer'[c].result = renewer[c].result
               /\ c # b => /\ renewer'[c].step = renewer[c].step
                           /\ renewer'[c].authority = renewer[c].authority
      BY <1>1, <1>2, <1>4, <1>6, SwapAuthorityIs DEF RenewerSteps
    <2>2. q.authority = authority
      BY <2>1 DEF CodexIInv, CopiesAreCurrent
    <2>3. /\ authority'.token = q.result.of /\ authority'.access = q.result
          /\ authority' \in Authority /\ authority'.intent = 0
      BY <1>1, <1>4, <2>1 DEF Authority
    <2> HIDE DEF new
    <2>4. CodexTypeOK'
      BY <1>2, <2>1, <2>3 DEF CodexIInv, CodexTypeOK
    <2>5. CopiesAreCurrent'
      BY <1>2, <2>1 DEF CodexIInv, CopiesAreCurrent
    <2>6. RefreshesAreExclusive'
      BY <1>2, <1>3, <2>1, <2>3 DEF CodexIInv, RefreshesAreExclusive, TokenOf
    <2>7. RotatedIsFresh'
      BY <1>2, <1>3, <2>1, <2>3 DEF CodexIInv, RotatedIsFresh, Carries, TokenOf
    <2>8. PublishedInOrder'
      <3>1. /\ authority.access.of <= q.result.of /\ q.result.of <= q.result.of
            /\ authority.access.of \in Int /\ q.result.of \in Int
            /\ access.access.of \in Int
            /\ \A c \in CodexProcesses : renewer[c].result.of \in Int
                                         /\ renewer[c].authority.access.of \in Int
        <4>1. \A a \in Access : a.of \in Int
          BY DEF Access, NoAccess, CodexTokens
        <4>2. authority.access.of <= authority.token /\ authority.token < q.result.of
          BY <1>3, <2>2 DEF CodexIInv, PublishedInOrder, TokenOf
        <4>3. authority.token \in Int
          BY <1>1 DEF Authority, CodexTokens
        <4> QED
          BY <1>1, <4>1, <4>2, <4>3 DEF Authority, Output, Renewer
      <3> QED
        BY <1>2, <1>3, <2>1, <2>3, <3>1 DEF CodexIInv, PublishedInOrder
    <2>9. OwnersChecked'
      BY <1>2, <2>1 DEF CodexIInv, OwnersChecked, Foreign
    <2>10. (TokensIssued /\ RefreshTokenUsedOnce /\ SpentTokenFenced)'
      BY <1>2, <1>3, <2>3 DEF CodexIInv, TokensIssued, RefreshTokenUsedOnce, SpentTokenFenced
    <2> QED
      BY <2>4, <2>5, <2>6, <2>7, <2>8, <2>9, <2>10 DEF CodexIInv
  <1> QED
    BY <1>5, <1>6

\* The access token is published.
LEMMA PutOutputKeeps ==
  ASSUME CodexIInv, NEW b \in CodexProcesses, PutOutput(b)
  PROVE  CodexIInv'
  <1> DEFINE q == renewer[b]
             new == [owner |-> q.profile, binding |-> q.binding, access |-> q.result]
  <1>1. /\ q \in Renewer /\ renewer \in [CodexProcesses -> Renewer]
        /\ authority \in Authority /\ access \in Output
        /\ abandoned \in 0 .. MaxAbandoned /\ CodexTypeOK
    BY DEF CodexIInv, CodexTypeOK
  <1>2. /\ UNCHANGED <<authority, issued, spent>> /\ UNCHANGED codexConfig
        /\ abandoned' \in 0 .. MaxAbandoned /\ q.step = "put"
        /\ SwapOutput(b, new, Rest(b))
    BY <1>1 DEF PutOutput
  <1>3. new \in Output
    BY <1>1 DEF Renewer, Output, CodexOwners
  <1>4. CASE access' = access /\ renewer' = Rest(b)
    BY <1>2, <1>4, AttemptEnds
  <1>5. CASE ~(access' = access /\ renewer' = Rest(b))
    <2>1. /\ "output" \in q.held /\ access' = new
          /\ renewer' \in [CodexProcesses -> Renewer]
          /\ \A c \in CodexProcesses :
               /\ renewer'[c].held = Rest(b)[c].held \ {"output"}
               /\ renewer'[c].profile = Rest(b)[c].profile
               /\ renewer'[c].output = Rest(b)[c].output
               /\ renewer'[c].result = Rest(b)[c].result
               /\ renewer'[c].step = Rest(b)[c].step
               /\ renewer'[c].authority = Rest(b)[c].authority
      BY <1>1, <1>2, <1>5, SwapOutputIs, RestIs
    <2>2. /\ renewer'[b].step = "idle" /\ renewer'[b].held = {}
          /\ \A c \in CodexProcesses : c # b =>
               /\ renewer'[c].held = renewer[c].held \ {"output"}
               /\ renewer'[c].profile = renewer[c].profile
               /\ renewer'[c].output = renewer[c].output
               /\ renewer'[c].result = renewer[c].result
               /\ renewer'[c].step = renewer[c].step
               /\ renewer'[c].authority = renewer[c].authority
      <3>1. /\ Rest(b)[b] = Resting(q.profile)
            /\ \A c \in CodexProcesses : c # b => Rest(b)[c] = renewer[c]
        BY <1>1, RestIs
      <3>2. renewer'[b].step = "idle" /\ renewer'[b].held = {}
        BY <2>1, <3>1 DEF Resting
      <3> QED
        BY <2>1, <3>1, <3>2
    <2>3. access'.access.of <= authority.access.of
      BY <1>2, <2>1 DEF CodexIInv, PublishedInOrder
    <2>4. CodexTypeOK'
      BY <1>2, <1>3, <2>1 DEF CodexIInv, CodexTypeOK
    <2> HIDE DEF new
    <2>5. CopiesAreCurrent'
      BY <1>2, <2>2 DEF CodexIInv, CopiesAreCurrent
    <2>6. RefreshesAreExclusive'
      BY <1>2, <2>2 DEF CodexIInv, RefreshesAreExclusive, TokenOf
    <2>7. RotatedIsFresh'
      BY <1>2, <2>2 DEF CodexIInv, RotatedIsFresh, Carries, TokenOf
    <2>8. PublishedInOrder'
      BY <1>2, <2>2, <2>3 DEF CodexIInv, PublishedInOrder
    <2>9. OwnersChecked'
      BY <1>2, <2>2 DEF CodexIInv, OwnersChecked, Foreign
    <2>10. (TokensIssued /\ RefreshTokenUsedOnce /\ SpentTokenFenced)'
      BY <1>2 DEF CodexIInv, TokensIssued, RefreshTokenUsedOnce, SpentTokenFenced
    <2> QED
      BY <2>4, <2>5, <2>6, <2>7, <2>8, <2>9, <2>10 DEF CodexIInv
  <1> QED
    BY <1>4, <1>5

\* The operator's new bootstrap is a token nobody has seen.
LEMMA RebootstrapKeeps ==
  ASSUME CodexIInv, Rebootstrap
  PROVE  CodexIInv'
  <1>1. /\ renewer \in [CodexProcesses -> Renewer] /\ authority \in Authority
        /\ issued \in 0 .. MaxCodexToken /\ authority.token <= issued
        /\ authority.token \in CodexTokens
    BY DEF CodexIInv, CodexTypeOK, TokensIssued, Authority
  <1>2. /\ UNCHANGED <<access, spent, abandoned>> /\ UNCHANGED codexConfig
        /\ issued' = issued + 1 /\ issued + 1 \in CodexTokens
        /\ authority' = [authority EXCEPT !.token = issued + 1]
        /\ renewer' = Drop(renewer, "authority")
    BY <1>1, CodexAssumption DEF Rebootstrap, CodexTokens
  <1>3. /\ authority' \in Authority /\ authority'.token = issued + 1
        /\ authority'.access = authority.access
    BY <1>1, <1>2 DEF Authority
  <1>4. /\ renewer' \in [CodexProcesses -> Renewer]
        /\ \A c \in CodexProcesses :
             /\ renewer'[c].held = renewer[c].held \ {"authority"}
             /\ renewer'[c].step = renewer[c].step
             /\ renewer'[c].profile = renewer[c].profile
             /\ renewer'[c].authority = renewer[c].authority
             /\ renewer'[c].output = renewer[c].output
             /\ renewer'[c].result = renewer[c].result
    BY <1>1, <1>2, DropIs
  <1>5. \A c \in CodexProcesses : /\ renewer[c].authority.token \in CodexTokens
                                  /\ renewer[c].result.of \in Int
    BY <1>1 DEF Renewer, Authority, Access, NoAccess, CodexTokens
  <1>6. CodexTypeOK'
    BY <1>2, <1>3, <1>4 DEF CodexIInv, CodexTypeOK, CodexTokens
  <1>7. CopiesAreCurrent'
    BY <1>2, <1>4 DEF CodexIInv, CopiesAreCurrent
  <1>8. RefreshesAreExclusive'
    <2>1. \A c \in CodexProcesses : renewer[c].step = "native" =>
            /\ TokenOf(c) <= issued' /\ TokenOf(c) # issued + 1
      BY <1>1, <1>2, <1>5 DEF CodexIInv, RefreshesAreExclusive, TokenOf, CodexTokens
    <2> QED
      BY <1>2, <1>3, <1>4, <2>1 DEF CodexIInv, RefreshesAreExclusive, TokenOf
  <1>9. RotatedIsFresh'
    <2>1. \A c \in CodexProcesses : Carries(c) =>
            /\ renewer[c].result.of <= issued' /\ renewer[c].result.of # issued + 1
      BY <1>1, <1>2, <1>5 DEF CodexIInv, RotatedIsFresh
    <2> QED
      BY <1>2, <1>3, <1>4, <2>1 DEF CodexIInv, RotatedIsFresh, Carries, TokenOf
  <1>10. PublishedInOrder'
    <2>1. authority.access.of <= issued + 1
      <3>1. authority.access.of \in Int
        BY <1>1 DEF Authority, Access, NoAccess, CodexTokens
      <3> QED
        BY <1>1, <3>1 DEF CodexIInv, PublishedInOrder, CodexTokens
    <2> QED
      BY <1>2, <1>3, <1>4, <2>1 DEF CodexIInv, PublishedInOrder
  <1>11. OwnersChecked'
    BY <1>4 DEF CodexIInv, OwnersChecked, Foreign
  <1>12. (TokensIssued /\ RefreshTokenUsedOnce /\ SpentTokenFenced)'
    <2>1. spent[issued + 1] = 0
      BY <1>1, <1>2 DEF CodexIInv, TokensIssued, CodexTokens
    <2>2. TokensIssued'
      BY <1>1, <1>2, <1>3 DEF CodexIInv, TokensIssued, CodexTokens
    <2> QED
      BY <1>2, <1>3, <2>1, <2>2 DEF CodexIInv, RefreshTokenUsedOnce, SpentTokenFenced
  <1> QED
    BY <1>6, <1>7, <1>8, <1>9, <1>10, <1>11, <1>12 DEF CodexIInv

\* Time ages a Secret and its copies alike.
LEMMA CodexTickKeeps ==
  ASSUME CodexIInv, CodexTick
  PROVE  CodexIInv'
  <1>1. /\ renewer \in [CodexProcesses -> Renewer] /\ authority \in Authority
        /\ access \in Output
    BY DEF CodexIInv, CodexTypeOK
  <1>2. /\ authority' = OlderAuthority(authority) /\ access' = OlderOutput(access)
        /\ UNCHANGED <<issued, spent, abandoned>> /\ UNCHANGED codexConfig
    BY DEF CodexTick
  <1>3. /\ authority' \in Authority /\ access' \in Output
        /\ authority'.token = authority.token /\ authority'.intent = authority.intent
        /\ authority'.access.of = authority.access.of
        /\ access'.access.of = access.access.of
    BY <1>1, <1>2, OlderAuthorityIs, OlderOutputIs
  <1>4. ASSUME NEW c \in CodexProcesses
        PROVE  /\ renewer'[c] \in Renewer
               /\ renewer'[c].held = renewer[c].held
               /\ renewer'[c].step = renewer[c].step
               /\ renewer'[c].profile = renewer[c].profile
               /\ renewer'[c].authority = OlderAuthority(renewer[c].authority)
               /\ renewer'[c].output = OlderOutput(renewer[c].output)
               /\ renewer'[c].result.of = renewer[c].result.of
               /\ renewer'[c].authority.token = renewer[c].authority.token
               /\ renewer'[c].authority.intent = renewer[c].authority.intent
               /\ renewer'[c].authority.owner = renewer[c].authority.owner
               /\ renewer'[c].authority.access.of = renewer[c].authority.access.of
               /\ renewer'[c].output.owner = renewer[c].output.owner
    <2> DEFINE q == renewer[c]
    <2>1. renewer'[c] = [q EXCEPT !.authority = OlderAuthority(@), !.output = OlderOutput(@),
                                  !.result = Older(@)]
      BY DEF CodexTick
    <2>2. q \in Renewer /\ q.authority \in Authority /\ q.output \in Output /\ q.result \in Access
      BY <1>1 DEF Renewer
    <2>3. /\ OlderAuthority(q.authority) \in Authority /\ OlderOutput(q.output) \in Output
          /\ Older(q.result) \in Access /\ Older(q.result).of = q.result.of
      BY <2>2, OlderAuthorityIs, OlderOutputIs, OlderAccess
    <2>4. /\ renewer'[c] \in Renewer
          /\ renewer'[c].held = q.held /\ renewer'[c].step = q.step
          /\ renewer'[c].profile = q.profile
          /\ renewer'[c].authority = OlderAuthority(q.authority)
          /\ renewer'[c].output = OlderOutput(q.output)
          /\ renewer'[c].result = Older(q.result)
      BY <2>1, <2>2, <2>3 DEF Renewer
    <2> QED
      BY <2>2, <2>3, <2>4, OlderAuthorityIs, OlderOutputIs
  <1>5. CodexTypeOK'
    <2>1. renewer' \in [CodexProcesses -> Renewer]
      BY <1>4 DEF CodexTick
    <2> QED
      BY <1>2, <1>3, <2>1 DEF CodexIInv, CodexTypeOK
  <1>6. CopiesAreCurrent'
    BY <1>2, <1>4 DEF CodexIInv, CopiesAreCurrent
  <1>7. RefreshesAreExclusive'
    BY <1>2, <1>3, <1>4 DEF CodexIInv, RefreshesAreExclusive, TokenOf
  <1>8. RotatedIsFresh'
    BY <1>2, <1>3, <1>4 DEF CodexIInv, RotatedIsFresh, Carries, TokenOf
  <1>9. PublishedInOrder'
    BY <1>3, <1>4 DEF CodexIInv, PublishedInOrder
  <1>10. OwnersChecked'
    BY <1>4 DEF CodexIInv, OwnersChecked, Foreign
  <1>11. (TokensIssued /\ RefreshTokenUsedOnce /\ SpentTokenFenced)'
    BY <1>2, <1>3 DEF CodexIInv, TokensIssued, RefreshTokenUsedOnce, SpentTokenFenced
  <1> QED
    BY <1>5, <1>6, <1>7, <1>8, <1>9, <1>10, <1>11 DEF CodexIInv

LEMMA CodexInductive == CodexIInv /\ [CodexNext]_codexVars => CodexIInv'
  <1> SUFFICES ASSUME CodexIInv, [CodexNext]_codexVars PROVE CodexIInv'
    OBVIOUS
  <1>1. ASSUME NEW b \in CodexProcesses, RenewStep(b) \/ Abandon(b) PROVE CodexIInv'
    BY <1>1, ReadingKeeps, InvalidateKeeps, ClaimKeeps, NativeRefreshKeeps, CommitKeeps,
       PutOutputKeeps DEF RenewStep
  <1>2. ASSUME NEW p \in CodexProfiles, EditProfile(p) PROVE CodexIInv'
    <2>1. CodexTypeOK'
      <3>1. /\ codexConfig \in [CodexProfiles -> Nat]
            /\ \A q \in CodexProfiles : codexConfig[q] \in 1 .. CodexConfigs[q]
            /\ codexConfig[p] < CodexConfigs[p]
            /\ codexConfig' = [codexConfig EXCEPT ![p] = @ + 1]
            /\ \A q \in CodexProfiles : CodexConfigs[q] \in Nat
        BY <1>2, CodexAssumption DEF EditProfile, CodexIInv, CodexTypeOK
      <3>2. /\ codexConfig' \in [CodexProfiles -> Nat]
            /\ \A q \in CodexProfiles : codexConfig'[q] \in 1 .. CodexConfigs[q]
        BY <3>1
      <3> QED
        BY <1>2, <3>2 DEF EditProfile, CodexIInv, CodexTypeOK
    <2> QED
      BY <1>2, <2>1 DEF EditProfile, CodexIInv, CopiesAreCurrent, TokensIssued,
         RefreshesAreExclusive, RotatedIsFresh, PublishedInOrder, OwnersChecked, Carries,
         TokenOf, Foreign, RefreshTokenUsedOnce, SpentTokenFenced
  <1>3. CASE UNCHANGED codexVars
    BY <1>3 DEF codexVars, CodexIInv, CodexTypeOK, CopiesAreCurrent, TokensIssued,
       RefreshesAreExclusive, RotatedIsFresh, PublishedInOrder, OwnersChecked, Carries,
       TokenOf, Foreign, RefreshTokenUsedOnce, SpentTokenFenced
  <1> QED
    BY <1>1, <1>2, <1>3, RebootstrapKeeps, CodexTickKeeps DEF CodexNext

\* A step publishes nothing older and changes no owner.
LEMMA CodexStep ==
  CodexIInv /\ [CodexNext]_codexVars =>
    /\ access'.access.of # 0 => access'.access.of >= access.access.of
    /\ authority.owner # NoCodexProfile => authority'.owner = authority.owner
    /\ access.owner # NoCodexProfile => access'.owner = access.owner
  <1> DEFINE Kept == /\ access'.access.of # 0 => access'.access.of >= access.access.of
                     /\ authority.owner # NoCodexProfile => authority'.owner = authority.owner
                     /\ access.owner # NoCodexProfile => access'.owner = access.owner
  <1> SUFFICES ASSUME CodexIInv, [CodexNext]_codexVars PROVE Kept
    OBVIOUS
  <1>1. /\ renewer \in [CodexProcesses -> Renewer] /\ authority \in Authority
        /\ access \in Output /\ access.access.of \in Int /\ access.access \in Access
    BY DEF CodexIInv, CodexTypeOK, Output, Access, NoAccess, CodexTokens
  <1>2. ASSUME authority'.owner = authority.owner, access' = access PROVE Kept
    BY <1>1, <1>2
  <1>3. ASSUME NEW b \in CodexProcesses, InvalidateOutput(b) PROVE Kept
    <2>1. CASE access' = access
      BY <1>2, <1>3, <2>1 DEF InvalidateOutput
    <2>2. CASE access' # access
      <3>1. /\ "output" \in renewer[b].held
            /\ access' = [renewer[b].output EXCEPT !.access = NoAccess]
        BY <1>3, <2>2 DEF InvalidateOutput, SwapOutput
      <3>2. renewer[b].output = access
        BY <3>1 DEF CodexIInv, CopiesAreCurrent
      <3> QED
        BY <1>1, <1>3, <3>1, <3>2 DEF InvalidateOutput, Output, NoAccess
    <2> QED
      BY <2>1, <2>2
  <1>4. ASSUME NEW b \in CodexProcesses, Claim(b) PROVE Kept
    <2>1. CASE authority' = authority
      BY <1>2, <1>4, <2>1 DEF Claim
    <2>2. CASE authority' # authority
      <3>1. "authority" \in renewer[b].held /\ authority'.owner = renewer[b].profile
        BY <1>1, <1>4, <2>2 DEF Claim, SwapAuthority, Renewer, Authority
      <3>2. authority.owner \in {NoCodexProfile, renewer[b].profile}
        BY <1>4, <3>1 DEF Claim, CodexIInv, CopiesAreCurrent, OwnersChecked, Foreign
      <3> QED
        BY <1>1, <1>4, <3>1, <3>2 DEF Claim
    <2> QED
      BY <2>1, <2>2
  <1>5. ASSUME NEW b \in CodexProcesses, Commit(b) PROVE Kept
    <2>1. CASE authority' = authority
      BY <1>2, <1>5, <2>1 DEF Commit
    <2>2. CASE authority' # authority
      <3>1. "authority" \in renewer[b].held /\ authority'.owner = renewer[b].authority.owner
        BY <1>1, <1>5, <2>2 DEF Commit, SwapAuthority, Renewer, Authority
      <3>2. renewer[b].authority = authority
        BY <3>1 DEF CodexIInv, CopiesAreCurrent
      <3> QED
        BY <1>2, <1>5, <3>1, <3>2 DEF Commit
    <2> QED
      BY <2>1, <2>2
  <1>6. ASSUME NEW b \in CodexProcesses, PutOutput(b) PROVE Kept
    <2>1. CASE access' = access
      BY <1>2, <1>6, <2>1 DEF PutOutput
    <2>2. CASE access' # access
      <3>1. /\ "output" \in renewer[b].held /\ access'.owner = renewer[b].profile
            /\ access'.access = renewer[b].result
        BY <1>6, <2>2 DEF PutOutput, SwapOutput
      <3>2. /\ access.owner \in {NoCodexProfile, renewer[b].profile}
            /\ access.access.of <= renewer[b].result.of
        BY <1>6, <3>1 DEF PutOutput, CodexIInv, CopiesAreCurrent, OwnersChecked, Foreign,
             PublishedInOrder
      <3>3. renewer[b].result.of \in Int
        BY <1>1 DEF Renewer, Access, NoAccess, CodexTokens
      <3> QED
        BY <1>1, <1>6, <3>1, <3>2, <3>3 DEF PutOutput
    <2> QED
      BY <2>1, <2>2
  <1>7. ASSUME NEW b \in CodexProcesses, RenewStep(b) \/ Abandon(b) PROVE Kept
    <2>1. CASE \/ ReadAuthority(b) \/ ReadOutput(b) \/ NativeRefresh(b) \/ NativeReturns(b)
               \/ NativeFails(b) \/ ReadLatest(b) \/ ReadDurable(b) \/ LookupOutput(b)
               \/ RecheckAuthority(b) \/ Abandon(b)
      BY <1>2, <2>1 DEF ReadAuthority, ReadOutput, NativeRefresh, NativeReturns, NativeFails,
         ReadLatest, ReadDurable, LookupOutput, RecheckAuthority, Abandon
    <2> QED
      BY <1>3, <1>4, <1>5, <1>6, <1>7, <2>1 DEF RenewStep
  <1>8. CASE Rebootstrap
    BY <1>1, <1>2, <1>8 DEF Rebootstrap, Authority
  <1>9. CASE CodexTick
    <2>1. /\ authority'.owner = authority.owner /\ access'.owner = access.owner
          /\ access'.access.of = access.access.of
      BY <1>1, <1>9, OlderAuthorityIs, OlderOutputIs DEF CodexTick
    <2> QED
      BY <1>1, <2>1
  <1>10. CASE (\E p \in CodexProfiles : EditProfile(p)) \/ UNCHANGED codexVars
    BY <1>2, <1>10 DEF EditProfile, codexVars
  <1> QED
    BY <1>7, <1>8, <1>9, <1>10 DEF CodexNext

\* "Never retry an ambiguous refresh token": a one-use refresh token is used
\* once and fenced from then on, the published access token never goes back and
\* no profile takes over a Secret of another one (CodexSubscriptionBroker), in
\* the brokers by themselves.
THEOREM AuthorityIsKept ==
  CodexInit /\ [][CodexNext]_codexVars => AuthorityHolds
  <1>1. CodexIInv => RefreshTokenUsedOnce /\ SpentTokenFenced
    BY DEF CodexIInv
  <1> QED
    BY <1>1, CodexInitial, CodexInductive, CodexStep, PTL
       DEF AuthorityHolds, AccessNeverRegresses, CodexOwnersKept

-----------------------------------------------------------------------------
(* The GitHub App token: the invariant.                                     *)

\* What the Secret says of the attempt m of process b.
MintSound(b, m) ==
  LET s == tokenSecret
      mine == s.lock = b
  IN  \* The copy a compare-and-swap needs is current.
      /\ m.held => m.copy = s
      \* A token is obtained in the request only.
      /\ m.step \notin {"finish", "publish"} => m.life = 0 - ReadTime
      \* What ReadTokenSecret found due still is, by the clock it was read with.
      /\ m.step = "claim" /\ m.held =>
           /\ s.owner # "operator" /\ s.until + m.age <= 0
           /\ s.config = m.config /\ s.token # 0 => s.expires + m.age <= RenewEarly
      \* The Secret this attempt has locked is of the attempt's configuration,
      \* and its token is about to expire or expires before the new one.
      /\ m.step \in {"key", "lease", "post", "finish", "publish"} /\ mine =>
           s.config = m.config
      /\ m.step \in {"key", "lease", "post"} /\ mine /\ s.token # 0 =>
           s.expires <= RenewEarly
      /\ m.step \in {"finish", "publish"} /\ mine /\ s.token # 0 /\ m.life > 0 - ReadTime =>
           s.expires <= m.life
      /\ m.step = "publish" /\ m.held => mine
      \* The lock outlasts the request.
      /\ m.step = "post" => mine /\ s.until > m.left

MintsSound == \A b \in Minters : MintSound(b, minter[b])

\* Nothing was ever written to an operator's Secret.
OperatorsSecret ==
  tokenSecret.owner = "operator" => tokenSecret = [AbsentSecret EXCEPT !.owner = "operator"]

GitIInv == GitTypeOK /\ MintsSound /\ OperatorsSecret /\ TokenMatchesConfig

\* The empty values are values, and ageing keeps the type.
LEMMA GitValues ==
  /\ AbsentSecret \in TokenSecret /\ MintResting \in Minter
  /\ 0 - ReadTime \in Int /\ ReadTime \in Nat
  <1> USE GitHubAssumption
  <1>1. /\ ReadTime \in Nat /\ 0 - ReadTime \in Int
        /\ 0 - ReadTime \in Downward(TokenLife) /\ 0 - ReadTime \in Downward(LockTime)
        /\ 0 - ReadTime \in Downward(MaxBackoff)
    BY DEF Downward
  <1>2. AbsentSecret \in TokenSecret
    BY <1>1 DEF AbsentSecret, TokenSecret
  <1>3. MintResting \in Minter
    <2>1. /\ 0 \in 0 .. AppConfigs /\ 0 \in 0 .. ReadTime /\ 0 \in 0 .. RequestTime
          /\ "idle" \in MinterSteps
      BY <1>1 DEF MinterSteps
    <2> QED
      BY <1>1, <1>2, <2>1 DEF MintResting, Minter
  <1> QED
    BY <1>1, <1>2, <1>3

LEMMA SoonerIs ==
  ASSUME NEW n \in Nat, NEW k \in Downward(n)
  PROVE  /\ Sooner(k) \in Downward(n) /\ Sooner(k) <= k /\ k - 1 <= Sooner(k)
         /\ k > 0 - ReadTime => Sooner(k) = k - 1
         /\ k = 0 - ReadTime => Sooner(k) = k
  BY GitHubAssumption DEF Downward, Sooner

LEMMA SoonerSecretIs ==
  ASSUME NEW s \in TokenSecret
  PROVE  LET old == SoonerSecret(s)
         IN  /\ old \in TokenSecret
             /\ old.owner = s.owner /\ old.config = s.config /\ old.token = s.token
             /\ old.lock = s.lock /\ old.expires = Sooner(s.expires)
             /\ old.until = Sooner(s.until) /\ old.next = Sooner(s.next)
             /\ old.failures = s.failures
  <1>1. /\ Sooner(s.expires) \in Downward(TokenLife) /\ Sooner(s.until) \in Downward(LockTime)
        /\ Sooner(s.next) \in Downward(MaxBackoff)
    BY SoonerIs, GitHubAssumption DEF TokenSecret
  <1> QED
    BY <1>1 DEF SoonerSecret, TokenSecret

\* A Secret nothing was written to does not age.
LEMMA BlankDoesNotAge ==
  /\ SoonerSecret(AbsentSecret) = AbsentSecret
  /\ SoonerSecret([AbsentSecret EXCEPT !.owner = "operator"])
       = [AbsentSecret EXCEPT !.owner = "operator"]
  <1>1. Sooner(0 - ReadTime) = 0 - ReadTime
    BY GitValues DEF Sooner
  <1> QED
    <2>1. ASSUME NEW s \in TokenSecret, s.expires = 0 - ReadTime, s.until = 0 - ReadTime,
                 s.next = 0 - ReadTime
          PROVE  SoonerSecret(s) = s
      BY <1>1, <2>1 DEF SoonerSecret, TokenSecret
    <2>2. /\ [AbsentSecret EXCEPT !.owner = "operator"] \in TokenSecret
          /\ AbsentSecret \in TokenSecret
      BY GitValues DEF TokenSecret
    <2> QED
      BY <2>1, <2>2 DEF AbsentSecret

\* What a compare-and-swap does.
LEMMA SwapTokenSecretIs ==
  ASSUME GitTypeOK, NEW b \in Minters, NEW new, NEW ms \in [Minters -> Minter],
         SwapTokenSecret(b, new, ms)
  PROVE  \/ tokenSecret' = tokenSecret /\ minter' = MinterRests(b)
         \/ /\ minter[b].held /\ tokenSecret' = new
            /\ minter' \in [Minters -> Minter]
            /\ \A c \in Minters :
                 /\ ~minter'[c].held /\ minter'[c].step = ms[c].step
                 /\ minter'[c].config = ms[c].config /\ minter'[c].age = ms[c].age
                 /\ minter'[c].left = ms[c].left /\ minter'[c].life = ms[c].life
  <1>1. CASE minter[b].held
    <2>1. /\ tokenSecret' = new
          /\ minter' = [c \in Minters |-> [ms[c] EXCEPT !.held = FALSE,
                          !.copy = IF c = b THEN AbsentSecret ELSE @]]
      BY <1>1 DEF SwapTokenSecret
    <2>2. ASSUME NEW c \in Minters
          PROVE  /\ minter'[c] \in Minter /\ minter'[c].held = FALSE
                 /\ minter'[c].step = ms[c].step
                 /\ minter'[c].config = ms[c].config /\ minter'[c].age = ms[c].age
                 /\ minter'[c].left = ms[c].left /\ minter'[c].life = ms[c].life
      <3>1. ms[c] \in Minter /\ (IF c = b THEN AbsentSecret ELSE ms[c].copy) \in TokenSecret
        BY GitValues DEF Minter
      <3> QED
        BY <2>1, <3>1 DEF Minter
    <2> QED
      BY <1>1, <2>1, <2>2
  <1>2. CASE ~minter[b].held
    BY <1>2 DEF SwapTokenSecret
  <1> QED
    BY <1>1, <1>2

LEMMA GitInitial == GitInit => GitIInv
  <1> SUFFICES ASSUME GitInit PROVE GitIInv
    OBVIOUS
  <1>1. /\ tokenSecret \in TokenSecret /\ tokenSecret.token = 0
        /\ tokenSecret.owner = "operator"
             => tokenSecret = [AbsentSecret EXCEPT !.owner = "operator"]
    BY GitValues DEF GitInit, TokenSecret, AbsentSecret
  <1>2. GitTypeOK
    BY <1>1, GitValues, GitHubAssumption DEF GitInit, GitTypeOK
  <1>3. MintsSound
    BY DEF GitInit, MintsSound, MintSound, MintResting
  <1> QED
    BY <1>1, <1>2, <1>3 DEF GitIInv, OperatorsSecret, TokenMatchesConfig

\* A step of one attempt that writes nothing keeps the invariant.
LEMMA MintLocalStep ==
  ASSUME GitIInv, NEW b \in Minters, NEW m \in Minter, minter' = [minter EXCEPT ![b] = m],
         MintSound(b, m), tokenSecret' = tokenSecret, appConfig' = appConfig,
         gitAborts' \in 0 .. MaxGitAborts
  PROVE  GitIInv'
  <1>1. /\ minter' \in [Minters -> Minter] /\ minter'[b] = m
        /\ \A c \in Minters : c # b => minter'[c] = minter[c]
    BY DEF GitIInv, GitTypeOK
  <1>2. GitTypeOK'
    BY <1>1 DEF GitIInv, GitTypeOK
  <1>3. MintsSound'
    <2>1. ASSUME NEW c \in Minters PROVE MintSound(c, minter[c])'
      <3>1. MintSound(c, minter'[c])
        BY <1>1 DEF GitIInv, MintsSound
      <3> QED
        BY <3>1 DEF MintSound
    <2> QED
      BY <2>1 DEF MintsSound
  <1> QED
    BY <1>2, <1>3 DEF GitIInv, OperatorsSecret, TokenMatchesConfig

LEMMA MintEnds ==
  ASSUME GitIInv, NEW b \in Minters, minter' = MinterRests(b), tokenSecret' = tokenSecret,
         appConfig' = appConfig, gitAborts' \in 0 .. MaxGitAborts
  PROVE  GitIInv'
  <1>1. MintSound(b, MintResting)
    BY DEF MintSound, MintResting
  <1> QED
    BY <1>1, GitValues, MintLocalStep DEF MinterRests

\* The steps of an attempt that write nothing.
LEMMA MintReadingKeeps ==
  ASSUME GitIInv, NEW b \in Minters,
         \/ BeginMint(b) \/ ReadTokenSecret(b) \/ ReadKey(b) \/ CheckLease(b)
         \/ MintAnswers(b) \/ MintFails(b) \/ ReadLocked(b) \/ AbortMint(b)
  PROVE  GitIInv'
  <1> DEFINE q == minter[b]
  <1>1. /\ q \in Minter /\ minter \in [Minters -> Minter] /\ tokenSecret \in TokenSecret
        /\ appConfig \in 1 .. AppConfigs /\ gitAborts \in 0 .. MaxGitAborts
    BY DEF GitIInv, GitTypeOK
  <1>2. MintSound(b, q)
    BY DEF GitIInv, MintsSound
  <1>3. CASE BeginMint(b)
    <2> DEFINE m == [q EXCEPT !.step = "read", !.config = appConfig]
    <2>0. appConfig \in 0 .. AppConfigs
      BY <1>1, GitHubAssumption
    <2>1. m \in Minter /\ minter' = [minter EXCEPT ![b] = m]
      BY <1>1, <1>3, <2>0 DEF BeginMint, Minter, MinterSteps
    <2>2. MintSound(b, m)
      BY <1>1, <1>2, <1>3 DEF BeginMint, MintSound, Minter
    <2> QED
      BY <1>1, <1>3, <2>1, <2>2, MintLocalStep DEF BeginMint
  <1>4. CASE ReadTokenSecret(b)
    <2>1. CASE ~Due(b)
      BY <1>1, <1>4, <2>1, MintEnds DEF ReadTokenSecret
    <2>2. CASE Due(b)
      <3> DEFINE m == [q EXCEPT !.step = "claim", !.copy = tokenSecret, !.held = TRUE]
      <3>1. m \in Minter /\ minter' = [minter EXCEPT ![b] = m] /\ q.step = "read"
        BY <1>1, <1>4, <2>2 DEF ReadTokenSecret, Minter, MinterSteps
      <3>2. /\ tokenSecret.owner # "operator" /\ tokenSecret.until + q.age <= 0
            /\ tokenSecret.config = q.config /\ tokenSecret.token # 0
                 => tokenSecret.expires + q.age <= RenewEarly
        BY <1>1, <2>2, GitHubAssumption DEF Due, Minter, TokenSecret, Downward
      <3>3. MintSound(b, m)
        BY <1>1, <1>2, <3>1, <3>2 DEF MintSound, Minter
      <3> QED
        BY <1>1, <1>4, <3>1, <3>3, MintLocalStep DEF ReadTokenSecret
    <2> QED
      BY <2>1, <2>2
  <1>5. CASE ReadKey(b)
    <2>1. PICK step \in {"lease", "finish"} : minter' = MinterGoes(b, step)
      BY <1>5 DEF ReadKey
    <2> DEFINE m == [q EXCEPT !.step = step]
    <2>2. m \in Minter /\ minter' = [minter EXCEPT ![b] = m]
      BY <1>1, <2>1 DEF MinterGoes, Minter, MinterSteps
    <2>3. MintSound(b, m)
      BY <1>1, <1>2, <1>5, <2>1, GitValues DEF ReadKey, MintSound, Minter
    <2> QED
      BY <1>1, <1>5, <2>2, <2>3, MintLocalStep DEF ReadKey
  <1>6. CASE CheckLease(b)
    <2>1. CASE tokenSecret.lock = b /\ tokenSecret.until > RequestTime
      <3> DEFINE m == [q EXCEPT !.step = "post", !.left = RequestTime]
      <3>1. m \in Minter /\ minter' = [minter EXCEPT ![b] = m]
        <4>1. RequestTime \in 0 .. RequestTime
          BY GitHubAssumption
        <4> QED
          BY <1>1, <1>6, <2>1, <4>1 DEF CheckLease, Minter, MinterSteps
      <3>2. MintSound(b, m)
        BY <1>1, <1>2, <1>6, <2>1 DEF CheckLease, MintSound, Minter
      <3> QED
        BY <1>1, <1>6, <3>1, <3>2, MintLocalStep DEF CheckLease
    <2>2. CASE ~(tokenSecret.lock = b /\ tokenSecret.until > RequestTime)
      <3> DEFINE m == [q EXCEPT !.step = "finish"]
      <3>1. m \in Minter /\ minter' = [minter EXCEPT ![b] = m]
        BY <1>1, <1>6, <2>2 DEF CheckLease, MinterGoes, Minter, MinterSteps
      <3>2. MintSound(b, m)
        BY <1>1, <1>2, <1>6, GitValues DEF CheckLease, MintSound, Minter
      <3> QED
        BY <1>1, <1>6, <3>1, <3>2, MintLocalStep DEF CheckLease
    <2> QED
      BY <2>1, <2>2
  <1>7. CASE MintAnswers(b)
    <2>1. PICK life \in (RenewEarly + 1) .. TokenLife :
            minter' = [MinterGoes(b, "finish") EXCEPT ![b].life = life, ![b].left = 0]
      BY <1>7 DEF MintAnswers
    <2> DEFINE m == [q EXCEPT !.step = "finish", !.life = life, !.left = 0]
    <2>2. life \in Downward(TokenLife) /\ 0 \in 0 .. RequestTime
      BY GitHubAssumption DEF Downward
    <2>3. m \in Minter
      BY <1>1, <2>2 DEF Minter, MinterSteps
    <2>4. minter' = [minter EXCEPT ![b] = m]
      BY <1>1, <2>1 DEF MinterGoes
    <2>5. tokenSecret.expires <= RenewEarly => tokenSecret.expires <= life
      BY <1>1, <2>1, GitHubAssumption DEF TokenSecret, Downward
    <2>6. MintSound(b, m)
      BY <1>1, <1>2, <1>7, <2>5 DEF MintAnswers, MintSound, Minter
    <2> QED
      BY <1>1, <1>7, <2>3, <2>4, <2>6, MintLocalStep DEF MintAnswers
  <1>8. CASE MintFails(b)
    <2> DEFINE m == [q EXCEPT !.step = "finish", !.left = 0]
    <2>1. m \in Minter
      <3>1. 0 \in 0 .. RequestTime
        BY GitHubAssumption
      <3> QED
        BY <1>1, <3>1 DEF Minter, MinterSteps
    <2>2. minter' = [minter EXCEPT ![b] = m]
      BY <1>1, <1>8 DEF MintFails, MinterGoes
    <2>3. MintSound(b, m)
      BY <1>1, <1>2, <1>8, GitValues DEF MintFails, MintSound, Minter
    <2> QED
      BY <1>1, <1>8, <2>1, <2>2, <2>3, MintLocalStep DEF MintFails
  <1>9. CASE ReadLocked(b)
    <2>1. CASE ~(tokenSecret.lock = b /\ tokenSecret.until > 0)
      BY <1>1, <1>9, <2>1, MintEnds DEF ReadLocked
    <2>2. CASE tokenSecret.lock = b /\ tokenSecret.until > 0
      <3> DEFINE m == [q EXCEPT !.step = "publish", !.copy = tokenSecret, !.held = TRUE]
      <3>1. m \in Minter /\ minter' = [minter EXCEPT ![b] = m]
        BY <1>1, <1>9, <2>2 DEF ReadLocked, Minter, MinterSteps
      <3>2. MintSound(b, m)
        BY <1>1, <1>2, <1>9, <2>2 DEF ReadLocked, MintSound, Minter
      <3> QED
        BY <1>1, <1>9, <3>1, <3>2, MintLocalStep DEF ReadLocked
    <2> QED
      BY <2>1, <2>2
  <1>10. CASE AbortMint(b)
    BY <1>1, <1>10, GitHubAssumption, MintEnds DEF AbortMint
  <1> QED
    BY <1>3, <1>4, <1>5, <1>6, <1>7, <1>8, <1>9, <1>10

\* The lock is taken: of the other attempts none is asking GitHub.
LEMMA ClaimLockKeeps ==
  ASSUME GitIInv, NEW b \in Minters, ClaimLock(b)
  PROVE  GitIInv'
  <1> DEFINE q == minter[b]
             new == [q.copy EXCEPT
                       !.owner = "profile", !.config = q.config, !.lock = b,
                       !.until = LockTime - q.age,
                       !.token = IF q.copy.config = q.config THEN @ ELSE 0]
             ms == [MinterGoes(b, "key") EXCEPT ![b].age = 0]
  <1>1. /\ q \in Minter /\ minter \in [Minters -> Minter] /\ tokenSecret \in TokenSecret
        /\ gitAborts \in 0 .. MaxGitAborts /\ GitTypeOK
    BY DEF GitIInv, GitTypeOK
  <1>2. /\ SwapTokenSecret(b, new, ms) /\ q.step = "claim"
        /\ UNCHANGED <<appConfig, gitAborts>>
    BY DEF ClaimLock
  <1>3. /\ ms \in [Minters -> Minter]
        /\ ms[b].step = "key" /\ ms[b].config = q.config /\ ms[b].age = 0
        /\ ms[b].left = q.left /\ ms[b].life = q.life
        /\ \A c \in Minters : c # b => ms[c] = minter[c]
    <2> DEFINE m == [q EXCEPT !.step = "key", !.age = 0]
    <2>1. 0 \in 0 .. ReadTime
      BY GitHubAssumption
    <2>2. /\ m \in Minter /\ m.step = "key" /\ m.config = q.config /\ m.age = 0
          /\ m.left = q.left /\ m.life = q.life
      BY <1>1, <2>1 DEF Minter, MinterSteps
    <2>3. ms = [minter EXCEPT ![b] = m]
      BY <1>1 DEF MinterGoes
    <2> QED
      BY <1>1, <2>2, <2>3
  <1> HIDE DEF ms
  <1>4. CASE tokenSecret' = tokenSecret /\ minter' = MinterRests(b)
    BY <1>1, <1>2, <1>4, MintEnds
  <1>5. CASE ~(tokenSecret' = tokenSecret /\ minter' = MinterRests(b))
    <2>1. /\ q.held /\ tokenSecret' = new
          /\ minter' \in [Minters -> Minter]
          /\ \A c \in Minters :
               /\ ~minter'[c].held /\ minter'[c].step = ms[c].step
               /\ minter'[c].config = ms[c].config /\ minter'[c].age = ms[c].age
               /\ minter'[c].left = ms[c].left /\ minter'[c].life = ms[c].life
      BY <1>1, <1>2, <1>3, <1>5, SwapTokenSecretIs
    <2>2. /\ q.copy = tokenSecret /\ tokenSecret.owner # "operator"
          /\ tokenSecret.until + q.age <= 0
          /\ tokenSecret.config = q.config /\ tokenSecret.token # 0
               => tokenSecret.expires + q.age <= RenewEarly
          /\ q.life = 0 - ReadTime
      BY <1>2, <2>1 DEF GitIInv, MintsSound, MintSound
    <2>3. LockTime - q.age \in Downward(LockTime)
      BY <1>1, GitHubAssumption DEF Minter, Downward
    <2>4. /\ tokenSecret' \in TokenSecret /\ tokenSecret'.owner = "profile"
          /\ tokenSecret'.config = q.config /\ tokenSecret'.lock = b
          /\ tokenSecret'.expires = tokenSecret.expires
          /\ tokenSecret'.token =
               IF tokenSecret.config = q.config THEN tokenSecret.token ELSE 0
      <3>1. q.config \in 0 .. AppConfigs /\ 0 \in 0 .. AppConfigs
        BY <1>1, GitHubAssumption DEF Minter
      <3> QED
        BY <1>1, <2>1, <2>2, <2>3, <3>1 DEF TokenSecret
    <2> HIDE DEF new
    <2>5. GitTypeOK'
      BY <1>2, <2>1, <2>4 DEF GitIInv, GitTypeOK
    <2>6. OperatorsSecret' /\ TokenMatchesConfig'
      BY <2>4 DEF GitIInv, OperatorsSecret, TokenMatchesConfig
    <2>7. tokenSecret'.token # 0 => tokenSecret'.expires <= RenewEarly
      BY <1>1, <2>2, <2>4, GitHubAssumption DEF TokenSecret, Minter, Downward
    <2>8. MintSound(b, minter[b])'
      BY <1>3, <2>1, <2>2, <2>4, <2>7 DEF MintSound
    <2>9. ASSUME NEW c \in Minters, c # b PROVE MintSound(c, minter[c])'
      <3>1. minter[c].step # "post"
        <4>1. q.age \in Nat /\ minter[c].left \in Nat /\ tokenSecret.until \in Int
          BY <1>1, GitHubAssumption DEF Minter, TokenSecret, Downward
        <4>2. minter[c].step = "post" => tokenSecret.until > minter[c].left
          BY DEF GitIInv, MintsSound, MintSound
        <4> QED
          BY <2>2, <4>1, <4>2
      <3>2. /\ minter'[c].step = minter[c].step /\ minter'[c].life = minter[c].life
            /\ ~minter'[c].held /\ tokenSecret'.lock # c
        BY <1>3, <2>1, <2>4, <2>9
      <3>3. minter[c].step \notin {"finish", "publish"} => minter[c].life = 0 - ReadTime
        BY DEF GitIInv, MintsSound, MintSound
      <3> QED
        BY <3>1, <3>2, <3>3 DEF MintSound
    <2> QED
      BY <2>5, <2>6, <2>8, <2>9 DEF GitIInv, MintsSound
  <1> QED
    BY <1>4, <1>5

\* What publishing writes into the Secret that was read.
LEMMA PublishedIs ==
  ASSUME NEW s \in TokenSecret, NEW b \in Minters, minter[b] \in Minter
  PROVE  /\ WithToken(s, b) \in TokenSecret /\ WithFailure(s) \in TokenSecret
         /\ WithToken(s, b).owner = s.owner /\ WithFailure(s).owner = s.owner
         /\ WithToken(s, b).config = s.config /\ WithFailure(s).config = s.config
         /\ WithToken(s, b).lock = NoMinter /\ WithFailure(s).lock = NoMinter
         /\ WithToken(s, b).token = minter[b].config /\ WithFailure(s).token = s.token
         /\ WithToken(s, b).expires = minter[b].life
         /\ WithFailure(s).expires = s.expires
  <1>1. /\ 0 - ReadTime \in Downward(LockTime) /\ 0 - ReadTime \in Downward(MaxBackoff)
        /\ 0 \in 0 .. MaxFailures /\ NoMinter \in Minters \cup {NoMinter}
    BY GitHubAssumption DEF Downward
  <1>2. \A n : Backoff(n) \in Downward(MaxBackoff)
    <2>1. 1 .. MaxBackoff \subseteq Downward(MaxBackoff) /\ MaxBackoff \in Downward(MaxBackoff)
      BY GitHubAssumption DEF Downward
    <2> QED
      BY <2>1 DEF Backoff
  <1>3. /\ Released(s) \in TokenSecret
        /\ Released(s).owner = s.owner /\ Released(s).config = s.config
        /\ Released(s).lock = NoMinter /\ Released(s).token = s.token
        /\ Released(s).expires = s.expires
    BY <1>1 DEF Released, TokenSecret
  <1>4. (IF s.failures < MaxFailures THEN s.failures + 1 ELSE MaxFailures) \in 0 .. MaxFailures
    BY GitHubAssumption DEF TokenSecret
  <1>5. minter[b].config \in 0 .. AppConfigs /\ minter[b].life \in Downward(TokenLife)
    BY DEF Minter
  <1> HIDE DEF Released, Backoff
  <1>6. /\ WithToken(s, b) \in TokenSecret /\ WithToken(s, b).owner = s.owner
        /\ WithToken(s, b).config = s.config /\ WithToken(s, b).lock = NoMinter
        /\ WithToken(s, b).token = minter[b].config
        /\ WithToken(s, b).expires = minter[b].life
    BY <1>1, <1>3, <1>5 DEF WithToken, TokenSecret
  <1>7. /\ WithFailure(s) \in TokenSecret /\ WithFailure(s).owner = s.owner
        /\ WithFailure(s).config = s.config /\ WithFailure(s).lock = NoMinter
        /\ WithFailure(s).token = s.token /\ WithFailure(s).expires = s.expires
    <2> DEFINE n == IF s.failures < MaxFailures THEN s.failures + 1 ELSE MaxFailures
    <2>1. WithFailure(s) = [Released(s) EXCEPT !.failures = n, !.next = Backoff(n)]
      BY DEF WithFailure
    <2>2. n \in 0 .. MaxFailures /\ Backoff(n) \in Downward(MaxBackoff)
      BY <1>2, <1>4
    <2> HIDE DEF n
    <2> QED
      BY <1>3, <2>1, <2>2 DEF TokenSecret
  <1> QED
    BY <1>6, <1>7

\* The outcome is published and the lock released by the process that holds it.
LEMMA PublishTokenKeeps ==
  ASSUME GitIInv, NEW b \in Minters, PublishToken(b)
  PROVE  /\ GitIInv'
         /\ \/ tokenSecret' = tokenSecret
            \/ /\ tokenSecret.owner # "operator"
               /\ tokenSecret'.token = tokenSecret.token /\ tokenSecret.token # 0
                    => tokenSecret'.expires >= tokenSecret.expires
  <1> DEFINE q == minter[b]
             s == q.copy
             new == IF Minted(b) THEN WithToken(s, b) ELSE WithFailure(s)
  <1>1. /\ q \in Minter /\ minter \in [Minters -> Minter] /\ tokenSecret \in TokenSecret
        /\ gitAborts \in 0 .. MaxGitAborts /\ GitTypeOK /\ s \in TokenSecret
    BY DEF GitIInv, GitTypeOK, Minter
  <1>2. /\ SwapTokenSecret(b, new, MinterRests(b)) /\ q.step = "publish"
        /\ UNCHANGED <<appConfig, gitAborts>>
    BY DEF PublishToken
  <1>3. /\ MinterRests(b) \in [Minters -> Minter] /\ MinterRests(b)[b] = MintResting
        /\ \A c \in Minters : c # b => MinterRests(b)[c] = minter[c]
    BY <1>1, GitValues DEF MinterRests
  <1>4. CASE tokenSecret' = tokenSecret /\ minter' = MinterRests(b)
    BY <1>1, <1>2, <1>4, MintEnds
  <1>5. CASE ~(tokenSecret' = tokenSecret /\ minter' = MinterRests(b))
    <2>1. /\ q.held /\ tokenSecret' = new
          /\ minter' \in [Minters -> Minter]
          /\ \A c \in Minters :
               /\ ~minter'[c].held /\ minter'[c].step = MinterRests(b)[c].step
               /\ minter'[c].life = MinterRests(b)[c].life
      BY <1>1, <1>2, <1>3, <1>5, SwapTokenSecretIs
    <2>2. /\ s = tokenSecret /\ tokenSecret.lock = b /\ tokenSecret.config = q.config
          /\ tokenSecret.token # 0 /\ q.life > 0 - ReadTime
               => tokenSecret.expires <= q.life
      BY <1>2, <2>1 DEF GitIInv, MintsSound, MintSound
    <2>3. tokenSecret.owner # "operator"
      <3>1. [AbsentSecret EXCEPT !.owner = "operator"].lock = NoMinter
        BY DEF AbsentSecret
      <3> QED
        BY <2>2, <3>1, GitHubAssumption DEF GitIInv, OperatorsSecret
    <2>4. /\ tokenSecret' \in TokenSecret /\ tokenSecret'.owner = tokenSecret.owner
          /\ tokenSecret'.config = tokenSecret.config /\ tokenSecret'.lock = NoMinter
          /\ Minted(b) => /\ tokenSecret'.token = q.config /\ tokenSecret'.expires = q.life
          /\ ~Minted(b) => /\ tokenSecret'.token = tokenSecret.token
                           /\ tokenSecret'.expires = tokenSecret.expires
      <3> HIDE DEF s
      <3>1. /\ WithToken(s, b) \in TokenSecret /\ WithToken(s, b).owner = s.owner
            /\ WithToken(s, b).config = s.config /\ WithToken(s, b).lock = NoMinter
            /\ WithToken(s, b).token = q.config /\ WithToken(s, b).expires = q.life
            /\ WithFailure(s) \in TokenSecret /\ WithFailure(s).owner = s.owner
            /\ WithFailure(s).config = s.config /\ WithFailure(s).lock = NoMinter
            /\ WithFailure(s).token = s.token /\ WithFailure(s).expires = s.expires
        BY <1>1, PublishedIs
      <3>2. CASE Minted(b)
        <4>1. tokenSecret' = WithToken(s, b)
          BY <2>1, <3>2
        <4> QED
          BY <2>2, <3>1, <3>2, <4>1
      <3>3. CASE ~Minted(b)
        <4>1. tokenSecret' = WithFailure(s)
          BY <2>1, <3>3
        <4> QED
          BY <2>2, <3>1, <3>3, <4>1
      <3> QED
        BY <3>2, <3>3
    <2> HIDE DEF new
    <2>5. tokenSecret'.token = tokenSecret.token /\ tokenSecret.token # 0
            => tokenSecret'.expires >= tokenSecret.expires
      BY <1>1, <2>2, <2>4, GitHubAssumption DEF Minted, Minter, TokenSecret, Downward
    <2>6. GitTypeOK'
      BY <1>2, <2>1, <2>4 DEF GitIInv, GitTypeOK
    <2>7. OperatorsSecret' /\ TokenMatchesConfig'
      BY <2>2, <2>3, <2>4 DEF GitIInv, OperatorsSecret, TokenMatchesConfig
    <2>8. MintSound(b, minter[b])'
      <3>1. /\ minter'[b].step = "idle" /\ minter'[b].life = 0 - ReadTime /\ ~minter'[b].held
        BY <1>3, <2>1 DEF MintResting
      <3> QED
        BY <3>1 DEF MintSound
    <2>9. ASSUME NEW c \in Minters, c # b PROVE MintSound(c, minter[c])'
      <3>1. /\ minter'[c].step = minter[c].step /\ minter'[c].life = minter[c].life
            /\ ~minter'[c].held /\ tokenSecret'.lock # c
        BY <1>3, <2>1, <2>4, <2>9, GitHubAssumption
      <3>2. /\ minter[c].step # "post"
            /\ minter[c].step \notin {"finish", "publish"} => minter[c].life = 0 - ReadTime
        BY <2>2, <2>9 DEF GitIInv, MintsSound, MintSound
      <3> QED
        BY <3>1, <3>2 DEF MintSound
    <2> QED
      BY <2>3, <2>5, <2>6, <2>7, <2>8, <2>9 DEF GitIInv, MintsSound
  <1> QED
    BY <1>4, <1>5

\* Time ages the Secret, its copies, the requests and the tokens they bring.
LEMMA GitTickKeeps ==
  ASSUME GitIInv, GitTick
  PROVE  /\ GitIInv' /\ tokenSecret'.lock = tokenSecret.lock
         /\ tokenSecret.owner = "operator" => tokenSecret' = tokenSecret
  <1>1. /\ minter \in [Minters -> Minter] /\ tokenSecret \in TokenSecret
        /\ tokenSecret' = SoonerSecret(tokenSecret) /\ UNCHANGED <<appConfig, gitAborts>>
    BY DEF GitIInv, GitTypeOK, GitTick
  <1>2. /\ tokenSecret' \in TokenSecret
        /\ tokenSecret'.owner = tokenSecret.owner /\ tokenSecret'.config = tokenSecret.config
        /\ tokenSecret'.token = tokenSecret.token /\ tokenSecret'.lock = tokenSecret.lock
        /\ tokenSecret'.expires = Sooner(tokenSecret.expires)
        /\ tokenSecret'.until = Sooner(tokenSecret.until)
    BY <1>1, SoonerSecretIs
  <1>3. ASSUME NEW c \in Minters
        PROVE  minter'[c] \in Minter /\ MintSound(c, minter[c])'
    <2> DEFINE q == minter[c]
    <2>1. /\ q \in Minter /\ q.step \in MinterSteps /\ q.age \in 0 .. ReadTime
          /\ q.left \in 0 .. RequestTime /\ q.life \in Downward(TokenLife)
          /\ q.copy \in TokenSecret
      BY <1>1 DEF Minter
    <2>2. /\ q.step = "post" => q.left > 0
          /\ q.step \in Dated => q.age < ReadTime
          /\ minter'[c] = [q EXCEPT
               !.age = IF q.step \in Dated THEN @ + 1 ELSE @,
               !.left = IF q.step = "post" THEN @ - 1 ELSE @,
               !.copy = IF @ = AbsentSecret THEN @ ELSE SoonerSecret(@),
               !.life = Sooner(@)]
      BY DEF GitTick
    <2>3. /\ (IF q.step \in Dated THEN q.age + 1 ELSE q.age) \in 0 .. ReadTime
          /\ (IF q.step = "post" THEN q.left - 1 ELSE q.left) \in 0 .. RequestTime
          /\ Sooner(q.life) \in Downward(TokenLife)
          /\ (IF q.copy = AbsentSecret THEN q.copy ELSE SoonerSecret(q.copy)) \in TokenSecret
      BY <2>1, <2>2, SoonerIs, SoonerSecretIs, GitHubAssumption
    <2>4. /\ minter'[c] \in Minter
          /\ minter'[c].step = q.step /\ minter'[c].config = q.config
          /\ minter'[c].held = q.held
          /\ minter'[c].age = IF q.step \in Dated THEN q.age + 1 ELSE q.age
          /\ minter'[c].left = IF q.step = "post" THEN q.left - 1 ELSE q.left
          /\ minter'[c].copy = IF q.copy = AbsentSecret THEN q.copy ELSE SoonerSecret(q.copy)
          /\ minter'[c].life = Sooner(q.life)
      BY <2>1, <2>2, <2>3 DEF Minter
    <2>5. MintSound(c, q)
      BY DEF GitIInv, MintsSound
    <2>6. minter'[c].held => minter'[c].copy = tokenSecret'
      BY <1>1, <2>4, <2>5, BlankDoesNotAge DEF MintSound
    <2>7. /\ ReadTime \in Nat /\ tokenSecret.until \in Downward(LockTime)
          /\ tokenSecret.expires \in Downward(TokenLife)
          /\ LockTime \in Nat /\ TokenLife \in Nat /\ RenewEarly \in Nat /\ RequestTime \in Nat
      BY <1>1, GitHubAssumption DEF TokenSecret
    <2>8. q.life = 0 - ReadTime => minter'[c].life = 0 - ReadTime
      BY <2>1, <2>4, <2>7, SoonerIs
    <2>9. q.step = "claim" =>
            /\ minter'[c].age = q.age + 1 /\ q.age + 1 <= ReadTime
      BY <2>1, <2>2, <2>4, <2>7 DEF Dated
    <2>10. q.step = "claim" /\ q.held =>
             /\ tokenSecret'.owner # "operator" /\ tokenSecret'.until + minter'[c].age <= 0
             /\ tokenSecret'.config = minter'[c].config /\ tokenSecret'.token # 0
                  => tokenSecret'.expires + minter'[c].age <= RenewEarly
      <3>1. q.step = "claim" /\ q.held /\ tokenSecret.until + q.age <= 0
              => Sooner(tokenSecret.until) + (q.age + 1) <= 0
        BY <2>1, <2>7, <2>9 DEF Sooner, Downward
      <3>2. q.step = "claim" /\ q.held /\ tokenSecret.expires + q.age <= RenewEarly
              => Sooner(tokenSecret.expires) + (q.age + 1) <= RenewEarly
        BY <2>1, <2>7, <2>9 DEF Sooner, Downward
      <3> QED
        BY <1>2, <2>4, <2>5, <2>9, <3>1, <3>2 DEF MintSound
    <2>11. q.step = "post" =>
             /\ tokenSecret'.lock = c /\ tokenSecret'.until > minter'[c].left
      <3>1. q.step = "post" /\ tokenSecret.until > q.left
              => Sooner(tokenSecret.until) > q.left - 1
        BY <2>1, <2>7 DEF Sooner, Downward
      <3> QED
        BY <1>2, <2>4, <2>5, <3>1 DEF MintSound
    <2>12. tokenSecret.expires <= RenewEarly => tokenSecret'.expires <= RenewEarly
      BY <1>2, <2>7 DEF Sooner, Downward
    <2>13. minter'[c].life > 0 - ReadTime /\ tokenSecret.expires <= q.life
             => q.life > 0 - ReadTime /\ tokenSecret'.expires <= minter'[c].life
      BY <1>2, <2>1, <2>4, <2>7 DEF Sooner, Downward
    <2>14. minter'[c].life > 0 - ReadTime => q.life > 0 - ReadTime
      BY <2>1, <2>4, <2>7 DEF Sooner, Downward
    <2>15. MintSound(c, minter[c])'
      BY <1>2, <2>4, <2>5, <2>6, <2>8, <2>10, <2>11, <2>12, <2>13, <2>14 DEF MintSound
    <2> QED
      BY <2>4, <2>15
  <1>4. GitTypeOK'
    <2>1. minter' \in [Minters -> Minter]
      BY <1>3 DEF GitTick
    <2> QED
      BY <1>1, <1>2, <2>1 DEF GitIInv, GitTypeOK
  <1>5. OperatorsSecret' /\ (tokenSecret.owner = "operator" => tokenSecret' = tokenSecret)
    BY <1>1, <1>2, BlankDoesNotAge DEF GitIInv, OperatorsSecret
  <1>6. TokenMatchesConfig'
    BY <1>2 DEF GitIInv, TokenMatchesConfig
  <1> QED
    BY <1>2, <1>3, <1>4, <1>5, <1>6 DEF GitIInv, MintsSound

LEMMA GitInductive == GitIInv /\ [GitNext]_gitVars => GitIInv'
  <1> SUFFICES ASSUME GitIInv, [GitNext]_gitVars PROVE GitIInv'
    OBVIOUS
  <1>1. ASSUME NEW b \in Minters, MintStep(b) \/ AbortMint(b) PROVE GitIInv'
    BY <1>1, MintReadingKeeps, ClaimLockKeeps, PublishTokenKeeps DEF MintStep
  <1>2. CASE EditApp
    <2>1. appConfig' \in 1 .. AppConfigs
      BY <1>2, GitHubAssumption DEF EditApp, GitIInv, GitTypeOK
    <2> QED
      BY <1>2, <2>1 DEF EditApp, GitIInv, GitTypeOK, MintsSound, MintSound, OperatorsSecret,
         TokenMatchesConfig
  <1>3. CASE UNCHANGED gitVars
    BY <1>3 DEF gitVars, GitIInv, GitTypeOK, MintsSound, MintSound, OperatorsSecret,
       TokenMatchesConfig
  <1> QED
    BY <1>1, <1>2, <1>3, GitTickKeeps DEF GitNext

\* A step leaves an operator's Secret alone, and a release shortens no token.
LEMMA GitStep ==
  GitIInv /\ [GitNext]_gitVars =>
    /\ tokenSecret.owner = "operator" => tokenSecret' = tokenSecret
    /\ (tokenSecret.lock # NoMinter /\ tokenSecret'.lock = NoMinter
          /\ tokenSecret'.token = tokenSecret.token /\ tokenSecret.token # 0)
         => tokenSecret'.expires >= tokenSecret.expires
  <1> DEFINE Kept ==
        /\ tokenSecret.owner = "operator" => tokenSecret' = tokenSecret
        /\ (tokenSecret.lock # NoMinter /\ tokenSecret'.lock = NoMinter
              /\ tokenSecret'.token = tokenSecret.token /\ tokenSecret.token # 0)
             => tokenSecret'.expires >= tokenSecret.expires
  <1> SUFFICES ASSUME GitIInv, [GitNext]_gitVars PROVE Kept
    OBVIOUS
  <1>1. tokenSecret.expires \in Int
    BY GitHubAssumption DEF GitIInv, GitTypeOK, TokenSecret, Downward
  <1>2. ASSUME tokenSecret' = tokenSecret PROVE Kept
    BY <1>1, <1>2
  <1>3. ASSUME NEW b \in Minters, ClaimLock(b) PROVE Kept
    <2>1. CASE tokenSecret' = tokenSecret
      BY <1>2, <2>1
    <2>2. CASE tokenSecret' # tokenSecret
      <3>1. minter[b].held /\ tokenSecret'.lock = b
        <4>1. minter[b].copy \in TokenSecret
          BY DEF GitIInv, GitTypeOK, Minter
        <4> QED
          BY <1>3, <2>2, <4>1 DEF ClaimLock, SwapTokenSecret, TokenSecret
      <3>2. tokenSecret.owner # "operator"
        BY <1>3, <3>1 DEF ClaimLock, GitIInv, MintsSound, MintSound
      <3> QED
        BY <3>1, <3>2, GitHubAssumption
    <2> QED
      BY <2>1, <2>2
  <1>4. ASSUME NEW b \in Minters, PublishToken(b) PROVE Kept
    BY <1>2, <1>4, PublishTokenKeeps
  <1>5. CASE GitTick
    BY <1>5, GitTickKeeps
  <1>6. ASSUME NEW b \in Minters, MintStep(b) \/ AbortMint(b) PROVE Kept
    BY <1>2, <1>3, <1>4, <1>6 DEF MintStep, AbortMint, BeginMint, ReadTokenSecret, ReadKey,
       CheckLease, MintAnswers, MintFails, ReadLocked
  <1>7. CASE EditApp \/ UNCHANGED gitVars
    BY <1>2, <1>7 DEF EditApp, gitVars
  <1> QED
    BY <1>5, <1>6, <1>7 DEF GitNext

\* One process at a time asks GitHub for a token, a token is of the
\* configuration it is published with, no renewal takes a longer-lived token
\* away and an operator's Secret is never written (GitHubAppBroker), in the
\* brokers by themselves.
THEOREM AppTokenIsKept == GitInit /\ [][GitNext]_gitVars => AppTokenHolds
  <1>1. GitIInv => TokenMatchesConfig /\ OneMintAtATime
    BY DEF GitIInv, MintsSound, MintSound, OneMintAtATime
  <1> QED
    BY <1>1, GitInitial, GitInductive, GitStep, PTL DEF AppTokenHolds, TokenNeverShortened
=============================================================================
