-------------------------- MODULE DisposableProofs --------------------------
(***************************************************************************)
(* What is disposable is accounted for, for every number of queries, slots *)
(* and runs: an inspection Pod has its receipt and a slot its query        *)
(* (ProjectRefs); one probe of a project runs at a time, the objects of a  *)
(* probe are found by who deletes them, and permits are neither lost nor   *)
(* invented (ProviderCatalog).                                             *)
(***************************************************************************)
EXTENDS ProjectRefs, ProviderCatalog, SequenceTheorems, FiniteSetTheorems, TLAPS

-----------------------------------------------------------------------------
(* Queues in which nobody stands twice.                                     *)

Distinct(s) == \A i, j \in 1 .. Len(s) : s[i] = s[j] => i = j

LEMMA ToSetIs ==
  ASSUME NEW S, NEW s \in Seq(S)
  PROVE  /\ ToSet(s) = {s[i] : i \in 1 .. Len(s)} /\ ToSet(s) \subseteq S
         /\ s = <<>> <=> Len(s) = 0
  BY LenProperties DEF ToSet

LEMMA EmptyQueue == ToSet(<<>>) = {} /\ Distinct(<<>>)
  BY DEF ToSet, Distinct

\* Who joins a queue stands in it, at its end.
LEMMA Joins ==
  ASSUME NEW S, NEW s \in Seq(S), NEW e \in S, Distinct(s), e \notin ToSet(s)
  PROVE  /\ Append(s, e) \in Seq(S) /\ Append(s, e) # <<>>
         /\ Distinct(Append(s, e)) /\ ToSet(Append(s, e)) = ToSet(s) \cup {e}
  <1> DEFINE t == Append(s, e)
  <1>1. /\ t \in Seq(S) /\ t # <<>> /\ Len(t) = Len(s) + 1 /\ Len(s) \in Nat
        /\ \A i \in 1 .. Len(s) : t[i] = s[i]
        /\ t[Len(s) + 1] = e
    BY AppendProperties, LenProperties
  <1> HIDE DEF t
  <1>2. \A i \in 1 .. Len(s) : s[i] # e
    BY ToSetIs
  <1>3. Distinct(t)
    <2> SUFFICES ASSUME NEW i \in 1 .. Len(t), NEW j \in 1 .. Len(t), t[i] = t[j]
                 PROVE  i = j
      BY DEF Distinct
    <2>1. i \in 1 .. Len(s) \/ i = Len(s) + 1
      BY <1>1
    <2>2. j \in 1 .. Len(s) \/ j = Len(s) + 1
      BY <1>1
    <2> QED
      BY <1>1, <1>2, <2>1, <2>2 DEF Distinct
  <1>4. ToSet(t) = {t[i] : i \in 1 .. Len(s) + 1}
    BY <1>1, ToSetIs
  <1>5. 1 .. Len(s) + 1 = 1 .. Len(s) \cup {Len(s) + 1}
    BY <1>1
  <1>6. ToSet(t) = {s[i] : i \in 1 .. Len(s)} \cup {e}
    BY <1>1, <1>4, <1>5
  <1>7. ToSet(s) = {s[i] : i \in 1 .. Len(s)}
    BY ToSetIs
  <1> QED
    BY <1>1, <1>3, <1>6, <1>7 DEF t

\* The head leaves, and only the head.
LEMMA HeadLeaves ==
  ASSUME NEW S, NEW s \in Seq(S), s # <<>>, Distinct(s)
  PROVE  /\ Tail(s) \in Seq(S) /\ Distinct(Tail(s))
         /\ Head(s) \in ToSet(s) /\ ToSet(Tail(s)) = ToSet(s) \ {Head(s)}
  <1> DEFINE t == Tail(s)
  <1>1. /\ t \in Seq(S) /\ Len(t) = Len(s) - 1 /\ Len(s) \in Nat /\ Len(s) # 0
        /\ \A i \in 1 .. Len(t) : t[i] = s[i + 1]
        /\ Head(s) = s[1]
    BY HeadTailProperties, LenProperties, ToSetIs
  <1>2. \A i \in 1 .. Len(t) : i + 1 \in 1 .. Len(s) /\ i + 1 # 1
    BY <1>1
  <1>3. \A i \in 1 .. Len(s) : i = 1 \/ i - 1 \in 1 .. Len(t)
    BY <1>1
  <1>4. 1 \in 1 .. Len(s)
    BY <1>1
  <1> HIDE DEF t
  <1>5. Distinct(t)
    <2> SUFFICES ASSUME NEW i \in 1 .. Len(t), NEW j \in 1 .. Len(t), t[i] = t[j]
                 PROVE  i = j
      BY DEF Distinct
    <2>1. i + 1 = j + 1
      BY <1>1, <1>2 DEF Distinct
    <2> QED
      BY <1>1, <2>1
  <1>6. ToSet(t) = {t[i] : i \in 1 .. Len(t)} /\ ToSet(s) = {s[i] : i \in 1 .. Len(s)}
    BY <1>1, ToSetIs
  <1>7. ASSUME NEW x \in ToSet(t) PROVE x \in ToSet(s) /\ x # s[1]
    <2>1. PICK i \in 1 .. Len(t) : x = s[i + 1]
      BY <1>1, <1>6
    <2> QED
      BY <1>2, <1>4, <1>6, <2>1 DEF Distinct
  <1>8. ASSUME NEW x \in ToSet(s), x # s[1] PROVE x \in ToSet(t)
    <2>1. PICK i \in 1 .. Len(s) : x = s[i]
      BY <1>6
    <2>2. i - 1 \in 1 .. Len(t) /\ i = (i - 1) + 1
      BY <1>3, <1>8, <2>1
    <2>3. x = t[i - 1]
      BY <1>1, <2>1, <2>2
    <2> QED
      BY <1>6, <2>2, <2>3
  <1> QED
    BY <1>1, <1>4, <1>5, <1>6, <1>7, <1>8 DEF t

\* Who is taken out of a queue is gone, and nobody else.
LEMMA OneLeaves ==
  ASSUME NEW S, NEW s \in Seq(S), NEW k \in 1 .. Len(s), Distinct(s)
  PROVE  /\ RemoveAt(s, k) \in Seq(S) /\ Distinct(RemoveAt(s, k))
         /\ ToSet(RemoveAt(s, k)) = ToSet(s) \ {s[k]}
  <1> DEFINE a == SubSeq(s, 1, k - 1)
             b == SubSeq(s, k + 1, Len(s))
             t == RemoveAt(s, k)
  <1>1. Len(s) \in Nat /\ \A i \in 1 .. Len(s) : s[i] \in S
    BY LenProperties, ElementOfSeq
  <1>2. /\ a \in Seq(S) /\ Len(a) = k - 1
        /\ \A i \in 1 .. k - 1 : a[i] = s[i]
    <2>1. \A i \in 1 .. k - 1 : s[i] \in S
      BY <1>1
    <2>2. 1 \in Int /\ k - 1 \in Int
      BY <1>1
    <2>3. /\ a \in Seq(S) /\ Len(a) = IF 1 <= k - 1 THEN (k - 1) - 1 + 1 ELSE 0
          /\ \A i \in 1 .. (k - 1) - 1 + 1 : a[i] = s[1 + i - 1]
      BY <2>1, <2>2, SubSeqProperties
    <2> HIDE DEF a
    <2>4. Len(a) = k - 1 /\ (k - 1) - 1 + 1 = k - 1
      BY <1>1, <2>3
    <2>5. ASSUME NEW i \in 1 .. k - 1 PROVE a[i] = s[i]
      <3>1. 1 + i - 1 = i
        BY <1>1
      <3> QED
        BY <2>3, <2>4, <3>1
    <2> QED
      BY <2>3, <2>4, <2>5
  <1>3. /\ b \in Seq(S) /\ Len(b) = Len(s) - k
        /\ \A i \in 1 .. Len(s) - k : b[i] = s[k + i]
    <2>1. \A i \in k + 1 .. Len(s) : s[i] \in S
      BY <1>1
    <2>2. k + 1 \in Int /\ Len(s) \in Int
      BY <1>1
    <2>3. /\ b \in Seq(S)
          /\ Len(b) = IF k + 1 <= Len(s) THEN Len(s) - (k + 1) + 1 ELSE 0
          /\ \A i \in 1 .. Len(s) - (k + 1) + 1 : b[i] = s[k + 1 + i - 1]
      BY <2>1, <2>2, SubSeqProperties
    <2> HIDE DEF b
    <2>4. Len(b) = Len(s) - k /\ Len(s) - (k + 1) + 1 = Len(s) - k
      BY <1>1, <2>3
    <2>5. ASSUME NEW i \in 1 .. Len(s) - k PROVE b[i] = s[k + i]
      <3>1. k + 1 + i - 1 = k + i
        BY <1>1
      <3> QED
        BY <2>3, <2>4, <3>1
    <2> QED
      BY <2>3, <2>4, <2>5
  <1>4. t = a \o b
    BY DEF RemoveAt
  <1> HIDE DEF a, b, t
  <1>5. /\ t \in Seq(S) /\ Len(t) = Len(a) + Len(b)
        /\ \A i \in 1 .. Len(a) + Len(b) :
             t[i] = IF i <= Len(a) THEN a[i] ELSE b[i - Len(a)]
    <2>1. a \in Seq(S) /\ b \in Seq(S)
      BY <1>2, <1>3
    <2>2. /\ a \o b \in Seq(S) /\ Len(a \o b) = Len(a) + Len(b)
          /\ \A i \in 1 .. Len(a) + Len(b) :
               (a \o b)[i] = IF i <= Len(a) THEN a[i] ELSE b[i - Len(a)]
      BY <2>1, ConcatProperties
    <2> QED
      BY <1>4, <2>2
  <1>6. /\ Len(t) = Len(s) - 1
        /\ \A i \in 1 .. Len(t) : t[i] = IF i < k THEN s[i] ELSE s[i + 1]
    <2>1. Len(t) = Len(s) - 1
      BY <1>1, <1>2, <1>3, <1>5
    <2>2. ASSUME NEW i \in 1 .. Len(t) PROVE t[i] = IF i < k THEN s[i] ELSE s[i + 1]
      <3>1. i \in 1 .. Len(a) + Len(b)
        BY <1>5
      <3>2. CASE i < k
        BY <1>1, <1>2, <1>5, <3>1, <3>2
      <3>3. CASE ~(i < k)
        <4>1. i - (k - 1) \in 1 .. Len(s) - k /\ k + (i - (k - 1)) = i + 1
          BY <1>1, <2>1, <3>3
        <4> QED
          BY <1>1, <1>2, <1>3, <1>5, <3>1, <3>3, <4>1
      <3> QED
        BY <3>2, <3>3
    <2> QED
      BY <2>1, <2>2
  <1>7. Distinct(t)
    <2> SUFFICES ASSUME NEW i \in 1 .. Len(t), NEW j \in 1 .. Len(t), t[i] = t[j]
                 PROVE  i = j
      BY DEF Distinct
    <2> DEFINE at(n) == IF n < k THEN n ELSE n + 1
    <2>1. t[i] = s[at(i)] /\ t[j] = s[at(j)]
      BY <1>1, <1>6
    <2>2. at(i) \in 1 .. Len(s) /\ at(j) \in 1 .. Len(s)
      BY <1>1, <1>6
    <2>3. at(i) = at(j)
      BY <2>1, <2>2 DEF Distinct
    <2> QED
      BY <1>1, <1>6, <2>3
  <1>8. ToSet(t) = {t[i] : i \in 1 .. Len(t)} /\ ToSet(s) = {s[i] : i \in 1 .. Len(s)}
    BY <1>5, ToSetIs
  <1>9. ASSUME NEW x \in ToSet(t) PROVE x \in ToSet(s) /\ x # s[k]
    <2>1. PICK i \in 1 .. Len(t) : x = t[i]
      BY <1>8
    <2>2. \E n \in 1 .. Len(s) : x = s[n] /\ n # k
      <3>1. CASE i < k
        BY <1>1, <1>6, <2>1, <3>1
      <3>2. CASE ~(i < k)
        <4>1. i + 1 \in 1 .. Len(s) /\ i + 1 # k
          BY <1>1, <1>6, <3>2
        <4> QED
          BY <1>6, <2>1, <3>2, <4>1
      <3> QED
        BY <3>1, <3>2
    <2> QED
      BY <1>8, <2>2 DEF Distinct
  <1>10. ASSUME NEW x \in ToSet(s), x # s[k] PROVE x \in ToSet(t)
    <2>1. PICK n \in 1 .. Len(s) : x = s[n]
      BY <1>8
    <2>2. n < k \/ n > k
      BY <1>1, <1>10, <2>1
    <2>3. \E i \in 1 .. Len(t) : t[i] = x
      <3>1. CASE n < k
        BY <1>1, <1>6, <2>1, <3>1
      <3>2. CASE n > k
        <4>1. n - 1 \in 1 .. Len(t) /\ ~(n - 1 < k) /\ (n - 1) + 1 = n
          BY <1>1, <1>6, <3>2
        <4>2. t[n - 1] = s[n]
          BY <1>6, <4>1
        <4> QED
          BY <2>1, <4>1, <4>2
      <3> QED
        BY <2>2, <3>1, <3>2
    <2> QED
      BY <1>8, <2>3
  <1> QED
    BY <1>5, <1>7, <1>8, <1>9, <1>10 DEF t

-----------------------------------------------------------------------------
(* Inspections of refs: the invariant.                                      *)

LiveQueries == {q \in RefQueries : Live(q)}
Queued == {q \in RefQueries : query[q].step = "queued"}

\* A query has its receipt from before its Pod until after it; only the
\* receipts of ended queries expire and are recovered.
QueriesSound ==
  \A q \in RefQueries :
    /\ query[q].step = "pod" => receipt[q].there
    /\ query[q].step \in {"none", "queued", "receipt"} => ~receipt[q].there
    /\ query[q].step = "forget" => inspectPod[q] = "none"
    /\ receipt[q].old \/ q \in recovery.runs \/ recovery.step = q
         => query[q].step = "done"

\* The slots are those of the live queries, and the queue that of the queued.
SlotsSound ==
  /\ IsFiniteSet(LiveQueries) /\ refActive = Cardinality(LiveQueries)
  /\ refActive <= MaxActive /\ (refWaiters # <<>> => refActive = MaxActive)
  /\ ToSet(refWaiters) = Queued /\ Distinct(refWaiters)

RefIInv == RefTypeOK /\ QueriesSound /\ InspectPodHasReceipt /\ SlotsSound

LEMMA SlotsConserved == SlotsSound => RefSlotsConserved
  BY DEF SlotsSound, RefSlotsConserved, LiveQueries, Queued

LEMMA RefInitial == RefInit => RefIInv
  <1> SUFFICES ASSUME RefInit PROVE RefIInv
    OBVIOUS
  <1> USE RefsAssumption DEF RefInit
  <1>1. NewQuery \in Query /\ NoReceipt \in Receipt
    BY DEF NewQuery, Query, QuerySteps, NoReceipt, Receipt
  <1>2. RefTypeOK
    BY <1>1 DEF RefTypeOK, PodStates
  <1>3. QueriesSound /\ InspectPodHasReceipt
    BY DEF QueriesSound, InspectPodHasReceipt, NewQuery, NoReceipt
  <1>4. LiveQueries = {} /\ Queued = {}
    BY DEF LiveQueries, Queued, Live, NewQuery
  <1>5. SlotsSound
    BY <1>4, EmptyQueue, FS_EmptySet DEF SlotsSound
  <1> QED
    BY <1>2, <1>3, <1>5 DEF RefIInv

-----------------------------------------------------------------------------
(* Inspections of refs: the slots.                                          *)

\* A query that neither joins nor leaves the slots or the queue.
LEMMA SlotsUntouched ==
  ASSUME SlotsSound, query \in [RefQueries -> Query], NEW q \in RefQueries, NEW r \in Query,
         query' = [query EXCEPT ![q] = r], UNCHANGED <<refActive, refWaiters>>,
         r.step = "queued" <=> query[q].step = "queued",
         r.step \in {"none", "queued", "done"} <=> ~Live(q)
  PROVE  SlotsSound'
  <1>1. LiveQueries' = LiveQueries /\ Queued' = Queued
    BY DEF LiveQueries, Queued, Live
  <1> QED
    BY <1>1 DEF SlotsSound

\* A slot goes to the first waiter or is given up.
LEMMA SlotLeft ==
  ASSUME RefTypeOK, SlotsSound, NEW q \in RefQueries, Live(q), LeaveSlot(q)
  PROVE  /\ SlotsSound' /\ query' \in [RefQueries -> Query]
         /\ refActive' \in Nat /\ refWaiters' \in Seq(RefQueries)
         /\ query'[q].step = "done"
         /\ \A p \in RefQueries \ {q} :
              \/ query'[p] = query[p]
              \/ query[p].step = "queued" /\ query'[p] = [query[p] EXCEPT !.step = "receipt"]
  <1> USE RefsAssumption
  <1>1. /\ query \in [RefQueries -> Query] /\ refActive \in Nat
        /\ refWaiters \in Seq(RefQueries)
    BY DEF RefTypeOK
  <1>2. q \in LiveQueries /\ q \notin Queued
    BY DEF LiveQueries, Queued, Live
  <1>3. CASE refWaiters = <<>>
    <2>1. /\ refActive' = refActive - 1 /\ refWaiters' = refWaiters
          /\ query' = [query EXCEPT ![q] = [@ EXCEPT !.step = "done"]]
      BY <1>3 DEF LeaveSlot, QueryGoes
    <2>2. LiveQueries' = LiveQueries \ {q} /\ Queued' = Queued
      BY <1>1, <1>2, <2>1 DEF LiveQueries, Queued, Live, Query
    <2>3. /\ IsFiniteSet(LiveQueries \ {q})
          /\ Cardinality(LiveQueries \ {q}) = Cardinality(LiveQueries) - 1
      BY <1>2, FS_RemoveElement DEF SlotsSound
    <2>4. IsFiniteSet(LiveQueries') /\ refActive' = Cardinality(LiveQueries')
      BY <2>1, <2>2, <2>3 DEF SlotsSound
    <2>5. Cardinality(LiveQueries \ {q}) \in Nat
      BY <2>3, FS_CardinalityType
    <2>6. refActive' \in Nat /\ refActive' <= MaxActive
      BY <1>1, <2>1, <2>2, <2>4, <2>5 DEF SlotsSound
    <2>7. SlotsSound'
      BY <1>3, <2>1, <2>2, <2>4, <2>6 DEF SlotsSound
    <2> QED
      BY <1>1, <2>1, <2>6, <2>7 DEF Query, QuerySteps
  <1>4. CASE refWaiters # <<>>
    <2> DEFINE w == Head(refWaiters)
    <2>1. /\ Tail(refWaiters) \in Seq(RefQueries) /\ Distinct(Tail(refWaiters))
          /\ w \in Queued /\ ToSet(Tail(refWaiters)) = Queued \ {w}
      BY <1>1, <1>4, HeadLeaves DEF SlotsSound
    <2> HIDE DEF w
    <2>2. /\ refWaiters' = Tail(refWaiters) /\ refActive' = refActive
          /\ query' = [QueryGoes(q, "done") EXCEPT ![w].step = "receipt"]
      BY <1>4 DEF LeaveSlot, w
    <2>3. w # q /\ w \in RefQueries /\ query[w].step = "queued" /\ w \notin LiveQueries
      BY <1>2, <2>1 DEF Queued, LiveQueries, Live
    <2>4. query' = [query EXCEPT ![q] = [@ EXCEPT !.step = "done"],
                                 ![w] = [@ EXCEPT !.step = "receipt"]]
      BY <1>1, <2>2, <2>3 DEF QueryGoes
    <2>5. /\ query'[q].step = "done" /\ query'[w] = [query[w] EXCEPT !.step = "receipt"]
          /\ query'[w].step = "receipt"
          /\ \A p \in RefQueries \ {q, w} : query'[p] = query[p]
      BY <1>1, <2>3, <2>4 DEF Query
    <2>6. LiveQueries' = (LiveQueries \ {q}) \cup {w} /\ Queued' = Queued \ {w}
      BY ZenonT(60), <1>1, <1>2, <2>3, <2>5 DEF LiveQueries, Queued, Live
    <2>7. /\ IsFiniteSet(LiveQueries \ {q})
          /\ Cardinality(LiveQueries \ {q}) = Cardinality(LiveQueries) - 1
      BY <1>2, FS_RemoveElement DEF SlotsSound
    <2>8. /\ IsFiniteSet((LiveQueries \ {q}) \cup {w})
          /\ Cardinality((LiveQueries \ {q}) \cup {w}) = Cardinality(LiveQueries \ {q}) + 1
      BY <2>3, <2>7, FS_AddElement
    <2>9. IsFiniteSet(LiveQueries') /\ refActive' = Cardinality(LiveQueries')
      BY <1>1, <2>2, <2>6, <2>7, <2>8 DEF SlotsSound
    <2>10. SlotsSound'
      BY <1>4, <2>1, <2>2, <2>6, <2>9 DEF SlotsSound
    <2>11. query' \in [RefQueries -> Query]
      <3>1. /\ [query[q] EXCEPT !.step = "done"] \in Query
            /\ [query[w] EXCEPT !.step = "receipt"] \in Query
        BY <1>1, <2>3 DEF Query, QuerySteps
      <3> QED
        BY <1>1, <2>3, <2>4, <3>1
    <2> QED
      BY <1>1, <2>1, <2>2, <2>3, <2>5, <2>10, <2>11
  <1> QED
    BY <1>3, <1>4

\* A query takes a slot, joins the queue, or is refused.
LEMMA SlotAsked ==
  ASSUME RefTypeOK, SlotsSound, NEW q \in RefQueries, AskRefs(q)
  PROVE  /\ SlotsSound' /\ refActive' \in Nat /\ refWaiters' \in Seq(RefQueries)
         /\ \E step \in {"receipt", "queued", "done"} :
              query' = [query EXCEPT ![q] = [@ EXCEPT !.step = step]]
  <1> USE RefsAssumption
  <1>1. /\ query \in [RefQueries -> Query] /\ refActive \in Nat
        /\ refWaiters \in Seq(RefQueries)
    BY DEF RefTypeOK
  <1>2. query[q].step = "none" /\ q \notin LiveQueries /\ q \notin Queued
    BY DEF AskRefs, LiveQueries, Queued, Live
  <1>3. CASE refActive < MaxActive
    <2>1. /\ refActive' = refActive + 1 /\ refWaiters' = refWaiters
          /\ query' = [query EXCEPT ![q] = [@ EXCEPT !.step = "receipt"]]
      BY <1>3 DEF AskRefs, QueryGoes
    <2>2. LiveQueries' = LiveQueries \cup {q} /\ Queued' = Queued
      BY <1>1, <1>2, <2>1 DEF LiveQueries, Queued, Live, Query
    <2>3. /\ IsFiniteSet(LiveQueries \cup {q})
          /\ Cardinality(LiveQueries \cup {q}) = Cardinality(LiveQueries) + 1
      BY <1>2, FS_AddElement DEF SlotsSound
    <2>4. IsFiniteSet(LiveQueries') /\ refActive' = Cardinality(LiveQueries')
      BY <2>1, <2>2, <2>3 DEF SlotsSound
    <2>5. refActive' <= MaxActive /\ refWaiters' = <<>>
      BY <1>1, <1>3, <2>1 DEF SlotsSound
    <2>6. SlotsSound'
      BY <2>1, <2>2, <2>4, <2>5 DEF SlotsSound
    <2> QED
      BY <1>1, <2>1, <2>6
  <1>4. CASE ~(refActive < MaxActive) /\ Len(refWaiters) < MaxWaiting
    <2>1. /\ refActive' = refActive /\ refWaiters' = Append(refWaiters, q)
          /\ query' = [query EXCEPT ![q] = [@ EXCEPT !.step = "queued"]]
      BY <1>4 DEF AskRefs, QueryGoes
    <2>2. LiveQueries' = LiveQueries /\ Queued' = Queued \cup {q}
      BY <1>1, <1>2, <2>1 DEF LiveQueries, Queued, Live, Query
    <2>3. /\ refWaiters' \in Seq(RefQueries) /\ Distinct(refWaiters')
          /\ ToSet(refWaiters') = Queued'
      BY <1>1, <1>2, <2>1, <2>2, Joins DEF SlotsSound
    <2>4. refActive = MaxActive
      BY <1>1, <1>4 DEF SlotsSound
    <2>5. SlotsSound'
      BY <2>1, <2>2, <2>3, <2>4 DEF SlotsSound
    <2> QED
      BY <1>1, <2>1, <2>3, <2>5
  <1>5. CASE ~(refActive < MaxActive) /\ ~(Len(refWaiters) < MaxWaiting)
    <2>1. /\ refActive' = refActive /\ refWaiters' = refWaiters
          /\ query' = [query EXCEPT ![q] = [@ EXCEPT !.step = "done"]]
      BY <1>5 DEF AskRefs, QueryGoes
    <2>2. LiveQueries' = LiveQueries /\ Queued' = Queued
      BY <1>1, <1>2, <2>1 DEF LiveQueries, Queued, Live, Query
    <2>3. SlotsSound'
      BY <2>1, <2>2 DEF SlotsSound
    <2> QED
      BY <1>1, <2>1, <2>3
  <1> QED
    BY <1>3, <1>4, <1>5

\* A query leaves the queue in which it waited too long.
LEMMA QueueLeft ==
  ASSUME RefTypeOK, SlotsSound, NEW q \in RefQueries, QueueTimeout(q)
  PROVE  /\ SlotsSound' /\ refWaiters' \in Seq(RefQueries)
         /\ query' = [query EXCEPT ![q] = [@ EXCEPT !.step = "done"]]
  <1>1. query \in [RefQueries -> Query] /\ refWaiters \in Seq(RefQueries)
    BY DEF RefTypeOK
  <1>2. /\ query[q].step = "queued" /\ refActive' = refActive
        /\ query' = [query EXCEPT ![q] = [@ EXCEPT !.step = "done"]]
    BY DEF QueueTimeout, QueryGoes
  <1>3. PICK i \in 1 .. Len(refWaiters) :
           refWaiters[i] = q /\ refWaiters' = RemoveAt(refWaiters, i)
    BY DEF QueueTimeout
  <1>4. /\ refWaiters' \in Seq(RefQueries) /\ Distinct(refWaiters')
        /\ ToSet(refWaiters') = Queued \ {q}
    BY <1>1, <1>3, OneLeaves DEF SlotsSound
  <1>5. LiveQueries' = LiveQueries /\ Queued' = Queued \ {q}
    BY <1>1, <1>2 DEF LiveQueries, Queued, Live, Query
  <1>6. refWaiters # <<>>
    BY <1>1, <1>3, ToSetIs
  <1>7. SlotsSound'
    BY <1>2, <1>4, <1>5, <1>6 DEF SlotsSound
  <1> QED
    BY <1>2, <1>4, <1>7

-----------------------------------------------------------------------------
(* Inspections of refs: every step keeps the invariant.                     *)

\* What is left of a query that goes on.
LEMMA QueryMoved ==
  ASSUME NEW r \in Query, NEW step \in QuerySteps
  PROVE  /\ [r EXCEPT !.step = step] \in Query
         /\ [r EXCEPT !.step = step].step = step
  BY DEF Query

LEMMA QueryStamped ==
  ASSUME NEW r \in Query, NEW step \in QuerySteps
  PROVE  /\ [r EXCEPT !.step = step, !.uid = TRUE] \in Query
         /\ [r EXCEPT !.step = step, !.uid = TRUE].step = step
  BY DEF Query

LEMMA QueryNoted ==
  ASSUME NEW r \in Query, NEW step \in QuerySteps, NEW noted \in BOOLEAN
  PROVE  /\ [r EXCEPT !.step = step, !.noted = noted] \in Query
         /\ [r EXCEPT !.step = step, !.noted = noted].step = step
  BY DEF Query

LEMMA QueryAnswered ==
  ASSUME NEW r \in Query, NEW step \in QuerySteps, NEW answer \in {"ok", "failed"}
  PROVE  /\ [r EXCEPT !.step = step, !.answer = answer] \in Query
         /\ [r EXCEPT !.step = step, !.answer = answer].step = step
  BY DEF Query

LEMMA QueryMoves ==
  ASSUME query \in [RefQueries -> Query], NEW q \in RefQueries, NEW step \in QuerySteps,
         query' = [query EXCEPT ![q] = [@ EXCEPT !.step = step]]
  PROVE  /\ query' \in [RefQueries -> Query] /\ query'[q].step = step
         /\ \A p \in RefQueries \ {q} : query'[p] = query[p]
  <1>1. [query[q] EXCEPT !.step = step] \in Query /\ [query[q] EXCEPT !.step = step].step = step
    BY QueryMoved
  <1> QED
    BY <1>1

\* A query whose slot and place stay goes on, and nothing else changes.
LEMMA QueryStep ==
  ASSUME RefIInv, NEW q \in RefQueries, NEW r \in Query, query' = [query EXCEPT ![q] = r],
         UNCHANGED <<refActive, refWaiters, receipt, inspectPod, recovery>>,
         refFaults' \in 0 .. MaxRefFaults,
         query[q].step \notin {"none", "queued", "done"},
         r.step \notin {"none", "queued", "done", "receipt", "pod"},
         r.step = "forget" => inspectPod[q] = "none"
  PROVE  RefIInv'
  <1>1. /\ query \in [RefQueries -> Query] /\ query' \in [RefQueries -> Query]
        /\ query'[q] = r /\ \A p \in RefQueries \ {q} : query'[p] = query[p]
    BY DEF RefIInv, RefTypeOK
  <1>2. RefTypeOK'
    BY <1>1 DEF RefIInv, RefTypeOK
  <1>3. QueriesSound' /\ InspectPodHasReceipt'
    BY <1>1 DEF RefIInv, QueriesSound, InspectPodHasReceipt
  <1>4. SlotsSound'
    BY <1>1, SlotsUntouched DEF RefIInv, Live
  <1> QED
    BY <1>2, <1>3, <1>4 DEF RefIInv

\* A query ends, its receipt and Pod as they were or both gone.
LEMMA QueryEnds ==
  ASSUME RefIInv, NEW q \in RefQueries, Live(q), LeaveSlot(q),
         UNCHANGED <<inspectPod, recovery>>, refFaults' \in 0 .. MaxRefFaults,
         \/ receipt' = receipt
         \/ receipt' = [receipt EXCEPT ![q] = NoReceipt] /\ inspectPod[q] = "none"
  PROVE  RefIInv'
  <1>1. RefTypeOK /\ QueriesSound /\ SlotsSound /\ InspectPodHasReceipt
    BY DEF RefIInv
  <1>2. /\ query \in [RefQueries -> Query] /\ receipt \in [RefQueries -> Receipt]
        /\ NoReceipt \in Receipt
    BY <1>1 DEF RefTypeOK, NoReceipt, Receipt
  <1>3. /\ SlotsSound' /\ query' \in [RefQueries -> Query]
        /\ refActive' \in Nat /\ refWaiters' \in Seq(RefQueries)
        /\ query'[q].step = "done"
        /\ \A p \in RefQueries \ {q} :
             \/ query'[p] = query[p]
             \/ query[p].step = "queued" /\ query'[p] = [query[p] EXCEPT !.step = "receipt"]
    BY <1>1, SlotLeft
  <1>4. \A p \in RefQueries \ {q} :
          \/ query'[p].step = query[p].step
          \/ query[p].step = "queued" /\ query'[p].step = "receipt"
    BY <1>2, <1>3 DEF Query
  <1>5. /\ receipt' \in [RefQueries -> Receipt]
        /\ \A p \in RefQueries \ {q} : receipt'[p] = receipt[p]
        /\ receipt'[q] = receipt[q] \/ inspectPod[q] = "none"
    BY <1>2
  <1>6. RefTypeOK'
    BY <1>1, <1>3, <1>5 DEF RefTypeOK
  <1>7. QueriesSound'
    BY <1>1, <1>3, <1>4, <1>5 DEF QueriesSound
  <1>8. InspectPodHasReceipt'
    BY <1>1, <1>5 DEF InspectPodHasReceipt
  <1> QED
    BY <1>3, <1>6, <1>7, <1>8 DEF RefIInv

\* Receipts, Pods and the recovery change, and no query.
LEMMA RecoveryStep ==
  ASSUME RefIInv, UNCHANGED <<query, refActive, refWaiters>>,
         receipt' \in [RefQueries -> Receipt], inspectPod' \in [RefQueries -> PodStates],
         recovery' \in [step : {"idle", "get"} \cup RefQueries, runs : SUBSET RefQueries],
         refFaults' \in 0 .. MaxRefFaults,
         \A q \in RefQueries :
           /\ receipt'[q].there = receipt[q].there \/ query[q].step = "done"
           /\ inspectPod[q] = "none" => inspectPod'[q] = "none"
           /\ inspectPod'[q] # "none" => receipt'[q].there
           /\ receipt'[q].old \/ q \in recovery'.runs \/ recovery'.step = q
                => query[q].step = "done"
  PROVE  RefIInv'
  <1>1. RefTypeOK'
    BY DEF RefIInv, RefTypeOK
  <1>2. QueriesSound'
    BY DEF RefIInv, QueriesSound
  <1>3. InspectPodHasReceipt'
    BY DEF InspectPodHasReceipt
  <1>4. SlotsSound'
    BY DEF RefIInv, SlotsSound, LiveQueries, Queued, Live
  <1> QED
    BY <1>1, <1>2, <1>3, <1>4 DEF RefIInv

LEMMA RefInductive == RefIInv /\ [RefNext]_refVars => RefIInv'
  <1> SUFFICES ASSUME RefIInv, [RefNext]_refVars PROVE RefIInv'
    OBVIOUS
  <1> USE RefsAssumption
  <1>1. RefTypeOK /\ QueriesSound /\ SlotsSound /\ InspectPodHasReceipt
    BY DEF RefIInv
  <1>2. /\ query \in [RefQueries -> Query] /\ receipt \in [RefQueries -> Receipt]
        /\ refActive \in Nat /\ refWaiters \in Seq(RefQueries)
        /\ inspectPod \in [RefQueries -> PodStates] /\ refFaults \in 0 .. MaxRefFaults
        /\ recovery \in [step : {"idle", "get"} \cup RefQueries, runs : SUBSET RefQueries]
    BY <1>1 DEF RefTypeOK
  <1>3. RefFault => refFaults' \in 0 .. MaxRefFaults
    BY <1>2 DEF RefFault
  <1>4. ASSUME NEW q \in RefQueries, AskRefs(q) PROVE RefIInv'
    <2>1. /\ query[q].step = "none"
          /\ UNCHANGED <<receipt, inspectPod, recovery, refFaults>>
      BY <1>4 DEF AskRefs
    <2>2. PICK step \in {"receipt", "queued", "done"} :
             query' = [query EXCEPT ![q] = [@ EXCEPT !.step = step]]
      BY <1>1, <1>4, SlotAsked
    <2>3. /\ query' \in [RefQueries -> Query] /\ query'[q].step = step
          /\ \A p \in RefQueries \ {q} : query'[p] = query[p]
      BY <1>2, <2>2, QueryMoves DEF QuerySteps
    <2>4. SlotsSound' /\ refActive' \in Nat /\ refWaiters' \in Seq(RefQueries)
      BY <1>1, <1>4, SlotAsked
    <2>5. RefTypeOK'
      BY <1>1, <2>1, <2>3, <2>4 DEF RefTypeOK
    <2>6. QueriesSound' /\ InspectPodHasReceipt'
      BY <1>1, <2>1, <2>3 DEF QueriesSound, InspectPodHasReceipt
    <2> QED
      BY <2>4, <2>5, <2>6 DEF RefIInv
  <1>5. ASSUME NEW q \in RefQueries, QueueTimeout(q) PROVE RefIInv'
    <2>1. /\ query[q].step = "queued"
          /\ UNCHANGED <<refActive, receipt, inspectPod, recovery, refFaults>>
      BY <1>5 DEF QueueTimeout
    <2>2. /\ SlotsSound' /\ refWaiters' \in Seq(RefQueries)
          /\ query' = [query EXCEPT ![q] = [@ EXCEPT !.step = "done"]]
      BY <1>1, <1>5, QueueLeft
    <2>3. /\ query' \in [RefQueries -> Query] /\ query'[q].step = "done"
          /\ \A p \in RefQueries \ {q} : query'[p] = query[p]
      BY <1>2, <2>2, QueryMoves DEF QuerySteps
    <2>4. RefTypeOK'
      BY <1>1, <2>1, <2>2, <2>3 DEF RefTypeOK
    <2>5. QueriesSound' /\ InspectPodHasReceipt'
      BY <1>1, <2>1, <2>3 DEF QueriesSound, InspectPodHasReceipt
    <2> QED
      BY <2>2, <2>4, <2>5 DEF RefIInv
  <1>6. ASSUME NEW q \in RefQueries, CreateReceipt(q) PROVE RefIInv'
    <2>1. /\ query[q].step = "receipt"
          /\ UNCHANGED <<refActive, refWaiters, inspectPod, recovery>>
          /\ refFaults' \in 0 .. MaxRefFaults
      BY <1>2, <1>3, <1>6 DEF CreateReceipt
    <2>2. PICK there \in BOOLEAN, step \in {"pod", "settle"} :
             /\ step = "pod" => there
             /\ receipt' = [receipt EXCEPT ![q] = [@ EXCEPT !.there = there]]
             /\ query' = [query EXCEPT ![q] = [@ EXCEPT !.step = step]]
      <3>1. \/ /\ receipt' = [receipt EXCEPT ![q] = [@ EXCEPT !.there = TRUE]]
               /\ query' = [query EXCEPT ![q] = [@ EXCEPT !.step = "pod"]]
            \/ /\ \E there \in BOOLEAN :
                    receipt' = [receipt EXCEPT ![q] = [@ EXCEPT !.there = there]]
               /\ query' = [query EXCEPT ![q] = [@ EXCEPT !.step = "settle"]]
        BY <1>6 DEF CreateReceipt, QueryGoes
      <3> QED
        BY <3>1
    <2>3. /\ query' \in [RefQueries -> Query] /\ query'[q].step = step
          /\ \A p \in RefQueries \ {q} : query'[p] = query[p]
      BY <1>2, <2>2, QueryMoves DEF QuerySteps
    <2>4. /\ receipt' \in [RefQueries -> Receipt] /\ receipt'[q].there = there
          /\ receipt'[q].old = receipt[q].old
          /\ \A p \in RefQueries \ {q} : receipt'[p] = receipt[p]
      BY <1>2, <2>2 DEF Receipt
    <2>5. RefTypeOK'
      BY <1>1, <2>1, <2>3, <2>4 DEF RefTypeOK
    <2>6. inspectPod[q] = "none"
      BY <1>1, <2>1 DEF QueriesSound, InspectPodHasReceipt
    <2>7. QueriesSound'
      BY <1>1, <2>1, <2>2, <2>3, <2>4 DEF QueriesSound
    <2>8. InspectPodHasReceipt'
      BY <1>1, <2>1, <2>4, <2>6 DEF InspectPodHasReceipt
    <2>9. SlotsSound'
      BY <1>1, <1>2, <2>1, <2>2, <2>3, SlotsUntouched DEF Live
    <2> QED
      BY <2>5, <2>7, <2>8, <2>9 DEF RefIInv
  <1>7. ASSUME NEW q \in RefQueries, CreateInspectPod(q) PROVE RefIInv'
    <2>1. /\ query[q].step = "pod" /\ receipt[q].there
          /\ UNCHANGED <<refActive, refWaiters, receipt, recovery>>
          /\ refFaults' \in 0 .. MaxRefFaults
      BY <1>1, <1>2, <1>3, <1>7 DEF CreateInspectPod, QueriesSound
    <2>2. PICK pod \in {"none", "running"} : inspectPod' = [inspectPod EXCEPT ![q] = pod]
      BY <1>7 DEF CreateInspectPod
    <2>3. PICK r \in Query : /\ r.step \in {"stamp", "settle"}
                            /\ query' = [query EXCEPT ![q] = r]
      <3>1. query' = QueryGoes(q, "settle") \/ query' = [QueryGoes(q, "stamp") EXCEPT ![q].uid = TRUE]
        BY <1>7 DEF CreateInspectPod
      <3>2. \/ query' = [query EXCEPT ![q] = [@ EXCEPT !.step = "settle"]]
            \/ query' = [query EXCEPT ![q] = [@ EXCEPT !.step = "stamp", !.uid = TRUE]]
        BY <1>2, <3>1 DEF QueryGoes
      <3>3. /\ [query[q] EXCEPT !.step = "settle"] \in Query
            /\ [query[q] EXCEPT !.step = "stamp", !.uid = TRUE] \in Query
        BY <1>2, QueryMoved, QueryStamped DEF QuerySteps
      <3>4. /\ [query[q] EXCEPT !.step = "settle"].step = "settle"
            /\ [query[q] EXCEPT !.step = "stamp", !.uid = TRUE].step = "stamp"
        BY <1>2 DEF Query
      <3> QED
        BY <3>2, <3>3, <3>4
    <2>4. /\ query' \in [RefQueries -> Query] /\ query'[q] = r
          /\ \A p \in RefQueries \ {q} : query'[p] = query[p]
      BY <1>2, <2>3
    <2>5. /\ inspectPod' \in [RefQueries -> PodStates]
          /\ \A p \in RefQueries \ {q} : inspectPod'[p] = inspectPod[p]
      BY <1>2, <2>2 DEF PodStates
    <2>6. RefTypeOK'
      BY <1>1, <2>1, <2>4, <2>5 DEF RefTypeOK
    <2>7. QueriesSound'
      BY <1>1, <2>1, <2>3, <2>4, <2>5 DEF QueriesSound
    <2>8. InspectPodHasReceipt'
      BY <1>1, <2>1, <2>5 DEF InspectPodHasReceipt
    <2>9. SlotsSound'
      BY <1>1, <1>2, <2>1, <2>3, SlotsUntouched DEF Live
    <2> QED
      BY <2>6, <2>7, <2>8, <2>9 DEF RefIInv
  <1>8. ASSUME NEW q \in RefQueries, StampReceipt(q) PROVE RefIInv'
    <2>1. /\ query[q].step = "stamp"
          /\ UNCHANGED <<refActive, refWaiters, inspectPod, recovery>>
          /\ refFaults' \in 0 .. MaxRefFaults
      BY <1>2, <1>3, <1>8 DEF StampReceipt
    <2>2. PICK step \in {"watch", "settle"} :
             query' = [query EXCEPT ![q] = [@ EXCEPT !.step = step]]
      BY <1>8 DEF StampReceipt, QueryGoes
    <2>3. /\ query' \in [RefQueries -> Query] /\ query'[q].step = step
          /\ \A p \in RefQueries \ {q} : query'[p] = query[p]
      BY <1>2, <2>2, QueryMoves DEF QuerySteps
    <2>4. /\ receipt' \in [RefQueries -> Receipt] /\ receipt'[q].there = receipt[q].there
          /\ receipt'[q].old = receipt[q].old
          /\ \A p \in RefQueries \ {q} : receipt'[p] = receipt[p]
      <3>1. \/ receipt' = receipt
            \/ \E noted \in BOOLEAN :
                 receipt' = [receipt EXCEPT ![q] = [@ EXCEPT !.noted = noted]]
        BY <1>8 DEF StampReceipt
      <3>2. CASE receipt' = receipt
        BY <1>2, <3>2
      <3>3. CASE \E noted \in BOOLEAN :
                   receipt' = [receipt EXCEPT ![q] = [@ EXCEPT !.noted = noted]]
        <4>1. PICK noted \in BOOLEAN :
                 receipt' = [receipt EXCEPT ![q] = [@ EXCEPT !.noted = noted]]
          BY <3>3
        <4>2. receipt[q] \in Receipt
          BY <1>2
        <4>3. /\ [receipt[q] EXCEPT !.noted = noted] \in Receipt
              /\ [receipt[q] EXCEPT !.noted = noted].there = receipt[q].there
              /\ [receipt[q] EXCEPT !.noted = noted].old = receipt[q].old
          BY <4>2 DEF Receipt
        <4> QED
          BY <1>2, <4>1, <4>3
      <3> QED
        BY <3>1, <3>2, <3>3
    <2>5. RefTypeOK'
      BY <1>1, <2>1, <2>3, <2>4 DEF RefTypeOK
    <2>6. QueriesSound'
      BY <1>1, <2>1, <2>3, <2>4 DEF QueriesSound
    <2>7. InspectPodHasReceipt'
      BY <1>1, <2>1, <2>4 DEF InspectPodHasReceipt
    <2>8. SlotsSound'
      BY <1>1, <1>2, <2>1, <2>2, <2>3, SlotsUntouched DEF Live
    <2> QED
      BY <2>5, <2>6, <2>7, <2>8 DEF RefIInv
  <1>9. ASSUME NEW q \in RefQueries, WatchInspector(q) PROVE RefIInv'
    <2>1. PICK answer \in {"ok", "failed"} :
             query' = [QueryGoes(q, "settle") EXCEPT ![q].answer = answer]
      BY <1>9 DEF WatchInspector
    <2>2. query' = [query EXCEPT ![q] = [@ EXCEPT !.step = "settle", !.answer = answer]]
      BY <1>2, <2>1 DEF QueryGoes
    <2>3. /\ [query[q] EXCEPT !.step = "settle", !.answer = answer] \in Query
          /\ [query[q] EXCEPT !.step = "settle", !.answer = answer].step = "settle"
      <3>1. query[q] \in Query /\ "settle" \in QuerySteps
        BY <1>2 DEF QuerySteps
      <3>2. \A r \in Query :
              /\ [r EXCEPT !.step = "settle", !.answer = answer] \in Query
              /\ [r EXCEPT !.step = "settle", !.answer = answer].step = "settle"
        BY ZenonT(60), <3>1, QueryAnswered
      <3> QED
        BY <3>1, <3>2
    <2>4. /\ query[q].step = "watch"
          /\ UNCHANGED <<refActive, refWaiters, receipt, inspectPod, recovery, refFaults>>
      BY <1>9 DEF WatchInspector
    <2> QED
      BY <1>2, <2>2, <2>3, <2>4, QueryStep
  <1>10. ASSUME NEW q \in RefQueries, Settle(q) PROVE RefIInv'
    <2>1. /\ query[q].step = "settle"
          /\ UNCHANGED <<receipt, inspectPod, recovery, refFaults>>
      BY <1>10 DEF Settle
    <2>2. CASE LeaveSlot(q)
      BY <1>2, <2>1, <2>2, QueryEnds DEF Live
    <2>3. CASE /\ query' = [QueryGoes(q, "get") EXCEPT ![q].noted = receipt[q].noted]
               /\ UNCHANGED <<refActive, refWaiters>>
      <3>1. query' = [query EXCEPT ![q] = [@ EXCEPT !.step = "get", !.noted = receipt[q].noted]]
        BY <1>2, <2>3 DEF QueryGoes
      <3>2. receipt[q].noted \in BOOLEAN
        BY <1>2 DEF Receipt
      <3>3. /\ [query[q] EXCEPT !.step = "get", !.noted = receipt[q].noted] \in Query
            /\ [query[q] EXCEPT !.step = "get", !.noted = receipt[q].noted].step = "get"
        <4>1. query[q] \in Query /\ "get" \in QuerySteps
          BY <1>2 DEF QuerySteps
        <4> QED
          BY ZenonT(60), <3>2, <4>1, QueryNoted
      <3> QED
        BY <1>2, <2>1, <2>3, <3>1, <3>3, QueryStep
    <2> QED
      BY <1>10, <2>2, <2>3 DEF Settle
  <1>11. ASSUME NEW q \in RefQueries, CleanupThrows(q) PROVE RefIInv'
    <2>1. /\ Live(q) /\ LeaveSlot(q) /\ UNCHANGED <<receipt, inspectPod, recovery>>
          /\ refFaults' \in 0 .. MaxRefFaults
      BY <1>3, <1>11 DEF CleanupThrows, Live
    <2> QED
      BY <2>1, QueryEnds
  <1>12. ASSUME NEW q \in RefQueries, DeletePod(q) PROVE RefIInv'
    <2>1. /\ query[q].step = "get"
          /\ query' = [query EXCEPT ![q] = [@ EXCEPT !.step = "gone"]]
          /\ inspectPod' = [inspectPod EXCEPT ![q] = IF @ = "none" THEN @ ELSE "deleting"]
          /\ UNCHANGED <<refActive, refWaiters, receipt, recovery, refFaults>>
      BY <1>12 DEF DeletePod, QueryGoes, Deleted
    <2>2. /\ query' \in [RefQueries -> Query] /\ query'[q].step = "gone"
          /\ \A p \in RefQueries \ {q} : query'[p] = query[p]
      BY <1>2, <2>1, QueryMoves DEF QuerySteps
    <2>3. /\ inspectPod' \in [RefQueries -> PodStates]
          /\ inspectPod[q] = "none" => inspectPod'[q] = "none"
          /\ \A p \in RefQueries \ {q} : inspectPod'[p] = inspectPod[p]
      BY <1>2, <2>1 DEF PodStates
    <2>4. RefTypeOK'
      BY <1>1, <2>1, <2>2, <2>3 DEF RefTypeOK
    <2>5. QueriesSound'
      BY <1>1, <2>1, <2>2, <2>3 DEF QueriesSound
    <2>6. InspectPodHasReceipt'
      BY <1>1, <2>1, <2>3 DEF InspectPodHasReceipt
    <2>7. SlotsSound'
      BY <1>1, <1>2, <2>1, <2>2, SlotsUntouched DEF Live
    <2> QED
      BY <2>4, <2>5, <2>6, <2>7 DEF RefIInv
  <1>13. ASSUME NEW q \in RefQueries, PodIsGone(q) PROVE RefIInv'
    <2>1. /\ query[q].step = "gone" /\ inspectPod[q] = "none"
          /\ query' = [query EXCEPT ![q] = [@ EXCEPT !.step = "forget"]]
          /\ UNCHANGED <<refActive, refWaiters, receipt, inspectPod, recovery, refFaults>>
      BY <1>13 DEF PodIsGone, QueryGoes
    <2>2. /\ [query[q] EXCEPT !.step = "forget"] \in Query
          /\ [query[q] EXCEPT !.step = "forget"].step = "forget"
      <3>1. query[q] \in Query /\ "forget" \in QuerySteps
        BY <1>2 DEF QuerySteps
      <3> QED
        BY <3>1, QueryMoved
    <2> QED
      BY <1>2, <2>1, <2>2, QueryStep
  <1>14. ASSUME NEW q \in RefQueries, DeleteReceipt(q) PROVE RefIInv'
    <2>1. /\ query[q].step = "forget" /\ LeaveSlot(q)
          /\ receipt' = receipt \/ receipt' = [receipt EXCEPT ![q] = NoReceipt]
          /\ UNCHANGED <<inspectPod, recovery, refFaults>>
      BY <1>14 DEF DeleteReceipt
    <2>2. inspectPod[q] = "none" /\ Live(q)
      BY <1>1, <2>1 DEF QueriesSound, Live
    <2> QED
      BY <1>2, <2>1, <2>2, QueryEnds
  <1>15. ASSUME NEW q \in RefQueries, InspectorEnds(q) PROVE RefIInv'
    <2>1. inspectPod[q] = "running" /\ UNCHANGED <<query, refActive, refWaiters, receipt, recovery, refFaults>>
      BY <1>15 DEF InspectorEnds
    <2>2. PICK end \in {"answered", "failed"} : inspectPod' = [inspectPod EXCEPT ![q] = end]
      BY <1>15 DEF InspectorEnds
    <2>3. inspectPod' \in [RefQueries -> PodStates]
      BY <1>2, <2>2 DEF PodStates
    <2>4. \A p \in RefQueries : inspectPod'[p] = "none" <=> inspectPod[p] = "none"
      BY <1>2, <2>1, <2>2
    <2> QED
      BY <1>1, <1>2, <2>1, <2>3, <2>4, RecoveryStep DEF QueriesSound, InspectPodHasReceipt
  <1>16. ASSUME NEW q \in RefQueries, InspectPodGone(q) PROVE RefIInv'
    <2>1. /\ inspectPod' = [inspectPod EXCEPT ![q] = "none"]
          /\ UNCHANGED <<query, refActive, refWaiters, receipt, recovery, refFaults>>
      BY <1>16 DEF InspectPodGone
    <2>2. inspectPod' \in [RefQueries -> PodStates]
      BY <1>2, <2>1 DEF PodStates
    <2>3. \A p \in RefQueries : inspectPod'[p] \in {"none", inspectPod[p]}
      BY <1>2, <2>1
    <2> QED
      BY <1>1, <1>2, <2>1, <2>2, <2>3, RecoveryStep DEF QueriesSound, InspectPodHasReceipt
  <1>17. ASSUME NEW q \in RefQueries, ReceiptExpires(q) PROVE RefIInv'
    <2>1. /\ receipt[q].there /\ ~Live(q)
          /\ receipt' = [receipt EXCEPT ![q] = [@ EXCEPT !.old = TRUE]]
          /\ UNCHANGED <<query, refActive, refWaiters, inspectPod, recovery, refFaults>>
      BY <1>17 DEF ReceiptExpires
    <2>2. query[q].step = "done"
      BY <1>1, <2>1 DEF QueriesSound, Live
    <2>3. /\ receipt' \in [RefQueries -> Receipt]
          /\ \A p \in RefQueries : receipt'[p].there = receipt[p].there
          /\ \A p \in RefQueries \ {q} : receipt'[p] = receipt[p]
      BY <1>2, <2>1 DEF Receipt
    <2> QED
      BY <1>1, <1>2, <2>1, <2>2, <2>3, RecoveryStep DEF QueriesSound, InspectPodHasReceipt
  <1>18. ASSUME RecoverBegins PROVE RefIInv'
    <2> DEFINE expired == {q \in RefQueries : receipt[q].there /\ receipt[q].old}
    <2>1. /\ recovery' = [step |-> "get", runs |-> expired]
          /\ UNCHANGED <<query, refActive, refWaiters, receipt, inspectPod, refFaults>>
      BY <1>18 DEF RecoverBegins
    <2>2. \A q \in RefQueries : recovery'.step # q
      BY <2>1
    <2>3. \A q \in expired : query[q].step = "done"
      BY <1>1 DEF QueriesSound
    <2> QED
      BY <1>1, <1>2, <2>1, <2>2, <2>3, RecoveryStep DEF QueriesSound, InspectPodHasReceipt
  <1>19. ASSUME NEW q \in RefQueries, RecoverDeletesPod(q) PROVE RefIInv'
    <2>1. /\ q \in recovery.runs
          /\ inspectPod' = [inspectPod EXCEPT ![q] = IF @ = "none" THEN @ ELSE "deleting"]
          /\ recovery' = [recovery EXCEPT !.step = q]
          /\ UNCHANGED <<query, refActive, refWaiters, receipt, refFaults>>
      BY <1>19 DEF RecoverDeletesPod, Deleted
    <2>2. recovery'.runs = recovery.runs /\ recovery'.step = q
      BY <1>2, <2>1
    <2>3. recovery' \in [step : {"idle", "get"} \cup RefQueries, runs : SUBSET RefQueries]
      BY <1>2, <2>1
    <2>4. inspectPod' \in [RefQueries -> PodStates]
      BY <1>2, <2>1 DEF PodStates
    <2>5. \A p \in RefQueries : inspectPod'[p] = "none" <=> inspectPod[p] = "none"
      BY <1>2, <2>1
    <2> QED
      BY <1>1, <1>2, <2>1, <2>2, <2>3, <2>4, <2>5, RecoveryStep
         DEF QueriesSound, InspectPodHasReceipt
  <1>20. ASSUME NEW q \in RefQueries, RecoverOn(q)
         PROVE  /\ recovery' \in [step : {"idle", "get"} \cup RefQueries,
                                   runs : SUBSET RefQueries]
                /\ recovery'.runs \subseteq recovery.runs
                /\ \A p \in RefQueries : recovery'.step # p
    BY <1>2, <1>20 DEF RecoverOn
  <1>21. ASSUME NEW q \in RefQueries, RecoverForgets(q) PROVE RefIInv'
    <2>1. /\ recovery.step = q /\ inspectPod[q] = "none" /\ RecoverOn(q)
          /\ receipt' = [receipt EXCEPT ![q] = NoReceipt]
          /\ UNCHANGED <<query, refActive, refWaiters, inspectPod, refFaults>>
      BY <1>21 DEF RecoverForgets
    <2>2. query[q].step = "done"
      BY <1>1, <2>1 DEF QueriesSound
    <2>3. /\ receipt' \in [RefQueries -> Receipt] /\ ~receipt'[q].old
          /\ \A p \in RefQueries \ {q} : receipt'[p] = receipt[p]
      BY <1>2, <2>1 DEF NoReceipt, Receipt
    <2> QED
      BY <1>1, <1>2, <1>20, <2>1, <2>2, <2>3, RecoveryStep
         DEF QueriesSound, InspectPodHasReceipt
  <1>22. ASSUME NEW q \in RefQueries, RecoverSkips(q) PROVE RefIInv'
    <2>1. /\ RecoverOn(q) /\ refFaults' \in 0 .. MaxRefFaults
          /\ UNCHANGED <<query, refActive, refWaiters, receipt, inspectPod>>
      BY <1>3, <1>22 DEF RecoverSkips
    <2> QED
      BY <1>1, <1>2, <1>20, <2>1, RecoveryStep DEF QueriesSound, InspectPodHasReceipt
  <1>23. ASSUME RefCrash PROVE RefIInv'
    <2>1. /\ query' = [q \in RefQueries |->
               IF query[q].step = "none" THEN query[q] ELSE [NewQuery EXCEPT !.step = "done"]]
          /\ refActive' = 0 /\ refWaiters' = <<>>
          /\ recovery' = [step |-> "idle", runs |-> {}]
          /\ UNCHANGED <<receipt, inspectPod>> /\ refFaults' \in 0 .. MaxRefFaults
      BY <1>3, <1>23 DEF RefCrash
    <2>2. /\ [NewQuery EXCEPT !.step = "done"] \in Query
          /\ [NewQuery EXCEPT !.step = "done"].step = "done"
      BY DEF NewQuery, Query, QuerySteps
    <2>3. /\ query' \in [RefQueries -> Query]
          /\ \A q \in RefQueries : \/ query'[q].step = "none" /\ query[q].step = "none"
                                   \/ query'[q].step = "done" /\ query[q].step # "none"
      BY <1>2, <2>1, <2>2
    <2>4. recovery' \in [step : {"idle", "get"} \cup RefQueries, runs : SUBSET RefQueries]
      BY <2>1
    <2>5. refActive' \in Nat /\ refWaiters' \in Seq(RefQueries)
      BY <2>1
    <2>6. RefTypeOK'
      BY <1>1, <2>1, <2>3, <2>4, <2>5 DEF RefTypeOK
    <2>7. \A q \in RefQueries : recovery'.step # q /\ q \notin recovery'.runs
      BY <2>1
    <2>8. QueriesSound' /\ InspectPodHasReceipt'
      BY <1>1, <2>1, <2>3, <2>7 DEF QueriesSound, InspectPodHasReceipt
    <2>9. LiveQueries' = {} /\ Queued' = {}
      BY <2>3 DEF LiveQueries, Queued, Live
    <2>10. SlotsSound'
      BY <2>1, <2>9, EmptyQueue, FS_EmptySet DEF SlotsSound
    <2> QED
      BY <2>6, <2>8, <2>10 DEF RefIInv
  <1>24. CASE UNCHANGED refVars
    <2>1. RefTypeOK'
      BY <1>1, <1>24 DEF RefTypeOK, refVars
    <2>2. QueriesSound' /\ InspectPodHasReceipt'
      BY <1>1, <1>24 DEF QueriesSound, InspectPodHasReceipt, refVars
    <2>3. SlotsSound'
      BY <1>1, <1>24 DEF SlotsSound, LiveQueries, Queued, Live, refVars
    <2> QED
      BY <2>1, <2>2, <2>3 DEF RefIInv
  <1> QED
    BY <1>4, <1>5, <1>6, <1>7, <1>8, <1>9, <1>10, <1>11, <1>12, <1>13, <1>14, <1>15,
       <1>16, <1>17, <1>18, <1>19, <1>21, <1>22, <1>23, <1>24
       DEF RefNext, RunRefs, Recover

\* Every inspection Pod has its receipt and every slot its query, through
\* hand-over, refusal, timeout, failure, recovery and restart
\* (ProjectRefInspector).
THEOREM InspectionsAreAccounted == RefSpec => []InspectionsAccounted
  <1>1. RefIInv => InspectionsAccounted
    BY SlotsConserved DEF RefIInv, InspectionsAccounted
  <1> QED
    BY <1>1, RefInitial, RefInductive, PTL DEF RefSpec

-----------------------------------------------------------------------------
(* Probes: the invariant.                                                   *)

\* A create call that failed has made nothing: what is said of the objects of a
\* probe rests on it, and nothing else does.
NoAckLost == "lostAck" \notin CatalogFaultKinds
USE DEF NoAckLost

\* The record names the run of a job.
RunIs(r) == catalogRecord.state = "probing" /\ catalogRecord.run = r.run

\* Only the job whose run the record names probes, and it does so before the
\* run is stale; it knows the objects it made, and has none when it concludes.
\* A run that is reclaimed is stale, or no longer the record's.
JobSound(r) ==
  /\ r.step \in {"idle", "look", "waiting", "admit", "record", "claim"} => r.run = 0
  /\ r.step \in {"reclaim", "reclaimed"} =>
       r.run # 0 /\ (RunIs(r) => catalogRecord.left = 0)
  /\ r.step \in RunningSteps =>
       r.run # 0 /\ RunIs(r) /\ catalogRecord.left = 1
  /\ NoAckLost =>
       /\ r.step \in RunningSteps => probeObjects[r.run] \subseteq r.receipts
       /\ r.step \in {"reclaimed", "gone"} => probeObjects[r.run] = deleting[r.run]
       /\ r.step \in {"Service", "verify", "publish", "failed"} =>
            probeObjects[r.run] = {}

JobsSound == \A j \in CatalogJobs : JobSound(job[j])

\* What exists of a probe and is not being deleted is the recorded run's.
ObjectsRecorded ==
  NoAckLost =>
    \A r \in ProbeRuns : probeObjects[r] \ deleting[r] # {} =>
      catalogRecord.state = "probing" /\ catalogRecord.run = r

\* Who holds a permit of a gateway, and who stands in its queue.
PermitSteps == RunningSteps \cup {"admit", "record", "claim"}
Holders(g, jobs) == {j \in CatalogJobs : home[j] = g /\ jobs[j].step \in PermitSteps}
Permits(g, jobs, other, taken, q) ==
  /\ IsFiniteSet(Holders(g, jobs))
  /\ taken = Cardinality(Holders(g, jobs)) + (IF other = "running" THEN 1 ELSE 0)
  /\ Distinct(q)
  /\ "other" \in ToSet(q) => other = "waiting"
  /\ \A j \in ToSet(q) \cap CatalogJobs : home[j] = g /\ jobs[j].step = "waiting"

PermitsSound ==
  \A g \in CatalogGateways :
    /\ Permits(g, job, otherRun[g], activeProbes[g], permitQueue[g])
    /\ activeProbes[g] <= MaxProbes
    /\ permitQueue[g] # <<>> => activeProbes[g] = MaxProbes

CatalogSound ==
  /\ catalogRecord.state = "probing" => catalogRecord.run # 0
  /\ JobsSound /\ ObjectsRecorded /\ OneProbeAtATime

CatalogIInv == CatalogTypeOK /\ CatalogSound /\ PermitsSound

\* Permits are handed on and taken, and nobody waits while one is free.
LEMMA PermitsKept == PermitsSound => PermitsConserved
  <1> SUFFICES ASSUME PermitsSound, NEW g \in CatalogGateways
               PROVE  /\ activeProbes[g] =
                           Cardinality({j \in CatalogJobs : home[j] = g /\ HasPermit(j)})
                             + (IF otherRun[g] = "running" THEN 1 ELSE 0)
                      /\ activeProbes[g] <= MaxProbes
                      /\ permitQueue[g] # <<>> => activeProbes[g] = MaxProbes
    BY DEF PermitsConserved
  <1>1. Holders(g, job) = {j \in CatalogJobs : home[j] = g /\ HasPermit(j)}
    BY DEF Holders, HasPermit, Probing, PermitSteps
  <1> QED
    BY <1>1 DEF PermitsSound, Permits

LEMMA CatalogInitial == CatalogInit => CatalogIInv
  <1> SUFFICES ASSUME CatalogInit PROVE CatalogIInv
    OBVIOUS
  <1> USE CatalogAssumption
  <1>1. IdleJob \in CatalogJob
    BY DEF IdleJob, CatalogJob, JobSteps, RunOrNone
  <1>2. CatalogTypeOK
    <2>1. /\ catalogConfig \in 1 .. CatalogConfigs /\ 0 \in 0 .. CatalogConfigs
          /\ catalogFaults \in 0 .. MaxCatalogFaults /\ 0 \in 0 .. 1
      BY DEF CatalogInit
    <2>2. catalogRecord \in CatalogRecords
      BY <2>1 DEF CatalogInit, CatalogRecords, RunOrNone
    <2>3. /\ job \in [CatalogJobs -> CatalogJob] /\ home \in [CatalogJobs -> CatalogGateways]
      BY <1>1 DEF CatalogInit
    <2>4. <<>> \in Seq(CatalogJobs \cup {"other"})
      OBVIOUS
    <2> QED
      BY <2>1, <2>2, <2>3, <2>4 DEF CatalogInit, CatalogTypeOK, RunOrNone
  <1>3. \A j \in CatalogJobs : job[j].step = "idle" /\ job[j].run = 0
    BY DEF CatalogInit, IdleJob
  <1>4. CatalogSound
    BY <1>3 DEF CatalogInit, CatalogSound, JobsSound, JobSound, ObjectsRecorded,
                OneProbeAtATime, Probing, RunningSteps
  <1>5. PermitsSound
    <2> SUFFICES ASSUME NEW g \in CatalogGateways
                 PROVE  /\ Permits(g, job, otherRun[g], activeProbes[g], permitQueue[g])
                        /\ activeProbes[g] <= MaxProbes
                        /\ permitQueue[g] # <<>> => activeProbes[g] = MaxProbes
      BY DEF PermitsSound
    <2>1. /\ otherRun[g] = "none" /\ activeProbes[g] = 0 /\ permitQueue[g] = <<>>
          /\ \A j \in CatalogJobs : job[j].step \notin PermitSteps
      BY <1>3 DEF CatalogInit, PermitSteps, RunningSteps
    <2>2. Holders(g, job) = {}
      BY <2>1 DEF Holders
    <2> QED
      BY <2>1, <2>2, EmptyQueue, FS_EmptySet DEF Permits
  <1> QED
    BY <1>2, <1>4, <1>5 DEF CatalogIInv

-----------------------------------------------------------------------------
(* Probes: the permits.                                                     *)

\* Nobody moves.
LEMMA PermitsAsTheyWere ==
  ASSUME PermitsSound, UNCHANGED <<job, home, activeProbes, permitQueue, otherRun>>
  PROVE  PermitsSound'
  <1> SUFFICES ASSUME NEW g \in CatalogGateways
               PROVE  /\ Permits(g, job, otherRun[g], activeProbes[g], permitQueue[g])'
                      /\ activeProbes'[g] <= MaxProbes
                      /\ permitQueue'[g] # <<>> => activeProbes'[g] = MaxProbes
    BY DEF PermitsSound
  <1>1. Holders(g, job)' = Holders(g, job)
    BY DEF Holders
  <1> QED
    BY <1>1 DEF PermitsSound, Permits

\* Neither the holders of permits nor those who wait for one change.
LEMMA PermitsUntouched ==
  ASSUME PermitsSound, job \in [CatalogJobs -> CatalogJob], NEW j \in CatalogJobs,
         NEW r, job' = [job EXCEPT ![j] = r],
         UNCHANGED <<home, activeProbes, permitQueue, otherRun>>,
         r.step \in PermitSteps <=> job[j].step \in PermitSteps,
         job[j].step = "waiting" => r.step = "waiting"
  PROVE  PermitsSound'
  <1>1. \A i \in CatalogJobs :
          /\ job'[i].step \in PermitSteps <=> job[i].step \in PermitSteps
          /\ job[i].step = "waiting" => job'[i].step = "waiting"
    OBVIOUS
  <1>2. \A g \in CatalogGateways : Holders(g, job)' = Holders(g, job)
    BY <1>1 DEF Holders
  <1>3. ASSUME NEW g \in CatalogGateways,
               Permits(g, job, otherRun[g], activeProbes[g], permitQueue[g])
        PROVE  Permits(g, job, otherRun[g], activeProbes[g], permitQueue[g])'
    BY <1>1, <1>2, <1>3 DEF Permits
  <1> QED
    BY <1>3 DEF PermitsSound

\* Who gives a permit back passes it to the next in the queue, if any.
LEMMA PermitReleased ==
  ASSUME CatalogTypeOK, home' = home, NEW g \in CatalogGateways,
         NEW jobs \in [CatalogJobs -> CatalogJob],
         NEW others \in [CatalogGateways -> {"none", "running", "waiting"}],
         Release(g, jobs, others),
         Permits(g, jobs, others[g], activeProbes[g] - 1, permitQueue[g]),
         \A h \in CatalogGateways \ {g} :
           Permits(h, jobs, others[h], activeProbes[h], permitQueue[h]),
         \A h \in CatalogGateways :
           /\ activeProbes[h] <= MaxProbes
           /\ permitQueue[h] # <<>> => activeProbes[h] = MaxProbes
  PROVE  /\ PermitsSound'
         /\ activeProbes' \in [CatalogGateways -> Nat]
         /\ permitQueue' \in [CatalogGateways -> Seq(CatalogJobs \cup {"other"})]
         /\ otherRun' \in [CatalogGateways -> {"none", "running", "waiting"}]
         /\ \/ job' = jobs
            \/ \E w \in CatalogJobs :
                 /\ jobs[w].step = "waiting"
                 /\ job' = [jobs EXCEPT ![w] = [@ EXCEPT !.step = "admit"]]
  <1> DEFINE q == permitQueue[g]
             n == Cardinality(Holders(g, jobs))
  <1> USE CatalogAssumption
  <1>1. /\ activeProbes \in [CatalogGateways -> Nat] /\ activeProbes[g] \in Nat
        /\ permitQueue \in [CatalogGateways -> Seq(CatalogJobs \cup {"other"})]
        /\ q \in Seq(CatalogJobs \cup {"other"})
    BY DEF CatalogTypeOK
  <1>2. /\ IsFiniteSet(Holders(g, jobs)) /\ n \in Nat /\ Distinct(q)
        /\ activeProbes[g] - 1 = n + (IF others[g] = "running" THEN 1 ELSE 0)
    BY FS_CardinalityType DEF Permits
  <1>3. /\ activeProbes[g] - 1 \in Nat
        /\ activeProbes[g] - 1 <= MaxProbes
    BY <1>1, <1>2
  <1>4. CASE q = <<>>
    <2>1. /\ activeProbes' = [activeProbes EXCEPT ![g] = @ - 1] /\ job' = jobs
          /\ otherRun' = others /\ permitQueue' = permitQueue
      BY <1>4 DEF Release
    <2>2. ASSUME NEW h \in CatalogGateways
          PROVE  /\ Permits(h, job, otherRun[h], activeProbes[h], permitQueue[h])'
                 /\ activeProbes'[h] <= MaxProbes
                 /\ permitQueue'[h] # <<>> => activeProbes'[h] = MaxProbes
      <3>1. Holders(h, job)' = Holders(h, jobs)
        BY <2>1 DEF Holders
      <3>2. CASE h = g
        <4>1. activeProbes'[h] = activeProbes[g] - 1 /\ permitQueue'[h] = <<>>
          BY <1>1, <1>4, <2>1, <3>2
        <4>2. Permits(h, job, otherRun[h], activeProbes[h], permitQueue[h])'
          BY <2>1, <3>1, <3>2, <4>1 DEF Permits
        <4> QED
          BY <1>3, <4>1, <4>2
      <3>3. CASE h # g
        <4>1. activeProbes'[h] = activeProbes[h] /\ permitQueue'[h] = permitQueue[h]
          BY <1>1, <2>1, <3>3
        <4>2. Permits(h, job, otherRun[h], activeProbes[h], permitQueue[h])'
          BY <2>1, <3>1, <3>3, <4>1 DEF Permits
        <4> QED
          BY <4>1, <4>2
      <3> QED
        BY <3>2, <3>3
    <2>3. PermitsSound'
      BY <2>2 DEF PermitsSound
    <2> QED
      BY <1>1, <1>3, <2>1, <2>3
  <1>5. CASE q # <<>>
    <2>1. /\ Tail(q) \in Seq(CatalogJobs \cup {"other"}) /\ Distinct(Tail(q))
          /\ Head(q) \in ToSet(q) /\ ToSet(Tail(q)) = ToSet(q) \ {Head(q)}
          /\ Head(q) \in CatalogJobs \cup {"other"}
      BY <1>1, <1>2, <1>5, HeadLeaves, ToSetIs
    <2>2. /\ permitQueue' = [permitQueue EXCEPT ![g] = Tail(q)]
          /\ activeProbes' = activeProbes /\ activeProbes[g] = MaxProbes
      BY <1>5 DEF Release
    <2>3. /\ permitQueue' \in [CatalogGateways -> Seq(CatalogJobs \cup {"other"})]
          /\ permitQueue'[g] = Tail(q)
          /\ \A h \in CatalogGateways \ {g} : permitQueue'[h] = permitQueue[h]
      BY <1>1, <2>1, <2>2
    <2>4. \A h \in CatalogGateways :
            /\ activeProbes'[h] <= MaxProbes
            /\ permitQueue'[h] # <<>> => activeProbes'[h] = MaxProbes
      BY <2>2, <2>3
    <2>5. CASE Head(q) = "other"
      <3>1. job' = jobs /\ otherRun' = [others EXCEPT ![g] = "running"]
        BY <1>5, <2>5 DEF Release
      <3>2. \A h \in CatalogGateways : Holders(h, job)' = Holders(h, jobs)
        BY <3>1 DEF Holders
      <3>3. others[g] = "waiting" /\ otherRun'[g] = "running"
        BY <2>1, <2>5, <3>1 DEF Permits
      <3>4. activeProbes'[g] = n + 1
        BY <1>1, <1>2, <2>2, <3>3
      <3>5. Permits(g, job, otherRun[g], activeProbes[g], permitQueue[g])'
        BY <1>2, <2>1, <2>3, <2>5, <3>1, <3>2, <3>3, <3>4 DEF Permits
      <3>6. \A h \in CatalogGateways \ {g} :
              Permits(h, job, otherRun[h], activeProbes[h], permitQueue[h])'
        BY <2>2, <2>3, <3>1, <3>2 DEF Permits
      <3>7. PermitsSound'
        BY <2>4, <3>5, <3>6 DEF PermitsSound
      <3> QED
        BY <1>1, <2>2, <2>3, <3>1, <3>7
    <2>6. CASE Head(q) # "other"
      <3> DEFINE w == Head(q)
      <3>1. w \in CatalogJobs /\ home[w] = g /\ jobs[w].step = "waiting"
        BY <2>1, <2>6 DEF Permits
      <3>2. otherRun' = others /\ job' = [jobs EXCEPT ![w] = [@ EXCEPT !.step = "admit"]]
        BY <1>5, <2>6 DEF Release
      <3> HIDE DEF w
      <3>3. /\ job'[w].step = "admit"
            /\ \A i \in CatalogJobs \ {w} : job'[i] = jobs[i]
        BY <3>1, <3>2 DEF CatalogJob
      <3>4. w \notin Holders(g, jobs) /\ Holders(g, job)' = Holders(g, jobs) \cup {w}
        BY <3>1, <3>3 DEF Holders, PermitSteps, RunningSteps
      <3>5. \A h \in CatalogGateways \ {g} : Holders(h, job)' = Holders(h, jobs)
        BY <3>1, <3>3 DEF Holders
      <3>6. IsFiniteSet(Holders(g, job)') /\ Cardinality(Holders(g, job)') = n + 1
        BY <1>2, <3>4, FS_AddElement
      <3>7. activeProbes'[g]
              = Cardinality(Holders(g, job)') + (IF otherRun'[g] = "running" THEN 1 ELSE 0)
        BY <1>1, <1>2, <2>2, <3>2, <3>6
      <3>8. /\ "other" \in ToSet(Tail(q)) => otherRun'[g] = "waiting"
            /\ \A j \in ToSet(Tail(q)) \cap CatalogJobs :
                 home'[j] = g /\ job'[j].step = "waiting"
        BY <2>1, <3>2, <3>3 DEF Permits, w
      <3>9. Permits(g, job, otherRun[g], activeProbes[g], permitQueue[g])'
        BY <2>1, <2>3, <3>6, <3>7, <3>8 DEF Permits
      <3>10. ASSUME NEW h \in CatalogGateways \ {g}
             PROVE  Permits(h, job, otherRun[h], activeProbes[h], permitQueue[h])'
        <4>1. /\ otherRun'[h] = others[h] /\ activeProbes'[h] = activeProbes[h]
              /\ permitQueue'[h] = permitQueue[h] /\ Holders(h, job)' = Holders(h, jobs)
          BY <2>2, <2>3, <3>2, <3>5
        <4>2. Permits(h, jobs, others[h], activeProbes[h], permitQueue[h])
          OBVIOUS
        <4>3. ASSUME NEW j \in ToSet(permitQueue[h]) \cap CatalogJobs
              PROVE  home[j] = h /\ job'[j].step = "waiting"
          BY <3>1, <3>3, <4>2 DEF Permits
        <4> QED
          BY <4>1, <4>2, <4>3 DEF Permits
      <3>11. PermitsSound'
        BY <2>4, <3>9, <3>10 DEF PermitsSound
      <3> QED
        BY <1>1, <2>2, <2>3, <3>1, <3>2, <3>11
    <2> QED
      BY <2>5, <2>6
  <1> QED
    BY <1>4, <1>5

\* A run takes a permit or a place in the queue.
LEMMA PermitRegistered ==
  ASSUME CatalogTypeOK, PermitsSound, home' = home, NEW j \in CatalogJobs, Register(j),
         job[j].step \notin PermitSteps \cup {"waiting"}
  PROVE  /\ PermitsSound' /\ otherRun' = otherRun
         /\ activeProbes' \in [CatalogGateways -> Nat]
         /\ permitQueue' \in [CatalogGateways -> Seq(CatalogJobs \cup {"other"})]
         /\ pending' \in [CatalogGateways -> BOOLEAN]
         /\ job' \in [CatalogJobs -> CatalogJob]
         /\ job'[j].step \in {"admit", "waiting"} /\ job'[j].run = 0
         /\ \A i \in CatalogJobs \ {j} : job'[i] = job[i]
  <1> PICK g \in CatalogGateways : g = home[j]
    BY DEF CatalogTypeOK
  <1> DEFINE free == activeProbes[g] < MaxProbes
  <1> USE CatalogAssumption
  <1>1. /\ activeProbes \in [CatalogGateways -> Nat]
        /\ permitQueue \in [CatalogGateways -> Seq(CatalogJobs \cup {"other"})]
        /\ permitQueue[g] \in Seq(CatalogJobs \cup {"other"})
        /\ job \in [CatalogJobs -> CatalogJob] /\ pending \in [CatalogGateways -> BOOLEAN]
    BY DEF CatalogTypeOK
  <1>2. /\ pending' = [pending EXCEPT ![g] = TRUE] /\ otherRun' = otherRun
        /\ activeProbes' = [activeProbes EXCEPT ![g] = IF free THEN @ + 1 ELSE @]
        /\ permitQueue' = [permitQueue EXCEPT ![g] = IF free THEN @ ELSE Append(@, j)]
        /\ job' = [job EXCEPT ![j] = [@ EXCEPT !.step = IF free THEN "admit" ELSE "waiting",
                                              !.run = 0, !.receipts = {}]]
    BY <1>1 DEF Register
  <1>3. /\ job' \in [CatalogJobs -> CatalogJob] /\ job'[j].run = 0
        /\ job'[j].step = IF free THEN "admit" ELSE "waiting"
        /\ \A i \in CatalogJobs \ {j} : job'[i] = job[i]
    <2> DEFINE step == IF free THEN "admit" ELSE "waiting"
               r == [job[j] EXCEPT !.step = step, !.run = 0, !.receipts = {}]
    <2>1. step \in JobSteps /\ 0 \in RunOrNone
      BY DEF JobSteps, RunOrNone
    <2> HIDE DEF step
    <2>2. job[j] \in CatalogJob
      BY <1>1
    <2>3. r \in CatalogJob /\ r.step = step /\ r.run = 0
      BY <2>1, <2>2 DEF CatalogJob
    <2> HIDE DEF r
    <2>4. job' = [job EXCEPT ![j] = r]
      BY <1>2 DEF r, step
    <2> QED
      BY <1>1, <2>3, <2>4 DEF step
  <1>4. /\ activeProbes' \in [CatalogGateways -> Nat]
        /\ \A h \in CatalogGateways \ {g} :
             activeProbes'[h] = activeProbes[h] /\ permitQueue'[h] = permitQueue[h]
        /\ pending' \in [CatalogGateways -> BOOLEAN]
    BY <1>1, <1>2
  <1>5. home[j] = g
    OBVIOUS
  <1>6. \A h \in CatalogGateways \ {g} : Holders(h, job)' = Holders(h, job)
    BY <1>3, <1>5 DEF Holders
  <1>7. ASSUME NEW h \in CatalogGateways \ {g}
        PROVE  Permits(h, job, otherRun[h], activeProbes[h], permitQueue[h])'
    <2>1. Permits(h, job, otherRun[h], activeProbes[h], permitQueue[h])
      BY DEF PermitsSound
    <2>2. ASSUME NEW i \in ToSet(permitQueue[h]) \cap CatalogJobs
          PROVE  home[i] = h /\ job'[i].step = "waiting"
      BY <1>3, <1>5, <2>1 DEF Permits
    <2> QED
      BY <1>2, <1>4, <1>6, <2>1, <2>2 DEF Permits
  <1>8. Permits(g, job, otherRun[g], activeProbes[g], permitQueue[g])
    BY <1>1 DEF PermitsSound
  <1>9. CASE free
    <2>1. /\ activeProbes'[g] = activeProbes[g] + 1 /\ permitQueue' = permitQueue
          /\ job'[j].step = "admit"
      BY <1>1, <1>2, <1>3, <1>9
    <2>2. permitQueue[g] = <<>> /\ activeProbes'[g] <= MaxProbes
      BY <1>1, <1>9, <2>1 DEF PermitsSound
    <2>3. j \notin Holders(g, job) /\ Holders(g, job)' = Holders(g, job) \cup {j}
      BY <1>3, <1>5, <2>1 DEF Holders, PermitSteps
    <2>4. /\ IsFiniteSet(Holders(g, job)')
          /\ Cardinality(Holders(g, job)') = Cardinality(Holders(g, job)) + 1
      <3>1. IsFiniteSet(Holders(g, job))
        BY <1>8 DEF Permits
      <3>2. /\ IsFiniteSet(Holders(g, job) \cup {j})
            /\ Cardinality(Holders(g, job) \cup {j}) = Cardinality(Holders(g, job)) + 1
        BY <2>3, <3>1, FS_AddElement
      <3> QED
        BY <2>3, <3>2
    <2>5. Cardinality(Holders(g, job)) \in Nat
      BY <1>8, FS_CardinalityType DEF Permits
    <2>6. activeProbes'[g]
            = Cardinality(Holders(g, job)') + (IF otherRun'[g] = "running" THEN 1 ELSE 0)
      BY <1>2, <1>8, <2>1, <2>4, <2>5 DEF Permits
    <2>7. Permits(g, job, otherRun[g], activeProbes[g], permitQueue[g])'
      BY <2>1, <2>2, <2>4, <2>6, EmptyQueue DEF Permits
    <2>8. \A h \in CatalogGateways :
            /\ activeProbes'[h] <= MaxProbes
            /\ permitQueue'[h] # <<>> => activeProbes'[h] = MaxProbes
      BY <1>4, <2>1, <2>2 DEF PermitsSound
    <2>9. PermitsSound'
      BY <1>7, <2>7, <2>8 DEF PermitsSound
    <2> QED
      BY <1>1, <1>2, <1>3, <1>4, <2>1, <2>9
  <1>10. CASE ~free
    <2>1. /\ activeProbes' = activeProbes /\ permitQueue'[g] = Append(permitQueue[g], j)
          /\ job'[j].step = "waiting"
          /\ permitQueue' = [permitQueue EXCEPT ![g] = Append(@, j)]
      BY <1>1, <1>2, <1>3, <1>10
    <2>2. j \notin ToSet(permitQueue[g]) /\ Distinct(permitQueue[g])
      BY <1>8 DEF Permits
    <2>3. /\ permitQueue'[g] \in Seq(CatalogJobs \cup {"other"})
          /\ Distinct(permitQueue'[g]) /\ ToSet(permitQueue'[g]) = ToSet(permitQueue[g]) \cup {j}
      BY <1>1, <2>1, <2>2, Joins
    <2>4. activeProbes[g] = MaxProbes
      BY <1>1, <1>10 DEF PermitsSound
    <2>5. Holders(g, job)' = Holders(g, job)
      BY <1>3, <2>1 DEF Holders, PermitSteps, RunningSteps
    <2>6. "other" # j
      OBVIOUS
    <2>7. Permits(g, job, otherRun[g], activeProbes[g], permitQueue[g])'
      <3>1. "other" \in ToSet(permitQueue'[g]) => otherRun'[g] = "waiting"
        BY <1>2, <1>8, <2>3, <2>6 DEF Permits
      <3>2. ASSUME NEW i \in ToSet(permitQueue'[g]) \cap CatalogJobs
            PROVE  home'[i] = g /\ job'[i].step = "waiting"
        BY <1>3, <1>5, <1>8, <2>1, <2>3 DEF Permits
      <3> QED
        BY <1>2, <1>8, <2>1, <2>3, <2>5, <3>1, <3>2 DEF Permits
    <2>8. \A h \in CatalogGateways :
            /\ activeProbes'[h] <= MaxProbes
            /\ permitQueue'[h] # <<>> => activeProbes'[h] = MaxProbes
      BY <1>4, <2>1, <2>4 DEF PermitsSound
    <2>9. PermitsSound'
      BY <1>7, <2>7, <2>8 DEF PermitsSound
    <2>10. permitQueue' \in [CatalogGateways -> Seq(CatalogJobs \cup {"other"})]
      BY <1>1, <2>1, <2>3
    <2> QED
      BY <1>2, <1>3, <1>4, <2>1, <2>9, <2>10
  <1> QED
    BY <1>9, <1>10

\* A run returns and gives its permit back.
LEMMA RunReturns ==
  ASSUME CatalogTypeOK, PermitsSound, home' = home, NEW j \in CatalogJobs, EndRun(j),
         job[j].step \in PermitSteps
  PROVE  /\ PermitsSound' /\ pending' \in [CatalogGateways -> BOOLEAN]
         /\ activeProbes' \in [CatalogGateways -> Nat]
         /\ permitQueue' \in [CatalogGateways -> Seq(CatalogJobs \cup {"other"})]
         /\ otherRun' \in [CatalogGateways -> {"none", "running", "waiting"}]
         /\ job' \in [CatalogJobs -> CatalogJob] /\ job'[j] = IdleJob
         /\ \A i \in CatalogJobs \ {j} :
              \/ job'[i] = job[i]
              \/ job[i].step = "waiting" /\ job'[i] = [job[i] EXCEPT !.step = "admit"]
  <1> USE CatalogAssumption
  <1> PICK g \in CatalogGateways : g = home[j]
    BY DEF CatalogTypeOK
  <1>1. /\ activeProbes \in [CatalogGateways -> Nat]
        /\ job \in [CatalogJobs -> CatalogJob] /\ pending \in [CatalogGateways -> BOOLEAN]
        /\ otherRun \in [CatalogGateways -> {"none", "running", "waiting"}]
    BY DEF CatalogTypeOK
  <1>2. IdleJob \in CatalogJob /\ IdleJob.step = "idle"
    BY DEF IdleJob, CatalogJob, JobSteps, RunOrNone
  <1> PICK jobs \in [CatalogJobs -> CatalogJob] : jobs = JobEnds(j)
    BY <1>1, <1>2 DEF JobEnds
  <1> PICK others \in [CatalogGateways -> {"none", "running", "waiting"}] : others = otherRun
    BY <1>1
  <1>3. /\ jobs[j] = IdleJob
        /\ \A i \in CatalogJobs \ {j} : jobs[i] = job[i]
    BY <1>1, <1>2 DEF JobEnds
  <1>4. Release(g, jobs, others) /\ pending' = [pending EXCEPT ![g] = FALSE]
    BY DEF EndRun
  <1>5. \A h \in CatalogGateways : Permits(h, job, otherRun[h], activeProbes[h], permitQueue[h])
    BY DEF PermitsSound
  <1>6. ASSUME NEW h \in CatalogGateways, NEW i \in ToSet(permitQueue[h]) \cap CatalogJobs
        PROVE  home[i] = h /\ jobs[i].step = "waiting"
    <2>1. home[i] = h /\ job[i].step = "waiting"
      BY <1>5 DEF Permits
    <2>2. i # j
      BY <2>1 DEF PermitSteps, RunningSteps
    <2> QED
      BY <1>3, <2>1, <2>2
  <1>7. /\ j \in Holders(g, job) /\ Holders(g, jobs) = Holders(g, job) \ {j}
        /\ \A h \in CatalogGateways \ {g} : Holders(h, jobs) = Holders(h, job)
    <2>1. jobs[j].step \notin PermitSteps
      BY <1>2, <1>3 DEF PermitSteps, RunningSteps
    <2> QED
      BY <1>3, <2>1 DEF Holders
  <1>8. /\ IsFiniteSet(Holders(g, jobs)) /\ Cardinality(Holders(g, job)) \in Nat
        /\ Cardinality(Holders(g, jobs)) = Cardinality(Holders(g, job)) - 1
    <2>1. IsFiniteSet(Holders(g, job))
      BY <1>5 DEF Permits
    <2> QED
      <3>1. /\ IsFiniteSet(Holders(g, job) \ {j})
            /\ Cardinality(Holders(g, job) \ {j}) = Cardinality(Holders(g, job)) - 1
        BY <1>7, <2>1, FS_RemoveElement
      <3>2. Cardinality(Holders(g, job)) \in Nat
        BY <2>1, FS_CardinalityType
      <3> QED
        BY <1>7, <3>1, <3>2
  <1>9. Permits(g, jobs, others[g], activeProbes[g] - 1, permitQueue[g])
    <2>1. activeProbes[g] - 1
            = Cardinality(Holders(g, jobs)) + (IF others[g] = "running" THEN 1 ELSE 0)
      BY <1>5, <1>8 DEF Permits
    <2> QED
      BY <1>5, <1>6, <1>8, <2>1 DEF Permits
  <1>10. \A h \in CatalogGateways \ {g} :
           Permits(h, jobs, others[h], activeProbes[h], permitQueue[h])
    BY <1>5, <1>6, <1>7 DEF Permits
  <1>11. \A h \in CatalogGateways :
           /\ activeProbes[h] <= MaxProbes
           /\ permitQueue[h] # <<>> => activeProbes[h] = MaxProbes
    BY DEF PermitsSound
  <1>12. /\ PermitsSound'
         /\ activeProbes' \in [CatalogGateways -> Nat]
         /\ permitQueue' \in [CatalogGateways -> Seq(CatalogJobs \cup {"other"})]
         /\ otherRun' \in [CatalogGateways -> {"none", "running", "waiting"}]
         /\ \/ job' = jobs
            \/ \E w \in CatalogJobs :
                 /\ jobs[w].step = "waiting"
                 /\ job' = [jobs EXCEPT ![w] = [@ EXCEPT !.step = "admit"]]
    BY <1>4, <1>9, <1>10, <1>11, PermitReleased
  <1>13. pending' \in [CatalogGateways -> BOOLEAN]
    BY <1>1, <1>4
  <1>14. CASE job' = jobs
    BY <1>3, <1>12, <1>13, <1>14
  <1>15. CASE \E w \in CatalogJobs :
                /\ jobs[w].step = "waiting"
                /\ job' = [jobs EXCEPT ![w] = [@ EXCEPT !.step = "admit"]]
    <2>1. PICK w \in CatalogJobs :
             /\ jobs[w].step = "waiting"
             /\ job' = [jobs EXCEPT ![w] = [@ EXCEPT !.step = "admit"]]
      BY <1>15
    <2>2. w # j /\ jobs[w] = job[w]
      BY <1>2, <1>3, <2>1
    <2>3. [job[w] EXCEPT !.step = "admit"] \in CatalogJob
      <3>1. job[w] \in CatalogJob
        BY <1>1
      <3> QED
        BY <3>1 DEF CatalogJob, JobSteps
    <2>4. /\ job' \in [CatalogJobs -> CatalogJob] /\ job'[j] = IdleJob
          /\ job'[w] = [job[w] EXCEPT !.step = "admit"]
          /\ \A i \in CatalogJobs \ {j, w} : job'[i] = job[i]
      BY <1>3, <2>1, <2>2, <2>3
    <2> QED
      BY <1>12, <1>13, <2>1, <2>2, <2>4
  <1> QED
    BY <1>12, <1>14, <1>15

\* The runs of other projects take permits and give them back.
LEMMA OtherRunKeeps ==
  ASSUME CatalogTypeOK, PermitsSound, home' = home, NEW g \in CatalogGateways,
         OtherRunBegins(g) \/ OtherRunEnds(g)
  PROVE  /\ PermitsSound' /\ job' \in [CatalogJobs -> CatalogJob]
         /\ activeProbes' \in [CatalogGateways -> Nat]
         /\ permitQueue' \in [CatalogGateways -> Seq(CatalogJobs \cup {"other"})]
         /\ otherRun' \in [CatalogGateways -> {"none", "running", "waiting"}]
         /\ \A i \in CatalogJobs :
              \/ job'[i] = job[i]
              \/ job[i].step = "waiting" /\ job'[i] = [job[i] EXCEPT !.step = "admit"]
  <1> USE CatalogAssumption
  <1>1. /\ activeProbes \in [CatalogGateways -> Nat]
        /\ permitQueue \in [CatalogGateways -> Seq(CatalogJobs \cup {"other"})]
        /\ permitQueue[g] \in Seq(CatalogJobs \cup {"other"})
        /\ job \in [CatalogJobs -> CatalogJob]
        /\ otherRun \in [CatalogGateways -> {"none", "running", "waiting"}]
    BY DEF CatalogTypeOK
  <1>2. \A h \in CatalogGateways : Permits(h, job, otherRun[h], activeProbes[h], permitQueue[h])
    BY DEF PermitsSound
  <1>3. \A h \in CatalogGateways : Cardinality(Holders(h, job)) \in Nat
    BY <1>2, FS_CardinalityType DEF Permits
  <1>4. CASE OtherRunBegins(g)
    <2> DEFINE free == activeProbes[g] < MaxProbes
    <2>1. /\ otherRun[g] = "none" /\ job' = job
          /\ otherRun' = [otherRun EXCEPT ![g] = IF free THEN "running" ELSE "waiting"]
          /\ activeProbes' = [activeProbes EXCEPT ![g] = IF free THEN @ + 1 ELSE @]
          /\ permitQueue' = [permitQueue EXCEPT
                               ![g] = IF free THEN @ ELSE Append(@, "other")]
      BY <1>4 DEF OtherRunBegins
    <2>2. \A h \in CatalogGateways : Holders(h, job)' = Holders(h, job)
      BY <2>1 DEF Holders
    <2>3. \A h \in CatalogGateways \ {g} :
            /\ otherRun'[h] = otherRun[h] /\ activeProbes'[h] = activeProbes[h]
            /\ permitQueue'[h] = permitQueue[h]
      BY <1>1, <2>1
    <2>4. \A h \in CatalogGateways \ {g} :
            Permits(h, job, otherRun[h], activeProbes[h], permitQueue[h])'
      BY <1>2, <2>1, <2>2, <2>3 DEF Permits
    <2>5. "other" \notin ToSet(permitQueue[g])
      BY <1>2, <2>1 DEF Permits
    <2>6. CASE free
      <3>1. /\ otherRun'[g] = "running" /\ activeProbes'[g] = activeProbes[g] + 1
            /\ permitQueue' = permitQueue /\ permitQueue[g] = <<>>
            /\ activeProbes'[g] <= MaxProbes
        BY <1>1, <2>1, <2>6 DEF PermitsSound
      <3>2. Permits(g, job, otherRun[g], activeProbes[g], permitQueue[g])'
        BY <1>2, <1>3, <2>1, <2>2, <3>1, EmptyQueue DEF Permits
      <3>3. \A h \in CatalogGateways :
              /\ activeProbes'[h] <= MaxProbes
              /\ permitQueue'[h] # <<>> => activeProbes'[h] = MaxProbes
        BY <2>3, <3>1 DEF PermitsSound
      <3>4. PermitsSound'
        BY <2>4, <3>2, <3>3 DEF PermitsSound
      <3>5. /\ activeProbes' \in [CatalogGateways -> Nat]
            /\ otherRun' \in [CatalogGateways -> {"none", "running", "waiting"}]
        BY <1>1, <2>1
      <3> QED
        BY <1>1, <2>1, <3>1, <3>4, <3>5
    <2>7. CASE ~free
      <3>1. /\ otherRun'[g] = "waiting" /\ activeProbes' = activeProbes
            /\ permitQueue'[g] = Append(permitQueue[g], "other")
            /\ activeProbes[g] = MaxProbes
        BY <1>1, <2>1, <2>7 DEF PermitsSound
      <3>2. /\ permitQueue'[g] \in Seq(CatalogJobs \cup {"other"})
            /\ Distinct(permitQueue'[g])
            /\ ToSet(permitQueue'[g]) = ToSet(permitQueue[g]) \cup {"other"}
        <4>1. Distinct(permitQueue[g]) /\ "other" \in CatalogJobs \cup {"other"}
          BY <1>2 DEF Permits
        <4> QED
          BY <1>1, <2>5, <3>1, <4>1, Joins
      <3>3. Permits(g, job, otherRun[g], activeProbes[g], permitQueue[g])'
        BY <1>2, <2>1, <2>2, <3>1, <3>2 DEF Permits
      <3>4. \A h \in CatalogGateways :
              /\ activeProbes'[h] <= MaxProbes
              /\ permitQueue'[h] # <<>> => activeProbes'[h] = MaxProbes
        BY <2>3, <3>1 DEF PermitsSound
      <3>5. PermitsSound'
        BY <2>4, <3>3, <3>4 DEF PermitsSound
      <3>6. /\ permitQueue' \in [CatalogGateways -> Seq(CatalogJobs \cup {"other"})]
            /\ otherRun' \in [CatalogGateways -> {"none", "running", "waiting"}]
        BY <1>1, <2>1, <2>7, <3>1, <3>2
      <3> QED
        BY <1>1, <2>1, <3>1, <3>5, <3>6
    <2> QED
      BY <2>6, <2>7
  <1>5. CASE OtherRunEnds(g)
    <2>1. PICK jobs \in [CatalogJobs -> CatalogJob] : jobs = job
      BY <1>1
    <2>2. PICK others \in [CatalogGateways -> {"none", "running", "waiting"}] :
           others = [otherRun EXCEPT ![g] = "none"]
      BY <1>1
    <2>3. otherRun[g] = "running" /\ Release(g, jobs, others)
      BY <1>5, <2>1, <2>2 DEF OtherRunEnds
    <2>4. /\ others[g] = "none"
          /\ \A h \in CatalogGateways \ {g} : others[h] = otherRun[h]
      BY <1>1, <2>2
    <2>5. Permits(g, jobs, others[g], activeProbes[g] - 1, permitQueue[g])
      BY <1>2, <1>3, <2>3, <2>4, <2>1 DEF Permits
    <2>6. \A h \in CatalogGateways \ {g} :
            Permits(h, jobs, others[h], activeProbes[h], permitQueue[h])
      BY <1>2, <2>4, <2>1
    <2>7. \A h \in CatalogGateways :
            /\ activeProbes[h] <= MaxProbes
            /\ permitQueue[h] # <<>> => activeProbes[h] = MaxProbes
      BY DEF PermitsSound
    <2>8. /\ PermitsSound'
          /\ activeProbes' \in [CatalogGateways -> Nat]
          /\ permitQueue' \in [CatalogGateways -> Seq(CatalogJobs \cup {"other"})]
          /\ otherRun' \in [CatalogGateways -> {"none", "running", "waiting"}]
          /\ \/ job' = jobs
             \/ \E w \in CatalogJobs :
                  /\ jobs[w].step = "waiting"
                  /\ job' = [jobs EXCEPT ![w] = [@ EXCEPT !.step = "admit"]]
      <3>1. Release(g, jobs, others)
        BY <2>3
      <3> QED
        BY <2>5, <2>6, <2>7, <3>1, PermitReleased
    <2>9. CASE job' = job
      BY <1>1, <2>8, <2>9
    <2>10. ASSUME NEW w \in CatalogJobs, job[w].step = "waiting",
                 job' = [job EXCEPT ![w] = [@ EXCEPT !.step = "admit"]]
          PROVE  /\ job' \in [CatalogJobs -> CatalogJob]
                 /\ \A i \in CatalogJobs :
                      \/ job'[i] = job[i]
                      \/ /\ job[i].step = "waiting"
                         /\ job'[i] = [job[i] EXCEPT !.step = "admit"]
      <3>1. job[w] \in CatalogJob
        BY <1>1
      <3>2. [job[w] EXCEPT !.step = "admit"] \in CatalogJob
        BY <3>1 DEF CatalogJob, JobSteps
      <3> QED
        BY <1>1, <2>10, <3>2
    <2> QED
      BY <2>8, <2>9, <2>10, <2>1
  <1> QED
    BY <1>4, <1>5

-----------------------------------------------------------------------------
(* Probes: the record, the jobs and the objects.                            *)

\* Jobs go on or begin to wait; nobody begins to probe.
LEMMA JobsGoOn ==
  ASSUME CatalogSound, UNCHANGED <<catalogRecord, probeObjects, deleting>>,
         \A i \in CatalogJobs :
           \/ job'[i] = job[i]
           \/ /\ JobSound(job'[i])
              /\ job'[i].step \in RunningSteps => job[i].step \in RunningSteps
  PROVE  CatalogSound'
  <1>1. \A i \in CatalogJobs : JobSound(job'[i])
    BY DEF CatalogSound, JobsSound
  <1>2. JobsSound'
    <2> SUFFICES ASSUME NEW i \in CatalogJobs PROVE JobSound(job[i])'
      BY DEF JobsSound
    <2> QED
      BY <1>1 DEF JobSound, RunIs
  <1>3. OneProbeAtATime'
    BY DEF CatalogSound, OneProbeAtATime, Probing
  <1>4. ObjectsRecorded'
    BY DEF CatalogSound, ObjectsRecorded
  <1> QED
    BY <1>2, <1>3, <1>4 DEF CatalogSound

\* A job that was given a permit, and one that ended, are sound.
LEMMA RestingIsSound ==
  /\ JobSound(IdleJob) /\ IdleJob.step \notin RunningSteps
  /\ \A r \in CatalogJob :
       r.step \in {"idle", "look", "waiting", "admit", "record", "claim"} /\ r.run = 0
         => JobSound(r) /\ r.step \notin RunningSteps
  /\ \A r \in CatalogJob :
       r.step = "waiting" =>
         LET a == [r EXCEPT !.step = "admit"]
         IN  a \in CatalogJob /\ a.step = "admit" /\ a.run = r.run
  <1>1. \A r : r.step \in {"idle", "look", "waiting", "admit", "record", "claim"} /\ r.run = 0
               => JobSound(r) /\ r.step \notin RunningSteps
    BY DEF JobSound, RunningSteps
  <1>2. IdleJob.step = "idle" /\ IdleJob.run = 0
    BY DEF IdleJob
  <1>3. ASSUME NEW r \in CatalogJob
        PROVE  /\ [r EXCEPT !.step = "admit"] \in CatalogJob
               /\ [r EXCEPT !.step = "admit"].step = "admit"
               /\ [r EXCEPT !.step = "admit"].run = r.run
    BY DEF CatalogJob, JobSteps
  <1> QED
    BY <1>1, <1>2, <1>3

\* A job in the queue that is admitted stays sound.
LEMMA AdmittedIsSound ==
  ASSUME NEW r \in CatalogJob, JobSound(r), r.step = "waiting",
         NEW a, a = [r EXCEPT !.step = "admit"]
  PROVE  JobSound(a) /\ a.step \notin RunningSteps
  <1>1. a \in CatalogJob /\ a.step = "admit" /\ a.run = r.run
    BY RestingIsSound
  <1>2. r.run = 0
    BY DEF JobSound
  <1> QED
    BY <1>1, <1>2, RestingIsSound

\* One job goes on; what it shares with others stays.
LEMMA JobGoesOn ==
  ASSUME CatalogIInv, home' = home, NEW j \in CatalogJobs, NEW r \in CatalogJob,
         job' = [job EXCEPT ![j] = r], JobSound(r),
         r.step \in RunningSteps => job[j].step \in RunningSteps,
         r.step \in PermitSteps <=> job[j].step \in PermitSteps,
         job[j].step # "waiting",
         UNCHANGED <<catalogRecord, catalogConfig, localVars, probeVars>>,
         staleSweep' \in [CatalogGateways -> RunOrNone],
         catalogFaults' \in 0 .. MaxCatalogFaults
  PROVE  CatalogIInv'
  <1>1. /\ CatalogTypeOK /\ CatalogSound /\ PermitsSound
        /\ job \in [CatalogJobs -> CatalogJob]
    BY DEF CatalogIInv, CatalogTypeOK
  <1>2. /\ job' \in [CatalogJobs -> CatalogJob] /\ job'[j] = r
        /\ \A i \in CatalogJobs \ {j} : job'[i] = job[i]
    BY <1>1
  <1>3. CatalogTypeOK'
    BY <1>1, <1>2 DEF CatalogTypeOK, localVars, probeVars
  <1>4. CatalogSound'
    BY <1>1, <1>2, JobsGoOn DEF probeVars
  <1>5. PermitsSound'
    BY <1>1, PermitsUntouched DEF localVars
  <1> QED
    BY <1>3, <1>4, <1>5 DEF CatalogIInv

\* A run returns, the record and the objects as they were.
LEMMA RunEndsQuietly ==
  ASSUME CatalogIInv, home' = home, NEW j \in CatalogJobs, EndRun(j),
         job[j].step \in PermitSteps,
         UNCHANGED <<catalogRecord, catalogConfig, staleSweep, probeVars>>,
         catalogFaults' \in 0 .. MaxCatalogFaults
  PROVE  CatalogIInv'
  <1>1. /\ CatalogTypeOK /\ CatalogSound /\ PermitsSound
        /\ job \in [CatalogJobs -> CatalogJob]
    BY DEF CatalogIInv, CatalogTypeOK
  <1>2. /\ PermitsSound' /\ pending' \in [CatalogGateways -> BOOLEAN]
        /\ activeProbes' \in [CatalogGateways -> Nat]
        /\ permitQueue' \in [CatalogGateways -> Seq(CatalogJobs \cup {"other"})]
        /\ otherRun' \in [CatalogGateways -> {"none", "running", "waiting"}]
        /\ job' \in [CatalogJobs -> CatalogJob] /\ job'[j] = IdleJob
        /\ \A i \in CatalogJobs \ {j} :
             \/ job'[i] = job[i]
             \/ job[i].step = "waiting" /\ job'[i] = [job[i] EXCEPT !.step = "admit"]
    BY <1>1, RunReturns
  <1>3. ASSUME NEW i \in CatalogJobs
        PROVE  \/ job'[i] = job[i]
               \/ JobSound(job'[i]) /\ job'[i].step \notin RunningSteps
    <2>1. job[i] \in CatalogJob /\ JobSound(job[i])
      BY <1>1 DEF CatalogSound, JobsSound
    <2> QED
      BY <1>2, <2>1, RestingIsSound, AdmittedIsSound
  <1>4. CatalogSound'
    BY <1>1, <1>3, JobsGoOn DEF probeVars
  <1>5. CatalogTypeOK'
    BY <1>1, <1>2 DEF CatalogTypeOK, probeVars
  <1> QED
    BY <1>2, <1>4, <1>5 DEF CatalogIInv

\* The record leaves "probing" when nothing is left of its run.
LEMMA RecordCloses ==
  ASSUME CatalogSound, UNCHANGED <<probeObjects, deleting>>,
         catalogRecord.state = "probing", catalogRecord'.state # "probing",
         NoAckLost /\ catalogRecord.run \in ProbeRuns =>
           probeObjects[catalogRecord.run] \ deleting[catalogRecord.run] = {},
         \A i \in CatalogJobs :
           \/ job'[i] = job[i] /\ job[i].step \notin RunningSteps
           \/ /\ job'[i].step \in {"idle", "waiting", "admit"} /\ job'[i].run = 0
  PROVE  CatalogSound'
  <1>1. \A i \in CatalogJobs : job'[i].step \notin RunningSteps
    BY DEF RunningSteps
  <1>2. JobsSound'
    <2> SUFFICES ASSUME NEW i \in CatalogJobs PROVE JobSound(job[i])'
      BY DEF JobsSound
    <2>1. ~RunIs(job[i])'
      BY DEF RunIs
    <2>2. CASE job'[i] = job[i]
      <3>1. JobSound(job[i])
        BY DEF CatalogSound, JobsSound
      <3> QED
        BY <1>1, <2>1, <2>2, <3>1 DEF JobSound
    <2>3. CASE job'[i].step \in {"idle", "waiting", "admit"} /\ job'[i].run = 0
      BY <2>3 DEF JobSound, RunningSteps
    <2> QED
      BY <2>2, <2>3
  <1>3. OneProbeAtATime'
    BY <1>1 DEF OneProbeAtATime, Probing
  <1>4. ObjectsRecorded'
    BY DEF CatalogSound, ObjectsRecorded
  <1> QED
    BY <1>2, <1>3, <1>4 DEF CatalogSound

\* What becomes of a job that moves on.
LEMMA JobMoves ==
  ASSUME NEW r \in CatalogJob, NEW step \in JobSteps
  PROVE  /\ [r EXCEPT !.step = step] \in CatalogJob
         /\ [r EXCEPT !.step = step].step = step
         /\ [r EXCEPT !.step = step].run = r.run
         /\ [r EXCEPT !.step = step].receipts = r.receipts
  BY DEF CatalogJob

LEMMA JobStepsTo ==
  ASSUME CatalogIInv, NEW j \in CatalogJobs, NEW step \in JobSteps, job' = JobGoes(j, step)
  PROVE  \E r \in CatalogJob :
           /\ job' = [job EXCEPT ![j] = r]
           /\ r.step = step /\ r.run = job[j].run /\ r.receipts = job[j].receipts
  <1>1. job[j] \in CatalogJob
    BY DEF CatalogIInv, CatalogTypeOK
  <1> DEFINE r == [job[j] EXCEPT !.step = step]
  <1>2. job' = [job EXCEPT ![j] = r]
    BY DEF JobGoes
  <1>3. r \in CatalogJob /\ r.step = step /\ r.run = job[j].run /\ r.receipts = job[j].receipts
    BY <1>1, JobMoves
  <1> HIDE DEF r
  <1> QED
    BY <1>2, <1>3

\* A job that moves on with its run, its permit and its objects.
LEMMA JobKeepsOn ==
  ASSUME CatalogIInv, home' = home, NEW j \in CatalogJobs, NEW step \in JobSteps,
         job' = JobGoes(j, step),
         \/ step = "record" /\ job[j].step = "admit"
         \/ step = "claim" /\ job[j].step = "record"
         \/ /\ step \in {"converse", "cleanup"}
            /\ job[j].step \in RunningSteps
         \/ /\ step \in {"verify", "failed", "publish"} /\ job[j].step \in RunningSteps
            /\ NoAckLost => probeObjects[job[j].run] = {},
         UNCHANGED <<catalogRecord, catalogConfig, localVars, probeVars, staleSweep>>,
         catalogFaults' \in 0 .. MaxCatalogFaults
  PROVE  CatalogIInv'
  <1>1. PICK r \in CatalogJob :
           /\ job' = [job EXCEPT ![j] = r]
           /\ r.step = step /\ r.run = job[j].run /\ r.receipts = job[j].receipts
    BY JobStepsTo
  <1>2. JobSound(job[j]) /\ staleSweep' \in [CatalogGateways -> RunOrNone]
    BY DEF CatalogIInv, CatalogTypeOK, CatalogSound, JobsSound
  <1>3. JobSound(r)
    BY <1>1, <1>2 DEF JobSound, RunIs, RunningSteps
  <1>4. r.step \in RunningSteps => job[j].step \in RunningSteps
    BY <1>1 DEF RunningSteps
  <1>5. /\ r.step \in PermitSteps <=> job[j].step \in PermitSteps
        /\ job[j].step # "waiting"
    BY <1>1 DEF PermitSteps, RunningSteps
  <1> QED
    BY <1>1, <1>2, <1>3, <1>4, <1>5, JobGoesOn

\* A call that ends before it has a permit.
LEMMA CallEnds ==
  ASSUME CatalogIInv, home' = home, NEW j \in CatalogJobs, job' = JobEnds(j),
         job[j].step \in {"look", "reclaim", "reclaimed"},
         UNCHANGED <<catalogRecord, catalogConfig, localVars, probeVars>>,
         staleSweep' \in [CatalogGateways -> RunOrNone],
         catalogFaults' \in 0 .. MaxCatalogFaults
  PROVE  CatalogIInv'
  <1>1. IdleJob \in CatalogJob /\ IdleJob.step = "idle" /\ 0 \in 0 .. CatalogConfigs
    BY CatalogAssumption DEF IdleJob, CatalogJob, JobSteps, RunOrNone
  <1>2. JobSound(IdleJob) /\ IdleJob.step \notin PermitSteps \cup RunningSteps
    BY <1>1, RestingIsSound DEF PermitSteps, RunningSteps
  <1>3. job[j].step \notin PermitSteps /\ job[j].step # "waiting"
    BY DEF PermitSteps, RunningSteps
  <1>4. job' = [job EXCEPT ![j] = IdleJob]
    BY DEF JobEnds
  <1> QED
    BY <1>1, <1>2, <1>3, <1>4, JobGoesOn

\* A job deletes what exists of its run, all of it but for an object it did not
\* hear of.
LEMMA DeletionStarts ==
  ASSUME CatalogIInv, home' = home, NEW j \in CatalogJobs, NEW r \in CatalogJob,
         job' = [job EXCEPT ![j] = r], r.run = job[j].run, r.receipts = job[j].receipts,
         \/ job[j].step = "reclaim" /\ r.step = "reclaimed"
         \/ job[j].step = "cleanup" /\ r.step = "gone",
         NEW found \in SUBSET probeObjects[job[j].run],
         NoAckLost => found = probeObjects[job[j].run],
         deleting' = [deleting EXCEPT ![job[j].run] = found],
         UNCHANGED <<catalogRecord, catalogConfig, localVars, staleSweep, probeObjects,
                     catalogFaults>>
  PROVE  CatalogIInv'
  <1>1. /\ CatalogTypeOK /\ CatalogSound /\ PermitsSound
        /\ job \in [CatalogJobs -> CatalogJob]
        /\ \A i \in CatalogJobs : JobSound(job[i]) /\ job[i].run \in RunOrNone
    BY DEF CatalogIInv, CatalogTypeOK, CatalogSound, JobsSound, CatalogJob
  <1>2. job[j].run \in ProbeRuns /\ r.run \in ProbeRuns
    BY <1>1 DEF JobSound, RunOrNone, RunningSteps
  <1>3. /\ deleting' \in [ProbeRuns -> SUBSET ProbeKinds]
        /\ deleting'[job[j].run] = found
        /\ \A run \in ProbeRuns \ {job[j].run} : deleting'[run] = deleting[run]
        /\ \A run \in ProbeRuns : deleting'[run] \subseteq probeObjects[run]
    BY <1>1, <1>2 DEF CatalogTypeOK
  <1>4. /\ job' \in [CatalogJobs -> CatalogJob] /\ job'[j] = r
        /\ \A i \in CatalogJobs \ {j} : job'[i] = job[i]
    BY <1>1
  <1>5. CatalogTypeOK'
    BY <1>1, <1>3, <1>4 DEF CatalogTypeOK, localVars
  <1>6. JobSound(r)'
    BY <1>1, <1>3 DEF JobSound, RunIs, RunningSteps
  <1>7. ASSUME NEW i \in CatalogJobs \ {j} PROVE JobSound(job[i])'
    <2>1. JobSound(job[i]) /\ job'[i] = job[i]
      BY <1>1, <1>4
    <2>2. job[i].step \in {"reclaimed", "gone"} => job[i].run \in ProbeRuns
      BY <1>1 DEF JobSound, RunningSteps, RunOrNone
    <2> QED
      BY <1>3, <2>1, <2>2 DEF JobSound, RunIs
  <1>8. JobsSound'
    BY <1>4, <1>6, <1>7 DEF JobsSound
  <1>9. OneProbeAtATime'
    BY <1>1, <1>4 DEF CatalogSound, OneProbeAtATime, Probing, RunningSteps
  <1>10. ObjectsRecorded'
    BY <1>1, <1>3 DEF CatalogSound, ObjectsRecorded
  <1>11. PermitsSound'
    <2>1. /\ r.step \in PermitSteps <=> job[j].step \in PermitSteps
          /\ job[j].step # "waiting"
      BY DEF PermitSteps, RunningSteps
    <2> QED
      BY <1>1, <2>1, PermitsUntouched DEF localVars
  <1> QED
    BY <1>1, <1>5, <1>8, <1>9, <1>10, <1>11 DEF CatalogIInv, CatalogSound

\* A run is registered; the record stays, or loses the run that was reclaimed.
LEMMA RunRegistered ==
  ASSUME CatalogIInv, home' = home, NEW j \in CatalogJobs, Register(j),
         UNCHANGED <<catalogConfig, probeVars, catalogFaults>>,
         staleSweep' \in [CatalogGateways -> RunOrNone],
         \/ job[j].step = "look" /\ catalogRecord' = catalogRecord
         \/ /\ job[j].step = "reclaimed" /\ Mine(j)
            /\ catalogRecord' = [catalogRecord EXCEPT !.state = "failed",
                 !.run = 0, !.receipts = {}, !.left = 0]
  PROVE  CatalogIInv'
  <1>1. /\ CatalogTypeOK /\ CatalogSound /\ PermitsSound
        /\ job \in [CatalogJobs -> CatalogJob] /\ catalogRecord \in CatalogRecords
        /\ \A i \in CatalogJobs : JobSound(job[i])
    BY DEF CatalogIInv, CatalogTypeOK, CatalogSound, JobsSound
  <1>2. job[j].step \notin PermitSteps \cup {"waiting"}
    BY DEF PermitSteps, RunningSteps
  <1>3. /\ PermitsSound' /\ otherRun' = otherRun
        /\ activeProbes' \in [CatalogGateways -> Nat]
        /\ permitQueue' \in [CatalogGateways -> Seq(CatalogJobs \cup {"other"})]
        /\ pending' \in [CatalogGateways -> BOOLEAN]
        /\ job' \in [CatalogJobs -> CatalogJob]
        /\ job'[j].step \in {"admit", "waiting"} /\ job'[j].run = 0
        /\ \A i \in CatalogJobs \ {j} : job'[i] = job[i]
    BY <1>1, <1>2, PermitRegistered
  <1>4. catalogRecord' \in CatalogRecords
    <2>1. 0 \in 0 .. 1 /\ 0 \in RunOrNone /\ {} \in SUBSET ProbeKinds
      BY DEF RunOrNone
    <2> QED
      BY <1>1, <2>1 DEF CatalogRecords
  <1>5. CatalogTypeOK'
    BY <1>1, <1>3, <1>4 DEF CatalogTypeOK, probeVars
  <1>6. CASE catalogRecord' = catalogRecord
    <2>1. JobSound(job'[j]) /\ job'[j].step \notin RunningSteps
      BY <1>3, RestingIsSound
    <2>2. CatalogSound'
      BY <1>1, <1>3, <1>6, <2>1, JobsGoOn DEF probeVars
    <2> QED
      BY <1>3, <1>5, <2>2 DEF CatalogIInv
  <1>7. CASE /\ job[j].step = "reclaimed" /\ Mine(j)
             /\ catalogRecord' = [catalogRecord EXCEPT !.state = "failed",
                  !.run = 0, !.receipts = {}, !.left = 0]
    <2>1. /\ catalogRecord.state = "probing" /\ catalogRecord.run = job[j].run
          /\ catalogRecord'.state = "failed" /\ catalogRecord.left = 0
          /\ NoAckLost => probeObjects[job[j].run] = deleting[job[j].run]
      BY <1>1, <1>7 DEF Mine, RunIs, JobSound, CatalogRecords
    <2>2. \A i \in CatalogJobs : job[i].step \notin RunningSteps
      BY <1>1, <2>1 DEF JobSound
    <2>3. CatalogSound'
      BY <1>1, <1>3, <2>1, <2>2, RecordCloses DEF probeVars
    <2> QED
      BY <1>3, <1>5, <2>3 DEF CatalogIInv
  <1> QED
    BY <1>6, <1>7

\* A run concludes: the record, if it is still the run's, has the verdict.
LEMMA RunConcludes ==
  ASSUME CatalogIInv, home' = home, NEW j \in CatalogJobs, Conclude(j)
  PROVE  CatalogIInv'
  <1>1. /\ CatalogTypeOK /\ CatalogSound /\ PermitsSound
        /\ job \in [CatalogJobs -> CatalogJob] /\ catalogRecord \in CatalogRecords
        /\ \A i \in CatalogJobs : JobSound(job[i]) /\ job[i] \in CatalogJob
    BY DEF CatalogIInv, CatalogTypeOK, CatalogSound, JobsSound
  <1>2. /\ job[j].step \in {"publish", "failed"} /\ EndRun(j)
        /\ UNCHANGED <<catalogConfig, probeVars, catalogFaults>>
    BY DEF Conclude
  <1>3. /\ RunIs(job[j]) /\ (NoAckLost => probeObjects[job[j].run] = {}) /\ Probing(j)
        /\ job[j].step \in PermitSteps
    BY <1>1, <1>2 DEF JobSound, RunningSteps, Probing, PermitSteps
  <1>4. /\ catalogRecord' =
             [state |-> IF job[j].step = "publish" THEN "verified" ELSE "failed",
              fingerprint |-> job[j].fingerprint, run |-> 0, receipts |-> {}, left |-> 1]
        /\ staleSweep' = [staleSweep EXCEPT ![home[j]] = 0]
    BY <1>3 DEF Conclude, Mine, RunIs
  <1>5. /\ PermitsSound' /\ pending' \in [CatalogGateways -> BOOLEAN]
        /\ activeProbes' \in [CatalogGateways -> Nat]
        /\ permitQueue' \in [CatalogGateways -> Seq(CatalogJobs \cup {"other"})]
        /\ otherRun' \in [CatalogGateways -> {"none", "running", "waiting"}]
        /\ job' \in [CatalogJobs -> CatalogJob] /\ job'[j] = IdleJob
        /\ \A i \in CatalogJobs \ {j} :
             \/ job'[i] = job[i]
             \/ job[i].step = "waiting" /\ job'[i] = [job[i] EXCEPT !.step = "admit"]
    BY <1>1, <1>2, <1>3, RunReturns
  <1>6. catalogRecord' \in CatalogRecords /\ staleSweep' \in [CatalogGateways -> RunOrNone]
    <2>1. job[j].fingerprint \in 0 .. CatalogConfigs /\ 1 \in 0 .. 1 /\ 0 \in RunOrNone
      BY <1>1 DEF CatalogJob, RunOrNone
    <2>2. staleSweep \in [CatalogGateways -> RunOrNone]
      BY <1>1 DEF CatalogTypeOK
    <2>3. {} \in SUBSET ProbeKinds
      OBVIOUS
    <2>4. catalogRecord' \in CatalogRecords
      BY <1>4, <2>1, <2>3 DEF CatalogRecords
    <2> QED
      BY <1>4, <2>1, <2>2, <2>4
  <1>7. CatalogTypeOK'
    BY <1>1, <1>2, <1>5, <1>6 DEF CatalogTypeOK, probeVars
  <1>8. \A i \in CatalogJobs \ {j} : job[i].step \notin RunningSteps
    BY <1>1, <1>3 DEF CatalogSound, OneProbeAtATime, Probing
  <1>9. ASSUME NEW i \in CatalogJobs
        PROVE  \/ job'[i] = job[i] /\ job[i].step \notin RunningSteps
               \/ job'[i].step \in {"idle", "waiting", "admit"} /\ job'[i].run = 0
    <2>1. CASE i = j
      BY <1>5, <2>1 DEF IdleJob
    <2>2. CASE i # j /\ job'[i] = job[i]
      BY <1>8, <2>2
    <2>3. CASE job[i].step = "waiting" /\ job'[i] = [job[i] EXCEPT !.step = "admit"]
      <3>1. job[i].run = 0
        BY <1>1, <2>3 DEF JobSound
      <3> QED
        BY <1>1, <2>3, <3>1, RestingIsSound
    <2> QED
      BY <1>5, <2>1, <2>2, <2>3
  <1>10. /\ catalogRecord.state = "probing" /\ catalogRecord.run = job[j].run
         /\ catalogRecord'.state # "probing"
    BY <1>3, <1>4 DEF RunIs
  <1>11. CatalogSound'
    BY <1>1, <1>2, <1>3, <1>9, <1>10, RecordCloses DEF probeVars
  <1> QED
    BY <1>5, <1>7, <1>11 DEF CatalogIInv

\* A run is claimed under an id that nothing refers to.
LEMMA RunClaimed ==
  ASSUME CatalogIInv, home' = home, NEW j \in CatalogJobs, ClaimRun(j)
  PROVE  CatalogIInv'
  <1>1. /\ CatalogTypeOK /\ CatalogSound /\ PermitsSound
        /\ job \in [CatalogJobs -> CatalogJob] /\ catalogRecord \in CatalogRecords
        /\ \A i \in CatalogJobs : JobSound(job[i]) /\ job[i] \in CatalogJob
        /\ staleSweep \in [CatalogGateways -> RunOrNone]
    BY DEF CatalogIInv, CatalogTypeOK, CatalogSound, JobsSound
  <1>2. /\ job[j].step = "claim" /\ UNCHANGED <<catalogConfig, probeVars, catalogFaults>>
        /\ catalogFaults' \in 0 .. MaxCatalogFaults
    BY <1>1 DEF ClaimRun, CatalogTypeOK
  <1>3. CASE catalogRecord.state = "probing"
    <2>1. EndRun(j) /\ UNCHANGED <<catalogRecord, staleSweep>>
      BY <1>3 DEF ClaimRun
    <2>2. job[j].step \in PermitSteps
      BY <1>2 DEF PermitSteps
    <2> QED
      BY <1>2, <2>1, <2>2, RunEndsQuietly
  <1>4. CASE catalogRecord.state # "probing"
    <2>1. PICK run \in FreeRuns :
             /\ catalogRecord' = [state |-> "probing", run |-> run,
                  fingerprint |-> job[j].fingerprint, receipts |-> {}, left |-> 1]
             /\ staleSweep' = Swept(home[j], run)
             /\ job' = [job EXCEPT ![j] = [@ EXCEPT !.step = "Service", !.run = run]]
             /\ UNCHANGED localVars
      BY <1>4 DEF ClaimRun
    <2>2. /\ run \in ProbeRuns /\ probeObjects[run] = {} /\ run # 0
          /\ \A i \in CatalogJobs : job[i].run # run
      BY <2>1, CatalogAssumption DEF FreeRuns, RunsInUse
    <2>3. PICK r \in CatalogJob :
             /\ job' = [job EXCEPT ![j] = r] /\ r.step = "Service" /\ r.run = run
      <3> DEFINE r == [job[j] EXCEPT !.step = "Service", !.run = run]
      <3>1. job[j] \in CatalogJob /\ run \in RunOrNone /\ "Service" \in JobSteps
        BY <1>1, <2>2 DEF RunOrNone, JobSteps
      <3>2. r \in CatalogJob /\ r.step = "Service" /\ r.run = run
        BY <3>1 DEF CatalogJob
      <3>3. job' = [job EXCEPT ![j] = r]
        BY <2>1
      <3> HIDE DEF r
      <3> QED
        BY <3>2, <3>3
    <2>4. /\ job' \in [CatalogJobs -> CatalogJob] /\ job'[j] = r
          /\ \A i \in CatalogJobs \ {j} : job'[i] = job[i]
      BY <1>1, <2>3
    <2>5. catalogRecord' \in CatalogRecords
      <3>1. job[j].fingerprint \in 0 .. CatalogConfigs
        BY <1>1 DEF CatalogJob
      <3>2. 1 \in 0 .. 1 /\ run \in RunOrNone
        BY <2>2 DEF RunOrNone
      <3> QED
        BY <2>1, <3>1, <3>2 DEF CatalogRecords
    <2>6. staleSweep' \in [CatalogGateways -> RunOrNone]
      BY <1>1, <2>1, <2>2 DEF Swept, RunOrNone
    <2>7. CatalogTypeOK'
      BY <1>1, <1>2, <2>1, <2>4, <2>5, <2>6 DEF CatalogTypeOK, localVars, probeVars
    <2>8. \A i \in CatalogJobs : job[i].step \notin RunningSteps
      BY <1>1, <1>4 DEF JobSound, RunIs
    <2>9. JobSound(r)'
      BY <1>2, <2>1, <2>2, <2>3 DEF JobSound, RunIs, RunningSteps, probeVars
    <2>10. ASSUME NEW i \in CatalogJobs \ {j} PROVE JobSound(job[i])'
      <3>1. JobSound(job[i]) /\ job'[i] = job[i] /\ job[i].run # run
        BY <1>1, <2>2, <2>4
      <3> QED
        BY <1>2, <2>1, <2>8, <3>1 DEF JobSound, RunIs, probeVars
    <2>11. JobsSound'
      BY <2>4, <2>9, <2>10 DEF JobsSound
    <2>12. OneProbeAtATime'
      BY <2>4, <2>8 DEF OneProbeAtATime, Probing
    <2>13. ObjectsRecorded'
      BY <1>1, <1>2, <1>4 DEF CatalogSound, ObjectsRecorded, probeVars
    <2>14. PermitsSound'
      <3>1. /\ r.step \in PermitSteps /\ job[j].step \in PermitSteps /\ r.step # "waiting"
            /\ job[j].step # "waiting"
        BY <1>2, <2>3 DEF PermitSteps, RunningSteps
      <3> QED
        BY <1>1, <2>1, <2>3, <3>1, PermitsUntouched DEF localVars
    <2>15. catalogRecord'.run # 0
      BY <2>1, <2>2
    <2> QED
      BY <2>7, <2>11, <2>12, <2>13, <2>14, <2>15 DEF CatalogIInv, CatalogSound
  <1> QED
    BY <1>3, <1>4

\* A probe makes an object: nobody else is at work on its run.
LEMMA ObjectCreated ==
  ASSUME CatalogIInv, home' = home, NEW j \in CatalogJobs, CreateObject(j)
  PROVE  CatalogIInv'
  <1>1. /\ CatalogTypeOK /\ CatalogSound /\ PermitsSound
        /\ job \in [CatalogJobs -> CatalogJob]
        /\ probeObjects \in [ProbeRuns -> SUBSET ProbeKinds]
        /\ \A i \in CatalogJobs : JobSound(job[i]) /\ job[i] \in CatalogJob
    BY DEF CatalogIInv, CatalogTypeOK, CatalogSound, JobsSound
  <1> PICK run, kind : run = job[j].run /\ kind = job[j].step
    OBVIOUS
  <1>2. /\ kind \in ProbeKinds
        /\ probeObjects' = [probeObjects EXCEPT ![run] = @ \cup {kind}]
        /\ job' = [job EXCEPT ![j] = [job[j] EXCEPT !.step = "receipt",
                                        !.receipts = job[j].receipts \cup {kind}]]
        /\ UNCHANGED <<catalogRecord, catalogConfig, localVars, staleSweep, deleting,
                       catalogFaults>>
    <2>1. job[j] \in CatalogJob
      BY <1>1
    <2> QED
      BY <1>1, <2>1 DEF CreateObject, CatalogJob
  <1>3. /\ run # 0 /\ RunIs(job[j]) /\ catalogRecord.left = 1 /\ Probing(j)
        /\ NoAckLost => probeObjects[run] \subseteq job[j].receipts
        /\ run \in ProbeRuns
    BY <1>1, <1>2 DEF JobSound, RunningSteps, ProbeKinds, Probing, CatalogJob, RunOrNone
  <1>4. PICK r \in CatalogJob :
           /\ job' = [job EXCEPT ![j] = r] /\ r.step = "receipt" /\ r.run = run
           /\ r.receipts = job[j].receipts \cup {kind}
    <2> DEFINE receipts == job[j].receipts \cup {kind}
               r == [job[j] EXCEPT !.step = "receipt", !.receipts = receipts]
    <2>1. job[j] \in CatalogJob /\ receipts \in SUBSET ProbeKinds /\ "receipt" \in JobSteps
      BY <1>1, <1>2 DEF CatalogJob, JobSteps
    <2>2. job' = [job EXCEPT ![j] = r]
      BY <1>2
    <2> HIDE DEF receipts
    <2>3. /\ r \in CatalogJob /\ r.step = "receipt" /\ r.run = run /\ r.receipts = receipts
      BY <2>1 DEF CatalogJob
    <2> HIDE DEF r
    <2> QED
      BY <2>2, <2>3 DEF receipts
  <1>5. /\ job' \in [CatalogJobs -> CatalogJob] /\ job'[j] = r
        /\ \A i \in CatalogJobs \ {j} : job'[i] = job[i]
    BY <1>1, <1>4
  <1>6. /\ probeObjects' \in [ProbeRuns -> SUBSET ProbeKinds]
        /\ probeObjects'[run] = probeObjects[run] \cup {kind}
        /\ \A x \in ProbeRuns \ {run} : probeObjects'[x] = probeObjects[x]
    BY <1>1, <1>2, <1>3
  <1>7. CatalogTypeOK'
    <2>1. \A x \in ProbeRuns : deleting'[x] \subseteq probeObjects'[x]
      BY <1>1, <1>2, <1>6 DEF CatalogTypeOK
    <2> QED
      BY <1>1, <1>2, <1>5, <1>6, <2>1 DEF CatalogTypeOK, localVars
  <1>8. JobSound(r)'
    BY <1>2, <1>3, <1>4, <1>6 DEF JobSound, RunIs, RunningSteps
  <1>9. ASSUME NEW i \in CatalogJobs \ {j} PROVE JobSound(job[i])'
    <2>1. JobSound(job[i]) /\ job'[i] = job[i] /\ job[i].step \notin RunningSteps
      BY <1>1, <1>3, <1>5 DEF CatalogSound, OneProbeAtATime, Probing
    <2>2. job[i].step \in {"reclaim", "reclaimed"} => job[i].run # run
      BY <1>3, <2>1 DEF JobSound, RunIs
    <2>3. job[i].step \in {"reclaim", "reclaimed"} => job[i].run \in ProbeRuns
      BY <1>1, <2>1 DEF JobSound, CatalogJob, RunOrNone
    <2>4. job[i].step = "reclaimed" => probeObjects'[job[i].run] = probeObjects[job[i].run]
      BY <1>6, <2>2, <2>3
    <2> QED
      BY <1>2, <2>1, <2>4 DEF JobSound, RunIs, RunningSteps
  <1>10. JobsSound'
    BY <1>5, <1>8, <1>9 DEF JobsSound
  <1>11. OneProbeAtATime'
    BY <1>1, <1>3, <1>5 DEF CatalogSound, OneProbeAtATime, Probing
  <1>12. ObjectsRecorded'
    BY <1>1, <1>2, <1>3, <1>6 DEF CatalogSound, ObjectsRecorded, RunIs
  <1>13. PermitsSound'
    <2>1. /\ r.step \in PermitSteps /\ job[j].step \in PermitSteps /\ r.step # "waiting"
          /\ job[j].step # "waiting"
      BY <1>3, <1>4 DEF PermitSteps, RunningSteps, Probing
    <2> QED
      BY <1>1, <1>2, <1>4, <2>1, PermitsUntouched DEF localVars
  <1> QED
    BY <1>1, <1>2, <1>7, <1>10, <1>11, <1>12, <1>13 DEF CatalogIInv, CatalogSound

\* A probe makes an object and does not hear of it.
LEMMA ObjectUnacknowledged ==
  ASSUME CatalogIInv, home' = home, NEW j \in CatalogJobs, job[j].step \in ProbeKinds,
         "lostAck" \in CatalogFaultKinds, catalogFaults' \in 0 .. MaxCatalogFaults,
         probeObjects' = [probeObjects EXCEPT ![job[j].run] = @ \cup {job[j].step}],
         job' = JobGoes(j, "cleanup"),
         UNCHANGED <<catalogRecord, catalogConfig, localVars, staleSweep, deleting>>
  PROVE  CatalogIInv'
  <1>1. /\ CatalogTypeOK /\ CatalogSound /\ PermitsSound
        /\ job \in [CatalogJobs -> CatalogJob]
        /\ \A i \in CatalogJobs : JobSound(job[i])
    BY DEF CatalogIInv, CatalogTypeOK, CatalogSound, JobsSound
  <1>2. PICK r \in CatalogJob :
           /\ job' = [job EXCEPT ![j] = r]
           /\ r.step = "cleanup" /\ r.run = job[j].run /\ r.receipts = job[j].receipts
    <2>1. "cleanup" \in JobSteps
      BY DEF JobSteps
    <2> QED
      BY <2>1, JobStepsTo
  <1>3. /\ job' \in [CatalogJobs -> CatalogJob] /\ job'[j] = r
        /\ \A i \in CatalogJobs \ {j} : job'[i] = job[i]
    BY <1>1, <1>2
  <1>4. /\ job[j].step \in RunningSteps /\ r.step \in RunningSteps
        /\ r.step \in PermitSteps /\ job[j].step \in PermitSteps
        /\ r.step # "waiting" /\ job[j].step # "waiting"
    BY <1>2 DEF ProbeKinds, RunningSteps, PermitSteps
  <1>5. CatalogTypeOK'
    <2>1. /\ probeObjects' \in [ProbeRuns -> SUBSET ProbeKinds]
          /\ \A x \in ProbeRuns : probeObjects[x] \subseteq probeObjects'[x]
      BY <1>1 DEF CatalogTypeOK
    <2>2. \A x \in ProbeRuns : deleting'[x] \subseteq probeObjects'[x]
      BY <1>1, <2>1 DEF CatalogTypeOK
    <2> QED
      BY <1>1, <1>3, <2>1, <2>2 DEF CatalogTypeOK, localVars
  <1>6. JobsSound'
    <2>1. JobSound(r)'
      BY <1>1, <1>2, <1>4 DEF JobSound, RunIs
    <2>2. ASSUME NEW i \in CatalogJobs \ {j} PROVE JobSound(job[i])'
      BY <1>1, <1>3 DEF JobSound, RunIs
    <2> QED
      BY <1>3, <2>1, <2>2 DEF JobsSound
  <1>7. OneProbeAtATime'
    BY <1>1, <1>3, <1>4 DEF CatalogSound, OneProbeAtATime, Probing
  <1>8. CatalogSound'
    BY <1>1, <1>6, <1>7 DEF CatalogSound, ObjectsRecorded
  <1>9. PermitsSound'
    BY <1>1, <1>2, <1>4, PermitsUntouched DEF localVars
  <1> QED
    BY <1>5, <1>8, <1>9 DEF CatalogIInv

\* The objects that were being deleted are gone.
LEMMA ObjectsVanish ==
  ASSUME CatalogIInv, home' = home, NEW run \in ProbeRuns, ObjectGone(run)
  PROVE  CatalogIInv'
  <1>1. /\ CatalogTypeOK /\ CatalogSound /\ PermitsSound
        /\ probeObjects \in [ProbeRuns -> SUBSET ProbeKinds]
        /\ deleting \in [ProbeRuns -> SUBSET ProbeKinds]
        /\ \A i \in CatalogJobs : JobSound(job[i]) /\ job[i].run \in RunOrNone
    BY DEF CatalogIInv, CatalogTypeOK, CatalogSound, JobsSound, CatalogJob
  <1>2. /\ probeObjects' = [probeObjects EXCEPT ![run] = @ \ deleting[run]]
        /\ deleting' = [deleting EXCEPT ![run] = {}]
        /\ UNCHANGED <<catalogRecord, catalogConfig, job, localVars, staleSweep,
                       catalogFaults>>
    BY DEF ObjectGone
  <1>3. /\ probeObjects' \in [ProbeRuns -> SUBSET ProbeKinds]
        /\ deleting' \in [ProbeRuns -> SUBSET ProbeKinds]
        /\ probeObjects'[run] = probeObjects[run] \ deleting[run] /\ deleting'[run] = {}
        /\ \A x \in ProbeRuns \ {run} :
             probeObjects'[x] = probeObjects[x] /\ deleting'[x] = deleting[x]
    BY <1>1, <1>2
  <1>4. \A x \in ProbeRuns : deleting'[x] \subseteq probeObjects'[x]
    BY <1>1, <1>3 DEF CatalogTypeOK
  <1>5. CatalogTypeOK'
    BY <1>1, <1>2, <1>3, <1>4 DEF CatalogTypeOK, localVars
  <1>6. JobsSound'
    <2> SUFFICES ASSUME NEW i \in CatalogJobs PROVE JobSound(job[i])'
      BY DEF JobsSound
    <2>1. JobSound(job[i]) /\ job[i].run \in RunOrNone
      BY <1>1
    <2>2. CASE job[i].run = run
      BY <1>2, <1>3, <2>1, <2>2 DEF JobSound, RunIs
    <2>3. CASE job[i].run \in ProbeRuns \ {run}
      BY <1>2, <1>3, <2>1, <2>3 DEF JobSound, RunIs
    <2>4. CASE job[i].run = 0
      BY <1>2, <2>1, <2>4 DEF JobSound, RunIs, RunningSteps
    <2> QED
      BY <2>1, <2>2, <2>3, <2>4 DEF RunOrNone
  <1>7. OneProbeAtATime'
    BY <1>1, <1>2 DEF CatalogSound, OneProbeAtATime, Probing
  <1>8. ObjectsRecorded'
    BY <1>1, <1>2, <1>3 DEF CatalogSound, ObjectsRecorded
  <1>9. PermitsSound'
    BY <1>1, <1>2, PermitsAsTheyWere DEF localVars
  <1> QED
    BY <1>1, <1>2, <1>5, <1>6, <1>7, <1>8, <1>9 DEF CatalogIInv, CatalogSound

\* A process is replaced: its jobs, its permits and its queue are gone.
LEMMA GatewayReplaced ==
  ASSUME CatalogIInv, home' = home, NEW g \in CatalogGateways, CatalogCrash(g)
  PROVE  CatalogIInv'
  <1>1. /\ CatalogTypeOK /\ CatalogSound /\ PermitsSound
        /\ job \in [CatalogJobs -> CatalogJob] /\ catalogRecord \in CatalogRecords
    BY DEF CatalogIInv, CatalogTypeOK
  <1>2. /\ job' = [j \in CatalogJobs |-> IF home[j] = g THEN IdleJob ELSE job[j]]
        /\ pending' = [pending EXCEPT ![g] = FALSE]
        /\ activeProbes' = [activeProbes EXCEPT ![g] = 0]
        /\ permitQueue' = [permitQueue EXCEPT ![g] = <<>>]
        /\ otherRun' = [otherRun EXCEPT ![g] = "none"]
        /\ staleSweep' = [staleSweep EXCEPT ![g] = catalogRecord.run]
        /\ UNCHANGED <<catalogRecord, catalogConfig, probeVars>>
        /\ catalogFaults' \in 0 .. MaxCatalogFaults
    BY <1>1, CatalogAssumption DEF CatalogCrash, Fault, CatalogTypeOK
  <1>3. /\ IdleJob \in CatalogJob /\ JobSound(IdleJob) /\ IdleJob.step = "idle"
        /\ IdleJob.step \notin PermitSteps \cup RunningSteps
    <2>1. 0 \in 0 .. CatalogConfigs
      BY CatalogAssumption
    <2> QED
      BY <2>1, RestingIsSound
         DEF IdleJob, CatalogJob, JobSteps, RunOrNone, PermitSteps, RunningSteps
  <1>4. /\ job' \in [CatalogJobs -> CatalogJob]
        /\ \A j \in CatalogJobs : home[j] = g => job'[j] = IdleJob
        /\ \A j \in CatalogJobs : home[j] # g => job'[j] = job[j]
    BY <1>1, <1>2, <1>3
  <1>5. CatalogTypeOK'
    <2>1. /\ pending' \in [CatalogGateways -> BOOLEAN]
          /\ activeProbes' \in [CatalogGateways -> Nat]
          /\ otherRun' \in [CatalogGateways -> {"none", "running", "waiting"}]
      BY <1>1, <1>2 DEF CatalogTypeOK
    <2>2. permitQueue' \in [CatalogGateways -> Seq(CatalogJobs \cup {"other"})]
      <3>1. <<>> \in Seq(CatalogJobs \cup {"other"})
        OBVIOUS
      <3> QED
        BY <1>1, <1>2, <3>1 DEF CatalogTypeOK
    <2>3. staleSweep' \in [CatalogGateways -> RunOrNone]
      <3>1. catalogRecord.run \in RunOrNone
        BY <1>1 DEF CatalogRecords
      <3> QED
        BY <1>1, <1>2, <3>1 DEF CatalogTypeOK
    <2> QED
      BY <1>1, <1>2, <1>4, <2>1, <2>2, <2>3 DEF CatalogTypeOK, probeVars
  <1>6. CatalogSound'
    BY <1>1, <1>2, <1>3, <1>4, JobsGoOn DEF probeVars
  <1>7. PermitsSound'
    <2>1. ASSUME NEW h \in CatalogGateways \ {g}
          PROVE  /\ Permits(h, job, otherRun[h], activeProbes[h], permitQueue[h])'
                 /\ activeProbes'[h] <= MaxProbes
                 /\ permitQueue'[h] # <<>> => activeProbes'[h] = MaxProbes
      <3>1. /\ otherRun'[h] = otherRun[h] /\ activeProbes'[h] = activeProbes[h]
            /\ permitQueue'[h] = permitQueue[h]
        BY <1>1, <1>2 DEF CatalogTypeOK
      <3>2. Holders(h, job)' = Holders(h, job)
        BY <1>4 DEF Holders
      <3>3. Permits(h, job, otherRun[h], activeProbes[h], permitQueue[h])
        BY <1>1 DEF PermitsSound
      <3>4. \A j \in ToSet(permitQueue[h]) \cap CatalogJobs :
              home[j] = h /\ job'[j].step = "waiting"
        BY <1>4, <3>3 DEF Permits
      <3>5. Permits(h, job, otherRun[h], activeProbes[h], permitQueue[h])'
        BY <3>1, <3>2, <3>3, <3>4 DEF Permits
      <3> QED
        BY <1>1, <3>1, <3>5 DEF PermitsSound
    <2>2. /\ otherRun'[g] = "none" /\ activeProbes'[g] = 0 /\ permitQueue'[g] = <<>>
      BY <1>1, <1>2 DEF CatalogTypeOK
    <2>3. Holders(g, job)' = {}
      BY <1>3, <1>4 DEF Holders
    <2>4. Permits(g, job, otherRun[g], activeProbes[g], permitQueue[g])'
      BY <2>2, <2>3, EmptyQueue, FS_EmptySet DEF Permits
    <2>5. 0 <= MaxProbes
      BY CatalogAssumption
    <2> QED
      BY <2>1, <2>2, <2>4, <2>5 DEF PermitsSound
  <1> QED
    BY <1>5, <1>6, <1>7 DEF CatalogIInv

\* The recorded run becomes stale when nobody is at work on it.
LEMMA RunGrowsStale ==
  ASSUME CatalogIInv, home' = home, CatalogTick
  PROVE  CatalogIInv'
  <1>1. /\ CatalogTypeOK /\ CatalogSound /\ PermitsSound /\ catalogRecord \in CatalogRecords
        /\ \A i \in CatalogJobs : JobSound(job[i])
    BY DEF CatalogIInv, CatalogTypeOK, CatalogSound, JobsSound
  <1>2. /\ catalogRecord' = [catalogRecord EXCEPT !.left = 0]
        /\ \A j \in CatalogJobs : ~(Probing(j) /\ job[j].run = catalogRecord.run)
        /\ UNCHANGED <<catalogConfig, job, localVars, staleSweep, probeVars, catalogFaults>>
    BY DEF CatalogTick
  <1>3. /\ catalogRecord' \in CatalogRecords /\ catalogRecord'.state = catalogRecord.state
        /\ catalogRecord'.run = catalogRecord.run /\ catalogRecord'.left = 0
    BY <1>1, <1>2 DEF CatalogRecords
  <1>4. \A i \in CatalogJobs : job[i].step \notin RunningSteps
    BY <1>1, <1>2 DEF JobSound, RunIs, Probing
  <1>5. CatalogTypeOK'
    BY <1>1, <1>2, <1>3 DEF CatalogTypeOK, localVars, probeVars
  <1>6. JobsSound'
    <2> SUFFICES ASSUME NEW i \in CatalogJobs PROVE JobSound(job[i])'
      BY DEF JobsSound
    <2> QED
      BY <1>1, <1>2, <1>3, <1>4 DEF JobSound, RunIs, probeVars
  <1>7. OneProbeAtATime'
    BY <1>2, <1>4 DEF OneProbeAtATime, Probing
  <1>8. ObjectsRecorded'
    BY <1>1, <1>2, <1>3 DEF CatalogSound, ObjectsRecorded, probeVars
  <1>9. PermitsSound'
    BY <1>1, <1>2, PermitsAsTheyWere DEF localVars
  <1> QED
    BY <1>1, <1>3, <1>5, <1>6, <1>7, <1>8, <1>9 DEF CatalogIInv, CatalogSound

\* Receipts go into the record of the run that made them.
LEMMA ReceiptsStored ==
  ASSUME CatalogIInv, home' = home, NEW j \in CatalogJobs, StoreReceipts(j)
  PROVE  CatalogIInv'
  <1>1. /\ CatalogTypeOK /\ CatalogSound /\ PermitsSound
        /\ job \in [CatalogJobs -> CatalogJob] /\ catalogRecord \in CatalogRecords
        /\ \A i \in CatalogJobs : JobSound(job[i]) /\ job[i] \in CatalogJob
    BY DEF CatalogIInv, CatalogTypeOK, CatalogSound, JobsSound
  <1>2. /\ job[j].step = "receipt"
        /\ UNCHANGED <<catalogConfig, localVars, staleSweep, probeVars, catalogFaults>>
    BY DEF StoreReceipts
  <1>3. Mine(j) /\ job[j].step \in RunningSteps /\ RunIs(job[j]) /\ job[j].run # 0
    BY <1>1, <1>2 DEF JobSound, RunningSteps, RunIs, Mine
  <1>4. PICK step \in {"ready", "Pod"} :
           /\ catalogRecord' = [catalogRecord EXCEPT !.receipts = job[j].receipts]
           /\ job' = JobGoes(j, step)
    BY <1>3 DEF StoreReceipts
  <1>5. PICK r \in CatalogJob :
           /\ job' = [job EXCEPT ![j] = r]
           /\ r.step = step /\ r.run = job[j].run /\ r.receipts = job[j].receipts
    BY <1>4, JobStepsTo DEF JobSteps
  <1>6. /\ catalogRecord' \in CatalogRecords /\ catalogRecord'.state = catalogRecord.state
        /\ catalogRecord'.run = catalogRecord.run /\ catalogRecord'.left = catalogRecord.left
    <2>1. job[j].receipts \in SUBSET ProbeKinds
      BY <1>1 DEF CatalogJob
    <2> QED
      BY <1>1, <1>4, <2>1 DEF CatalogRecords
  <1>7. /\ job' \in [CatalogJobs -> CatalogJob] /\ job'[j] = r
        /\ \A i \in CatalogJobs \ {j} : job'[i] = job[i]
    BY <1>1, <1>5
  <1>8. CatalogTypeOK'
    BY <1>1, <1>2, <1>6, <1>7 DEF CatalogTypeOK, localVars, probeVars
  <1>9. JobSound(job[j])
    BY <1>1
  <1>10. JobSound(r)'
    BY <1>2, <1>3, <1>5, <1>6, <1>9 DEF JobSound, RunIs, RunningSteps, probeVars
  <1>11. ASSUME NEW i \in CatalogJobs \ {j} PROVE JobSound(job[i])'
    <2>1. JobSound(job[i]) /\ job'[i] = job[i]
      BY <1>1, <1>7
    <2> QED
      BY <1>2, <1>6, <2>1 DEF JobSound, RunIs, probeVars
  <1>12. JobsSound'
    BY <1>7, <1>10, <1>11 DEF JobsSound
  <1>13. OneProbeAtATime'
    BY <1>1, <1>3, <1>7 DEF CatalogSound, OneProbeAtATime, Probing
  <1>14. ObjectsRecorded'
    BY <1>1, <1>2, <1>6 DEF CatalogSound, ObjectsRecorded, probeVars
  <1>15. PermitsSound'
    <2>1. /\ r.step \in PermitSteps /\ job[j].step \in PermitSteps /\ r.step # "waiting"
          /\ job[j].step # "waiting"
      BY <1>2, <1>5 DEF PermitSteps, RunningSteps
    <2> QED
      BY <1>1, <1>2, <1>5, <2>1, PermitsUntouched DEF localVars
  <1> QED
    BY <1>1, <1>6, <1>8, <1>12, <1>13, <1>14, <1>15 DEF CatalogIInv, CatalogSound

\* Every step of the catalog keeps the invariant.
LEMMA CatalogInductive == CatalogIInv /\ [CatalogNext]_catalogVars => CatalogIInv'
  <1> SUFFICES ASSUME CatalogIInv, [CatalogNext]_catalogVars PROVE CatalogIInv'
    OBVIOUS
  <1>1. /\ CatalogTypeOK /\ CatalogSound /\ PermitsSound
        /\ job \in [CatalogJobs -> CatalogJob] /\ catalogRecord \in CatalogRecords
        /\ staleSweep \in [CatalogGateways -> RunOrNone]
        /\ catalogFaults \in 0 .. MaxCatalogFaults /\ catalogConfig \in 1 .. CatalogConfigs
        /\ \A i \in CatalogJobs : JobSound(job[i]) /\ job[i] \in CatalogJob
    BY DEF CatalogIInv, CatalogTypeOK, CatalogSound, JobsSound
  <1>2. \A kind : Fault(kind) =>
          kind \in CatalogFaultKinds /\ catalogFaults' \in 0 .. MaxCatalogFaults
    BY <1>1, CatalogAssumption DEF Fault
  <1>3. \A g \in CatalogGateways, run \in RunOrNone :
          /\ Swept(g, run) \in [CatalogGateways -> RunOrNone]
          /\ [staleSweep EXCEPT ![g] = 0] \in [CatalogGateways -> RunOrNone]
    BY <1>1 DEF Swept, RunOrNone
  <1>4. \A j \in CatalogJobs : home[j] \in CatalogGateways /\ job[j].run \in RunOrNone
    BY <1>1 DEF CatalogTypeOK, CatalogJob
  <1>5. catalogRecord.run \in RunOrNone
    BY <1>1 DEF CatalogRecords
  <1>6. ASSUME NEW j \in CatalogJobs, NEW force \in BOOLEAN, home' = home,
               SnapshotBegins(j, force)
        PROVE  CatalogIInv'
    <2> DEFINE r == [job[j] EXCEPT !.step = "look", !.fingerprint = catalogConfig,
                                   !.force = force]
    <2>1. /\ job[j].step = "idle" /\ job' = [job EXCEPT ![j] = r]
          /\ UNCHANGED <<catalogRecord, catalogConfig, localVars, staleSweep, probeVars,
                         catalogFaults>>
      BY <1>6 DEF SnapshotBegins
    <2>2. job[j].run = 0
      BY <1>1, <2>1 DEF JobSound
    <2>3. r \in CatalogJob /\ r.step = "look" /\ r.run = 0
      <3>1. job[j] \in CatalogJob /\ catalogConfig \in 0 .. CatalogConfigs
        BY <1>1
      <3> QED
        BY <2>2, <3>1 DEF CatalogJob, JobSteps
    <2> HIDE DEF r
    <2>4. /\ JobSound(r) /\ r.step \notin RunningSteps \cup PermitSteps
          /\ job[j].step \notin PermitSteps /\ job[j].step # "waiting"
      BY <2>1, <2>3, RestingIsSound DEF PermitSteps, RunningSteps
    <2> QED
      BY <1>1, <1>6, <2>1, <2>3, <2>4, JobGoesOn
  <1>7. ASSUME NEW j \in CatalogJobs, home' = home, LookAnswers(j) PROVE CatalogIInv'
    <2>1. /\ job[j].step = "look" /\ job' = JobEnds(j)
          /\ staleSweep' \in {Swept(home[j], catalogRecord.run), staleSweep}
          /\ UNCHANGED <<catalogRecord, catalogConfig, localVars, probeVars, catalogFaults>>
      BY <1>7 DEF LookAnswers
    <2>2. staleSweep' \in [CatalogGateways -> RunOrNone]
      BY <1>1, <1>3, <1>4, <1>5, <2>1
    <2> QED
      BY <1>1, <1>7, <2>1, <2>2, CallEnds
  \* A job takes up a stale run.
  <1>8. ASSUME NEW j \in CatalogJobs, NEW run \in RunOrNone, NEW sweep \in BOOLEAN,
               home' = home, run # 0,
               catalogRecord.state = "probing" /\ catalogRecord.run = run
                 => catalogRecord.left = 0,
               job[j].step \in {"idle", "look"},
               \/ job' = [job EXCEPT ![j].step = "reclaim", ![j].run = run]
               \/ job' = [job EXCEPT ![j].step = "reclaim", ![j].run = run,
                                     ![j].sweep = TRUE],
               UNCHANGED <<catalogRecord, catalogConfig, localVars, probeVars,
                           catalogFaults>>,
               staleSweep' \in [CatalogGateways -> RunOrNone]
        PROVE  CatalogIInv'
    <2>1. PICK r \in CatalogJob :
             job' = [job EXCEPT ![j] = r] /\ r.step = "reclaim" /\ r.run = run
      <3> DEFINE r1 == [job[j] EXCEPT !.step = "reclaim", !.run = run]
                 r2 == [job[j] EXCEPT !.step = "reclaim", !.run = run, !.sweep = TRUE]
      <3>1. job[j] \in CatalogJob
        BY <1>1
      <3>2. r1 \in CatalogJob /\ r1.step = "reclaim" /\ r1.run = run
        BY <3>1 DEF CatalogJob, JobSteps
      <3>3. r2 \in CatalogJob /\ r2.step = "reclaim" /\ r2.run = run
        BY <3>1 DEF CatalogJob, JobSteps
      <3>4. job' = [job EXCEPT ![j] = r1] \/ job' = [job EXCEPT ![j] = r2]
        BY <1>8, <3>1 DEF CatalogJob
      <3> HIDE DEF r1, r2
      <3> QED
        BY <3>2, <3>3, <3>4
    <2>2. JobSound(r) /\ r.step \notin RunningSteps \cup PermitSteps
      BY <1>8, <2>1 DEF JobSound, RunIs, RunningSteps, PermitSteps
    <2>3. job[j].step \notin PermitSteps /\ job[j].step # "waiting"
      BY <1>8 DEF PermitSteps, RunningSteps
    <2> QED
      BY <1>1, <1>8, <2>1, <2>2, <2>3, JobGoesOn
  <1>9. ASSUME NEW j \in CatalogJobs, home' = home, LookStarts(j) PROVE CatalogIInv'
    <2>1. /\ job[j].step = "look"
          /\ UNCHANGED <<catalogRecord, catalogConfig, staleSweep, probeVars, catalogFaults>>
      BY <1>9 DEF LookStarts
    <2>2. CASE catalogRecord.state = "probing"
      <3>1. /\ catalogRecord.left = 0 /\ UNCHANGED localVars
            /\ job' = [job EXCEPT ![j].step = "reclaim", ![j].run = catalogRecord.run]
        BY <1>9, <2>2 DEF LookStarts
      <3>2. catalogRecord.run # 0
        BY <1>1, <2>2 DEF CatalogSound
      <3>3. PICK run \in RunOrNone : run = catalogRecord.run
        BY <1>5
      <3>4. run # 0 /\ job' = [job EXCEPT ![j].step = "reclaim", ![j].run = run]
        BY <3>1, <3>2, <3>3
      <3>5. job[j].step \in {"idle", "look"} /\ staleSweep' \in [CatalogGateways -> RunOrNone]
        BY <1>1, <2>1
      <3> QED
        BY <1>8, <1>9, <2>1, <3>1, <3>4, <3>5
    <2>3. CASE catalogRecord.state # "probing"
      <3>1. Register(j)
        BY <1>9, <2>3 DEF LookStarts
      <3> QED
        BY <1>1, <1>9, <2>1, <3>1, RunRegistered
    <2> QED
      BY <2>2, <2>3
  <1>10. ASSUME NEW j \in CatalogJobs, home' = home, SweepFires(j) PROVE CatalogIInv'
    <2>1. PICK run \in RunOrNone : run = staleSweep[home[j]]
      BY <1>1, <1>4
    <2>2. /\ job[j].step = "idle" /\ run # 0
          /\ catalogRecord.state = "probing" /\ catalogRecord.run = run
               => catalogRecord.left = 0
          /\ staleSweep' = [staleSweep EXCEPT ![home[j]] = 0]
          /\ UNCHANGED <<catalogRecord, catalogConfig, localVars, probeVars, catalogFaults>>
          /\ \/ job' = job
             \/ job' = [job EXCEPT ![j].step = "reclaim", ![j].run = run, ![j].sweep = TRUE]
      BY <1>10, <2>1 DEF SweepFires
    <2>3. staleSweep' \in [CatalogGateways -> RunOrNone]
      BY <1>3, <1>4, <1>5, <2>2
    <2>4. CASE job' = job
      <3>1. job' = [job EXCEPT ![j] = job[j]]
        BY <1>1, <2>4
      <3>2. job[j].step \notin PermitSteps
        BY <2>2 DEF PermitSteps, RunningSteps
      <3> QED
        BY <1>1, <1>10, <2>2, <2>3, <3>1, <3>2, JobGoesOn
    <2>5. CASE job' = [job EXCEPT ![j].step = "reclaim", ![j].run = run, ![j].sweep = TRUE]
      <3>1. job[j].step \in {"idle", "look"}
        BY <2>2
      <3> QED
        BY <1>8, <1>10, <2>2, <2>3, <2>5, <3>1
    <2> QED
      BY <2>2, <2>4, <2>5
  <1>11. ASSUME NEW j \in CatalogJobs, home' = home, ReclaimDeletes(j) PROVE CatalogIInv'
    <2>1. /\ job[j].step = "reclaim" /\ job' = JobGoes(j, "reclaimed")
          /\ deleting' = [deleting EXCEPT ![job[j].run] = probeObjects[job[j].run]]
          /\ UNCHANGED <<catalogRecord, catalogConfig, localVars, staleSweep, probeObjects,
                         catalogFaults>>
      BY <1>11 DEF ReclaimDeletes
    <2>2. PICK r \in CatalogJob :
             /\ job' = [job EXCEPT ![j] = r]
             /\ r.step = "reclaimed" /\ r.run = job[j].run /\ r.receipts = job[j].receipts
      BY <2>1, JobStepsTo DEF JobSteps
    <2> QED
      BY <1>11, <2>1, <2>2, DeletionStarts
  <1>12. ASSUME NEW j \in CatalogJobs, home' = home, ReclaimEnds(j) PROVE CatalogIInv'
    <2>1. /\ job[j].step = "reclaimed" /\ deleting[job[j].run] = {}
          /\ UNCHANGED <<catalogConfig, probeVars, catalogFaults>>
          /\ job[j].sweep \in BOOLEAN
      BY <1>1, <1>12 DEF ReclaimEnds, CatalogJob
    <2>2. CASE ~Mine(j)
      <3>1. /\ catalogRecord' = catalogRecord /\ job' = JobEnds(j) /\ UNCHANGED localVars
            /\ staleSweep' \in {Swept(home[j], job[j].run), staleSweep}
        BY <1>12, <2>2 DEF ReclaimEnds
      <3>2. staleSweep' \in [CatalogGateways -> RunOrNone]
        BY <1>1, <1>3, <1>4, <3>1
      <3> QED
        BY <1>1, <1>12, <2>1, <3>1, <3>2, CallEnds
    <2>3. CASE Mine(j)
      <3>1. /\ catalogRecord' = [catalogRecord EXCEPT !.state = "failed",
                                   !.run = 0, !.receipts = {}, !.left = 0]
            /\ staleSweep' = [staleSweep EXCEPT ![home[j]] = 0]
            /\ IF ~job[j].sweep THEN Register(j)
               ELSE job' = JobEnds(j) /\ UNCHANGED localVars
        BY <1>12, <2>3 DEF ReclaimEnds
      <3>2. staleSweep' \in [CatalogGateways -> RunOrNone]
        BY <1>3, <1>4, <1>5, <3>1
      <3>3. CASE ~job[j].sweep
        BY <1>12, <2>1, <2>3, <3>1, <3>2, <3>3, RunRegistered
      <3>4. CASE job[j].sweep
        <4>1. job' = [job EXCEPT ![j] = IdleJob] /\ UNCHANGED localVars
          BY <3>1, <3>4 DEF JobEnds
        <4>2. /\ IdleJob \in CatalogJob /\ IdleJob.step = "idle" /\ IdleJob.run = 0
          <5>1. 0 \in 0 .. CatalogConfigs
            BY CatalogAssumption
          <5> QED
            BY <5>1 DEF IdleJob, CatalogJob, JobSteps, RunOrNone
        <4>3. /\ job' \in [CatalogJobs -> CatalogJob] /\ job'[j] = IdleJob
              /\ \A i \in CatalogJobs \ {j} : job'[i] = job[i]
          BY <1>1, <4>1, <4>2
        <4>4. /\ catalogRecord.state = "probing" /\ catalogRecord.run = job[j].run
              /\ catalogRecord'.state = "failed" /\ catalogRecord.left = 0
              /\ NoAckLost => probeObjects[job[j].run] = deleting[job[j].run]
          BY <1>1, <2>1, <2>3, <3>1 DEF Mine, RunIs, JobSound, CatalogRecords
        <4>5. \A i \in CatalogJobs : job[i].step \notin RunningSteps
          BY <1>1, <4>4 DEF JobSound
        <4>6. ASSUME NEW i \in CatalogJobs
              PROVE  \/ job'[i] = job[i] /\ job[i].step \notin RunningSteps
                     \/ job'[i].step \in {"idle", "waiting", "admit"} /\ job'[i].run = 0
          BY <4>2, <4>3, <4>5
        <4>7. CatalogSound'
          BY <1>1, <2>1, <4>4, <4>6, RecordCloses DEF probeVars
        <4>8. catalogRecord' \in CatalogRecords
          <5>1. 0 \in 0 .. 1 /\ 0 \in RunOrNone /\ {} \in SUBSET ProbeKinds
            BY DEF RunOrNone
          <5> QED
            BY <1>1, <3>1, <5>1 DEF CatalogRecords
        <4>9. CatalogTypeOK'
          BY <1>1, <1>12, <2>1, <3>2, <4>1, <4>3, <4>8 DEF CatalogTypeOK, localVars, probeVars
        <4>10. PermitsSound'
          <5>1. /\ IdleJob.step \notin PermitSteps /\ job[j].step \notin PermitSteps
                /\ job[j].step # "waiting"
            BY <2>1, <4>2 DEF PermitSteps, RunningSteps
          <5> QED
            BY <1>1, <1>12, <4>1, <5>1, PermitsUntouched DEF localVars
        <4> QED
          BY <4>7, <4>9, <4>10 DEF CatalogIInv
      <3> QED
        BY <2>1, <3>3, <3>4
    <2> QED
      BY <2>2, <2>3
  <1>13. ASSUME NEW j \in CatalogJobs, home' = home, ReclaimFails(j) PROVE CatalogIInv'
    <2>1. /\ job[j].step = "reclaimed" /\ job' = JobEnds(j)
          /\ staleSweep' \in {Swept(home[j], job[j].run), staleSweep}
          /\ UNCHANGED <<catalogRecord, catalogConfig, localVars, probeVars>>
          /\ catalogFaults' \in 0 .. MaxCatalogFaults
      BY <1>2, <1>13 DEF ReclaimFails
    <2>2. staleSweep' \in [CatalogGateways -> RunOrNone]
      BY <1>1, <1>3, <1>4, <2>1
    <2> QED
      BY <1>13, <2>1, <2>2, CallEnds
  <1>14. ASSUME NEW j \in CatalogJobs, home' = home, Admit(j) PROVE CatalogIInv'
    <2>1. /\ job[j].step = "admit" /\ job[j].step \in PermitSteps
          /\ UNCHANGED <<catalogRecord, catalogConfig, staleSweep, probeVars, catalogFaults>>
      BY <1>14 DEF Admit, PermitSteps
    <2>2. CASE EndRun(j)
      BY <1>1, <1>14, <2>1, <2>2, RunEndsQuietly
    <2>3. CASE job' = JobGoes(j, "record") /\ UNCHANGED localVars
      BY <1>1, <1>14, <2>1, <2>3, JobKeepsOn DEF JobSteps
    <2> QED
      BY <1>14, <2>2, <2>3 DEF Admit
  <1>15. ASSUME NEW j \in CatalogJobs, home' = home, CheckRecord(j) PROVE CatalogIInv'
    <2>1. /\ job[j].step = "record" /\ job[j].step \in PermitSteps
          /\ UNCHANGED <<catalogRecord, catalogConfig, staleSweep, probeVars, catalogFaults>>
      BY <1>15 DEF CheckRecord, PermitSteps
    <2>2. CASE EndRun(j)
      BY <1>1, <1>15, <2>1, <2>2, RunEndsQuietly
    <2>3. CASE job' = JobGoes(j, "claim") /\ UNCHANGED localVars
      BY <1>1, <1>15, <2>1, <2>3, JobKeepsOn DEF JobSteps
    <2> QED
      BY <1>15, <2>2, <2>3 DEF CheckRecord
  <1>16. ASSUME NEW j \in CatalogJobs, home' = home, CreateFails(j) PROVE CatalogIInv'
    <2>1. /\ job[j].step \in ProbeKinds /\ job' = JobGoes(j, "cleanup")
          /\ UNCHANGED <<catalogRecord, catalogConfig, localVars, staleSweep, deleting>>
          /\ catalogFaults' \in 0 .. MaxCatalogFaults
          /\ \/ probeObjects' = probeObjects
             \/ /\ "lostAck" \in CatalogFaultKinds
                /\ probeObjects' = [probeObjects EXCEPT ![job[j].run] = @ \cup {job[j].step}]
      BY <1>2, <1>16 DEF CreateFails
    <2>2. job[j].step \in RunningSteps
      BY <2>1 DEF ProbeKinds, RunningSteps
    <2> QED
      BY <1>16, <2>1, <2>2, JobKeepsOn, ObjectUnacknowledged DEF JobSteps, probeVars
  <1>17. ASSUME NEW j \in CatalogJobs, home' = home, ProbeAdvances(j) PROVE CatalogIInv'
    <2>1. /\ job[j].step \in {"ready", "converse"} /\ job[j].step \in RunningSteps
          /\ UNCHANGED <<catalogRecord, catalogConfig, localVars, staleSweep, probeVars,
                         catalogFaults>>
      BY <1>17 DEF ProbeAdvances, RunningSteps
    <2>2. CASE job[j].step = "ready"
      <3>1. job' = JobGoes(j, "converse")
        BY <1>17, <2>2 DEF ProbeAdvances
      <3> QED
        BY <1>1, <1>17, <2>1, <3>1, JobKeepsOn DEF JobSteps
    <2>3. CASE job[j].step = "converse"
      <3> DEFINE r == [job[j] EXCEPT !.step = "cleanup", !.ok = TRUE]
      <3>1. job' = [job EXCEPT ![j] = r]
        BY <1>17, <2>3 DEF ProbeAdvances
      <3>2. /\ r \in CatalogJob /\ r.step = "cleanup" /\ r.run = job[j].run
            /\ r.receipts = job[j].receipts
        <4>1. job[j] \in CatalogJob
          BY <1>1
        <4> QED
          BY <4>1 DEF CatalogJob, JobSteps
      <3> HIDE DEF r
      <3>3. JobSound(job[j])
        BY <1>1
      <3>4. JobSound(r)
        BY <2>1, <3>2, <3>3 DEF JobSound, RunIs, RunningSteps
      <3>5. r.step \in PermitSteps /\ job[j].step \in PermitSteps /\ job[j].step # "waiting"
        BY <2>3, <3>2 DEF PermitSteps, RunningSteps
      <3> QED
        BY <1>1, <1>17, <2>1, <3>1, <3>2, <3>4, <3>5, JobGoesOn
    <2> QED
      BY <2>1, <2>2, <2>3
  <1>18. ASSUME NEW j \in CatalogJobs, home' = home, ProbeFails(j) PROVE CatalogIInv'
    <2>1. /\ job[j].step \in RunningSteps /\ job' = JobGoes(j, "cleanup")
          /\ UNCHANGED <<catalogRecord, catalogConfig, localVars, staleSweep, probeVars,
                         catalogFaults>>
      BY <1>18 DEF ProbeFails, RunningSteps
    <2> QED
      BY <1>1, <1>18, <2>1, JobKeepsOn DEF JobSteps
  <1>19. ASSUME NEW j \in CatalogJobs, home' = home, CleanupDeletes(j) PROVE CatalogIInv'
    <2>1. /\ job[j].step = "cleanup" /\ job' = JobGoes(j, "gone")
          /\ deleting' = [deleting EXCEPT ![job[j].run]
                            = @ \cup (probeObjects[job[j].run] \cap job[j].receipts)]
          /\ UNCHANGED <<catalogRecord, catalogConfig, localVars, staleSweep, probeObjects,
                         catalogFaults>>
      BY <1>19 DEF CleanupDeletes
    <2> DEFINE found == deleting[job[j].run]
                          \cup (probeObjects[job[j].run] \cap job[j].receipts)
    <2>2. /\ job[j].run \in ProbeRuns
          /\ NoAckLost => probeObjects[job[j].run] \subseteq job[j].receipts
      BY <1>1, <1>4, <2>1 DEF JobSound, RunningSteps, RunOrNone
    <2>3. /\ found \in SUBSET probeObjects[job[j].run]
          /\ NoAckLost => found = probeObjects[job[j].run]
      <3>1. deleting[job[j].run] \subseteq probeObjects[job[j].run]
        BY <1>1, <2>2 DEF CatalogTypeOK
      <3> QED
        BY <2>2, <3>1
    <2>4. deleting' = [deleting EXCEPT ![job[j].run] = found]
      BY <2>1
    <2> HIDE DEF found
    <2>5. PICK r \in CatalogJob :
             /\ job' = [job EXCEPT ![j] = r]
             /\ r.step = "gone" /\ r.run = job[j].run /\ r.receipts = job[j].receipts
      BY <2>1, JobStepsTo DEF JobSteps
    <2> QED
      BY <1>19, <2>1, <2>3, <2>4, <2>5, DeletionStarts
  <1>20. ASSUME NEW j \in CatalogJobs, home' = home, CleanupEnds(j) PROVE CatalogIInv'
    <2>1. PICK step \in {"verify", "failed"} :
             /\ job[j].step = "gone" /\ deleting[job[j].run] = {} /\ job' = JobGoes(j, step)
             /\ UNCHANGED <<catalogRecord, catalogConfig, localVars, staleSweep, probeVars,
                            catalogFaults>>
      BY <1>20 DEF CleanupEnds
    <2>2. (NoAckLost => probeObjects[job[j].run] = {}) /\ job[j].step \in RunningSteps
      BY <1>1, <2>1 DEF JobSound, RunningSteps
    <2> QED
      BY <1>1, <1>20, <2>1, <2>2, JobKeepsOn DEF JobSteps
  <1>21. ASSUME NEW j \in CatalogJobs, home' = home, CleanupFails(j) PROVE CatalogIInv'
    <2>1. /\ job[j].step = "gone" /\ EndRun(j) /\ catalogFaults' \in 0 .. MaxCatalogFaults
          /\ UNCHANGED <<catalogRecord, catalogConfig, staleSweep, probeVars>>
      BY <1>2, <1>21 DEF CleanupFails
    <2>2. job[j].step \in PermitSteps
      BY <2>1 DEF PermitSteps, RunningSteps
    <2> QED
      BY <1>21, <2>1, <2>2, RunEndsQuietly
  <1>22. ASSUME NEW j \in CatalogJobs, home' = home, VerifyConfig(j) PROVE CatalogIInv'
    <2>1. PICK step \in {"publish", "failed"} :
             /\ job[j].step = "verify" /\ job' = JobGoes(j, step)
             /\ UNCHANGED <<catalogRecord, catalogConfig, localVars, staleSweep, probeVars,
                            catalogFaults>>
      BY <1>22 DEF VerifyConfig
    <2>2. (NoAckLost => probeObjects[job[j].run] = {}) /\ job[j].step \in RunningSteps
      BY <1>1, <2>1 DEF JobSound, RunningSteps
    <2> QED
      BY <1>1, <1>22, <2>1, <2>2, JobKeepsOn DEF JobSteps
  <1>23. ASSUME NEW g \in CatalogGateways, home' = home, OtherRunBegins(g) \/ OtherRunEnds(g)
         PROVE  CatalogIInv'
    <2>1. UNCHANGED <<catalogRecord, catalogConfig, pending, staleSweep, probeVars,
                      catalogFaults>>
      BY <1>23 DEF OtherRunBegins, OtherRunEnds
    <2>2. /\ PermitsSound' /\ job' \in [CatalogJobs -> CatalogJob]
          /\ activeProbes' \in [CatalogGateways -> Nat]
          /\ permitQueue' \in [CatalogGateways -> Seq(CatalogJobs \cup {"other"})]
          /\ otherRun' \in [CatalogGateways -> {"none", "running", "waiting"}]
          /\ \A i \in CatalogJobs :
               \/ job'[i] = job[i]
               \/ job[i].step = "waiting" /\ job'[i] = [job[i] EXCEPT !.step = "admit"]
      BY <1>1, <1>23, OtherRunKeeps
    <2>3. \A i \in CatalogJobs :
            \/ job'[i] = job[i]
            \/ JobSound(job'[i]) /\ job'[i].step \notin RunningSteps
      BY <1>1, <2>2, AdmittedIsSound
    <2>4. CatalogSound'
      BY <1>1, <2>1, <2>3, JobsGoOn DEF probeVars
    <2>5. CatalogTypeOK'
      BY <1>1, <1>23, <2>1, <2>2 DEF CatalogTypeOK, probeVars
    <2> QED
      BY <2>2, <2>4, <2>5 DEF CatalogIInv
  <1>24. ASSUME home' = home, ConfigEdited PROVE CatalogIInv'
    <2>1. /\ catalogConfig' \in 1 .. CatalogConfigs
          /\ UNCHANGED <<catalogRecord, job, localVars, staleSweep, probeVars, catalogFaults>>
      BY <1>1, <1>24, CatalogAssumption DEF ConfigEdited
    <2>2. CatalogTypeOK'
      BY <1>1, <1>24, <2>1 DEF CatalogTypeOK, localVars, probeVars
    <2>3. CatalogSound'
      BY <1>1, <2>1, JobsGoOn DEF probeVars
    <2>4. PermitsSound'
      BY <1>1, <1>24, <2>1, PermitsAsTheyWere DEF localVars
    <2> QED
      BY <2>2, <2>3, <2>4 DEF CatalogIInv
  <1>25. CASE UNCHANGED catalogVars
    <2>1. UNCHANGED <<catalogRecord, catalogConfig, job, home, pending, activeProbes,
                      permitQueue, otherRun, staleSweep, probeObjects, deleting,
                      catalogFaults>>
      BY <1>25 DEF catalogVars
    <2>2. CatalogTypeOK'
      BY <1>1, <2>1 DEF CatalogTypeOK
    <2>3. CatalogSound'
      BY <1>1, <2>1, JobsGoOn
    <2>4. PermitsSound'
      BY <1>1, <2>1, PermitsAsTheyWere
    <2> QED
      BY <2>2, <2>3, <2>4 DEF CatalogIInv
  <1>26. CASE CatalogNext
    <2>1. home' = home /\ CatalogStep
      BY <1>26 DEF CatalogNext
    <2>2. CASE \E j \in CatalogJobs :
                 \/ JobStep(j) \/ SweepFires(j)
                 \/ \E force \in BOOLEAN : SnapshotBegins(j, force)
                 \/ CreateFails(j) \/ ReclaimFails(j) \/ CleanupFails(j)
      BY <1>6, <1>7, <1>9, <1>10, <1>11, <1>12, <1>13, <1>14, <1>15, <1>16, <1>17, <1>18,
         <1>19, <1>20, <1>21, <1>22, <2>1, <2>2, RunClaimed, ObjectCreated, ReceiptsStored,
         RunConcludes
         DEF JobStep
    <2>3. CASE \E g \in CatalogGateways :
                 CatalogCrash(g) \/ OtherRunBegins(g) \/ OtherRunEnds(g)
      BY <1>23, <2>1, <2>3, GatewayReplaced
    <2>4. CASE \E run \in ProbeRuns : ObjectGone(run)
      BY <2>1, <2>4, ObjectsVanish
    <2>5. CASE ConfigEdited \/ CatalogTick
      BY <1>24, <2>1, <2>5, RunGrowsStale
    <2> QED
      BY <2>1, <2>2, <2>3, <2>4, <2>5 DEF CatalogStep
  <1> QED
    BY <1>25, <1>26

LEMMA CatalogAccounts ==
  /\ CatalogIInv => OneProbeAtATime /\ PermitsConserved
  /\ NoAckLost => (CatalogIInv => ProbesAccounted)
  <1>1. CatalogIInv => OneProbeAtATime /\ PermitsConserved
    BY PermitsKept DEF CatalogIInv, CatalogSound
  <1>2. NoAckLost => (CatalogIInv => ProbeObjectsAccounted)
    BY DEF CatalogIInv, CatalogSound, ObjectsRecorded, ProbeObjectsAccounted
  <1> QED
    BY <1>1, <1>2 DEF ProbesAccounted

\* One probe of a project runs at a time, and permits are neither lost nor
\* invented, whatever calls fail and processes end (ProviderCatalogService).
THEOREM ProbesTakeTurns == CatalogSpec => [](OneProbeAtATime /\ PermitsConserved)
  BY CatalogInitial, CatalogInductive, CatalogAccounts, PTL DEF CatalogSpec

\* And the objects of a probe are found by who deletes them, when a create
\* call that failed has made nothing: otherwise they are not.
THEOREM ProbesAreAccounted ==
  ASSUME NoAckLost
  PROVE  CatalogSpec => []ProbesAccounted
  BY CatalogInitial, CatalogInductive, CatalogAccounts, PTL DEF CatalogSpec
=============================================================================
