--------------------------- MODULE TransferProofs ---------------------------
(***************************************************************************)
(* What a session lends out while something is on its way, for every       *)
(* number of sessions, names, files and requests: the bytes of staged      *)
(* uploads are given back exactly once (UploadStaging), the catalog of a   *)
(* name is followed while a session is interested in it and dropped with   *)
(* the last one (ProviderInterests), and the transcript of a stopped       *)
(* workspace is read one request at a time and shown only while it is the  *)
(* present one (HistoryReader), is stored whole by whichever recorder      *)
(* publishes it (RetainedHistory), and a subscriber of a file ends up with *)
(* its newest version (FileSubscriptions).                                 *)
(***************************************************************************)
EXTENDS UploadStaging, ProviderInterests, HistoryReader, RetainedHistory,
        FileSubscriptions, FiniteSetTheorems, SequenceTheorems, TLAPS

-----------------------------------------------------------------------------
(* The bytes of a set of rows.                                              *)

Sizes == [Uploads -> UploadRow]
Pieces(f, rows) == UNION {{u} \X (1 .. f[u].size) : u \in rows}
Sized(f, rows) == \A u \in rows : f[u].size \in Nat

LEMMA PieceOfOne ==
  ASSUME NEW u, NEW n \in Nat
  PROVE  IsFiniteSet({u} \X (1 .. n)) /\ Cardinality({u} \X (1 .. n)) = n
  <1>1. IsFiniteSet({u}) /\ Cardinality({u}) = 1
    BY FS_Singleton
  <1>2. IsFiniteSet(1 .. n) /\ Cardinality(1 .. n) = n
    BY FS_Interval, SMT
  <1>3. /\ IsFiniteSet({u} \X (1 .. n))
        /\ Cardinality({u} \X (1 .. n)) = Cardinality({u}) * Cardinality(1 .. n)
    BY <1>1, <1>2, FS_Product
  <1> QED
    BY <1>1, <1>2, <1>3

LEMMA PiecesFinite ==
  ASSUME NEW f, NEW rows \in SUBSET Uploads, Sized(f, rows)
  PROVE  IsFiniteSet(Pieces(f, rows)) /\ Cardinality(Pieces(f, rows)) \in Nat
  <1> DEFINE piece == [u \in rows |-> {u} \X (1 .. f[u].size)]
  <1> DEFINE parts == {{u} \X (1 .. f[u].size) : u \in rows}
  <1>1. IsFiniteSet(rows)
    BY UploadAssumption, FS_Subset
  <1>2. piece \in Surjection(rows, parts)
    BY DEF Surjection
  <1>3. IsFiniteSet(parts)
    BY <1>1, <1>2, FS_Surjection
  <1>4. ASSUME NEW u \in rows PROVE IsFiniteSet({u} \X (1 .. f[u].size))
    BY PieceOfOne DEF Sized
  <1>5. IsFiniteSet(UNION parts)
    BY <1>3, <1>4, FS_UNION
  <1> QED
    BY <1>5, FS_CardinalityType DEF Pieces

\* The bytes of two sets of rows that have no row in common add up.
LEMMA PiecesAdd ==
  ASSUME NEW f, NEW rows \in SUBSET Uploads, NEW more \in SUBSET Uploads,
         Sized(f, rows), Sized(f, more), rows \cap more = {}
  PROVE  Cardinality(Pieces(f, rows \cup more))
           = Cardinality(Pieces(f, rows)) + Cardinality(Pieces(f, more))
  <1>1. Pieces(f, rows \cup more) = Pieces(f, rows) \cup Pieces(f, more)
    BY DEF Pieces
  <1>2. Pieces(f, rows) \cap Pieces(f, more) = {}
    BY DEF Pieces
  <1>3. /\ IsFiniteSet(Pieces(f, rows)) /\ IsFiniteSet(Pieces(f, more))
        /\ Cardinality(Pieces(f, rows)) \in Nat /\ Cardinality(Pieces(f, more)) \in Nat
    BY PiecesFinite
  <1>4. Cardinality(Pieces(f, rows) \cap Pieces(f, more)) = 0
    BY <1>2, FS_EmptySet
  <1>5. Cardinality(Pieces(f, rows) \cup Pieces(f, more))
          = Cardinality(Pieces(f, rows)) + Cardinality(Pieces(f, more)) - 0
    BY <1>3, <1>4, FS_Union
  <1>6. ASSUME NEW a \in Nat, NEW b \in Nat PROVE a + b - 0 = a + b
    OBVIOUS
  <1> QED
    BY <1>1, <1>3, <1>5, <1>6

LEMMA PiecesOfOne ==
  ASSUME NEW f, NEW u \in Uploads, f[u].size \in Nat
  PROVE  Cardinality(Pieces(f, {u})) = f[u].size
  <1>1. Pieces(f, {u}) = {u} \X (1 .. f[u].size)
    BY DEF Pieces
  <1> QED
    BY <1>1, PieceOfOne

LEMMA PiecesOfNone == ASSUME NEW f PROVE Cardinality(Pieces(f, {})) = 0
  BY FS_EmptySet DEF Pieces

LEMMA PiecesSame ==
  ASSUME NEW f, NEW g, NEW rows, \A u \in rows : f[u].size = g[u].size
  PROVE  Pieces(f, rows) = Pieces(g, rows)
  BY DEF Pieces

-----------------------------------------------------------------------------
(* The rows of a map, and what a step does to their bytes.                  *)

RowsOf(f) == {u \in Uploads : f[u] # NoUpload}
Total(f) == Cardinality(Pieces(f, RowsOf(f)))
RowsWithout(f, gone) == [u \in Uploads |-> IF u \in gone THEN NoUpload ELSE f[u]]

LEMMA RowShape ==
  ASSUME NEW row \in UploadRow, row # NoUpload
  PROVE  /\ row.state \in {"pending", "staged", "sending"} /\ row.session \in UploadSessions
         /\ row.size \in FileSizes /\ row.size \in Nat /\ row.bytes \in Nat
         /\ row.begun \in BOOLEAN /\ row.life \in 0 .. UploadLife /\ row.sends \in 0 .. 2
  BY UploadAssumption DEF UploadRow

LEMMA RowMade ==
  ASSUME NEW state \in {"pending", "staged", "sending"}, NEW s \in UploadSessions,
         NEW size \in FileSizes, NEW bytes \in Nat, NEW begun \in BOOLEAN,
         NEW life \in 0 .. UploadLife, NEW sends \in 0 .. 2
  PROVE  LET row == [state |-> state, session |-> s, size |-> size, bytes |-> bytes,
                     begun |-> begun, life |-> life, sends |-> sends]
         IN  row \in UploadRow /\ row # NoUpload
  <1> DEFINE row == [state |-> state, session |-> s, size |-> size, bytes |-> bytes,
                     begun |-> begun, life |-> life, sends |-> sends]
  <1>1. row.state # "none" /\ NoUpload.state = "none"
    BY DEF NoUpload
  <1> QED
    BY <1>1 DEF UploadRow

LEMMA RowsSized ==
  ASSUME NEW f \in Sizes, NEW rows \in SUBSET RowsOf(f)
  PROVE  Sized(f, rows) /\ rows \in SUBSET Uploads /\ Cardinality(Pieces(f, rows)) \in Nat
  <1>1. Sized(f, rows) /\ rows \in SUBSET Uploads
    BY RowShape DEF RowsOf, Sized, Sizes
  <1> QED
    BY <1>1, PiecesFinite

\* Rows go with their bytes.
LEMMA RowsGo ==
  ASSUME NEW f \in Sizes, NEW gone \in SUBSET RowsOf(f), NEW g, g = RowsWithout(f, gone)
  PROVE  /\ g \in Sizes /\ RowsOf(g) = RowsOf(f) \ gone
         /\ \A u \in Uploads \ gone : g[u] = f[u]
         /\ Total(g) = Total(f) - Cardinality(Pieces(f, gone))
         /\ Total(g) \in Nat /\ Total(f) \in Nat /\ Cardinality(Pieces(f, gone)) \in Nat
  <1>1. /\ g \in Sizes /\ RowsOf(g) = RowsOf(f) \ gone
        /\ \A u \in Uploads \ gone : g[u] = f[u]
    BY DEF RowsWithout, Sizes, RowsOf, UploadRow
  <1>2. PICK left : left = RowsOf(f) \ gone
    OBVIOUS
  <1>3. /\ Sized(f, left) /\ Sized(f, gone) /\ left \in SUBSET Uploads /\ gone \in SUBSET Uploads
        /\ Cardinality(Pieces(f, left)) \in Nat /\ Cardinality(Pieces(f, gone)) \in Nat
    BY <1>2, RowsSized
  <1>4. left \cup gone = RowsOf(f) /\ left \cap gone = {}
    BY <1>2
  <1>5. Total(f) = Cardinality(Pieces(f, left)) + Cardinality(Pieces(f, gone))
    BY <1>3, <1>4, PiecesAdd DEF Total
  <1>6. Total(g) = Cardinality(Pieces(f, left))
    BY <1>1, <1>2, PiecesSame DEF Total, RowsOf
  <1> HIDE DEF Total
  <1>7. ASSUME NEW a \in Nat, NEW b \in Nat PROVE a = (a + b) - b /\ a + b \in Nat
    OBVIOUS
  <1>8. PICK a \in Nat, b \in Nat : a = Cardinality(Pieces(f, left)) /\ b = Cardinality(Pieces(f, gone))
    BY <1>3
  <1> QED
    BY <1>1, <1>5, <1>6, <1>7, <1>8

\* A row comes with its bytes.
LEMMA RowComes ==
  ASSUME NEW f \in Sizes, NEW u \in Uploads, f[u] = NoUpload,
         NEW row \in UploadRow, row # NoUpload, NEW g, g = [f EXCEPT ![u] = row]
  PROVE  g \in Sizes /\ Total(g) = Total(f) + row.size
  <1>1. /\ g \in Sizes /\ g[u] = row /\ \A v \in Uploads \ {u} : g[v] = f[v]
    BY DEF Sizes
  <1>2. RowsOf(g) = RowsOf(f) \cup {u} /\ RowsOf(f) \cap {u} = {}
    BY <1>1 DEF RowsOf
  <1>3. RowsOf(f) \in SUBSET RowsOf(g) /\ {u} \in SUBSET RowsOf(g)
    BY <1>2
  <1>4. /\ Sized(g, RowsOf(f)) /\ Sized(g, {u})
        /\ RowsOf(f) \in SUBSET Uploads /\ {u} \in SUBSET Uploads
    BY <1>1, <1>3, RowsSized
  <1>5. Total(g) = Cardinality(Pieces(g, RowsOf(f))) + Cardinality(Pieces(g, {u}))
    BY ZenonT(60), <1>2, <1>4, PiecesAdd DEF Total
  <1>6. Pieces(g, RowsOf(f)) = Pieces(f, RowsOf(f))
    <2>1. PICK rows : rows = RowsOf(f)
      OBVIOUS
    <2>2. \A v \in rows : g[v].size = f[v].size
      BY <1>1, <2>1 DEF RowsOf
    <2>3. Pieces(g, rows) = Pieces(f, rows)
      BY <2>2 DEF Pieces
    <2> QED
      BY <2>1, <2>3
  <1>7. Cardinality(Pieces(g, {u})) = row.size
    <2>1. g[u].size \in Nat
      BY <1>1, RowShape
    <2>2. Cardinality(Pieces(g, {u})) = g[u].size
      BY <2>1, PiecesOfOne
    <2> QED
      BY <1>1, <2>2
  <1> QED
    BY <1>1, <1>5, <1>6, <1>7 DEF Total

\* Whatever else happens to a row leaves its bytes reserved.
LEMMA RowsStay ==
  ASSUME NEW f, NEW g, RowsOf(f) = RowsOf(g), \A u \in RowsOf(f) : f[u].size = g[u].size
  PROVE  Total(f) = Total(g)
  BY PiecesSame DEF Total

-----------------------------------------------------------------------------
(* Staged uploads (UploadStaging of uploads.ts).                            *)

\* No row holds more than was announced, and a file is on its way to a
\* workspace at most once.
RowsRight(f) ==
  \A u \in Uploads : f[u] # NoUpload =>
    /\ f[u].bytes <= f[u].size
    /\ f[u].sends = IF f[u].state = "sending" THEN 1 ELSE 0

Sends(call) == call.step = "sending"

\* A file that is being sent is sent by one call, which will give it back.
CallsRight(f, calls) ==
  \A m \in Messages : Sends(calls[m]) =>
    /\ f[calls[m].file].state = "sending"
    /\ \A n \in Messages : Sends(calls[n]) /\ calls[n].file = calls[m].file => n = m

UploadIInv ==
  /\ UploadTypeOK /\ ReservedMatchesHeld
  /\ RowsRight(upload) /\ CallsRight(upload, message)

LEMMA HeldAre == Bytes({u \in Uploads : upload[u] # NoUpload}) = Total(upload)
  BY DEF Bytes, Total, RowsOf, Pieces

LEMMA UploadInitial == UploadInit => UploadIInv
  <1> SUFFICES ASSUME UploadInit PROVE UploadIInv
    OBVIOUS
  <1>1. {u \in Uploads : upload[u] # NoUpload} = {}
    BY DEF UploadInit
  <1>2. Bytes({}) = 0
    BY FS_EmptySet DEF Bytes
  <1>3. ReservedMatchesHeld
    BY <1>1, <1>2 DEF UploadInit, ReservedMatchesHeld
  <1>4. UploadTypeOK
    BY UploadAssumption DEF UploadInit, UploadTypeOK, UploadRow, MessageCall
  <1> QED
    BY <1>3, <1>4 DEF UploadInit, UploadIInv, RowsRight, CallsRight, Sends, NoMessage

\* The shape of the sets a step deletes: rows that are held, none of them under
\* way.
LEMMA HeldRows ==
  ASSUME NEW s
  PROVE  /\ Held(s) \in SUBSET RowsOf(upload) /\ Lapsed(s) \in SUBSET Held(s)
         /\ \A u \in Held(s) : upload[u].state # "sending"
  BY DEF Held, Lapsed, RowsOf, NoUpload

\* Held rows are deleted and their bytes are given back.
LEMMA HeldRowsGo ==
  ASSUME UploadIInv, NEW s, NEW gone \in SUBSET Held(s),
         NEW g, g = Without(gone), NEW left, left = reservedBytes - Bytes(gone)
  PROVE  /\ g \in Sizes /\ left \in 0 .. MaxUploadTotal /\ left = Total(g)
         /\ RowsRight(g) /\ CallsRight(g, message)
         /\ \A u \in Uploads \ gone : g[u] = upload[u]
  <1>1. upload \in Sizes /\ gone \in SUBSET RowsOf(upload) /\ g = RowsWithout(upload, gone)
    BY HeldRows DEF UploadIInv, UploadTypeOK, Sizes, Without, RowsWithout
  <1>2. /\ reservedBytes = Total(upload) /\ Bytes(gone) = Cardinality(Pieces(upload, gone))
        /\ reservedBytes \in 0 .. MaxUploadTotal
    BY HeldAre DEF UploadIInv, UploadTypeOK, ReservedMatchesHeld, Bytes, Pieces
  <1>3. /\ g \in Sizes /\ \A u \in Uploads \ gone : g[u] = upload[u]
        /\ RowsOf(g) = RowsOf(upload) \ gone
        /\ Total(g) = Total(upload) - Cardinality(Pieces(upload, gone))
        /\ Total(g) \in Nat /\ Cardinality(Pieces(upload, gone)) \in Nat
    BY <1>1, RowsGo
  <1>4. left = Total(g) /\ left \in 0 .. MaxUploadTotal
    <2>1. left = Total(g)
      BY <1>2, <1>3
    <2>2. PICK freed \in Nat : freed = Cardinality(Pieces(upload, gone))
      BY <1>3
    <2>3. left = reservedBytes - freed
      BY <1>2, <2>2
    <2>4. left \in Nat
      BY <1>3, <2>1
    <2>5. reservedBytes \in 0 .. MaxUploadTotal
      BY <1>2
    <2> QED
      BY <2>1, <2>2, <2>3, <2>4, <2>5, UploadAssumption
  <1>5. RowsRight(g)
    BY <1>3 DEF UploadIInv, RowsRight, RowsOf
  <1>6. CallsRight(g, message)
    <2>1. ASSUME NEW m \in Messages, Sends(message[m]) PROVE g[message[m].file].state = "sending"
      <3>1. message[m].file \in Uploads /\ upload[message[m].file].state = "sending"
        BY <2>1 DEF UploadIInv, UploadTypeOK, CallsRight, Sends, MessageCall, NoMessage
      <3> QED
        BY <1>3, <3>1, HeldRows
    <2> QED
      BY <2>1 DEF UploadIInv, CallsRight
  <1> QED
    BY <1>3, <1>4, <1>5, <1>6

\* What a step leaves: the conjuncts of the invariant for the next state.
LEMMA UploadsKept ==
  ASSUME upload' \in Sizes, RowsRight(upload'), reservedBytes' \in 0 .. MaxUploadTotal,
         reservedBytes' = Total(upload'), message' \in [Messages -> MessageCall],
         CallsRight(upload', message'),
         expiryTimer' \subseteq UploadSessions, sessionOpen' \subseteq UploadSessions
  PROVE  UploadIInv'
  <1>1. UploadTypeOK'
    BY DEF UploadTypeOK, Sizes, RowsRight
  <1>2. ReservedMatchesHeld'
    BY DEF ReservedMatchesHeld, Total, Bytes, Pieces, RowsOf
  <1> QED
    BY <1>1, <1>2 DEF UploadIInv, RowsRight, CallsRight, Sends

LEMMA UploadsNow ==
  ASSUME UploadIInv
  PROVE  /\ upload \in Sizes /\ reservedBytes = Total(upload)
         /\ reservedBytes \in 0 .. MaxUploadTotal
         /\ message \in [Messages -> MessageCall] /\ expiryTimer \subseteq UploadSessions
         /\ sessionOpen \subseteq UploadSessions
         /\ RowsRight(upload) /\ CallsRight(upload, message)
  BY HeldAre DEF UploadIInv, UploadTypeOK, ReservedMatchesHeld, Sizes

\* Rows lapse, or go with their session.
LEMMA RowsLapse ==
  ASSUME UploadIInv, NEW s \in UploadSessions, TimerTicks(s) \/ ClearUploads(s)
  PROVE  UploadIInv'
  <1>1. PICK gone \in SUBSET Held(s) :
          upload' = Without(gone) /\ reservedBytes' = reservedBytes - Bytes(gone)
    BY HeldRows DEF TimerTicks, ClearUploads
  <1>2. /\ upload' \in Sizes /\ reservedBytes' \in 0 .. MaxUploadTotal
        /\ reservedBytes' = Total(upload') /\ RowsRight(upload')
        /\ CallsRight(upload', message)
    BY <1>1, HeldRowsGo
  <1>3. message' = message /\ expiryTimer' \subseteq UploadSessions
        /\ sessionOpen' \subseteq UploadSessions
    BY UploadsNow DEF TimerTicks, ClearUploads
  <1>4. message' \in [Messages -> MessageCall]
    BY <1>3, UploadsNow
  <1> QED
    BY <1>2, <1>3, <1>4, UploadsKept

LEMMA CallShape ==
  ASSUME NEW call \in MessageCall
  PROVE  /\ call.step \in {"idle", "next", "sending"}
         /\ call.step # "idle" => call.session \in UploadSessions /\ call.files \in SUBSET Uploads
         /\ call.step = "sending" => call.file \in Uploads
  BY DEF MessageCall, NoMessage

\* A message names staged files; what has lapsed is dropped first.
LEMMA ReplaceBegins ==
  ASSUME UploadIInv, NEW m \in Messages, NEW s \in UploadSessions,
         NEW files \in SUBSET Uploads, BeginReplace(m, s, files)
  PROVE  UploadIInv'
  <1>1. /\ upload' \in Sizes /\ reservedBytes' \in 0 .. MaxUploadTotal
        /\ reservedBytes' = Total(upload') /\ RowsRight(upload')
        /\ CallsRight(upload', message)
    BY HeldRows, HeldRowsGo DEF BeginReplace
  <1>2. PICK call : call = [step |-> "next", session |-> s, files |-> files]
    OBVIOUS
  <1>3. call \in MessageCall /\ ~Sends(call)
    BY <1>2 DEF MessageCall, Sends
  <1>4. message' = [message EXCEPT ![m] = call] /\ message \in [Messages -> MessageCall]
    BY <1>2, UploadsNow DEF BeginReplace
  <1>5. message' \in [Messages -> MessageCall] /\ CallsRight(upload', message')
    BY <1>1, <1>3, <1>4 DEF CallsRight
  <1>6. expiryTimer' \subseteq UploadSessions /\ sessionOpen' \subseteq UploadSessions
    BY UploadsNow DEF BeginReplace
  <1> QED
    BY <1>1, <1>5, <1>6, UploadsKept

\* A row is announced: its bytes fit beside all that are reserved.
LEMMA RowBegins ==
  ASSUME UploadIInv, NEW s \in UploadSessions, NEW u \in Uploads, NEW size \in FileSizes,
         BeginUpload(s, u, size)
  PROVE  UploadIInv'
  <1>1. PICK g : g = Without(Lapsed(s))
    OBVIOUS
  <1>2. PICK left : left = reservedBytes - Bytes(Lapsed(s))
    OBVIOUS
  <1>3. /\ g \in Sizes /\ left \in 0 .. MaxUploadTotal /\ left = Total(g)
        /\ RowsRight(g) /\ CallsRight(g, message)
        /\ \A v \in Uploads \ Lapsed(s) : g[v] = upload[v]
    BY <1>1, <1>2, HeldRows, HeldRowsGo
  <1>4. g[u] = NoUpload
    BY <1>1 DEF BeginUpload, Without
  <1>5. PICK row : row = [state |-> "pending", session |-> s, size |-> size, bytes |-> 0,
                          begun |-> FALSE, life |-> UploadLife, sends |-> 0]
    OBVIOUS
  <1>6. UploadLife \in 0 .. UploadLife /\ 0 \in 0 .. 2 /\ size \in Nat
    BY UploadAssumption
  <1>7. row \in UploadRow /\ row # NoUpload
    BY <1>5, <1>6, RowMade
  <1>8. row.size = size /\ row.bytes = 0 /\ row.sends = 0 /\ row.state = "pending"
    BY <1>5
  <1>9. upload' = [g EXCEPT ![u] = row] /\ reservedBytes' = left + size
        /\ left + size <= MaxUploadTotal
    BY <1>1, <1>2, <1>5 DEF BeginUpload
  <1>10. upload' \in Sizes /\ Total(upload') = Total(g) + size
    BY <1>3, <1>4, <1>7, <1>8, <1>9, RowComes
  <1>11. RowsRight(upload')
    BY <1>3, <1>6, <1>8, <1>9 DEF RowsRight, Sizes
  <1>12. CallsRight(upload', message)
    <2>1. g[u].state # "sending"
      BY <1>4 DEF NoUpload
    <2>2. ASSUME NEW m \in Messages, Sends(message[m])
          PROVE  upload'[message[m].file].state = "sending"
      <3>1. message[m].file \in Uploads
        BY <2>2, UploadsNow, CallShape DEF Sends
      <3> QED
        BY <1>3, <1>9, <2>1, <2>2, <3>1 DEF CallsRight, Sizes
    <2> QED
      BY <1>3, <2>2 DEF CallsRight
  <1>13. /\ message' = message /\ expiryTimer' \subseteq UploadSessions
         /\ sessionOpen' \subseteq UploadSessions
    BY UploadsNow DEF BeginUpload
  <1>14. reservedBytes' \in 0 .. MaxUploadTotal /\ reservedBytes' = Total(upload')
    BY <1>3, <1>6, <1>9, <1>10, UploadAssumption
  <1>15. message' \in [Messages -> MessageCall]
    BY <1>13, UploadsNow
  <1> QED
    BY <1>10, <1>11, <1>12, <1>13, <1>14, <1>15, UploadsKept

\* A frame of a pending row: more of its bytes, or the last of them.
LEMMA FrameArrives ==
  ASSUME UploadIInv, NEW u \in Uploads, Frame(u)
  PROVE  UploadIInv'
  <1>1. PICK row : row = upload[u]
    OBVIOUS
  <1>2. PICK s : s = row.session
    OBVIOUS
  <1>3. PICK g : g = Without(Lapsed(s))
    OBVIOUS
  <1>4. PICK left : left = reservedBytes - Bytes(Lapsed(s))
    OBVIOUS
  <1>5. /\ g \in Sizes /\ left \in 0 .. MaxUploadTotal /\ left = Total(g)
        /\ RowsRight(g) /\ CallsRight(g, message)
        /\ \A v \in Uploads \ Lapsed(s) : g[v] = upload[v]
    BY <1>3, <1>4, HeldRows, HeldRowsGo
  <1>6. /\ row.state = "pending" /\ row.life > 0 /\ row \in UploadRow /\ row # NoUpload
        /\ row.bytes <= row.size /\ row.sends = 0
    BY <1>1, UploadsNow DEF Frame, RowsRight, Sizes, NoUpload
  <1>7. u \notin Lapsed(s) /\ g[u] = row
    BY <1>1, <1>5, <1>6 DEF Lapsed
  <1>8. /\ row.session \in UploadSessions /\ row.size \in FileSizes /\ row.size \in Nat
        /\ row.bytes \in Nat /\ row.begun \in BOOLEAN /\ row.life \in 0 .. UploadLife
        /\ row = [state |-> row.state, session |-> row.session, size |-> row.size,
                  bytes |-> row.bytes, begun |-> row.begun, life |-> row.life,
                  sends |-> row.sends]
    BY <1>6, RowShape DEF UploadRow
  <1>9. PICK new :
          /\ \/ new = [row EXCEPT !.begun = TRUE]
             \/ \E n \in 1 .. row.size - row.bytes : new = [row EXCEPT !.bytes = @ + n]
             \/ new = [row EXCEPT !.state = "staged", !.life = UploadLife]
          /\ upload' = [g EXCEPT ![u] = new] /\ reservedBytes' = left
          /\ UNCHANGED <<expiryTimer, sessionOpen, message>>
    BY <1>1, <1>2, <1>3, <1>4 DEF Frame
  <1>10. PICK state \in {"pending", "staged"}, bytes \in Nat, begun \in BOOLEAN,
              life \in 0 .. UploadLife :
           /\ bytes <= row.size
           /\ new = [state |-> state, session |-> row.session, size |-> row.size,
                     bytes |-> bytes, begun |-> begun, life |-> life, sends |-> 0]
    <2>1. CASE new = [row EXCEPT !.begun = TRUE]
      BY <1>6, <1>8, <2>1
    <2>2. ASSUME NEW n \in 1 .. row.size - row.bytes, new = [row EXCEPT !.bytes = @ + n]
          PROVE  \E bytes \in Nat :
                   /\ bytes <= row.size
                   /\ new = [state |-> row.state, session |-> row.session, size |-> row.size,
                             bytes |-> bytes, begun |-> row.begun, life |-> row.life,
                             sends |-> 0]
      <3>1. row.bytes + n \in Nat /\ row.bytes + n <= row.size
        BY <1>8
      <3>2. new = [state |-> row.state, session |-> row.session, size |-> row.size,
                   bytes |-> row.bytes + n, begun |-> row.begun, life |-> row.life,
                   sends |-> 0]
        BY <1>6, <1>8, <2>2
      <3> QED
        BY <3>1, <3>2
    <2>3. CASE new = [row EXCEPT !.state = "staged", !.life = UploadLife]
      <3>1. UploadLife \in 0 .. UploadLife
        BY UploadAssumption
      <3> QED
        BY <1>6, <1>8, <2>3, <3>1
    <2> QED
      BY <1>6, <1>8, <1>9, <2>1, <2>2, <2>3
  <1>11. 0 \in 0 .. 2 /\ state \in {"pending", "staged", "sending"}
    BY <1>10
  <1>12. new \in UploadRow /\ new # NoUpload
    <2>1. PICK home \in UploadSessions, size \in FileSizes :
            home = row.session /\ size = row.size
      BY <1>8
    <2>2. new = [state |-> state, session |-> home, size |-> size, bytes |-> bytes,
                 begun |-> begun, life |-> life, sends |-> 0]
      BY <1>10, <2>1
    <2> QED
      BY <1>11, <2>2, RowMade
  <1>13. new.size = row.size /\ new.bytes <= new.size /\ new.sends = 0 /\ new.state # "sending"
    BY <1>10
  <1>14. upload' \in Sizes /\ upload'[u] = new /\ \A v \in Uploads \ {u} : upload'[v] = g[v]
    BY <1>5, <1>9, <1>12 DEF Sizes
  <1>15. Total(upload') = Total(g)
    <2>1. RowsOf(upload') = RowsOf(g)
      BY <1>6, <1>7, <1>12, <1>14 DEF RowsOf
    <2>2. \A v \in RowsOf(g) : upload'[v].size = g[v].size
      BY <1>7, <1>13, <1>14 DEF RowsOf
    <2> QED
      BY <2>1, <2>2 DEF Total, Pieces
  <1>16. RowsRight(upload')
    BY <1>5, <1>13, <1>14 DEF RowsRight
  <1>17. CallsRight(upload', message)
    <2>1. ASSUME NEW m \in Messages, Sends(message[m])
          PROVE  upload'[message[m].file].state = "sending"
      <3>1. message[m].file \in Uploads
        BY <2>1, UploadsNow, CallShape DEF Sends
      <3>2. message[m].file # u
        BY <1>5, <1>6, <1>7, <2>1 DEF CallsRight
      <3> QED
        BY <1>5, <1>14, <2>1, <3>1, <3>2 DEF CallsRight
    <2> QED
      BY <1>5, <2>1 DEF CallsRight
  <1>18. message' = message /\ reservedBytes' = left
    BY <1>9
  <1> QED
    BY <1>5, <1>9, <1>14, <1>15, <1>16, <1>17, <1>18, UploadsKept, UploadsNow

\* An attachment leaves the map for a call of its own, once.
LEMMA AttachmentTaken ==
  ASSUME UploadIInv, NEW m \in Messages, NEW u \in Uploads, TakeAttachment(m, u)
  PROVE  UploadIInv'
  <1>1. PICK call : call = message[m]
    OBVIOUS
  <1>2. /\ call.step = "next" /\ u \in call.files /\ call \in MessageCall
        /\ UNCHANGED <<reservedBytes, expiryTimer, sessionOpen>>
    BY <1>1, UploadsNow DEF TakeAttachment
  <1>3. CASE ~(upload[u].state = "staged" /\ upload[u].session = call.session)
    <2>1. upload' = upload /\ message' = [message EXCEPT ![m] = NoMessage]
      BY <1>1, <1>3 DEF TakeAttachment
    <2>2. message' \in [Messages -> MessageCall]
      BY <2>1, UploadsNow DEF MessageCall
    <2>3. CallsRight(upload', message')
      BY <2>1, UploadsNow DEF CallsRight, Sends, NoMessage
    <2> QED
      BY <1>2, <2>1, <2>2, <2>3, UploadsNow, UploadsKept
  <1>4. CASE upload[u].state = "staged" /\ upload[u].session = call.session
    <2>1. PICK row : row = upload[u]
      OBVIOUS
    <2>2. /\ row.state = "staged" /\ row \in UploadRow /\ row # NoUpload /\ row.sends = 0
          /\ row.bytes <= row.size
      BY <1>4, <2>1, UploadsNow DEF RowsRight, Sizes, NoUpload
    <2>3. PICK new : new = [row EXCEPT !.state = "sending", !.sends = 1]
      OBVIOUS
    <2>4. /\ row.session \in UploadSessions /\ row.size \in FileSizes /\ row.size \in Nat
          /\ row.bytes \in Nat /\ row.begun \in BOOLEAN /\ row.life \in 0 .. UploadLife
      BY <2>2, RowShape
    <2>5. new = [state |-> "sending", session |-> row.session, size |-> row.size,
                 bytes |-> row.bytes, begun |-> row.begun, life |-> row.life,
                 sends |-> 1]
      BY <2>2, <2>3 DEF UploadRow
    <2>6. 1 \in 0 .. 2
      OBVIOUS
    <2>7. new \in UploadRow /\ new # NoUpload
      BY <2>4, <2>5, <2>6, RowMade
    <2>8. /\ new.size = row.size /\ new.bytes <= new.size /\ new.sends = 1
          /\ new.state = "sending"
      BY <2>2, <2>5
    <2>9. upload' = [upload EXCEPT ![u] = new]
      <3>1. upload' = [upload EXCEPT ![u].state = "sending", ![u].sends = @ + 1]
        BY <1>1, <1>4 DEF TakeAttachment
      <3>2. row.sends + 1 = 1
        BY <2>2
      <3> QED
        BY <2>1, <2>2, <2>3, <3>1, <3>2, UploadsNow DEF Sizes, UploadRow
    <2>10. upload' \in Sizes /\ upload'[u] = new /\ \A v \in Uploads \ {u} : upload'[v] = upload[v]
      BY <2>7, <2>9, UploadsNow DEF Sizes
    <2>11. Total(upload') = Total(upload)
      <3>1. RowsOf(upload') = RowsOf(upload)
        BY <2>1, <2>2, <2>7, <2>10 DEF RowsOf
      <3>2. \A v \in RowsOf(upload) : upload'[v].size = upload[v].size
        BY <2>1, <2>8, <2>10 DEF RowsOf
      <3> QED
        BY <3>1, <3>2 DEF Total, Pieces
    <2>12. RowsRight(upload')
      BY <2>8, <2>10, UploadsNow DEF RowsRight
    <2>13. PICK now : now = [step |-> "sending", session |-> call.session,
                             files |-> call.files \ {u}, file |-> u]
      OBVIOUS
    <2>14. now \in MessageCall /\ Sends(now) /\ now.file = u
      BY <1>2, <2>13, CallShape DEF MessageCall, Sends
    <2>15. message' = [message EXCEPT ![m] = now]
      BY <1>1, <1>4, <2>13 DEF TakeAttachment
    <2>16. /\ message' \in [Messages -> MessageCall] /\ message'[m] = now
           /\ \A n \in Messages \ {m} : message'[n] = message[n]
      BY <2>14, <2>15, UploadsNow
    <2>17. \A n \in Messages \ {m} : Sends(message[n]) => message[n].file # u /\ message[n].file \in Uploads
      BY <1>4, UploadsNow, CallShape DEF CallsRight, Sends
    <2>18. CallsRight(upload', message')
      BY <2>8, <2>10, <2>14, <2>16, <2>17, UploadsNow DEF CallsRight
    <2> QED
      BY <1>2, <2>10, <2>11, <2>12, <2>16, <2>18, UploadsNow, UploadsKept
  <1> QED
    BY <1>3, <1>4

\* However the sending ends, the call gives its row back and no other does.
LEMMA SendingEnds ==
  ASSUME UploadIInv, NEW m \in Messages, SendEnds(m)
  PROVE  UploadIInv'
  <1>1. PICK call : call = message[m]
    OBVIOUS
  <1>2. PICK u : u = call.file
    OBVIOUS
  <1>3. PICK row : row = upload[u]
    OBVIOUS
  <1>4. /\ call.step = "sending" /\ call \in MessageCall /\ u \in Uploads
        /\ call.session \in UploadSessions /\ call.files \in SUBSET Uploads
    BY <1>1, <1>2, UploadsNow, CallShape DEF SendEnds
  <1>5. row.state = "sending" /\ row \in UploadRow /\ row # NoUpload /\ row.size \in Nat
    BY <1>1, <1>2, <1>3, <1>4, UploadsNow, RowShape DEF CallsRight, Sends, Sizes, NoUpload
  <1>6. {u} \in SUBSET RowsOf(upload) /\ upload' = RowsWithout(upload, {u})
    BY <1>1, <1>2, <1>3, <1>4, <1>5 DEF RowsOf, SendEnds, Without, RowsWithout
  <1>7. /\ upload' \in Sizes /\ RowsOf(upload') = RowsOf(upload) \ {u}
        /\ \A v \in Uploads \ {u} : upload'[v] = upload[v]
        /\ Total(upload') = Total(upload) - Cardinality(Pieces(upload, {u}))
        /\ Total(upload') \in Nat
    BY <1>6, UploadsNow, RowsGo
  <1>8. Cardinality(Pieces(upload, {u})) = row.size
    <2>1. Cardinality(Pieces(upload, {u})) = upload[u].size
      BY <1>3, <1>4, <1>5, PiecesOfOne
    <2> QED
      BY <1>3, <2>1
  <1>9. reservedBytes' = reservedBytes - row.size
    BY <1>1, <1>2, <1>3 DEF SendEnds
  <1>10. reservedBytes' = Total(upload')
    BY <1>7, <1>8, <1>9, UploadsNow
  <1>11. reservedBytes' \in 0 .. MaxUploadTotal
    <2>1. PICK old \in Nat : old = reservedBytes /\ old <= MaxUploadTotal
      BY UploadsNow, UploadAssumption
    <2> QED
      BY <1>5, <1>7, <1>9, <1>10, <2>1, UploadAssumption
  <1>12. RowsRight(upload')
    BY <1>7, UploadsNow DEF RowsRight, RowsOf
  <1>13. PICK now \in MessageCall : ~Sends(now) /\ message' = [message EXCEPT ![m] = now]
    <2>1. NoMessage \in MessageCall /\ ~Sends(NoMessage)
      BY DEF MessageCall, Sends, NoMessage
    <2>2. PICK next : next = [step |-> "next", session |-> call.session, files |-> call.files]
      OBVIOUS
    <2>3. next \in MessageCall /\ ~Sends(next)
      BY <1>4, <2>2 DEF MessageCall, Sends
    <2> QED
      BY <1>1, <2>1, <2>2, <2>3 DEF SendEnds
  <1>14. /\ message' \in [Messages -> MessageCall] /\ message'[m] = now
         /\ \A n \in Messages \ {m} : message'[n] = message[n]
    BY <1>13, UploadsNow
  <1>15. \A n \in Messages \ {m} : Sends(message[n]) => message[n].file # u /\ message[n].file \in Uploads
    BY <1>1, <1>2, <1>4, UploadsNow, CallShape DEF CallsRight, Sends
  <1>16. CallsRight(upload', message')
    BY <1>7, <1>13, <1>14, <1>15, UploadsNow DEF CallsRight
  <1>17. expiryTimer' \subseteq UploadSessions /\ sessionOpen' \subseteq UploadSessions
    BY UploadsNow DEF SendEnds
  <1> QED
    BY <1>7, <1>10, <1>11, <1>12, <1>14, <1>16, <1>17, UploadsKept

\* Time passes for the rows, and another session opens.
LEMMA UploadWorldKeeps ==
  ASSUME UploadIInv,
         UploadTick \/ (\E s \in UploadSessions : SessionOpens(s)) \/ UNCHANGED uploadVars
  PROVE  UploadIInv'
  <1>1. CASE UploadTick
    <2>1. ASSUME NEW u \in Uploads, upload[u] # NoUpload
          PROVE  /\ upload'[u] \in UploadRow /\ upload'[u] # NoUpload
                 /\ upload'[u].state = upload[u].state /\ upload'[u].size = upload[u].size
                 /\ upload'[u].bytes = upload[u].bytes /\ upload'[u].sends = upload[u].sends
      <3>1. PICK row : row = upload[u]
        OBVIOUS
      <3>2. row \in UploadRow /\ row # NoUpload
        BY <2>1, <3>1, UploadsNow DEF Sizes
      <3>3. CASE row.life > 0
        <4>1. upload'[u] = [row EXCEPT !.life = row.life - 1]
          BY <1>1, <2>1, <3>1, <3>3 DEF UploadTick
        <4>2. row.life - 1 \in 0 .. UploadLife
          BY <3>2, <3>3, RowShape, UploadAssumption
        <4>3. PICK new : new = [row EXCEPT !.life = row.life - 1]
          OBVIOUS
        <4>4. /\ new = [state |-> row.state, session |-> row.session, size |-> row.size,
                        bytes |-> row.bytes, begun |-> row.begun, life |-> row.life - 1,
                        sends |-> row.sends]
              /\ row.state \in {"pending", "staged", "sending"} /\ row.session \in UploadSessions
              /\ row.size \in FileSizes /\ row.bytes \in Nat /\ row.begun \in BOOLEAN
              /\ row.sends \in 0 .. 2
          BY <3>2, <4>3 DEF UploadRow, NoUpload
        <4>5. new \in UploadRow /\ new # NoUpload
          BY ZenonT(60), <4>2, <4>4, RowMade
        <4> QED
          BY <3>1, <4>1, <4>3, <4>4, <4>5
      <3>4. CASE ~(row.life > 0)
        BY <1>1, <2>1, <3>1, <3>2, <3>4 DEF UploadTick
      <3> QED
        BY <3>3, <3>4
    <2>2. \A u \in Uploads : upload[u] = NoUpload => upload'[u] = NoUpload
      BY <1>1 DEF UploadTick
    <2>3. upload' \in Sizes
      <3>1. \A u \in Uploads : upload'[u] \in UploadRow
        BY <2>1, <2>2 DEF UploadRow
      <3>2. upload' = [u \in Uploads |-> IF upload[u] # NoUpload /\ upload[u].life > 0
                         THEN [upload[u] EXCEPT !.life = @ - 1] ELSE upload[u]]
        BY <1>1 DEF UploadTick
      <3> QED
        BY <3>1, <3>2 DEF Sizes
    <2>4. Total(upload') = Total(upload)
      <3>1. RowsOf(upload') = RowsOf(upload)
        BY <2>1, <2>2 DEF RowsOf
      <3>2. \A v \in RowsOf(upload) : upload'[v].size = upload[v].size
        BY <2>1 DEF RowsOf
      <3> QED
        BY <3>1, <3>2 DEF Total, Pieces
    <2>5. RowsRight(upload')
      BY <2>1, <2>2, UploadsNow DEF RowsRight
    <2>6. CallsRight(upload', message)
      <3>1. ASSUME NEW m \in Messages, Sends(message[m])
            PROVE  upload'[message[m].file].state = "sending"
        <4>1. message[m].file \in Uploads /\ upload[message[m].file].state = "sending"
          BY <3>1, UploadsNow, CallShape DEF Sends, CallsRight
        <4>2. upload[message[m].file] # NoUpload
          BY <4>1 DEF NoUpload
        <4> QED
          BY <2>1, <4>1, <4>2
      <3> QED
        BY <3>1, UploadsNow DEF CallsRight
    <2>7. UNCHANGED <<reservedBytes, expiryTimer, sessionOpen, message>>
      BY <1>1 DEF UploadTick
    <2> QED
      BY <2>3, <2>4, <2>5, <2>6, <2>7, UploadsNow, UploadsKept
  <1>2. CASE (\E s \in UploadSessions : SessionOpens(s)) \/ UNCHANGED uploadVars
    BY <1>2, UploadsNow, UploadsKept DEF SessionOpens, uploadVars
  <1> QED
    BY <1>1, <1>2

LEMMA UploadInductive == UploadIInv /\ [UploadNext]_uploadVars => UploadIInv'
  BY RowsLapse, ReplaceBegins, RowBegins, FrameArrives, AttachmentTaken, SendingEnds,
     UploadWorldKeeps
     DEF UploadNext, ReplaceStep

LEMMA UploadAccounts == UploadIInv => StagingAccounted
  <1>1. UploadIInv => FileSentOnce
    BY DEF UploadIInv, RowsRight, FileSentOnce
  <1> QED
    BY <1>1 DEF UploadIInv, StagingAccounted

\* The bytes of a staged upload are given back once, when its row goes, and a
\* file is sent once (UploadStaging: expire(), replace(), clear()).
THEOREM StagingIsAccounted == UploadSpec => []StagingAccounted
  <1> QED
    BY UploadInitial, UploadInductive, UploadAccounts, PTL DEF UploadSpec

-----------------------------------------------------------------------------
(* Provider interests (readyForProviderSnapshot() and                       *)
(* publishPendingProviderCatalog() of session.ts).                          *)

\* A run is for an interest there has been, and for the one in place only when
\* that says so, in its scope; an interest with a complete catalog is gone.
RunFits(n, i) ==
  /\ publisher[n][i].step # "none" => i <= serials[n]
  /\ publisher[n][i].step # "none" /\ interest[n].serial = i =>
       interest[n].publishing /\ publisher[n][i].scope = interest[n].scope
  /\ updates[n][i] # "none" => i <= serials[n]
  /\ updates[n][i] = "complete" => interest[n].serial # i

InterestIInv ==
  /\ InterestTypeOK
  /\ \A n \in Names : \A i \in Serials : RunFits(n, i)

LEMMA InterestInitial == InterestInit => InterestIInv
  <1> SUFFICES ASSUME InterestInit PROVE InterestIInv
    OBVIOUS
  <1> USE InterestAssumption
  <1>1. Waits = {} /\ Interests = {}
    BY DEF InterestInit, Waits, Interests, NoInterest
  <1>2. Cardinality(Waits) <= MaxPending /\ Cardinality(Interests) <= MaxPending
    BY <1>1, FS_EmptySet
  <1>3. NoInterest \in Interest /\ NoPublisher \in Publisher
    BY DEF NoInterest, Interest, NoPublisher, Publisher
  <1>4. [scope |-> 1, phase |-> "pending"] \in Target
    BY DEF Target
  <1>5. 0 \in 0..MaxInterest /\ 0 \in 0..MaxNameScope
    OBVIOUS
  <1>6. target \in [Names -> Target] /\ interest \in [Names -> Interest]
    BY <1>3, <1>4 DEF InterestInit
  <1>7. waits \in [Names -> 0..MaxNameScope] /\ serials \in [Names -> 0..MaxInterest]
    BY <1>5 DEF InterestInit
  <1>8. /\ publisher \in [Names -> [Serials -> Publisher]]
        /\ updates \in [Names -> [Serials -> {"none", "loading", "complete"}]]
    BY <1>3 DEF InterestInit
  <1>9. \A n \in Names : interest[n].serial <= serials[n]
    BY DEF InterestInit, NoInterest
  <1>10. InterestTypeOK
    BY <1>2, <1>6, <1>7, <1>8, <1>9 DEF InterestInit, InterestTypeOK
  <1> QED
    BY <1>10 DEF InterestInit, InterestIInv, RunFits, NoPublisher, NoInterest

\* The interests of the names: fewer or as many, or one more where there is room.
LEMMA InterestsCounted ==
  ASSUME NEW most \in Nat, NEW S \in SUBSET Names, NEW T \in SUBSET Names,
         Cardinality(S) <= most,
         T \subseteq S \/ \E n \in Names : T \subseteq S \cup {n} /\ Cardinality(S \ {n}) < most
  PROVE  Cardinality(T) <= most
  <1>1. IsFiniteSet(S) /\ IsFiniteSet(T) /\ Cardinality(S) \in Nat /\ Cardinality(T) \in Nat
    BY InterestAssumption, FS_Subset, FS_CardinalityType
  <1>2. CASE T \subseteq S
    BY <1>1, <1>2, FS_Subset
  <1>3. ASSUME NEW n \in Names, T \subseteq S \cup {n}, Cardinality(S \ {n}) < most
        PROVE  Cardinality(T) <= most
    <2>1. PICK R : R = S \ {n}
      OBVIOUS
    <2>2. IsFiniteSet(R) /\ Cardinality(R) \in Nat
      BY <1>1, <2>1, FS_Subset, FS_CardinalityType
    <2>3. n \notin R /\ R \cup {n} = S \cup {n}
      BY <2>1
    <2>4. IsFiniteSet(R \cup {n}) /\ Cardinality(R \cup {n}) = Cardinality(R) + 1
      BY <2>2, <2>3, FS_AddElement
    <2>5. T \in SUBSET (R \cup {n})
      BY <1>3, <2>3
    <2>6. Cardinality(T) <= Cardinality(R \cup {n})
      BY <2>4, <2>5, FS_Subset
    <2> QED
      BY <1>1, <1>3, <2>1, <2>2, <2>4, <2>6
  <1> QED
    BY <1>2, <1>3

\* A step of one name: its interest stays what it is, is dropped, or gives way
\* to a new one that nothing has been sent for.
LEMMA InterestsKept ==
  ASSUME InterestIInv, NEW n \in Names, NEW row \in Interest, NEW last \in 0..MaxInterest,
         target' \in [Names -> Target], queries' \in [Queries -> Names \cup {"none", "forwarded", "refused"}],
         waits' \in [Names -> 0..MaxNameScope], over' \in BOOLEAN,
         Cardinality(Waits') <= MaxPending, Cardinality(Interests') <= MaxPending,
         interest' = [interest EXCEPT ![n] = row],
         serials' = [serials EXCEPT ![n] = last], row.serial <= last, serials[n] <= last,
         publisher' \in [Names -> [Serials -> Publisher]],
         updates' \in [Names -> [Serials -> {"none", "loading", "complete"}]],
         \A m \in Names \ {n} : publisher'[m] = publisher[m] /\ updates'[m] = updates[m],
         \A i \in Serials : RunFits(n, i)'
  PROVE  InterestIInv'
  <1>1. /\ interest' \in [Names -> Interest] /\ serials' \in [Names -> 0..MaxInterest]
        /\ interest'[n] = row /\ serials'[n] = last
        /\ \A m \in Names \ {n} : interest'[m] = interest[m] /\ serials'[m] = serials[m]
    BY DEF InterestIInv, InterestTypeOK
  <1>2. InterestTypeOK'
    BY <1>1 DEF InterestIInv, InterestTypeOK
  <1>3. ASSUME NEW m \in Names \ {n}, NEW i \in Serials PROVE RunFits(m, i)'
    <2>1. /\ interest'[m] = interest[m] /\ serials'[m] = serials[m]
          /\ publisher'[m] = publisher[m] /\ updates'[m] = updates[m] /\ m \in Names
      BY <1>1
    <2>2. RunFits(m, i)
      BY DEF InterestIInv
    <2> QED
      BY <2>1, <2>2 DEF RunFits
  <1> QED
    BY <1>2, <1>3 DEF InterestIInv

LEMMA NothingOfInterest ==
  NoInterest \in Interest /\ NoInterest.serial = 0 /\ NoInterest.publishing = FALSE
    /\ NoPublisher \in Publisher /\ NoPublisher.step = "none"
  BY InterestAssumption DEF NoInterest, Interest, NoPublisher, Publisher

\* The interest of a name changes, or goes, and no other comes.
LEMMA InterestMoves ==
  ASSUME InterestIInv, NEW n \in Names, NEW row \in Interest,
         interest' = [interest EXCEPT ![n] = row], row.serial \in {0, interest[n].serial},
         UNCHANGED <<target, waits, serials, queries, over>>,
         publisher' \in [Names -> [Serials -> Publisher]],
         updates' \in [Names -> [Serials -> {"none", "loading", "complete"}]],
         \A m \in Names \ {n} : publisher'[m] = publisher[m] /\ updates'[m] = updates[m],
         \A i \in Serials : RunFits(n, i)'
  PROVE  InterestIInv'
  <1>1. /\ interest \in [Names -> Interest] /\ serials \in [Names -> 0..MaxInterest]
        /\ interest[n].serial <= serials[n] /\ target \in [Names -> Target]
        /\ waits \in [Names -> 0..MaxNameScope] /\ over \in BOOLEAN
        /\ queries \in [Queries -> Names \cup {"none", "forwarded", "refused"}]
        /\ Cardinality(Waits) <= MaxPending /\ Cardinality(Interests) <= MaxPending
    BY DEF InterestIInv, InterestTypeOK
  <1>2. PICK last \in 0..MaxInterest : last = serials[n]
    BY <1>1
  <1>3. serials' = [serials EXCEPT ![n] = last] /\ serials[n] <= last
    BY <1>1, <1>2
  <1>4. row.serial <= last
    BY <1>1, <1>2, InterestAssumption DEF Interest
  <1>5. Waits' = Waits /\ Cardinality(Waits') <= MaxPending
    BY <1>1 DEF Waits
  <1>6. Interests \in SUBSET Names /\ Interests' \in SUBSET Interests
    BY <1>1 DEF Interests
  <1>7. Cardinality(Interests') <= MaxPending
    BY <1>1, <1>6, InterestAssumption, InterestsCounted
  <1>8. /\ target' \in [Names -> Target] /\ waits' \in [Names -> 0..MaxNameScope]
        /\ queries' \in [Queries -> Names \cup {"none", "forwarded", "refused"}]
        /\ over' \in BOOLEAN
    BY <1>1
  <1> QED
    BY <1>3, <1>4, <1>5, <1>7, <1>8, InterestsKept

LEMMA RunsNow ==
  ASSUME InterestIInv, NEW n \in Names, NEW i \in Serials
  PROVE  /\ interest[n] \in Interest /\ publisher[n] \in [Serials -> Publisher]
         /\ publisher[n][i] \in Publisher /\ RunFits(n, i)
         /\ updates[n] \in [Serials -> {"none", "loading", "complete"}]
         /\ updates[n][i] \in {"none", "loading", "complete"}
  BY DEF InterestIInv, InterestTypeOK

LEMMA InterestsNow ==
  ASSUME InterestIInv, NEW n \in Names
  PROVE  /\ interest[n] \in Interest /\ interest \in [Names -> Interest]
         /\ publisher \in [Names -> [Serials -> Publisher]]
         /\ updates \in [Names -> [Serials -> {"none", "loading", "complete"}]]
         /\ target[n] \in Target
  BY DEF InterestIInv, InterestTypeOK

\* An interest ages, is dropped, or is asked for.
LEMMA InterestRefreshed ==
  ASSUME InterestIInv, NEW n \in Names,
         InterestAges(n) \/ RefreshDrops(n) \/ RefreshPublishes(n)
  PROVE  InterestIInv'
  <1>1. CASE InterestAges(n)
    <2>1. PICK row : row = [interest[n] EXCEPT !.old = TRUE]
      OBVIOUS
    <2>2. /\ row \in Interest /\ row.serial = interest[n].serial
          /\ row.scope = interest[n].scope /\ row.publishing = interest[n].publishing
      BY <2>1, InterestsNow DEF Interest
    <2>3. /\ interest' = [interest EXCEPT ![n] = row]
          /\ UNCHANGED <<target, waits, serials, publisher, updates, queries, over>>
      BY <1>1, <2>1, InterestsNow DEF InterestAges
    <2>4. interest'[n] = row
      BY <2>3, InterestsNow
    <2>5. ASSUME NEW i \in Serials PROVE RunFits(n, i)'
      BY <2>2, <2>3, <2>4, RunsNow DEF RunFits
    <2> QED
      BY <2>2, <2>3, <2>5, InterestsNow, InterestMoves
  <1>2. CASE RefreshDrops(n)
    <2>1. /\ interest' = [interest EXCEPT ![n] = NoInterest]
          /\ UNCHANGED <<target, waits, serials, publisher, updates, queries, over>>
      BY <1>2 DEF RefreshDrops
    <2>2. interest'[n] = NoInterest
      BY <2>1, InterestsNow
    <2>3. ASSUME NEW i \in Serials PROVE RunFits(n, i)'
      <3>1. i # 0
        BY DEF Serials
      <3> QED
        BY <2>1, <2>2, <3>1, RunsNow, NothingOfInterest DEF RunFits
    <2> QED
      BY <2>1, <2>3, InterestsNow, NothingOfInterest, InterestMoves
  <1>3. CASE RefreshPublishes(n)
    <2>1. PICK row : row = [interest[n] EXCEPT !.publishing = TRUE]
      OBVIOUS
    <2>2. PICK j : j = interest[n].serial
      OBVIOUS
    <2>3. PICK run : run = [step |-> "request", scope |-> target[n].scope, reply |-> "none"]
      OBVIOUS
    <2>4. /\ interest[n].serial # 0 /\ interest[n].publishing = FALSE
          /\ target[n].scope = interest[n].scope
          /\ interest' = [interest EXCEPT ![n].publishing = TRUE]
          /\ publisher' = [publisher EXCEPT ![n][j] = run]
          /\ UNCHANGED <<target, waits, serials, updates, queries, over>>
      BY <1>3, <2>2, <2>3, InterestsNow
         DEF RefreshPublishes, FreshScope, BoundInterest, Interest
    <2>5. /\ row \in Interest /\ row.serial = j
          /\ row.scope = interest[n].scope /\ row.publishing
      BY <2>1, <2>2, InterestsNow DEF Interest
    <2>6. j \in Serials
      BY <2>2, <2>4, InterestsNow DEF Interest, Serials
    <2>7. run \in Publisher /\ run.scope = interest[n].scope
      BY <2>3, <2>4, InterestsNow DEF Publisher, Target
    <2>8. interest' = [interest EXCEPT ![n] = row] /\ interest'[n] = row
      BY <2>1, <2>4, InterestsNow
    <2>9. PICK runs : runs = [publisher[n] EXCEPT ![j] = run]
      OBVIOUS
    <2>10. runs \in [Serials -> Publisher] /\ runs[j] = run
           /\ \A i \in Serials \ {j} : runs[i] = publisher[n][i]
      BY <2>6, <2>7, <2>9, RunsNow
    <2>11. publisher' = [publisher EXCEPT ![n] = runs]
      BY <2>4, <2>9, InterestsNow
    <2>12. /\ publisher' \in [Names -> [Serials -> Publisher]] /\ publisher'[n] = runs
           /\ \A m \in Names \ {n} : publisher'[m] = publisher[m]
      BY <2>10, <2>11, InterestsNow
    <2>13. interest[n].serial <= serials[n]
      BY DEF InterestIInv, InterestTypeOK
    <2>14. ASSUME NEW i \in Serials PROVE RunFits(n, i)'
      <3>1. CASE i = j
        BY <2>2, <2>4, <2>5, <2>7, <2>8, <2>10, <2>12, <2>13, <3>1, RunsNow DEF RunFits
      <3>2. CASE i # j
        BY <2>4, <2>5, <2>8, <2>10, <2>12, <3>2, RunsNow DEF RunFits
      <3> QED
        BY <3>1, <3>2
    <2>15. updates' \in [Names -> [Serials -> {"none", "loading", "complete"}]]
           /\ \A m \in Names \ {n} : updates'[m] = updates[m]
      BY <2>4, InterestsNow
    <2>16. row.serial \in {0, interest[n].serial}
      BY <2>2, <2>5
    <2>17. UNCHANGED <<target, waits, serials, queries, over>>
      BY <2>4
    <2> QED
      BY <2>5, <2>8, <2>12, <2>14, <2>15, <2>16, <2>17, InterestMoves
  <1> QED
    BY <1>1, <1>2, <1>3

\* A run ends, or goes on with its reply.
LEMMA RunMoves ==
  ASSUME InterestIInv, NEW n \in Names, NEW j \in Serials, NEW run \in Publisher,
         NEW row \in Interest, NEW sent \in {"none", "loading", "complete"},
         publisher' = [publisher EXCEPT ![n][j] = run],
         updates' = [updates EXCEPT ![n][j] = sent],
         interest' = [interest EXCEPT ![n] = row], row.serial \in {0, interest[n].serial},
         UNCHANGED <<target, waits, serials, queries, over>>,
         publisher[n][j].step # "none",
         sent = "complete" => row.serial # j,
         row.serial # 0 => row.scope = interest[n].scope,
         row.serial # 0 /\ row.serial # j => row.publishing = interest[n].publishing,
         run.step = "none" \/ (run.scope = publisher[n][j].scope /\ row = interest[n])
  PROVE  InterestIInv'
  <1>1. PICK runs : runs = [publisher[n] EXCEPT ![j] = run]
    OBVIOUS
  <1>2. PICK told : told = [updates[n] EXCEPT ![j] = sent]
    OBVIOUS
  <1>3. /\ runs \in [Serials -> Publisher] /\ runs[j] = run
        /\ \A i \in Serials \ {j} : runs[i] = publisher[n][i]
    BY <1>1, RunsNow
  <1>4. /\ told \in [Serials -> {"none", "loading", "complete"}] /\ told[j] = sent
        /\ \A i \in Serials \ {j} : told[i] = updates[n][i]
    BY <1>2, RunsNow
  <1>5. publisher' = [publisher EXCEPT ![n] = runs] /\ updates' = [updates EXCEPT ![n] = told]
    BY <1>1, <1>2, InterestsNow
  <1>6. /\ publisher' \in [Names -> [Serials -> Publisher]] /\ publisher'[n] = runs
        /\ updates' \in [Names -> [Serials -> {"none", "loading", "complete"}]]
        /\ updates'[n] = told /\ interest'[n] = row
        /\ \A m \in Names \ {n} : publisher'[m] = publisher[m] /\ updates'[m] = updates[m]
    BY <1>3, <1>4, <1>5, InterestsNow
  <1>7. ASSUME NEW i \in Serials PROVE RunFits(n, i)'
    <2>1. i # 0
      BY DEF Serials
    <2>2. CASE i = j
      BY <1>3, <1>4, <1>6, <2>1, <2>2, RunsNow DEF RunFits
    <2>3. CASE i # j
      BY <1>3, <1>4, <1>6, <2>1, <2>3, RunsNow DEF RunFits
    <2> QED
      BY <2>2, <2>3
  <1> QED
    BY <1>6, <1>7, InterestMoves

\* A run of publishPendingProviderCatalog().
LEMMA RunSteps ==
  ASSUME InterestIInv, NEW n \in Names, NEW j \in Serials, PublisherStep(n, j)
  PROVE  InterestIInv'
  <1>1. PICK row : row = interest[n]
    OBVIOUS
  <1>2. PICK run : run = publisher[n][j]
    OBVIOUS
  <1>3. /\ row \in Interest /\ run \in Publisher /\ run.step # "none"
        /\ updates[n][j] \in {"none", "loading", "complete"}
        /\ UNCHANGED <<target, waits, serials, queries, over>>
    BY <1>1, <1>2, RunsNow
       DEF PublisherStep, CatalogReplies, CatalogFails, PublishCatalog
  <1>4. PICK quiet : quiet = [row EXCEPT !.publishing = FALSE]
    OBVIOUS
  <1>5. /\ quiet \in Interest /\ quiet.serial = row.serial /\ quiet.scope = row.scope
    BY <1>3, <1>4 DEF Interest
  <1>6. interest = [interest EXCEPT ![n] = row] /\ updates = [updates EXCEPT ![n][j] = updates[n][j]]
    BY <1>1, InterestsNow, RunsNow
  <1>7. Unpublishing(n, j) = [interest EXCEPT ![n] = IF row.serial = j THEN quiet ELSE row]
    BY <1>1, <1>4, <1>6, InterestsNow DEF Unpublishing
  <1>8. PICK left : left = IF row.serial = j THEN quiet ELSE row
    OBVIOUS
  <1>9. /\ left \in Interest /\ left.serial = row.serial /\ left.scope = row.scope
        /\ left.serial # j => left.publishing = row.publishing
    BY <1>3, <1>5, <1>8
  <1>10. updates[n][j] = "complete" => row.serial # j
    BY <1>1, RunsNow DEF RunFits
  <1>11. CASE CatalogReplies(n, j)
    <2>1. PICK reply \in {"loading", "complete"} :
            /\ publisher' = [publisher EXCEPT ![n][j].step = "publish", ![n][j].reply = reply]
            /\ UNCHANGED <<interest, updates>>
      BY <1>11 DEF CatalogReplies
    <2>2. PICK next : next = [run EXCEPT !.step = "publish", !.reply = reply]
      OBVIOUS
    <2>3. next \in Publisher /\ next.scope = run.scope
      BY <1>3, <2>2 DEF Publisher
    <2>4. publisher' = [publisher EXCEPT ![n][j] = next]
      BY <1>2, <2>1, <2>2, InterestsNow, RunsNow
    <2>5. /\ interest' = [interest EXCEPT ![n] = row]
          /\ updates' = [updates EXCEPT ![n][j] = updates[n][j]]
      BY <1>6, <2>1
    <2> QED
      BY <1>1, <1>2, <1>3, <1>10, <2>3, <2>4, <2>5, RunMoves
  <1>12. ASSUME publisher' = [publisher EXCEPT ![n][j] = NoPublisher],
                interest' = [interest EXCEPT ![n] = left], updates' = updates
         PROVE  InterestIInv'
    <2>1. updates' = [updates EXCEPT ![n][j] = updates[n][j]]
      BY <1>6, <1>12
    <2>2. updates[n][j] = "complete" => left.serial # j
      BY <1>9, <1>10
    <2> QED
      BY <1>1, <1>2, <1>3, <1>9, <1>12, <2>1, <2>2, NothingOfInterest, RunMoves
  <1>13. CASE CatalogFails(n, j)
    BY <1>7, <1>8, <1>12, <1>13 DEF CatalogFails, PublisherEnds
  <1>14. ASSUME publisher' = [publisher EXCEPT ![n][j] = NoPublisher],
                interest' = [interest EXCEPT ![n] = NoInterest],
                NEW sent \in {"none", "loading", "complete"},
                updates' = [updates EXCEPT ![n][j] = sent]
         PROVE  InterestIInv'
    <2>1. NoInterest.serial # j
      BY NothingOfInterest DEF Serials
    <2> QED
      BY <1>2, <1>3, <1>14, <2>1, NothingOfInterest, RunMoves
  <1>15. CASE PublishCatalog(n, j)
    <2>1. publisher' = [publisher EXCEPT ![n][j] = NoPublisher]
      BY <1>15 DEF PublishCatalog, PublisherEnds
    <2>2. CASE interest[n].serial = j /\ interest[n].old
      BY <1>3, <1>6, <1>14, <1>15, <2>1, <2>2 DEF PublishCatalog
    <2>3. CASE ~(interest[n].serial = j /\ interest[n].old) /\ ~MayPublish(n, j)
      BY <1>7, <1>8, <1>12, <1>15, <2>1, <2>3 DEF PublishCatalog
    <2>4. CASE ~(interest[n].serial = j /\ interest[n].old) /\ MayPublish(n, j)
      <3>1. updates' = [updates EXCEPT ![n][j] = run.reply] /\ run.reply \in {"none", "loading", "complete"}
        BY <1>2, <1>3, <1>15, <2>4 DEF PublishCatalog, Publisher
      <3>2. CASE run.reply = "complete"
        <4>1. interest' = [interest EXCEPT ![n] = NoInterest]
          BY <1>2, <1>15, <2>4, <3>2 DEF PublishCatalog
        <4> QED
          BY <1>14, <2>1, <3>1, <4>1
      <3>3. CASE run.reply # "complete"
        <4>1. interest' = [interest EXCEPT ![n] = left]
          BY <1>2, <1>7, <1>8, <1>15, <2>4, <3>3 DEF PublishCatalog
        <4> QED
          BY <1>1, <1>2, <1>3, <1>9, <2>1, <3>1, <3>3, <4>1, NothingOfInterest, RunMoves
      <3> QED
        BY <3>2, <3>3
    <2> QED
      BY <2>2, <2>3, <2>4
  <1> QED
    BY <1>11, <1>13, <1>15 DEF PublisherStep

\* A request waits for its workspace and leaves an interest.
LEMMA AsksPending ==
  ASSUME InterestIInv, NEW q \in Queries, NEW n \in Names, AskPending(q, n)
  PROVE  InterestIInv'
  <1>1. PICK row : row = interest[n]
    OBVIOUS
  <1>2. PICK kept : kept = IF FreshScope(n) THEN row ELSE NoInterest
    OBVIOUS
  <1>3. /\ row \in Interest /\ row.serial <= serials[n] /\ serials[n] \in 0..MaxInterest
        /\ interest \in [Names -> Interest] /\ serials \in [Names -> 0..MaxInterest]
        /\ waits \in [Names -> 0..MaxNameScope] /\ target \in [Names -> Target]
        /\ queries \in [Queries -> Names \cup {"none", "forwarded", "refused"}]
        /\ Cardinality(Waits) <= MaxPending /\ Cardinality(Interests) <= MaxPending
        /\ over \in BOOLEAN
    BY <1>1 DEF InterestIInv, InterestTypeOK
  <1>4. kept \in Interest /\ kept.serial \in {0, row.serial} /\ kept.serial <= serials[n]
        /\ (kept.serial # 0 => kept = row)
    BY <1>1, <1>2, <1>3, NothingOfInterest DEF FreshScope
  <1>5. (IF FreshScope(n) THEN interest ELSE [interest EXCEPT ![n] = NoInterest])
          = [interest EXCEPT ![n] = kept]
    BY <1>1, <1>2, <1>3
  <1>6. /\ UNCHANGED <<target, publisher, updates, over>>
        /\ \E new \in {n, "refused"} : queries' = [queries EXCEPT ![q] = new]
    BY DEF AskPending
  <1>7. /\ queries' \in [Queries -> Names \cup {"none", "forwarded", "refused"}]
        /\ target' \in [Names -> Target] /\ over' \in BOOLEAN
        /\ publisher' \in [Names -> [Serials -> Publisher]]
        /\ updates' \in [Names -> [Serials -> {"none", "loading", "complete"}]]
    BY <1>3, <1>6, InterestsNow
  <1>8. \/ /\ interest' = [interest EXCEPT ![n] = kept] /\ UNCHANGED <<waits, serials>>
        \/ /\ n \notin Waits /\ Cardinality(Waits) < MaxPending
           /\ FreshScope(n) \/ Cardinality({m \in Interests : m # n}) < MaxPending
           /\ waits' = [waits EXCEPT ![n] = target[n].scope]
           /\ \/ FreshScope(n) /\ UNCHANGED <<interest, serials>>
              \/ /\ ~FreshScope(n) /\ serials[n] < MaxInterest
                 /\ serials' = [serials EXCEPT ![n] = @ + 1]
                 /\ interest' = [interest EXCEPT ![n] =
                      [NoInterest EXCEPT !.serial = serials'[n], !.scope = target[n].scope]]
    BY <1>5 DEF AskPending
  <1>9. CASE interest' = [interest EXCEPT ![n] = kept] /\ UNCHANGED <<waits, serials>>
    <2>1. Waits' = Waits /\ Interests' \in SUBSET Interests /\ Interests \in SUBSET Names
      BY <1>1, <1>3, <1>4, <1>9 DEF Waits, Interests
    <2>2. Cardinality(Waits') <= MaxPending /\ Cardinality(Interests') <= MaxPending
      BY <1>3, <2>1, InterestAssumption, InterestsCounted
    <2>3. ASSUME NEW i \in Serials PROVE RunFits(n, i)'
      <3>1. interest'[n] = kept /\ i # 0
        BY <1>3, <1>9 DEF Serials
      <3> QED
        BY <1>1, <1>4, <1>6, <1>9, <3>1, RunsNow DEF RunFits
    <2>4. PICK last \in 0..MaxInterest : last = serials[n]
      BY <1>3
    <2>5. serials' = [serials EXCEPT ![n] = last] /\ serials[n] <= last /\ kept.serial <= last
      BY <1>3, <1>4, <1>9, <2>4
    <2>6. waits' \in [Names -> 0..MaxNameScope]
      BY <1>3, <1>9
    <2> QED
      BY <1>4, <1>6, <1>7, <1>9, <2>2, <2>3, <2>5, <2>6, InterestsKept
  <1>10. ASSUME n \notin Waits, Cardinality(Waits) < MaxPending,
                waits' = [waits EXCEPT ![n] = target[n].scope]
         PROVE  waits' \in [Names -> 0..MaxNameScope] /\ Cardinality(Waits') <= MaxPending
    <2>1. target[n].scope \in 0..MaxNameScope
      BY <1>3 DEF Target
    <2>2. waits' \in [Names -> 0..MaxNameScope]
      BY <1>3, <1>10, <2>1
    <2>3. Waits \ {n} = Waits /\ Waits' \subseteq Waits \cup {n}
          /\ Waits \in SUBSET Names /\ Waits' \in SUBSET Names
      BY <1>3, <1>10 DEF Waits
    <2> QED
      BY <1>3, <1>10, <2>2, <2>3, InterestAssumption, InterestsCounted
  <1>11. CASE /\ n \notin Waits /\ Cardinality(Waits) < MaxPending
              /\ waits' = [waits EXCEPT ![n] = target[n].scope]
              /\ FreshScope(n) /\ UNCHANGED <<interest, serials>>
    <2>1. waits' \in [Names -> 0..MaxNameScope] /\ Cardinality(Waits') <= MaxPending
      BY <1>10, <1>11
    <2>2. Cardinality(Interests') <= MaxPending
      BY <1>3, <1>11 DEF Interests
    <2>3. PICK last \in 0..MaxInterest : last = serials[n]
      BY <1>3
    <2>4. /\ serials' = [serials EXCEPT ![n] = last] /\ serials[n] <= last /\ row.serial <= last
          /\ interest' = [interest EXCEPT ![n] = row]
      BY <1>1, <1>3, <1>11, <2>3
    <2>5. ASSUME NEW i \in Serials PROVE RunFits(n, i)'
      BY <1>6, <1>11, RunsNow DEF RunFits
    <2> QED
      BY <1>3, <1>6, <1>7, <2>1, <2>2, <2>4, <2>5, InterestsKept
  <1>12. CASE /\ n \notin Waits /\ Cardinality(Waits) < MaxPending
              /\ ~FreshScope(n) /\ Cardinality({m \in Interests : m # n}) < MaxPending
              /\ waits' = [waits EXCEPT ![n] = target[n].scope]
              /\ serials[n] < MaxInterest /\ serials' = [serials EXCEPT ![n] = @ + 1]
              /\ interest' = [interest EXCEPT ![n] =
                   [NoInterest EXCEPT !.serial = serials'[n], !.scope = target[n].scope]]
    <2>1. waits' \in [Names -> 0..MaxNameScope] /\ Cardinality(Waits') <= MaxPending
      BY <1>10, <1>12
    <2>2. PICK last : last = serials[n] + 1
      OBVIOUS
    <2>3. /\ last \in 0..MaxInterest /\ serials' = [serials EXCEPT ![n] = last]
          /\ serials[n] <= last /\ last # 0
      BY <1>3, <1>12, <2>2, InterestAssumption
    <2>4. serials'[n] = last
      BY <1>3, <2>3
    <2>5. PICK new : new = [NoInterest EXCEPT !.serial = last, !.scope = target[n].scope]
      OBVIOUS
    <2>6. target[n].scope \in 0..MaxNameScope
      BY <1>3 DEF Target
    <2>7. new \in Interest /\ new.serial = last
      BY <2>3, <2>5, <2>6 DEF Interest, NoInterest
    <2>8. interest' = [interest EXCEPT ![n] = new] /\ interest'[n] = new
      BY <1>3, <1>12, <2>4, <2>5
    <2>9. /\ Interests \in SUBSET Names /\ Interests' \in SUBSET Names
          /\ Interests' \subseteq Interests \cup {n}
      BY <1>3, <2>8 DEF Interests
    <2>10. {m \in Interests : m # n} = Interests \ {n}
      OBVIOUS
    <2>11. Cardinality(Interests') <= MaxPending
      BY <1>3, <1>12, <2>9, <2>10, InterestAssumption, InterestsCounted
    <2>12. ASSUME NEW i \in Serials PROVE RunFits(n, i)'
      <3>1. RunFits(n, i) /\ updates[n][i] \in {"none", "loading", "complete"}
        BY RunsNow
      <3>2. i = last => publisher[n][i].step = "none" /\ updates[n][i] = "none"
        BY <1>3, <2>2, <3>1 DEF RunFits
      <3>3. i <= serials[n] => i <= last
        BY <1>3, <2>2 DEF Serials
      <3> QED
        BY <1>6, <2>4, <2>7, <2>8, <3>1, <3>2, <3>3 DEF RunFits
    <2>13. new.serial <= last
      BY <2>3, <2>7
    <2> QED
      BY <1>6, <1>7, <2>1, <2>3, <2>7, <2>8, <2>11, <2>12, <2>13, InterestsKept
  <1> QED
    BY <1>8, <1>9, <1>11, <1>12

\* What happens around the interests, and the end of a wait or of the session.
LEMMA InterestWorldKeeps ==
  ASSUME InterestIInv,
         \/ \E n \in Names : \/ PhaseChanges(n) \/ TargetChanges(n) \/ WaitEnds(n)
                             \/ \E q \in Queries : AskReady(q, n)
         \/ CloseInterests \/ UNCHANGED interestVars
  PROVE  InterestIInv'
  <1>1. /\ target \in [Names -> Target] /\ waits \in [Names -> 0..MaxNameScope]
        /\ interest \in [Names -> Interest] /\ serials \in [Names -> 0..MaxInterest]
        /\ queries \in [Queries -> Names \cup {"none", "forwarded", "refused"}]
        /\ Cardinality(Waits) <= MaxPending /\ Cardinality(Interests) <= MaxPending
        /\ over \in BOOLEAN /\ Waits \in SUBSET Names /\ Interests \in SUBSET Names
        /\ \A n \in Names : interest[n].serial <= serials[n]
    BY DEF InterestIInv, InterestTypeOK, Waits, Interests
  <1>2. target' \in [Names -> Target]
    <2>1. ASSUME NEW n \in Names, TargetChanges(n) PROVE target' \in [Names -> Target]
      <3>1. PICK next : next = [target[n] EXCEPT !.scope = target[n].scope + 1]
        OBVIOUS
      <3>2. next \in Target
        BY <1>1, <2>1, <3>1, InterestAssumption DEF TargetChanges, Target
      <3>3. target' = [target EXCEPT ![n] = next]
        BY <1>1, <2>1, <3>1 DEF TargetChanges
      <3> QED
        BY <1>1, <3>2, <3>3
    <2>2. ASSUME NEW n \in Names, PhaseChanges(n) PROVE target' \in [Names -> Target]
      <3>1. PICK phase \in {"pending", "ready", "failed"} :
              target' = [target EXCEPT ![n].phase = phase]
        BY <2>2 DEF PhaseChanges
      <3> QED
        BY <1>1, <3>1 DEF Target
    <2> QED
      BY <1>1, <2>1, <2>2 DEF WaitEnds, AskReady, CloseInterests, interestVars
  <1>3. waits' \in [Names -> 0..MaxNameScope] /\ Waits' \in SUBSET Waits
    <2>1. ASSUME NEW n \in Names, WaitEnds(n)
          PROVE  waits' \in [Names -> 0..MaxNameScope] /\ Waits' \in SUBSET Waits
      <3>1. waits' = [waits EXCEPT ![n] = 0] /\ 0 \in 0..MaxNameScope
        BY <2>1, InterestAssumption DEF WaitEnds
      <3> QED
        BY <1>1, <3>1 DEF Waits
    <2> QED
      BY <1>1, <2>1
         DEF PhaseChanges, TargetChanges, AskReady, CloseInterests, interestVars, Waits
  <1>4. queries' \in [Queries -> Names \cup {"none", "forwarded", "refused"}]
    BY <1>1 DEF PhaseChanges, TargetChanges, WaitEnds, AskReady, CloseInterests, interestVars
  <1>5. over' \in BOOLEAN /\ UNCHANGED <<serials, publisher, updates>>
    BY <1>1 DEF PhaseChanges, TargetChanges, WaitEnds, AskReady, CloseInterests, interestVars
  <1>6. interest' \in {interest, [n \in Names |-> NoInterest]}
    BY DEF PhaseChanges, TargetChanges, WaitEnds, AskReady, CloseInterests, interestVars
  <1>7. /\ interest' \in [Names -> Interest] /\ Interests' \in SUBSET Interests
        /\ \A n \in Names : interest'[n].serial <= serials'[n]
    BY <1>1, <1>5, <1>6, NothingOfInterest, InterestAssumption DEF Interests
  <1>8. Cardinality(Waits') <= MaxPending /\ Cardinality(Interests') <= MaxPending
    BY <1>1, <1>3, <1>7, InterestAssumption, InterestsCounted
  <1>9. InterestTypeOK'
    BY <1>1, <1>2, <1>3, <1>4, <1>5, <1>7, <1>8 DEF InterestTypeOK, InterestIInv
  <1>10. ASSUME NEW n \in Names, NEW i \in Serials PROVE RunFits(n, i)'
    <2>1. interest'[n] \in {interest[n], NoInterest} /\ i # 0
      BY <1>6 DEF Serials
    <2> QED
      BY <1>5, <2>1, RunsNow, NothingOfInterest DEF RunFits
  <1> QED
    BY <1>9, <1>10 DEF InterestIInv

LEMMA InterestInductive == InterestIInv /\ [InterestNext]_interestVars => InterestIInv'
  BY InterestRefreshed, RunSteps, AsksPending, InterestWorldKeeps DEF InterestNext

LEMMA InterestStep ==
  ASSUME InterestIInv, [InterestNext]_interestVars,
         NEW n \in Names, NEW i \in Serials, updates'[n][i] # updates[n][i]
  PROVE  /\ updates[n][i] # "complete"
         /\ interest[n].serial = i /\ ~interest[n].old
         /\ publisher[n][i].scope = target[n].scope
  <1>1. PICK m \in Names, j \in Serials : PublishCatalog(m, j)
    BY ZenonT(60) DEF InterestNext, PublisherStep, interestVars, PhaseChanges, TargetChanges,
       WaitEnds, InterestAges, RefreshDrops, RefreshPublishes, AskReady, AskPending, CloseInterests,
       CatalogReplies, CatalogFails
  <1>2. /\ ~(interest[m].serial = j /\ interest[m].old) /\ MayPublish(m, j)
        /\ updates' = [updates EXCEPT ![m][j] = publisher[m][j].reply]
        /\ publisher[m][j].step = "publish"
    BY <1>1 DEF PublishCatalog
  <1>3. m = n /\ j = i
    BY <1>2, InterestsNow, RunsNow
  <1> QED
    BY <1>2, <1>3, RunsNow DEF MayPublish, BoundInterest, RunFits

\* One run at a time publishes an interest, and an update is sent only for the
\* interest in place, in its scope, and none after a complete catalog.
THEOREM InterestsAreServed == InterestSpec => InterestsServed
  <1> DEFINE Fits ==
        \A n \in Names : \A i \in Serials : updates'[n][i] # updates[n][i] =>
          /\ updates[n][i] # "complete"
          /\ interest[n].serial = i /\ ~interest[n].old
          /\ publisher[n][i].scope = target[n].scope
  <1>1. InterestIInv => PublishersMatchInterests
    BY DEF InterestIInv, RunFits, PublishersMatchInterests
  <1>2. InterestIInv /\ [InterestNext]_interestVars => [Fits]_interestVars
    BY InterestStep
  <1> HIDE DEF Fits
  <1>3. InterestSpec => [](PublishersMatchInterests) /\ [][Fits]_interestVars
    BY <1>1, <1>2, InterestInitial, InterestInductive, PTL DEF InterestSpec
  <1> QED
    BY <1>3 DEF Fits, InterestsServed, UpdatesFitInterest

-----------------------------------------------------------------------------
(* Retained transcripts on their way to a client (readRetainedHistory() of  *)
(* client.ts and the timeline request of session.ts).                       *)

AdmittedIn(x) == x.step \in {"queued", "inspect", "recheck", "create", "startup", "verify",
                             "exec", "cleanup"}
\* Admitted reads, without those that gave up before they had made a Pod.
InLine(x) == AdmittedIn(x) /\ (x.step = "cleanup" => x.owns)
\* The read x waits for the turn of q.
Awaits(x, q) == x.step = "queued" /\ q \in x.after

\* Of two reads in line one waits for the other.
LinedUp(f) ==
  \A r, q \in Reads : r # q /\ InLine(f[r]) /\ InLine(f[q]) =>
    Awaits(f[r], q) \/ Awaits(f[q], r)

\* What a read knows of the workspace: the version it saw is past or present,
\* and the transcript it has is that of the stop it saw.
ReadRight(x, ws) ==
  /\ x.step \in {"none", "agent", "receipt", "queued", "inspect", "recheck", "create"} => ~x.owns
  /\ x.step \notin {"none", "done"} =>
       /\ x.seen.version <= ws.version
       /\ x.seen.version = ws.version => x.seen = ws
  /\ AdmittedIn(x) => x.seen.stopped
  /\ x.got # 0 => x.step # "none" /\ x.seen.stopped /\ x.got = x.seen.generation
  /\ x.step # "done" => x.shown = 0

\* A stopped workspace has no Pod, and generations are counted by versions.
StopsRight(ws, pod) ==
  /\ ws.stopped => ~ws.running /\ pod = "none"
  /\ ws.generation <= ws.version

ReadersIn(f) == {r \in Reads : AdmittedIn(f[r])}

ReaderIInv ==
  /\ ReaderTypeOK /\ StopsRight(stoppable, compute)
  /\ \A r \in Reads : ReadRight(read[r], stoppable)
  /\ LinedUp(read)
  /\ activeReaders = Cardinality(ReadersIn(read))

LEMMA NewReadIs ==
  /\ Stopped \in Stoppable /\ NewRead \in Read
  /\ NewRead.step = "none" /\ NewRead.seen = Stopped /\ NewRead.after = {}
  /\ NewRead.owns = FALSE /\ NewRead.late = FALSE /\ NewRead.got = 0 /\ NewRead.shown = 0
  BY ReaderAssumption DEF Stopped, Stoppable, NewRead, Read, ReadSteps

LEMMA ReaderInitial == ReaderInit => ReaderIInv
  <1> SUFFICES ASSUME ReaderInit PROVE ReaderIInv
    OBVIOUS
  <1>1. /\ read \in [Reads -> Read] /\ stoppable \in Stoppable
        /\ \A r \in Reads : read[r] = NewRead
    BY NewReadIs DEF ReaderInit
  <1>2. 0 \in 0..MaxReaders /\ 0 \in 0..MaxReaderFaults /\ 1 \in 0..MaxWsVersion
    BY ReaderAssumption
  <1>3. NoPod \in ReaderPod
    BY DEF NoPod, ReaderPod
  <1>4. ReaderTypeOK
    BY <1>1, <1>2, <1>3 DEF ReaderInit, ReaderTypeOK
  <1>5. ReadersIn(read) = {} /\ LinedUp(read)
    BY <1>1, NewReadIs DEF ReadersIn, LinedUp, InLine, AdmittedIn
  <1>6. \A r \in Reads : ReadRight(read[r], stoppable)
    BY <1>1, NewReadIs DEF ReadRight, AdmittedIn
  <1>7. StopsRight(stoppable, compute)
    BY DEF ReaderInit, StopsRight, Stopped
  <1> QED
    BY <1>4, <1>5, <1>6, <1>7, FS_EmptySet DEF ReaderIInv, ReaderInit

LEMMA ReadersNow ==
  ASSUME ReaderIInv
  PROVE  /\ stoppable \in Stoppable /\ captured \in 0..MaxWsVersion
         /\ compute \in {"none", "starting", "there"} /\ read \in [Reads -> Read]
         /\ activeReaders \in 0..MaxReaders /\ creating \subseteq Reads
         /\ readerPod \in ReaderPod /\ readerFaults \in 0..MaxReaderFaults
         /\ LinedUp(read) /\ activeReaders = Cardinality(ReadersIn(read))
         /\ StopsRight(stoppable, compute)
         /\ \A r \in Reads : read[r] \in Read /\ ReadRight(read[r], stoppable)
  BY DEF ReaderIInv, ReaderTypeOK

\* What a step does around the reads.
AroundReads ==
  /\ captured' \in 0..MaxWsVersion /\ compute' \in {"none", "starting", "there"}
  /\ creating' \subseteq Reads /\ readerPod' \in ReaderPod
  /\ readerFaults' \in 0..MaxReaderFaults

\* One read moves on and stays admitted, or stays outside.
LEMMA ReadMoves ==
  ASSUME ReaderIInv, AroundReads, UNCHANGED <<stoppable, compute, activeReaders>>,
         NEW r \in Reads, NEW x \in Read, read' = [read EXCEPT ![r] = x],
         ReadRight(x, stoppable), AdmittedIn(x) <=> AdmittedIn(read[r]),
         InLine(x) => /\ InLine(read[r])
                      /\ \/ read[r].step # "queued" \/ x = read[r]
                         \/ \A q \in read[r].after : ~AdmittedIn(read[q])
  PROVE  ReaderIInv'
  <1>1. /\ read' \in [Reads -> Read] /\ read'[r] = x
        /\ \A q \in Reads \ {r} : read'[q] = read[q]
    BY ReadersNow
  <1>2. ReaderTypeOK' /\ StopsRight(stoppable, compute)'
    BY <1>1, ReadersNow DEF AroundReads, ReaderTypeOK, StopsRight
  <1>3. \A q \in Reads : ReadRight(read'[q], stoppable)
    BY <1>1, ReadersNow
  <1>4. ReadersIn(read') = ReadersIn(read)
    BY <1>1 DEF ReadersIn
  <1>5. LinedUp(read')
    <2>1. ASSUME NEW p \in Reads, NEW q \in Reads, p # q, InLine(read'[p]), InLine(read'[q])
          PROVE  Awaits(read'[p], q) \/ Awaits(read'[q], p)
      <3>1. /\ InLine(read[p]) /\ InLine(read[q])
            /\ Awaits(read[p], q) \/ Awaits(read[q], p)
        BY <1>1, <2>1, ReadersNow DEF LinedUp
      <3>2. AdmittedIn(read[p]) /\ AdmittedIn(read[q])
        BY <3>1 DEF InLine
      <3> QED
        BY <1>1, <2>1, <3>1, <3>2 DEF Awaits
    <2> QED
      BY <2>1 DEF LinedUp
  <1>6. (activeReaders = Cardinality(ReadersIn(read)))'
    <2>1. activeReaders' = Cardinality(ReadersIn(read'))
      BY <1>4, ReadersNow
    <2> QED
      BY <2>1 DEF ReadersIn, AdmittedIn
  <1>7. (\A q \in Reads : ReadRight(read[q], stoppable))'
    BY <1>3 DEF ReadRight, AdmittedIn
  <1>8. LinedUp(read)'
    BY <1>5 DEF LinedUp, InLine, AdmittedIn, Awaits
  <1> QED
    BY <1>2, <1>6, <1>7, <1>8 DEF ReaderIInv

\* One read that is not the last of its step: the shape of its steps.
LEMMA ReadMovesTo ==
  ASSUME ReaderIInv, AroundReads, UNCHANGED <<stoppable, compute, activeReaders>>,
         NEW r \in Reads, NEW s \in ReadSteps, read' = ReadGoes(r, s),
         AdmittedIn(read[r]), s \in {"recheck", "create", "verify", "exec", "cleanup"},
         s \in {"recheck", "create"} => ~read[r].owns, read[r].step # "queued",
         s # "cleanup" => InLine(read[r]), s = "cleanup" /\ read[r].owns => InLine(read[r])
  PROVE  ReaderIInv'
  <1> DEFINE x == [read[r] EXCEPT !.step = s]
  <1>1. read[r] \in Read /\ ReadRight(read[r], stoppable)
    BY ReadersNow
  <1>2. /\ x \in Read /\ x.step = s /\ x.seen = read[r].seen /\ x.owns = read[r].owns
        /\ x.got = read[r].got /\ x.shown = read[r].shown
    BY <1>1 DEF Read
  <1>3. read' = [read EXCEPT ![r] = x]
    BY ReadersNow DEF ReadGoes
  <1> HIDE DEF x
  <1>4. ReadRight(x, stoppable)
    BY <1>1, <1>2 DEF ReadRight, AdmittedIn
  <1>5. AdmittedIn(x) /\ (InLine(x) => InLine(read[r]))
    BY <1>1, <1>2 DEF AdmittedIn, InLine
  <1> QED
    BY <1>2, <1>3, <1>4, <1>5, ReadMoves

\* A read that is over has nothing to lose.
LEMMA ReadEndsRight ==
  ASSUME ReaderIInv, NEW r \in Reads, NEW h \in 0..MaxWsVersion
  PROVE  /\ [NewRead EXCEPT !.step = "done", !.shown = h] \in Read
         /\ [NewRead EXCEPT !.step = "done", !.shown = h].step = "done"
         /\ [NewRead EXCEPT !.step = "done", !.shown = h].shown = h
         /\ ReadRight([NewRead EXCEPT !.step = "done", !.shown = h], stoppable)
         /\ ~AdmittedIn([NewRead EXCEPT !.step = "done", !.shown = h])
         /\ ~InLine([NewRead EXCEPT !.step = "done", !.shown = h])
  BY NewReadIs DEF NewRead, Read, ReadSteps, ReadRight, AdmittedIn, InLine

\* A read outside the line ends.
LEMMA ReadEndsOutside ==
  ASSUME ReaderIInv, AroundReads, UNCHANGED <<stoppable, compute, activeReaders>>,
         NEW r \in Reads, NEW h \in 0..MaxWsVersion, read' = ReadEnds(r, h),
         ~AdmittedIn(read[r])
  PROVE  ReaderIInv'
  <1> DEFINE x == [NewRead EXCEPT !.step = "done", !.shown = h]
  <1>1. x \in Read /\ ReadRight(x, stoppable) /\ ~AdmittedIn(x) /\ ~InLine(x)
    BY ReadEndsRight
  <1>2. read' = [read EXCEPT ![r] = x]
    BY DEF ReadEnds
  <1> HIDE DEF x
  <1> QED
    BY <1>1, <1>2, ReadMoves

LEMMA AskStepSafe ==
  ASSUME ReaderIInv, NEW r \in Reads, AskTimeline(r)
  PROVE  ReaderIInv'
  <1> DEFINE x == [read[r] EXCEPT !.step = "agent", !.seen = stoppable]
  <1>1. /\ read[r] \in Read /\ ReadRight(read[r], stoppable) /\ stoppable \in Stoppable
        /\ read[r].step = "none"
    BY ReadersNow DEF AskTimeline
  <1>2. /\ x \in Read /\ x.step = "agent" /\ x.seen = stoppable
        /\ x.owns = read[r].owns /\ x.got = read[r].got /\ x.shown = read[r].shown
    BY <1>1 DEF Read, ReadSteps
  <1>3. read' = [read EXCEPT ![r] = x]
    BY ReadersNow DEF AskTimeline, ReadGoes
  <1> HIDE DEF x
  <1>4. AroundReads /\ UNCHANGED <<stoppable, compute, activeReaders>>
    BY ReadersNow DEF AskTimeline, AroundReads
  <1>5. ReadRight(x, stoppable)
    BY <1>1, <1>2 DEF ReadRight, AdmittedIn, Stoppable
  <1>6. ~AdmittedIn(x) /\ ~AdmittedIn(read[r]) /\ ~InLine(x)
    BY <1>1, <1>2 DEF AdmittedIn, InLine
  <1> QED
    BY <1>2, <1>3, <1>4, <1>5, <1>6, ReadMoves

LEMMA CheckStepSafe ==
  ASSUME ReaderIInv, NEW r \in Reads, CheckAgent(r)
  PROVE  ReaderIInv'
  <1> DEFINE x == [read[r] EXCEPT !.step = "receipt"]
  <1>1. /\ read[r] \in Read /\ ReadRight(read[r], stoppable) /\ read[r].step = "agent"
        /\ ~AdmittedIn(read[r])
    BY ReadersNow DEF CheckAgent, AdmittedIn
  <1>2. /\ x \in Read /\ x.step = "receipt" /\ x.seen = read[r].seen
        /\ x.owns = read[r].owns /\ x.got = read[r].got /\ x.shown = read[r].shown
    BY <1>1 DEF Read, ReadSteps
  <1>4. AroundReads /\ UNCHANGED <<stoppable, compute, activeReaders>>
    BY ReadersNow DEF CheckAgent, AroundReads
  <1>5. CASE read' = ReadGoes(r, "receipt")
    <2>1. read' = [read EXCEPT ![r] = x]
      BY <1>5, ReadersNow DEF ReadGoes
    <2> HIDE DEF x
    <2>2. ReadRight(x, stoppable) /\ ~AdmittedIn(x) /\ ~InLine(x)
      BY <1>1, <1>2 DEF ReadRight, AdmittedIn, InLine
    <2> QED
      BY <1>1, <1>2, <1>4, <2>1, <2>2, ReadMoves
  <1>6. CASE read' = ReadEnds(r, 0)
    <2>1. 0 \in 0..MaxWsVersion
      BY ReaderAssumption
    <2> QED
      BY <1>1, <1>4, <1>6, <2>1, ReadEndsOutside
  <1> QED
    BY <1>5, <1>6 DEF CheckAgent

LEMMA TurnStepSafe ==
  ASSUME ReaderIInv, NEW r \in Reads, TurnComes(r)
  PROVE  ReaderIInv'
  <1> DEFINE x == [read[r] EXCEPT !.step = "inspect", !.after = {}]
  <1>1. /\ read[r] \in Read /\ ReadRight(read[r], stoppable) /\ read[r].step = "queued"
        /\ \A q \in read[r].after : ~AdmittedIn(read[q])
    BY ReadersNow DEF TurnComes, Admitted, AdmittedIn
  <1>2. /\ x \in Read /\ x.step = "inspect" /\ x.seen = read[r].seen
        /\ x.owns = read[r].owns /\ x.got = read[r].got /\ x.shown = read[r].shown
    BY <1>1 DEF Read, ReadSteps
  <1>3. read' = [read EXCEPT ![r] = x]
    BY ReadersNow DEF TurnComes, ReadGoes
  <1> HIDE DEF x
  <1>4. AroundReads /\ UNCHANGED <<stoppable, compute, activeReaders>>
    BY ReadersNow DEF TurnComes, AroundReads
  <1>5. ReadRight(x, stoppable)
    BY <1>1, <1>2 DEF ReadRight, AdmittedIn
  <1>6. AdmittedIn(x) /\ AdmittedIn(read[r]) /\ InLine(read[r])
    BY <1>1, <1>2 DEF AdmittedIn, InLine
  <1> QED
    BY <1>1, <1>2, <1>3, <1>4, <1>5, <1>6, ReadMoves

LEMMA WorkStepsSafe ==
  ASSUME ReaderIInv, NEW r \in Reads,
         \/ InspectReader(r) \/ RecheckWorkspace(r) \/ WatchReader(r) \/ VerifyWorkspace(r)
  PROVE  ReaderIInv'
  <1>1. /\ read[r] \in Read /\ ReadRight(read[r], stoppable)
        /\ UNCHANGED <<stoppable, compute, activeReaders>>
    BY ReadersNow DEF InspectReader, RecheckWorkspace, WatchReader, VerifyWorkspace
  <1>2. AroundReads
    BY ReadersNow DEF InspectReader, RecheckWorkspace, WatchReader, VerifyWorkspace, AroundReads
  <1>3. /\ read[r].step \in {"inspect", "recheck", "startup", "verify"}
        /\ \E s \in {"recheck", "create", "verify", "exec", "cleanup"} :
             /\ read' = ReadGoes(r, s)
             /\ s \in {"recheck", "create"} => read[r].step \in {"inspect", "recheck"}
    BY DEF InspectReader, RecheckWorkspace, WatchReader, VerifyWorkspace
  <1>4. PICK s \in {"recheck", "create", "verify", "exec", "cleanup"} :
             /\ read' = ReadGoes(r, s)
             /\ s \in {"recheck", "create"} => read[r].step \in {"inspect", "recheck"}
    BY <1>3
  <1>5. AdmittedIn(read[r]) /\ InLine(read[r]) /\ s \in ReadSteps
    BY <1>3 DEF AdmittedIn, InLine, ReadSteps
  <1>6. s \in {"recheck", "create"} => ~read[r].owns
    BY <1>1, <1>4 DEF ReadRight
  <1> QED
    BY <1>1, <1>2, <1>3, <1>4, <1>5, <1>6, ReadMovesTo

LEMMA ExecStepSafe ==
  ASSUME ReaderIInv, NEW r \in Reads, ExecRead(r)
  PROVE  ReaderIInv'
  <1>1. /\ read[r] \in Read /\ ReadRight(read[r], stoppable) /\ read[r].step = "exec"
        /\ UNCHANGED <<stoppable, compute, activeReaders>> /\ AroundReads
    BY ReadersNow DEF ExecRead, AroundReads
  <1>2. AdmittedIn(read[r]) /\ InLine(read[r])
    BY <1>1 DEF AdmittedIn, InLine
  <1>3. CASE read' = ReadGoes(r, "cleanup")
    <2>1. "cleanup" \in ReadSteps
      BY DEF ReadSteps
    <2> QED
      BY <1>1, <1>2, <1>3, <2>1, ReadMovesTo
  <1>4. CASE /\ captured = read[r].seen.generation
             /\ read' = [ReadGoes(r, "cleanup") EXCEPT ![r].got = captured]
    <2> DEFINE x == [read[r] EXCEPT !.step = "cleanup", !.got = captured]
    <2>1. captured \in 0..MaxWsVersion
      BY ReadersNow
    <2>2. /\ x \in Read /\ x.step = "cleanup" /\ x.seen = read[r].seen
          /\ x.owns = read[r].owns /\ x.got = captured /\ x.shown = read[r].shown
      BY <1>1, <2>1 DEF Read, ReadSteps
    <2>3. read' = [read EXCEPT ![r] = x]
      BY <1>4, ReadersNow DEF ReadGoes
    <2> HIDE DEF x
    <2>4. ReadRight(x, stoppable)
      BY <1>1, <1>2, <1>4, <2>2 DEF ReadRight, AdmittedIn
    <2>5. AdmittedIn(x)
      BY <2>2 DEF AdmittedIn
    <2> QED
      BY <1>1, <1>2, <2>2, <2>3, <2>4, <2>5, ReadMoves
  <1> QED
    BY <1>3, <1>4 DEF ExecRead

LEMMA AnswerStepSafe ==
  ASSUME ReaderIInv, NEW r \in Reads, AnswerTimeline(r)
  PROVE  ReaderIInv'
  <1>1. /\ read[r] \in Read /\ read[r].step = "final"
        /\ UNCHANGED <<stoppable, compute, activeReaders>> /\ AroundReads
    BY ReadersNow DEF AnswerTimeline, AroundReads
  <1>2. PICK h \in {0, read[r].got} : read' = ReadEnds(r, h)
    BY DEF AnswerTimeline
  <1>3. h \in 0..MaxWsVersion
    BY <1>1, ReaderAssumption DEF Read
  <1>4. ~AdmittedIn(read[r])
    BY <1>1 DEF AdmittedIn
  <1> QED
    BY <1>1, <1>2, <1>3, <1>4, ReadEndsOutside

LEMMA LateStepSafe ==
  ASSUME ReaderIInv, NEW r \in Reads, ReadIsLate(r)
  PROVE  ReaderIInv'
  <1>1. /\ read[r] \in Read /\ ReadRight(read[r], stoppable)
        /\ read[r].step \notin {"none", "cleanup", "done"}
        /\ UNCHANGED <<stoppable, compute, activeReaders>> /\ AroundReads
    BY ReadersNow DEF ReadIsLate, AroundReads
  <1>2. CASE ~AdmittedIn(read[r])
    <2>1. read' = ReadEnds(r, 0) /\ 0 \in 0..MaxWsVersion
      BY <1>2, ReaderAssumption DEF ReadIsLate, Admitted, AdmittedIn
    <2> QED
      BY <1>1, <1>2, <2>1, ReadEndsOutside
  <1>3. CASE AdmittedIn(read[r])
    <2> DEFINE x == [read[r] EXCEPT !.step = "cleanup", !.late = TRUE]
    <2>1. /\ x \in Read /\ x.step = "cleanup" /\ x.seen = read[r].seen
          /\ x.owns = read[r].owns /\ x.got = read[r].got /\ x.shown = read[r].shown
      BY <1>1 DEF Read, ReadSteps
    <2>2. read' = [ReadGoes(r, "cleanup") EXCEPT ![r].late = TRUE]
      BY <1>3 DEF ReadIsLate, Admitted, AdmittedIn
    <2>3. read' = [read EXCEPT ![r] = x]
      BY <2>2, ReadersNow DEF ReadGoes
    <2> HIDE DEF x
    <2>4. ReadRight(x, stoppable)
      BY <1>1, <1>3, <2>1 DEF ReadRight, AdmittedIn
    <2>5. AdmittedIn(x)
      BY <2>1 DEF AdmittedIn
    <2>6. InLine(x) => InLine(read[r]) /\ read[r].step # "queued"
      BY <1>1, <1>3, <2>1 DEF InLine, ReadRight
    <2> QED
      BY <1>1, <1>3, <2>1, <2>3, <2>4, <2>5, <2>6, ReadMoves
  <1> QED
    BY <1>2, <1>3

LEMMA LandStepSafe ==
  ASSUME ReaderIInv, NEW r \in Reads, CreateLands(r)
  PROVE  ReaderIInv'
  <1>1. /\ read[r] \in Read /\ ReadRight(read[r], stoppable)
        /\ UNCHANGED <<stoppable, captured, compute, activeReaders>>
        /\ creating' \subseteq Reads
    BY ReadersNow DEF CreateLands
  <1>2. [owner |-> r, phase |-> "starting"] \in ReaderPod
        /\ [owner |-> r, phase |-> "terminating"] \in ReaderPod
    BY DEF ReaderPod
  <1>3. readerPod' \in ReaderPod
    BY <1>2, ReadersNow DEF CreateLands
  <1>4. readerFaults' \in 0..MaxReaderFaults
    BY ReadersNow, ReaderAssumption DEF CreateLands, ReaderFault
  <1>5. AroundReads
    BY <1>1, <1>3, <1>4, ReadersNow DEF AroundReads
  <1>6. CASE read' = read
    <2>1. read' = [read EXCEPT ![r] = read[r]]
      BY <1>6, ReadersNow
    <2> QED
      BY <1>1, <1>5, <2>1, ReadMoves
  <1>7. CASE read[r].step = "create" /\ read' = ReadGoes(r, "cleanup")
    <2>1. AdmittedIn(read[r]) /\ InLine(read[r]) /\ "cleanup" \in ReadSteps
      BY <1>7 DEF AdmittedIn, InLine, ReadSteps
    <2> QED
      BY <1>1, <1>5, <1>7, <2>1, ReadMovesTo
  <1>8. CASE read[r].step = "create" /\ read' = [ReadGoes(r, "startup") EXCEPT ![r].owns = TRUE]
    <2> DEFINE x == [read[r] EXCEPT !.step = "startup", !.owns = TRUE]
    <2>1. /\ x \in Read /\ x.step = "startup" /\ x.seen = read[r].seen
          /\ x.got = read[r].got /\ x.shown = read[r].shown
      BY <1>1 DEF Read, ReadSteps
    <2>2. read' = [read EXCEPT ![r] = x]
      BY <1>8, ReadersNow DEF ReadGoes
    <2> HIDE DEF x
    <2>3. ReadRight(x, stoppable)
      BY <1>1, <1>8, <2>1 DEF ReadRight, AdmittedIn
    <2>4. AdmittedIn(x) /\ AdmittedIn(read[r]) /\ InLine(read[r])
      BY <1>8, <2>1 DEF AdmittedIn, InLine
    <2> QED
      BY <1>1, <1>5, <1>8, <2>1, <2>2, <2>3, <2>4, ReadMoves
  <1> QED
    BY <1>6, <1>7, <1>8 DEF CreateLands

\* The place at the reader is given and taken back together with the read's
\* admission.
LEMMA CaptureStepSafe ==
  ASSUME ReaderIInv, NEW r \in Reads, ReadCapture(r)
  PROVE  ReaderIInv'
  <1>1. /\ read[r] \in Read /\ ReadRight(read[r], stoppable) /\ read[r].step = "receipt"
        /\ ~AdmittedIn(read[r]) /\ ~InLine(read[r])
        /\ UNCHANGED <<stoppable, compute>> /\ AroundReads
    BY ReadersNow DEF ReadCapture, AroundReads, AdmittedIn, InLine
  <1>2. CASE read' = ReadGoes(r, "final") /\ UNCHANGED activeReaders
    <2> DEFINE x == [read[r] EXCEPT !.step = "final"]
    <2>1. /\ x \in Read /\ x.step = "final" /\ x.seen = read[r].seen
          /\ x.owns = read[r].owns /\ x.got = read[r].got /\ x.shown = read[r].shown
      BY <1>1 DEF Read, ReadSteps
    <2>2. read' = [read EXCEPT ![r] = x]
      BY <1>2, ReadersNow DEF ReadGoes
    <2> HIDE DEF x
    <2>3. ReadRight(x, stoppable) /\ ~AdmittedIn(x) /\ ~InLine(x)
      BY <1>1, <2>1 DEF ReadRight, AdmittedIn, InLine
    <2> QED
      BY <1>1, <1>2, <2>1, <2>2, <2>3, ReadMoves
  <1>3. CASE /\ read[r].seen.stopped /\ activeReaders < MaxReaders
             /\ activeReaders' = activeReaders + 1
             /\ read' = [ReadGoes(r, IF TurnsBefore(r) = {} THEN "inspect" ELSE "queued")
                           EXCEPT ![r].after = TurnsBefore(r)]
    <2>1. PICK s \in {"inspect", "queued"} :
            /\ s = "inspect" => TurnsBefore(r) = {}
            /\ read' = [ReadGoes(r, s) EXCEPT ![r].after = TurnsBefore(r)]
      BY <1>3
    <2>2. PICK before \in SUBSET Reads :
            before = TurnsBefore(r) /\ before = {q \in Reads \ {r} : AdmittedIn(read[q])}
      BY DEF TurnsBefore, Admitted, AdmittedIn
    <2> DEFINE x == [read[r] EXCEPT !.step = s, !.after = before]
    <2>3. /\ x \in Read /\ x.step = s /\ x.after = before /\ x.seen = read[r].seen
          /\ x.owns = read[r].owns /\ x.got = read[r].got /\ x.shown = read[r].shown
      BY <1>1 DEF Read, ReadSteps
    <2>4. read' = [read EXCEPT ![r] = x]
      BY <2>1, <2>2, ReadersNow DEF ReadGoes
    <2> HIDE DEF x
    <2>5. ReadRight(x, stoppable) /\ AdmittedIn(x)
      BY <1>1, <1>3, <2>3 DEF ReadRight, AdmittedIn
    <2>6. /\ read' \in [Reads -> Read] /\ read'[r] = x
          /\ \A q \in Reads \ {r} : read'[q] = read[q]
      BY <2>3, <2>4, ReadersNow
    <2>7. activeReaders' \in 0..MaxReaders
      BY <1>3, ReadersNow, ReaderAssumption
    <2>8. ReaderTypeOK' /\ StopsRight(stoppable, compute)'
      BY <1>1, <2>6, <2>7, ReadersNow DEF AroundReads, ReaderTypeOK, StopsRight
    <2>9. (\A q \in Reads : ReadRight(read[q], stoppable))'
      <3>1. \A q \in Reads : ReadRight(read'[q], stoppable)
        BY <2>5, <2>6, ReadersNow
      <3> QED
        BY <1>1, <3>1 DEF ReadRight, AdmittedIn
    <2>10. (activeReaders = Cardinality(ReadersIn(read)))'
      <3>1. ReadersIn(read') = ReadersIn(read) \cup {r} /\ r \notin ReadersIn(read)
        BY <1>1, <2>5, <2>6 DEF ReadersIn
      <3>2. IsFiniteSet(ReadersIn(read))
        BY FS_Subset, ReaderAssumption DEF ReadersIn
      <3>3. Cardinality(ReadersIn(read')) = Cardinality(ReadersIn(read)) + 1
        BY <3>1, <3>2, FS_AddElement
      <3>4. activeReaders' = Cardinality(ReadersIn(read'))
        BY <1>3, <3>3, ReadersNow
      <3> QED
        BY <3>4 DEF ReadersIn, AdmittedIn
    <2>11. ASSUME NEW p \in Reads, NEW q \in Reads, p # q, InLine(read'[p]), InLine(read'[q])
           PROVE  Awaits(read'[p], q) \/ Awaits(read'[q], p)
      <3>1. ASSUME NEW q2 \in Reads \ {r}, InLine(read'[q2])
            PROVE  Awaits(read'[r], q2)
        <4>1. AdmittedIn(read[q2])
          BY <2>6, <3>1 DEF InLine
        <4>2. q2 \in before /\ s = "queued"
          BY <2>1, <2>2, <4>1
        <4> QED
          BY <2>3, <2>6, <4>2 DEF Awaits
      <3>2. CASE p # r /\ q # r
        <4>1. Awaits(read[p], q) \/ Awaits(read[q], p)
          BY <2>6, <2>11, <3>2, ReadersNow DEF LinedUp
        <4> QED
          BY <2>6, <3>2, <4>1
      <3> QED
        BY <2>11, <3>1, <3>2
    <2>12. LinedUp(read)'
      BY <2>11 DEF LinedUp, InLine, AdmittedIn, Awaits
    <2> QED
      BY <2>8, <2>9, <2>10, <2>12 DEF ReaderIInv
  <1>4. \/ read' = ReadGoes(r, "final") /\ UNCHANGED activeReaders
        \/ /\ read[r].seen.stopped /\ ~(activeReaders >= MaxReaders)
           /\ activeReaders' = activeReaders + 1
           /\ read' = [ReadGoes(r, IF TurnsBefore(r) = {} THEN "inspect" ELSE "queued")
                         EXCEPT ![r].after = TurnsBefore(r)]
    BY DEF ReadCapture
  <1>5. ~(activeReaders >= MaxReaders) => activeReaders < MaxReaders
    BY ReadersNow, ReaderAssumption
  <1> QED
    BY <1>2, <1>3, <1>4, <1>5

LEMMA CleanUpStepSafe ==
  ASSUME ReaderIInv, NEW r \in Reads, CleanUp(r)
  PROVE  ReaderIInv'
  <1>1. /\ read[r] \in Read /\ ReadRight(read[r], stoppable) /\ read[r].step = "cleanup"
        /\ AdmittedIn(read[r]) /\ UNCHANGED <<stoppable, compute>>
        /\ activeReaders' = activeReaders - 1
    BY ReadersNow DEF CleanUp, AdmittedIn
  <1>2. AroundReads
    <2>1. [readerPod EXCEPT !.phase = "terminating"] \in ReaderPod
      BY ReadersNow DEF ReaderPod
    <2>2. readerPod' \in ReaderPod
      BY <2>1, ReadersNow DEF CleanUp
    <2>3. readerFaults' \in 0..MaxReaderFaults
      BY ReadersNow, ReaderAssumption DEF CleanUp, ReaderFault
    <2> QED
      BY <2>2, <2>3, ReadersNow DEF CleanUp, AroundReads
  <1>3. PICK x \in Read : /\ ReadRight(x, stoppable) /\ ~AdmittedIn(x) /\ ~InLine(x)
                          /\ read' = [read EXCEPT ![r] = x]
    <2>1. CASE read' = ReadEnds(r, 0)
      <3>1. 0 \in 0..MaxWsVersion
        BY ReaderAssumption
      <3> DEFINE x == [NewRead EXCEPT !.step = "done", !.shown = 0]
      <3>2. x \in Read /\ ReadRight(x, stoppable) /\ ~AdmittedIn(x) /\ ~InLine(x)
        BY <3>1, ReadEndsRight
      <3>3. read' = [read EXCEPT ![r] = x]
        BY <2>1 DEF ReadEnds
      <3> HIDE DEF x
      <3> QED
        BY <3>2, <3>3
    <2>2. CASE read' = ReadGoes(r, "final")
      <3> DEFINE x == [read[r] EXCEPT !.step = "final"]
      <3>1. /\ x \in Read /\ x.step = "final" /\ x.seen = read[r].seen
            /\ x.owns = read[r].owns /\ x.got = read[r].got /\ x.shown = read[r].shown
        BY <1>1 DEF Read, ReadSteps
      <3>2. read' = [read EXCEPT ![r] = x]
        BY <2>2, ReadersNow DEF ReadGoes
      <3> HIDE DEF x
      <3>3. ReadRight(x, stoppable) /\ ~AdmittedIn(x) /\ ~InLine(x)
        BY <1>1, <3>1 DEF ReadRight, AdmittedIn, InLine
      <3> QED
        BY <3>1, <3>2, <3>3
    <2> QED
      BY <2>1, <2>2 DEF CleanUp
  <1>4. /\ read' \in [Reads -> Read] /\ read'[r] = x
        /\ \A q \in Reads \ {r} : read'[q] = read[q]
    BY <1>3, ReadersNow
  <1>5. (activeReaders = Cardinality(ReadersIn(read)))' /\ activeReaders' \in 0..MaxReaders
    <2>1. ReadersIn(read') = ReadersIn(read) \ {r} /\ r \in ReadersIn(read)
      BY <1>1, <1>3, <1>4 DEF ReadersIn
    <2>2. IsFiniteSet(ReadersIn(read))
      BY FS_Subset, ReaderAssumption DEF ReadersIn
    <2>3. Cardinality(ReadersIn(read')) = Cardinality(ReadersIn(read)) - 1
      BY <2>1, <2>2, FS_RemoveElement
    <2>4. IsFiniteSet(ReadersIn(read')) /\ Cardinality(ReadersIn(read')) \in Nat
      BY <2>1, <2>2, FS_Subset, FS_CardinalityType
    <2>5. activeReaders' = Cardinality(ReadersIn(read')) /\ activeReaders' \in 0..MaxReaders
      BY <1>1, <2>3, <2>4, ReadersNow, ReaderAssumption
    <2> QED
      BY <2>5 DEF ReadersIn, AdmittedIn
  <1>6. ReaderTypeOK' /\ StopsRight(stoppable, compute)'
    BY <1>1, <1>2, <1>4, <1>5, ReadersNow DEF AroundReads, ReaderTypeOK, StopsRight
  <1>7. (\A q \in Reads : ReadRight(read[q], stoppable))'
    <2>1. \A q \in Reads : ReadRight(read'[q], stoppable)
      BY <1>3, <1>4, ReadersNow
    <2> QED
      BY <1>1, <2>1 DEF ReadRight, AdmittedIn
  <1>8. LinedUp(read)'
    <2>1. ASSUME NEW p \in Reads, NEW q \in Reads, p # q, InLine(read'[p]), InLine(read'[q])
          PROVE  Awaits(read'[p], q) \/ Awaits(read'[q], p)
      <3>1. p # r /\ q # r
        BY <1>3, <1>4, <2>1
      <3> QED
        BY <1>4, <2>1, <3>1, ReadersNow DEF LinedUp
    <2> QED
      BY <2>1 DEF LinedUp, InLine, AdmittedIn, Awaits
  <1> QED
    BY <1>5, <1>6, <1>7, <1>8 DEF ReaderIInv

LEMMA GatewayDiesSafe ==
  ASSUME ReaderIInv, GatewayDies
  PROVE  ReaderIInv'
  <1> DEFINE ended == [NewRead EXCEPT !.step = "done"]
  <1>1. /\ ended \in Read /\ ended.step = "done" /\ ended.got = 0 /\ ended.owns = FALSE
    BY NewReadIs DEF NewRead, Read, ReadSteps
  <1>2. ReadRight(ended, stoppable) /\ ~AdmittedIn(ended) /\ ~InLine(ended)
    BY <1>1 DEF ReadRight, AdmittedIn, InLine
  <1>3. \A r \in Reads : read'[r] = IF read[r].step \in {"none", "done"} THEN read[r] ELSE ended
    BY DEF GatewayDies
  <1>4. read' = [r \in Reads |-> IF read[r].step \in {"none", "done"} THEN read[r] ELSE ended]
    BY DEF GatewayDies
  <1> HIDE DEF ended
  <1>5. read' \in [Reads -> Read]
    BY <1>1, <1>4, ReadersNow
  <1>6. \A r \in Reads : ReadRight(read'[r], stoppable) /\ ~AdmittedIn(read'[r])
    <2>1. \A r \in Reads : read[r].step \in {"none", "done"} => ~AdmittedIn(read[r])
      BY DEF AdmittedIn
    <2> QED
      BY <1>2, <1>3, <2>1, ReadersNow
  <1>7. ReadersIn(read') = {}
    BY <1>6 DEF ReadersIn
  <1>8. /\ UNCHANGED <<stoppable, captured, compute>> /\ activeReaders' = 0
        /\ creating' = {}
    BY DEF GatewayDies
  <1>9. readerPod' \in ReaderPod /\ readerFaults' \in 0..MaxReaderFaults
    <2>1. \A r \in Reads : [owner |-> r, phase |-> "starting"] \in ReaderPod
      BY DEF ReaderPod
    <2> QED
      BY <2>1, ReadersNow, ReaderAssumption DEF GatewayDies, ReaderFault
  <1>10. ReaderTypeOK' /\ StopsRight(stoppable, compute)'
    BY <1>5, <1>8, <1>9, ReadersNow, ReaderAssumption DEF ReaderTypeOK, StopsRight
  <1>11. LinedUp(read)'
    BY <1>6 DEF LinedUp, InLine, AdmittedIn
  <1>12. (\A r \in Reads : ReadRight(read[r], stoppable))'
    BY <1>6, <1>8 DEF ReadRight, AdmittedIn
  <1>13. (activeReaders = Cardinality(ReadersIn(read)))'
    <2>1. activeReaders' = Cardinality(ReadersIn(read'))
      BY <1>7, <1>8, FS_EmptySet
    <2> QED
      BY <2>1 DEF ReadersIn, AdmittedIn
  <1> QED
    BY <1>10, <1>11, <1>12, <1>13 DEF ReaderIInv

\* The world moves on: what the reads know is kept, or becomes the past.
LEMMA WorldMoves ==
  ASSUME ReaderIInv, UNCHANGED <<read, activeReaders>>, creating' \subseteq Reads,
         captured' \in 0..MaxWsVersion, compute' \in {"none", "starting", "there"},
         readerPod' \in ReaderPod, readerFaults' \in 0..MaxReaderFaults,
         stoppable' \in Stoppable, StopsRight(stoppable', compute'),
         stoppable' = stoppable \/ stoppable'.version > stoppable.version
  PROVE  ReaderIInv'
  <1>1. ReaderTypeOK' /\ StopsRight(stoppable, compute)'
    BY ReadersNow DEF ReaderTypeOK, StopsRight
  <1>2. (\A r \in Reads : ReadRight(read[r], stoppable))'
    <2>1. \A r \in Reads : ReadRight(read[r], stoppable')
      <3> SUFFICES ASSUME NEW r \in Reads PROVE ReadRight(read[r], stoppable')
        OBVIOUS
      <3>1. CASE stoppable' = stoppable
        BY <3>1, ReadersNow
      <3>2. CASE stoppable'.version > stoppable.version
        <4>1. /\ read[r] \in Read /\ ReadRight(read[r], stoppable)
              /\ stoppable.version \in Nat /\ stoppable'.version \in Nat
              /\ read[r].seen.version \in Nat
          BY ReadersNow DEF Read, Stoppable
        <4> QED
          BY <3>2, <4>1 DEF ReadRight
      <3> QED
        BY <3>1, <3>2
    <2>2. read' = read
      OBVIOUS
    <2> QED
      BY <2>1, <2>2 DEF ReadRight, AdmittedIn
  <1>3. LinedUp(read)' /\ (activeReaders = Cardinality(ReadersIn(read)))'
    BY ReadersNow DEF LinedUp, InLine, AdmittedIn, Awaits, ReadersIn
  <1> QED
    BY <1>1, <1>2, <1>3 DEF ReaderIInv

LEMMA WorkspaceStepSafe ==
  ASSUME ReaderIInv, WorkspaceStep
  PROVE  ReaderIInv'
  <1>1. /\ stoppable \in Stoppable /\ StopsRight(stoppable, compute)
        /\ captured \in 0..MaxWsVersion /\ stoppable.generation \in 0..MaxWsVersion
        /\ compute \in {"none", "starting", "there"}
    BY ReadersNow DEF Stoppable
  <1>2. /\ UNCHANGED <<read, activeReaders, creating, readerPod, readerFaults>>
        /\ captured' \in 0..MaxWsVersion /\ compute' \in {"none", "starting", "there"}
    BY <1>1 DEF WorkspaceStep, ChangeResidency, ControllerChecksReader, ControllerStartsPod,
                ControllerStopsPod, StopCompletes, StorageReleased
  <1>3. /\ stoppable' \in Stoppable /\ StopsRight(stoppable', compute')
        /\ stoppable' = stoppable \/ stoppable'.version > stoppable.version
    <2> DEFINE v == stoppable.version
    <2>0. /\ v \in 1..MaxWsVersion /\ stoppable.generation \in 1..MaxWsVersion
          /\ stoppable.generation <= v
      BY <1>1 DEF Stoppable, StopsRight
    <2>1. CASE ChangeResidency
      <3>1. /\ stoppable' = [stoppable EXCEPT !.version = v + 1, !.running = ~@, !.stopped = FALSE,
                                              !.generation = @ + 1]
            /\ v < MaxWsVersion
        BY <1>1, <2>1 DEF ChangeResidency, ChangeWorkspace, Stoppable
      <3>2. stoppable' \in Stoppable
        <4>1. v + 1 \in 1..MaxWsVersion /\ stoppable.generation + 1 \in 1..MaxWsVersion
          BY <2>0, <3>1, ReaderAssumption
        <4> HIDE DEF v
        <4> QED
          BY <1>1, <3>1, <4>1 DEF Stoppable
      <3>3. /\ stoppable'.version = v + 1 /\ ~stoppable'.stopped
            /\ stoppable'.generation = stoppable.generation + 1
        BY <1>1, <3>1 DEF Stoppable
      <3> QED
        BY <2>0, <3>2, <3>3 DEF StopsRight
    <2>2. CASE ControllerChecksReader \/ ControllerStartsPod \/ ControllerStopsPod
      BY <1>1, <2>2 DEF ControllerChecksReader, ControllerStartsPod, ControllerStopsPod, StopsRight
    <2>3. CASE StopCompletes
      <3>1. /\ stoppable' = [stoppable EXCEPT !.version = v + 1, !.stopped = TRUE]
            /\ v < MaxWsVersion /\ ~stoppable.running /\ compute' = "none"
        BY <1>1, <2>3 DEF StopCompletes, ChangeWorkspace, Stoppable
      <3>2. stoppable' \in Stoppable
        <4>1. v + 1 \in 1..MaxWsVersion /\ stoppable.generation + 1 \in 1..MaxWsVersion
          BY <2>0, <3>1, ReaderAssumption
        <4> HIDE DEF v
        <4> QED
          BY <1>1, <3>1, <4>1 DEF Stoppable
      <3>3. /\ stoppable'.version = v + 1 /\ ~stoppable'.running
            /\ stoppable'.generation = stoppable.generation
        BY <1>1, <3>1 DEF Stoppable
      <3> QED
        BY <2>0, <3>1, <3>2, <3>3 DEF StopsRight
    <2>4. CASE StorageReleased
      <3>1. /\ stoppable' = [stoppable EXCEPT !.version = v + 1, !.stored = FALSE]
            /\ v < MaxWsVersion /\ compute' = compute
        BY <1>1, <2>4 DEF StorageReleased, ChangeWorkspace, Stoppable
      <3>2. stoppable' \in Stoppable
        <4>1. v + 1 \in 1..MaxWsVersion /\ stoppable.generation + 1 \in 1..MaxWsVersion
          BY <2>0, <3>1, ReaderAssumption
        <4> HIDE DEF v
        <4> QED
          BY <1>1, <3>1, <4>1 DEF Stoppable
      <3>3. /\ stoppable'.version = v + 1 /\ stoppable'.running = stoppable.running
            /\ stoppable'.stopped = stoppable.stopped
            /\ stoppable'.generation = stoppable.generation
        BY <1>1, <3>1 DEF Stoppable
      <3> QED
        BY <1>1, <2>0, <3>1, <3>2, <3>3 DEF StopsRight
    <2> QED
      BY <2>1, <2>2, <2>3, <2>4 DEF WorkspaceStep
  <1> QED
    BY <1>2, <1>3, ReadersNow, WorldMoves

LEMMA PodStepsSafe ==
  ASSUME ReaderIInv, ReaderPodStep \/ CleanupReaders
  PROVE  ReaderIInv'
  <1>1. readerPod \in ReaderPod
    BY ReadersNow
  <1>2. readerPod' \in ReaderPod
    BY <1>1, ReaderAssumption DEF ReaderPodStep, CleanupReaders, ReaderPod, NoPod
  <1>3. UNCHANGED <<stoppable, captured, compute, read, activeReaders, creating, readerFaults>>
    BY DEF ReaderPodStep, CleanupReaders
  <1> QED
    BY <1>2, <1>3, ReadersNow, WorldMoves

LEMMA ReaderInductive == ReaderIInv /\ [ReaderNext]_readerVars => ReaderIInv'
  <1> SUFFICES ASSUME ReaderIInv, [ReaderNext]_readerVars PROVE ReaderIInv'
    OBVIOUS
  <1>1. CASE WorkspaceStep
    BY <1>1, WorkspaceStepSafe
  <1>2. ASSUME NEW r \in Reads,
               AskTimeline(r) \/ ReadStep(r) \/ ReadIsLate(r) \/ CreateLands(r)
        PROVE  ReaderIInv'
    BY <1>2, AskStepSafe, CheckStepSafe, CaptureStepSafe, TurnStepSafe, WorkStepsSafe,
       ExecStepSafe, CleanUpStepSafe, AnswerStepSafe, LateStepSafe, LandStepSafe DEF ReadStep
  <1>3. CASE ReaderPodStep \/ CleanupReaders
    BY <1>3, PodStepsSafe
  <1>4. CASE GatewayDies
    BY <1>4, GatewayDiesSafe
  <1>5. CASE UNCHANGED readerVars
    BY <1>5, ReadersNow, WorldMoves DEF readerVars
  <1> QED
    BY <1>1, <1>2, <1>3, <1>4, <1>5 DEF ReaderNext

\* In line, and not waiting: its turn.
LEMMA ReadersKeepTheLine == ReaderIInv => ReadersTakeTurns
  <1> SUFFICES ASSUME ReaderIInv PROVE ReadersTakeTurns
    OBVIOUS
  <1>1. \A r \in Reads : Reading(r) => InLine(read[r]) /\ read[r].step # "queued"
    BY DEF Reading, InLine, AdmittedIn
  <1>2. \A r, q \in Reads : Reading(r) /\ Reading(q) => r = q
    BY <1>1, ReadersNow DEF LinedUp, Awaits
  <1>3. activeReaders = Cardinality({r \in Reads : Admitted(r)})
    BY ReadersNow DEF ReadersIn, AdmittedIn, Admitted
  <1> QED
    BY <1>2, <1>3 DEF ReadersTakeTurns

\* Only an answer shows something.
ShownRightly ==
  \A r \in Reads : read[r].shown # read'[r].shown =>
    /\ stoppable.stopped /\ stoppable.stored /\ compute = "none"
    /\ read'[r].shown = stoppable.generation

LEMMA ReaderShows == ReaderIInv /\ [ReaderNext]_readerVars => ShownRightly
  <1> SUFFICES ASSUME ReaderIInv, [ReaderNext]_readerVars,
                      NEW r \in Reads, read[r].shown # read'[r].shown
               PROVE  /\ stoppable.stopped /\ stoppable.stored /\ compute = "none"
                      /\ read'[r].shown = stoppable.generation
    BY DEF ShownRightly
  <1>1. \A q \in Reads : read[q] \in Read /\ ReadRight(read[q], stoppable)
    BY ReadersNow
  <1>2. \A q \in Reads : read[q].step # "done" => read[q].shown = 0
    BY <1>1 DEF ReadRight
  <1>3. ASSUME NEW q \in Reads, NEW s \in ReadSteps, read' = ReadGoes(q, s)
        PROVE  FALSE
    BY <1>1, <1>3, ReadersNow DEF ReadGoes, Read
  <1>4. ASSUME NEW q \in Reads, read' = ReadEnds(q, 0), read[q].step # "done"
        PROVE  FALSE
    BY <1>1, <1>2, <1>4, ReadersNow DEF ReadEnds, NewRead
  <1>5. ASSUME NEW q \in Reads, AskTimeline(q) \/ ReadStep(q) \/ ReadIsLate(q) \/ CreateLands(q)
        PROVE  AnswerTimeline(q) /\ q = r
    <2>1. CASE AskTimeline(q)
      BY <1>1, <2>1, ReadersNow DEF AskTimeline, ReadGoes, Read
    <2>2. CASE CheckAgent(q)
      BY <1>3, <1>4, <2>2 DEF CheckAgent, ReadSteps
    <2>3. CASE ReadCapture(q)
      BY <1>1, <2>3, ReadersNow DEF ReadCapture, ReadGoes, Read
    <2>4. CASE TurnComes(q)
      BY <1>1, <2>4, ReadersNow DEF TurnComes, ReadGoes, Read
    <2>5. CASE InspectReader(q) \/ RecheckWorkspace(q) \/ WatchReader(q) \/ VerifyWorkspace(q)
      BY <1>3, <2>5 DEF InspectReader, RecheckWorkspace, WatchReader, VerifyWorkspace, ReadSteps
    <2>6. CASE ExecRead(q)
      BY <1>1, <2>6, ReadersNow DEF ExecRead, ReadGoes, Read
    <2>7. CASE CleanUp(q)
      BY <1>3, <1>4, <2>7 DEF CleanUp, ReadSteps
    <2>8. CASE AnswerTimeline(q)
      <3>1. q # r => read'[r] = read[r]
        BY <2>8, ReadersNow DEF AnswerTimeline, ReadEnds
      <3> QED
        BY <2>8, <3>1
    <2>9. CASE ReadIsLate(q)
      <3>1. CASE read' = ReadEnds(q, 0)
        BY <1>4, <2>9, <3>1 DEF ReadIsLate
      <3>2. CASE read' = [ReadGoes(q, "cleanup") EXCEPT ![q].late = TRUE]
        BY <1>1, <3>2, ReadersNow DEF ReadGoes, Read
      <3> QED
        BY <2>9, <3>1, <3>2 DEF ReadIsLate
    <2>10. CASE CreateLands(q)
      <3>1. CASE read' = ReadGoes(q, "cleanup")
        BY <1>3, <3>1 DEF ReadSteps
      <3>2. CASE read' = [ReadGoes(q, "startup") EXCEPT ![q].owns = TRUE]
        BY <1>1, <3>2, ReadersNow DEF ReadGoes, Read
      <3> QED
        BY <2>10, <3>1, <3>2 DEF CreateLands
    <2> QED
      BY <1>5, <2>1, <2>2, <2>3, <2>4, <2>5, <2>6, <2>7, <2>8, <2>9, <2>10 DEF ReadStep
  <1>6. CASE WorkspaceStep \/ ReaderPodStep \/ CleanupReaders
    BY <1>6 DEF WorkspaceStep, ChangeResidency, ControllerChecksReader, ControllerStartsPod,
                ControllerStopsPod, StopCompletes, StorageReleased, ReaderPodStep, CleanupReaders
  <1>7. CASE GatewayDies
    <2>1. read'[r] = IF read[r].step \in {"none", "done"} THEN read[r]
                     ELSE [NewRead EXCEPT !.step = "done"]
      BY <1>7 DEF GatewayDies
    <2>2. [NewRead EXCEPT !.step = "done"].shown = 0
      BY DEF NewRead
    <2> QED
      BY <1>2, <2>1, <2>2
  <1>8. CASE AnswerTimeline(r)
    <2>1. /\ read[r].step = "final"
          /\ read' = ReadEnds(r, IF StillRetained(r) THEN read[r].got ELSE 0)
      BY <1>8 DEF AnswerTimeline
    <2>2. read'[r].shown = IF StillRetained(r) THEN read[r].got ELSE 0
      BY <2>1, ReadersNow DEF ReadEnds, NewRead
    <2>3. StillRetained(r) /\ read[r].got # 0 /\ read'[r].shown = read[r].got
      BY <1>2, <2>1, <2>2
    <2>4. read[r].seen = stoppable /\ stoppable.stored
      BY <1>1, <2>1, <2>3 DEF StillRetained, ReadRight
    <2>5. stoppable.stopped /\ read[r].got = stoppable.generation
      BY <1>1, <2>3, <2>4 DEF ReadRight
    <2> QED
      BY <2>3, <2>4, <2>5, ReadersNow DEF StopsRight
  <1>9. CASE UNCHANGED readerVars
    BY <1>9 DEF readerVars
  <1> QED
    BY <1>5, <1>6, <1>7, <1>8, <1>9 DEF ReaderNext

\* However many requests read the transcript of a stopped workspace, and
\* whenever they give up, one at a time has its turn, each admitted one is
\* counted, and a client is shown the transcript of the present stop alone
\* (activeHistoryReaders and historyReaderTails of client.ts, and the two
\* calls of retainedTimelineAgent()).
THEOREM ReadersAreSafe == ReaderSpec => ReadersSafe
  <1>1. ReaderIInv /\ [ReaderNext]_readerVars =>
          [\A r \in Reads : read[r].shown # read'[r].shown =>
              /\ stoppable.stopped /\ stoppable.stored /\ compute = "none"
              /\ read'[r].shown = stoppable.generation]_readerVars
    BY ReaderShows DEF ShownRightly
  <1> QED
    BY <1>1, ReaderInitial, ReaderInductive, ReadersKeepTheLine, PTL
       DEF ReaderSpec, ReadersSafe, ShownHistoryIsCurrent

-----------------------------------------------------------------------------
(* Snapshots of transcripts (captureRetainedHistory(), the receipt of       *)
(* retained-history.ts and docker/retained-history.mjs).                    *)

RowSpan(e, a, b) == {e} \X (a .. b)

\* The rows a .. b of one epoch, from the first on unless they were cut.
Unbroken(rows, truncated) ==
  \E e \in 1 .. MaxEpoch, a, b \in 1 .. MaxRows :
    a <= b /\ rows = RowSpan(e, a, b) /\ (~truncated => a = 1)

\* What a recorder that pages backwards has: the rows up to the one before
\* c.next, and the baseline page among them; it has not met the first row.
Paging(c) ==
  /\ ~c.truncated /\ c.epoch \in 1 .. MaxEpoch /\ c.next \in 2 .. MaxRows + 1
  /\ \E a, p \in 1 .. MaxRows :
       /\ 1 < a /\ a < c.next /\ p < c.next
       /\ c.rows = RowSpan(c.epoch, a, c.next - 1)
       /\ c.first = RowSpan(c.epoch, p, c.next - 1)

CaptureRight(x) ==
  /\ x.step # "idle" => x.gen # 0
  /\ x.step \notin {"idle", "tail", "older"} => x.at # 0
  /\ x.step \in {"idle", "tail"} => x.capture = EmptyCapture
  /\ x.step = "older" => Paging(x.capture)
  /\ x.capture.rows # {} /\ x.step # "older" => Unbroken(x.capture.rows, x.capture.truncated)

\* A receipt once read is the present one or older.
CopyPast(c, receipt) ==
  c # NoFile => receipt # NoFile /\ (c = receipt \/ ~NotNewer(receipt, c))

\* The name of the file the recorder r with state x writes.
NameFor(r, x) == [gen |-> x.gen, at |-> x.at, by |-> r]

\* What a recorder knows of the receipt: the one it holds is the present one
\* until it is swapped, and the file it is about to publish is there unless
\* the receipt has overtaken it.
CopyRight(r, x, files, receipt) ==
  /\ CopyPast(x.copy, receipt)
  /\ x.held => x.copy = receipt
  /\ x.step = "swap" => x.copy = NoFile \/ ~NotNewer(NameFor(r, x), x.copy)
  /\ x.step \in {"publish", "swap"} =>
       \/ \E f \in files : NameOf(f) = NameFor(r, x)
       \/ receipt # NoFile /\ NotNewer(NameFor(r, x), receipt)

HistoryIInv ==
  /\ HistoryTypeOK
  /\ \A r \in Recorders : /\ CaptureRight(recorder[r])
                          /\ CopyRight(r, recorder[r], historyFiles, historyReceipt)
  /\ \A f \in historyFiles : f.rows # {} => Unbroken(f.rows, f.truncated)
  /\ ReceiptFileKept

LEMMA NoFileIs ==
  /\ NoFile.gen = 0 /\ NoFile.at = 0 /\ NoFile \notin FileId
  /\ EmptyCapture \in Capture /\ EmptyCapture.rows = {} /\ EmptyCapture.next = 0
  /\ EmptyCapture.truncated = FALSE
  /\ Unrecorded \in Recorder /\ Unrecorded.step = "idle" /\ Unrecorded.held = FALSE
  /\ Unrecorded.copy = NoFile /\ Unrecorded.capture = EmptyCapture
  /\ \A n \in 0 .. MaxCaptureTime : [Unrecorded EXCEPT !.at = n] \in Recorder
  <1>1. /\ 0 \in 0 .. MaxEpoch /\ 0 \in 0 .. MaxRows + 1 /\ 0 \in 0 .. MaxGeneration
        /\ 0 \in 0 .. MaxCaptureTime /\ 0 \notin 1 .. MaxGeneration
    BY HistoryAssumption
  <1>2. NoFile.gen = 0 /\ NoFile.at = 0 /\ NoFile \notin FileId
    BY <1>1 DEF NoFile, FileId
  <1>3. /\ EmptyCapture \in Capture /\ EmptyCapture.rows = {} /\ EmptyCapture.next = 0
        /\ EmptyCapture.truncated = FALSE
    BY <1>1 DEF EmptyCapture, Capture
  <1>4. /\ Unrecorded.step = "idle" /\ Unrecorded.held = FALSE
        /\ Unrecorded.copy = NoFile /\ Unrecorded.capture = EmptyCapture
    BY DEF Unrecorded
  <1>5. ASSUME NEW n \in 0 .. MaxCaptureTime
        PROVE  /\ [Unrecorded EXCEPT !.at = n] \in Recorder /\ Unrecorded \in Recorder
    BY <1>1, <1>3 DEF Unrecorded, Recorder, RecorderSteps
  <1> QED
    BY <1>1, <1>2, <1>3, <1>4, <1>5

LEMMA HistoryInitial == HistoryInit => HistoryIInv
  <1> SUFFICES ASSUME HistoryInit PROVE HistoryIInv
    OBVIOUS
  <1>1. /\ \A r \in Recorders : recorder[r] = Unrecorded
        /\ recorder \in [Recorders -> Recorder]
    BY NoFileIs DEF HistoryInit
  <1>2. HistoryTypeOK
    BY <1>1, HistoryAssumption DEF HistoryInit, HistoryTypeOK
  <1>3. \A r \in Recorders : /\ CaptureRight(recorder[r])
                             /\ CopyRight(r, recorder[r], historyFiles, historyReceipt)
    BY <1>1, NoFileIs DEF CaptureRight, CopyRight, CopyPast
  <1> QED
    BY <1>2, <1>3 DEF HistoryInit, HistoryIInv, ReceiptFileKept

LEMMA HistoryNow ==
  ASSUME HistoryIInv
  PROVE  /\ timeline \in [epoch : 1 .. MaxEpoch, n : 1 .. MaxRows]
         /\ workspaceGen \in 1 .. MaxGeneration /\ captureClock \in 1 .. MaxCaptureTime
         /\ recorder \in [Recorders -> Recorder]
         /\ \A f \in historyFiles : f \in Snapshot
         /\ historyReceipt \in FileId \cup {NoFile}
         /\ \A r \in Recorders : /\ recorder[r] \in Recorder /\ CaptureRight(recorder[r])
                                 /\ CopyRight(r, recorder[r], historyFiles, historyReceipt)
         /\ \A f \in historyFiles : f.rows # {} => Unbroken(f.rows, f.truncated)
         /\ ReceiptFileKept
  BY DEF HistoryIInv, HistoryTypeOK

\* A recorder goes on and neither files nor receipt change.
LEMMA RecorderMoves ==
  ASSUME HistoryIInv, NEW r \in Recorders, NEW x \in Recorder,
         recorder' = [recorder EXCEPT ![r] = x], CaptureRight(x),
         CopyRight(r, x, historyFiles, historyReceipt),
         UNCHANGED <<timeline, workspaceGen, captureClock, historyFiles, historyReceipt>>
  PROVE  HistoryIInv'
  <1>1. /\ recorder' \in [Recorders -> Recorder] /\ recorder'[r] = x
        /\ \A q \in Recorders \ {r} : recorder'[q] = recorder[q]
    BY HistoryNow
  <1>2. HistoryTypeOK'
    BY <1>1, HistoryNow DEF HistoryTypeOK
  <1>3. \A q \in Recorders : /\ CaptureRight(recorder'[q])
                             /\ CopyRight(q, recorder'[q], historyFiles, historyReceipt)
    BY <1>1, HistoryNow
  <1>4. (\A q \in Recorders : /\ CaptureRight(recorder[q])
                              /\ CopyRight(q, recorder[q], historyFiles, historyReceipt))'
    BY <1>3 DEF CaptureRight, Paging, Unbroken, CopyRight, CopyPast, NameFor, NameOf, NotNewer
  <1>5. ReceiptFileKept'
    BY HistoryNow DEF ReceiptFileKept, NameOf
  <1>6. (\A f \in historyFiles : f.rows # {} => Unbroken(f.rows, f.truncated))'
    BY HistoryNow DEF Unbroken
  <1> QED
    BY <1>2, <1>4, <1>5, <1>6 DEF HistoryIInv

LEMMA RecorderRestsRight ==
  ASSUME HistoryIInv, NEW r \in Recorders, NEW files, NEW receipt
  PROVE  /\ [Unrecorded EXCEPT !.at = recorder[r].at] \in Recorder
         /\ CaptureRight([Unrecorded EXCEPT !.at = recorder[r].at])
         /\ CopyRight(r, [Unrecorded EXCEPT !.at = recorder[r].at], files, receipt)
  <1>1. recorder[r].at \in 0 .. MaxCaptureTime
    BY HistoryNow DEF Recorder
  <1> DEFINE x == [Unrecorded EXCEPT !.at = recorder[r].at]
  <1>2. /\ x \in Recorder /\ x.step = "idle" /\ x.held = FALSE /\ x.copy = NoFile
        /\ x.capture = EmptyCapture
    BY <1>1, NoFileIs DEF Unrecorded
  <1> HIDE DEF x
  <1>3. CaptureRight(x) /\ CopyRight(r, x, files, receipt)
    BY <1>2, NoFileIs DEF CaptureRight, CopyRight, CopyPast
  <1> QED
    BY <1>2, <1>3 DEF x

LEMMA RestStepSafe ==
  ASSUME HistoryIInv, NEW r \in Recorders, recorder' = RecorderRests(r),
         UNCHANGED <<timeline, workspaceGen, captureClock, historyFiles, historyReceipt>>
  PROVE  HistoryIInv'
  <1> DEFINE x == [Unrecorded EXCEPT !.at = recorder[r].at]
  <1>1. /\ x \in Recorder /\ CaptureRight(x)
        /\ CopyRight(r, x, historyFiles, historyReceipt)
    BY RecorderRestsRight
  <1>2. recorder' = [recorder EXCEPT ![r] = x]
    BY DEF RecorderRests
  <1> HIDE DEF x
  <1> QED
    BY <1>1, <1>2, RecorderMoves

LEMMA BeginStepSafe ==
  ASSUME HistoryIInv, NEW r \in Recorders, BeginCapture(r)
  PROVE  HistoryIInv'
  <1> DEFINE x == [recorder[r] EXCEPT !.step = "tail", !.gen = workspaceGen]
  <1>1. /\ recorder[r] \in Recorder /\ CaptureRight(recorder[r]) /\ recorder[r].step = "idle"
        /\ CopyRight(r, recorder[r], historyFiles, historyReceipt)
        /\ workspaceGen \in 1 .. MaxGeneration
    BY HistoryNow DEF BeginCapture
  <1>2. /\ x \in Recorder /\ x.step = "tail" /\ x.gen = workspaceGen
        /\ x.capture = recorder[r].capture /\ x.copy = recorder[r].copy
        /\ x.held = recorder[r].held
    <2>1. workspaceGen \in 0 .. MaxGeneration /\ "tail" \in RecorderSteps
      BY <1>1, HistoryAssumption DEF RecorderSteps
    <2> QED
      BY <1>1, <2>1 DEF Recorder
  <1>3. /\ recorder' = [recorder EXCEPT ![r] = x]
        /\ UNCHANGED <<timeline, workspaceGen, captureClock, historyFiles, historyReceipt>>
    BY HistoryNow DEF BeginCapture
  <1> HIDE DEF x
  <1>4. CaptureRight(x)
    BY <1>1, <1>2, NoFileIs DEF CaptureRight
  <1>5. CopyRight(r, x, historyFiles, historyReceipt)
    BY <1>1, <1>2 DEF CopyRight
  <1> QED
    BY <1>2, <1>3, <1>4, <1>5, RecorderMoves

-----------------------------------------------------------------------------
(* Pages.                                                                   *)

\* The rows of an interval.
LEMMA RowsOfInterval ==
  ASSUME NEW e, NEW a \in Nat, NEW b \in Nat, a <= b
  PROVE  /\ Seqs(RowSpan(e, a, b)) = a .. b /\ Least(Seqs(RowSpan(e, a, b))) = a
         /\ RowSpan(e, a, b) # {}
  <1>1. Seqs(RowSpan(e, a, b)) = a .. b
    <2>1. ASSUME NEW s \in Seqs(RowSpan(e, a, b)) PROVE s \in a .. b
      BY DEF Seqs, RowSpan
    <2>2. ASSUME NEW s \in a .. b PROVE s \in Seqs(RowSpan(e, a, b))
      <3>1. <<e, s>> \in RowSpan(e, a, b) /\ <<e, s>>[2] = s
        BY DEF RowSpan
      <3> QED
        BY <3>1 DEF Seqs
    <2> QED
      BY <2>1, <2>2
  <1>2. Least(a .. b) = a
    <2>1. a \in a .. b /\ \A t \in a .. b : a <= t
      OBVIOUS
    <2>2. Least(a .. b) \in a .. b /\ \A t \in a .. b : Least(a .. b) <= t
      BY <2>1 DEF Least
    <2> QED
      BY <2>1, <2>2
  <1>3. <<e, a>> \in RowSpan(e, a, b)
    BY DEF RowSpan
  <1> QED
    BY <1>1, <1>2, <1>3

\* A page ends before its cursor, or at the last row.
LEMMA PageIs ==
  ASSUME HistoryIInv, NEW before \in Nat, NEW high \in 1 .. MaxRows,
         high = IF before > timeline.n THEN timeline.n ELSE before - 1
  PROVE  \E lo \in 1 .. high : Page(before) = RowSpan(timeline.epoch, lo, high)
  <1>1. timeline.n \in 1 .. MaxRows /\ HistoryPageSize \in Nat \ {0} /\ MaxRows \in Nat
    BY HistoryNow, HistoryAssumption
  <1>2. high <= timeline.n
    BY <1>1
  <1>3. PICK lo \in 1 .. high :
          lo = IF high - HistoryPageSize + 1 >= 1 THEN high - HistoryPageSize + 1 ELSE 1
    BY <1>1
  <1>4. (high - HistoryPageSize + 1) .. high \cap 1 .. timeline.n = lo .. high
    BY <1>1, <1>2, <1>3
  <1>5. Page(before) = RowSpan(timeline.epoch, lo, high)
    BY <1>4 DEF Page, RowSpan
  <1> QED
    BY <1>5

\* The baseline page.
LEMMA TailExtends ==
  ASSUME HistoryIInv, NEW page, page = Page(timeline.n + 1),
         NEW nx, nx = Extended(EmptyCapture, page)
  PROVE  /\ nx \in Capture
         /\ nx.truncated \/ page = {} \/ 1 \in Seqs(page) =>
              (nx.rows # {} => Unbroken(nx.rows, nx.truncated))
         /\ ~(nx.truncated \/ page = {} \/ 1 \in Seqs(page)) => Paging(nx)
  <1>1. timeline.n \in 1 .. MaxRows /\ timeline.epoch \in 1 .. MaxEpoch /\ MaxRows \in Nat
    BY HistoryNow, HistoryAssumption
  <1>2. timeline.n + 1 \in Nat
        /\ timeline.n = IF timeline.n + 1 > timeline.n THEN timeline.n ELSE timeline.n + 1 - 1
    BY <1>1
  <1>3. PICK lo \in 1 .. timeline.n : page = RowSpan(timeline.epoch, lo, timeline.n)
    BY <1>1, <1>2, PageIs
  <1>4. lo \in Nat /\ timeline.n \in Nat /\ lo <= timeline.n /\ lo \in 1 .. MaxRows
    BY <1>1, <1>3
  <1>5. Seqs(page) = lo .. timeline.n /\ page # {}
    <2>1. PICK m \in Nat : m = timeline.n /\ lo \in Nat /\ lo <= m
      BY <1>4
    <2>2. page = RowSpan(timeline.epoch, lo, m)
      BY <1>3, <2>1
    <2>3. Seqs(page) = lo .. m /\ page # {}
      BY <2>1, <2>2, RowsOfInterval
    <2> QED
      BY <2>1, <2>3
  <1>6. page \subseteq Rows
    BY <1>1, <1>3, <1>4 DEF Rows, RowSpan
  <1> DEFINE base == [EmptyCapture EXCEPT !.first = page, !.epoch = timeline.epoch,
                                          !.next = timeline.n + 1]
  <1>7. /\ base \in Capture /\ base.rows = {} /\ base.first = page
        /\ base.epoch = timeline.epoch /\ base.next = timeline.n + 1 /\ base.truncated = FALSE
        /\ {} \cup page = page
    <2>1. timeline.epoch \in 0 .. MaxEpoch /\ timeline.n + 1 \in 0 .. MaxRows + 1
      BY <1>1, HistoryAssumption
    <2>2. base \in Capture
      BY <1>6, <2>1, NoFileIs DEF Capture
    <2> QED
      BY <2>2 DEF EmptyCapture
  <1>8. nx = IF Cardinality(page) > MaxHistoryEntries THEN [base EXCEPT !.truncated = TRUE]
             ELSE [base EXCEPT !.rows = page]
    BY <1>7, NoFileIs DEF Extended
  <1> HIDE DEF base
  <1>9. CASE nx = [base EXCEPT !.truncated = TRUE]
    BY <1>7, <1>9 DEF Capture
  <1>10. CASE nx = [base EXCEPT !.rows = page]
    <2>1. /\ nx \in Capture /\ nx.rows = page /\ nx.first = page /\ nx.epoch = timeline.epoch
          /\ nx.next = timeline.n + 1 /\ nx.truncated = FALSE
      BY <1>6, <1>7, <1>10 DEF Capture
    <2>2. lo = 1 => Unbroken(nx.rows, nx.truncated)
      BY <1>1, <1>3, <1>4, <2>1 DEF Unbroken
    <2>3. lo # 1 => Paging(nx)
      <3>1. nx.next - 1 = timeline.n /\ nx.next \in 2 .. MaxRows + 1 /\ lo < nx.next
        BY <1>1, <1>4, <2>1
      <3> QED
        BY <1>1, <1>3, <1>4, <2>1, <3>1 DEF Paging
    <2> QED
      BY <1>4, <1>5, <2>1, <2>2, <2>3
  <1> QED
    BY <1>8, <1>9, <1>10

\* An older page.
LEMMA OlderExtends ==
  ASSUME HistoryIInv, NEW c \in Capture, Paging(c),
         NEW page, page = Page(Least(Seqs(c.rows))), NEW nx, nx = Extended(c, page)
  PROVE  /\ nx \in Capture
         /\ nx.truncated \/ page = {} \/ 1 \in Seqs(page) =>
              (nx.rows # {} => Unbroken(nx.rows, nx.truncated))
         /\ ~(nx.truncated \/ page = {} \/ 1 \in Seqs(page)) => Paging(nx)
  <1>1. timeline.n \in 1 .. MaxRows /\ timeline.epoch \in 1 .. MaxEpoch /\ MaxRows \in Nat
    BY HistoryNow, HistoryAssumption
  <1>2. /\ c.truncated = FALSE /\ c.epoch \in 1 .. MaxEpoch /\ c.next \in 2 .. MaxRows + 1
    BY DEF Paging, Capture
  <1>3. PICK a \in 1 .. MaxRows, p \in 1 .. MaxRows :
          /\ 1 < a /\ a < c.next /\ p < c.next
          /\ c.rows = RowSpan(c.epoch, a, c.next - 1)
          /\ c.first = RowSpan(c.epoch, p, c.next - 1)
    BY DEF Paging
  <1>4. PICK b \in 1 .. MaxRows : b = c.next - 1 /\ a <= b /\ p <= b
    BY <1>1, <1>2, <1>3
  <1>5. Least(Seqs(c.rows)) = a
    <2>1. a \in Nat /\ b \in Nat
      BY <1>1
    <2>2. c.rows = RowSpan(c.epoch, a, b) /\ a <= b
      BY <1>3, <1>4
    <2> QED
      BY <2>1, <2>2, RowsOfInterval
  <1>6. nx = IF c.epoch # timeline.epoch \/ c.next # timeline.n + 1
             THEN [c EXCEPT !.rows = c.first, !.truncated = TRUE]
             ELSE IF Cardinality(c.rows \cup page) > MaxHistoryEntries
             THEN [c EXCEPT !.truncated = TRUE]
             ELSE [c EXCEPT !.rows = c.rows \cup page]
    <2>1. c.next # 0
      BY <1>2, <1>1
    <2> QED
      BY <2>1 DEF Extended
  <1>7. CASE nx = [c EXCEPT !.rows = c.first, !.truncated = TRUE]
    <2>1. nx \in Capture /\ nx.rows = c.first /\ nx.truncated = TRUE
      BY <1>7 DEF Capture
    <2>2. Unbroken(nx.rows, nx.truncated)
      BY <1>2, <1>3, <1>4, <2>1 DEF Unbroken
    <2> QED
      BY <2>1, <2>2
  <1>8. CASE nx = [c EXCEPT !.truncated = TRUE]
    <2>1. nx \in Capture /\ nx.rows = c.rows /\ nx.truncated = TRUE
      BY <1>8 DEF Capture
    <2>2. Unbroken(nx.rows, nx.truncated)
      BY <1>2, <1>3, <1>4, <2>1 DEF Unbroken
    <2> QED
      BY <2>1, <2>2
  <1>9. CASE /\ c.epoch = timeline.epoch /\ c.next = timeline.n + 1
             /\ nx = [c EXCEPT !.rows = c.rows \cup page]
    <2>1. a \in Nat /\ a - 1 \in 1 .. MaxRows /\ timeline.n = b
          /\ a - 1 = IF a > timeline.n THEN timeline.n ELSE a - 1
      BY <1>1, <1>3, <1>4, <1>9
    <2>2. PICK lo \in 1 .. (a - 1) : page = RowSpan(timeline.epoch, lo, a - 1)
      BY <1>5, <2>1, PageIs
    <2>3. lo \in Nat /\ a - 1 \in Nat /\ lo <= a - 1 /\ lo \in 1 .. MaxRows /\ lo <= b
      BY <1>1, <1>3, <1>4, <2>1, <2>2
    <2>4. Seqs(page) = lo .. (a - 1) /\ page # {}
      <3>1. PICK m \in Nat : m = a - 1 /\ lo <= m /\ page = RowSpan(timeline.epoch, lo, m)
        BY <2>2, <2>3
      <3>2. lo \in Nat /\ lo <= m /\ page = RowSpan(timeline.epoch, lo, m)
        BY <2>3, <3>1
      <3>3. Seqs(page) = lo .. m /\ page # {}
        BY <3>2, RowsOfInterval
      <3> QED
        BY <3>1, <3>3
    <2>5. (lo .. (a - 1)) \cup (a .. b) = lo .. b
      BY <1>3, <1>4, <2>3
    <2>6. c.rows \cup page = RowSpan(c.epoch, lo, b)
      BY <1>3, <1>4, <1>9, <2>2, <2>5 DEF RowSpan
    <2>7. c.rows \cup page \subseteq Rows
      BY <1>2, <1>4, <2>3, <2>6, HistoryAssumption DEF Rows, RowSpan
    <2>8. /\ nx \in Capture /\ nx.rows = RowSpan(c.epoch, lo, b) /\ nx.first = c.first
          /\ nx.epoch = c.epoch /\ nx.next = c.next /\ nx.truncated = FALSE
      BY <1>2, <1>9, <2>6, <2>7 DEF Capture
    <2>9. lo = 1 => Unbroken(nx.rows, nx.truncated)
      BY <1>2, <1>4, <2>3, <2>8 DEF Unbroken
    <2>10. lo # 1 => Paging(nx)
      <3>1. lo < nx.next /\ b = nx.next - 1
        BY <1>2, <1>4, <2>3, <2>8
      <3>2. nx.rows = RowSpan(nx.epoch, lo, nx.next - 1)
            /\ nx.first = RowSpan(nx.epoch, p, nx.next - 1)
        BY <1>3, <1>4, <2>8, <3>1
      <3>3. lo # 1 => 1 < lo
        BY <2>3
      <3>4. lo # 1 =>
              \E a2, p2 \in 1 .. MaxRows :
                /\ 1 < a2 /\ a2 < nx.next /\ p2 < nx.next
                /\ nx.rows = RowSpan(nx.epoch, a2, nx.next - 1)
                /\ nx.first = RowSpan(nx.epoch, p2, nx.next - 1)
        BY <1>3, <2>3, <2>8, <3>1, <3>2, <3>3
      <3> QED
        BY <1>2, <2>8, <3>4 DEF Paging
    <2> QED
      BY <2>3, <2>4, <2>8, <2>9, <2>10
  <1> QED
    BY <1>6, <1>7, <1>8, <1>9

LEMMA FetchStepSafe ==
  ASSUME HistoryIInv, NEW r \in Recorders, FetchPage(r)
  PROVE  HistoryIInv'
  <1>1. PICK c \in Capture : c = recorder[r].capture
    BY HistoryNow DEF Recorder
  <1>2. PICK page : page = IF recorder[r].step = "tail" THEN Page(timeline.n + 1)
                           ELSE Page(Least(Seqs(c.rows)))
    OBVIOUS
  <1>3. PICK nx : nx = Extended(c, page)
    OBVIOUS
  <1>4. /\ recorder[r] \in Recorder /\ CaptureRight(recorder[r])
        /\ CopyRight(r, recorder[r], historyFiles, historyReceipt)
        /\ captureClock \in 1 .. MaxCaptureTime
        /\ recorder[r].step \in {"tail", "older"}
        /\ UNCHANGED <<timeline, workspaceGen, captureClock, historyFiles, historyReceipt>>
    BY HistoryNow DEF FetchPage
  <1>5. /\ nx \in Capture
        /\ nx.truncated \/ page = {} \/ 1 \in Seqs(page) =>
             (nx.rows # {} => Unbroken(nx.rows, nx.truncated))
        /\ ~(nx.truncated \/ page = {} \/ 1 \in Seqs(page)) => Paging(nx)
    <2>1. CASE recorder[r].step = "tail"
      <3>1. c = EmptyCapture /\ page = Page(timeline.n + 1)
        BY <1>1, <1>2, <1>4, <2>1 DEF CaptureRight
      <3> QED
        BY <1>3, <3>1, TailExtends
    <2>2. CASE recorder[r].step = "older"
      <3>1. Paging(c) /\ page = Page(Least(Seqs(c.rows)))
        BY <1>1, <1>2, <1>4, <2>2 DEF CaptureRight
      <3> QED
        BY <1>3, <3>1, OlderExtends
    <2> QED
      BY <1>4, <2>1, <2>2
  <1>6. recorder' = IF nx.truncated \/ page = {} \/ 1 \in Seqs(page)
                    THEN [recorder EXCEPT ![r].step = "peek", ![r].capture = nx,
                                          ![r].at = captureClock]
                    ELSE [recorder EXCEPT ![r].step = "older", ![r].capture = nx]
    BY <1>1, <1>2, <1>3 DEF FetchPage
  <1>7. CASE nx.truncated \/ page = {} \/ 1 \in Seqs(page)
    <2> DEFINE x == [recorder[r] EXCEPT !.step = "peek", !.capture = nx, !.at = captureClock]
    <2>1. /\ x \in Recorder /\ x.step = "peek" /\ x.gen = recorder[r].gen
          /\ x.at = captureClock /\ x.capture = nx /\ x.copy = recorder[r].copy
          /\ x.held = recorder[r].held
      <3>1. captureClock \in 0 .. MaxCaptureTime /\ "peek" \in RecorderSteps
        BY <1>4, HistoryAssumption DEF RecorderSteps
      <3> QED
        BY <1>4, <1>5, <3>1 DEF Recorder
    <2>2. recorder' = [recorder EXCEPT ![r] = x]
      BY <1>6, <1>7, HistoryNow
    <2> HIDE DEF x
    <2>3. CaptureRight(x)
      BY <1>4, <1>5, <1>7, <2>1 DEF CaptureRight
    <2>4. CopyRight(r, x, historyFiles, historyReceipt)
      BY <1>4, <2>1 DEF CopyRight
    <2> QED
      BY <1>4, <2>1, <2>2, <2>3, <2>4, RecorderMoves
  <1>8. CASE ~(nx.truncated \/ page = {} \/ 1 \in Seqs(page))
    <2> DEFINE x == [recorder[r] EXCEPT !.step = "older", !.capture = nx]
    <2>1. /\ x \in Recorder /\ x.step = "older" /\ x.gen = recorder[r].gen
          /\ x.capture = nx /\ x.copy = recorder[r].copy /\ x.held = recorder[r].held
      BY <1>4, <1>5 DEF Recorder, RecorderSteps
    <2>2. recorder' = [recorder EXCEPT ![r] = x]
      BY <1>6, <1>8, HistoryNow
    <2> HIDE DEF x
    <2>3. CaptureRight(x)
      BY <1>4, <1>5, <1>8, <2>1 DEF CaptureRight
    <2>4. CopyRight(r, x, historyFiles, historyReceipt)
      BY <1>4, <2>1 DEF CopyRight
    <2> QED
      BY <1>4, <2>1, <2>2, <2>3, <2>4, RecorderMoves
  <1> QED
    BY <1>7, <1>8

LEMMA FetchFailsSafe ==
  ASSUME HistoryIInv, NEW r \in Recorders, FetchFails(r)
  PROVE  HistoryIInv'
  <1>1. PICK c \in Capture : c = recorder[r].capture
    BY HistoryNow DEF Recorder
  <1>2. /\ recorder[r] \in Recorder /\ CaptureRight(recorder[r])
        /\ CopyRight(r, recorder[r], historyFiles, historyReceipt)
        /\ captureClock \in 1 .. MaxCaptureTime
        /\ recorder[r].step \in {"tail", "older"}
        /\ UNCHANGED <<timeline, workspaceGen, captureClock, historyFiles, historyReceipt>>
    BY HistoryNow DEF FetchFails
  <1>3. CASE recorder[r].step = "tail"
    BY <1>2, <1>3, RestStepSafe DEF FetchFails
  <1>4. CASE recorder[r].step = "older"
    <2>1. PICK nx : /\ nx = [c EXCEPT !.rows = c.first, !.truncated = TRUE]
                    /\ nx \in Capture /\ nx.rows = c.first /\ nx.truncated = TRUE
      <3> DEFINE kept == [c EXCEPT !.rows = c.first, !.truncated = TRUE]
      <3>1. kept \in Capture /\ kept.rows = c.first /\ kept.truncated = TRUE
        BY DEF Capture
      <3> QED
        BY <3>1
    <2>2. Paging(c)
      BY <1>1, <1>2, <1>4 DEF CaptureRight
    <2>3. Unbroken(nx.rows, nx.truncated)
      <3>1. PICK p \in 1 .. MaxRows : /\ p < c.next
                                      /\ c.first = RowSpan(c.epoch, p, c.next - 1)
        BY <2>2 DEF Paging
      <3>2. PICK b \in 1 .. MaxRows : b = c.next - 1 /\ p <= b
        BY <2>2, <3>1, HistoryAssumption DEF Paging
      <3>3. c.epoch \in 1 .. MaxEpoch
        BY <2>2 DEF Paging
      <3> QED
        BY <2>1, <3>1, <3>2, <3>3 DEF Unbroken
    <2> DEFINE x == [recorder[r] EXCEPT !.step = "peek", !.at = captureClock, !.capture = nx]
    <2>4. /\ x \in Recorder /\ x.step = "peek" /\ x.gen = recorder[r].gen
          /\ x.at = captureClock /\ x.capture = nx /\ x.copy = recorder[r].copy
          /\ x.held = recorder[r].held
      <3>1. captureClock \in 0 .. MaxCaptureTime /\ "peek" \in RecorderSteps
        BY <1>2, HistoryAssumption DEF RecorderSteps
      <3> QED
        BY <1>2, <2>1, <3>1 DEF Recorder
    <2>5. recorder' = [recorder EXCEPT ![r].step = "peek", ![r].at = captureClock,
                                       ![r].capture = nx]
      BY <1>1, <1>4, <2>1 DEF FetchFails
    <2>6. recorder' = [recorder EXCEPT ![r] = x]
      BY <2>5, HistoryNow
    <2> HIDE DEF x
    <2>7. CaptureRight(x)
      BY <1>2, <2>3, <2>4 DEF CaptureRight
    <2>8. CopyRight(r, x, historyFiles, historyReceipt)
      BY <1>2, <2>4 DEF CopyRight
    <2> QED
      BY <1>2, <2>4, <2>6, <2>7, <2>8, RecorderMoves
  <1> QED
    BY <1>2, <1>3, <1>4

-----------------------------------------------------------------------------
(* Files and receipt.                                                       *)

\* Generation and time order the names.
LEMMA NamesInOrder ==
  ASSUME NEW x, NEW y, NEW z,
         x.gen \in Nat, x.at \in Nat, y.gen \in Nat, y.at \in Nat, z.gen \in Nat, z.at \in Nat
  PROVE  /\ NotNewer(x, x)
         /\ NotNewer(x, y) \/ NotNewer(y, x)
         /\ NotNewer(x, y) /\ NotNewer(y, z) => NotNewer(x, z)
  BY DEF NotNewer

LEMMA FileIdIs ==
  ASSUME NEW x \in FileId
  PROVE  x.gen \in Nat /\ x.at \in Nat /\ x # NoFile
  BY NoFileIs, HistoryAssumption DEF FileId

LEMMA PeekStepSafe ==
  ASSUME HistoryIInv, NEW r \in Recorders, PeekReceipt(r)
  PROVE  HistoryIInv'
  <1> DEFINE x == [recorder[r] EXCEPT !.step = "prune", !.copy = historyReceipt]
  <1>1. /\ recorder[r] \in Recorder /\ CaptureRight(recorder[r]) /\ recorder[r].step = "peek"
        /\ CopyRight(r, recorder[r], historyFiles, historyReceipt)
        /\ historyReceipt \in FileId \cup {NoFile}
    BY HistoryNow DEF PeekReceipt
  <1>2. /\ x \in Recorder /\ x.step = "prune" /\ x.gen = recorder[r].gen
        /\ x.at = recorder[r].at /\ x.capture = recorder[r].capture
        /\ x.copy = historyReceipt /\ x.held = recorder[r].held
    BY <1>1 DEF Recorder, RecorderSteps
  <1>3. /\ recorder' = [recorder EXCEPT ![r] = x]
        /\ UNCHANGED <<timeline, workspaceGen, captureClock, historyFiles, historyReceipt>>
    BY HistoryNow DEF PeekReceipt
  <1> HIDE DEF x
  <1>4. CaptureRight(x)
    BY <1>1, <1>2 DEF CaptureRight
  <1>5. CopyRight(r, x, historyFiles, historyReceipt)
    BY <1>1, <1>2 DEF CopyRight, CopyPast
  <1> QED
    BY <1>2, <1>3, <1>4, <1>5, RecorderMoves

LEMMA ReadStepSafe ==
  ASSUME HistoryIInv, NEW r \in Recorders, ReadReceipt(r)
  PROVE  HistoryIInv'
  <1>1. PICK s \in {"tidy", "swap"} :
          s = IF historyReceipt # NoFile /\ NotNewer(FileName(r), historyReceipt)
              THEN "tidy" ELSE "swap"
    OBVIOUS
  <1> DEFINE x == [recorder[r] EXCEPT !.step = s, !.copy = historyReceipt, !.held = TRUE]
  <1>2. /\ recorder[r] \in Recorder /\ CaptureRight(recorder[r]) /\ recorder[r].step = "publish"
        /\ CopyRight(r, recorder[r], historyFiles, historyReceipt)
        /\ historyReceipt \in FileId \cup {NoFile}
    BY HistoryNow DEF ReadReceipt
  <1>3. /\ x \in Recorder /\ x.step = s /\ x.gen = recorder[r].gen
        /\ x.at = recorder[r].at /\ x.capture = recorder[r].capture
        /\ x.copy = historyReceipt /\ x.held = TRUE
    BY <1>2 DEF Recorder, RecorderSteps
  <1>4. /\ recorder' = [recorder EXCEPT ![r] = x]
        /\ UNCHANGED <<timeline, workspaceGen, captureClock, historyFiles, historyReceipt>>
    BY <1>1, HistoryNow DEF ReadReceipt
  <1> HIDE DEF x
  <1>5. CaptureRight(x)
    BY <1>2, <1>3 DEF CaptureRight
  <1>6. NameFor(r, x) = FileName(r) /\ NameFor(r, recorder[r]) = FileName(r)
    BY <1>3 DEF NameFor, FileName
  <1>7. CopyRight(r, x, historyFiles, historyReceipt)
    BY <1>1, <1>2, <1>3, <1>6 DEF CopyRight, CopyPast
  <1> QED
    BY <1>3, <1>4, <1>5, <1>7, RecorderMoves

\* What a prune takes away the receipt has overtaken.
LEMMA PrunedIsPast ==
  ASSUME HistoryIInv, NEW c \in FileId \cup {NoFile}, CopyPast(c, historyReceipt)
  PROVE  /\ Pruned(c) \subseteq historyFiles
         /\ \A f \in historyFiles : NameOf(f) = historyReceipt => f \in Pruned(c)
         /\ \A f \in historyFiles \ Pruned(c) :
              historyReceipt # NoFile /\ NotNewer(NameOf(f), historyReceipt)
  <1>1. CASE c = NoFile
    BY <1>1 DEF Pruned
  <1>2. CASE c # NoFile
    <2>1. /\ c \in FileId /\ historyReceipt \in FileId /\ historyReceipt # NoFile
          /\ c = historyReceipt \/ ~NotNewer(historyReceipt, c)
      BY <1>2, HistoryNow DEF CopyPast
    <2>2. Pruned(c) = {f \in historyFiles : NameOf(f) = c \/ ~NotNewer(f, c)}
      BY <1>2 DEF Pruned
    <2>3. ASSUME NEW f \in historyFiles
          PROVE  /\ NameOf(f) \in FileId
                 /\ \A g : NotNewer(NameOf(f), g) <=> NotNewer(f, g)
      <3>1. f \in Snapshot
        BY HistoryNow
      <3>2. NameOf(f).gen = f.gen /\ NameOf(f).at = f.at /\ NameOf(f) \in FileId
        BY <3>1 DEF Snapshot, NameOf, FileId
      <3> QED
        BY <3>2 DEF NotNewer
    <2>4. ASSUME NEW f \in historyFiles, NameOf(f) = historyReceipt
          PROVE  f \in Pruned(c)
      <3>1. NotNewer(NameOf(f), c) <=> NotNewer(f, c)
        BY <2>3
      <3> QED
        BY <2>1, <2>2, <2>4, <3>1
    <2>5. ASSUME NEW f \in historyFiles \ Pruned(c)
          PROVE  historyReceipt # NoFile /\ NotNewer(NameOf(f), historyReceipt)
      <3>1. NotNewer(NameOf(f), c) /\ NameOf(f) \in FileId
        BY <2>2, <2>3, <2>5
      <3>2. c = historyReceipt \/ NotNewer(c, historyReceipt)
        BY <2>1, FileIdIs, NamesInOrder
      <3> QED
        BY <2>1, <3>1, <3>2, FileIdIs, NamesInOrder
    <2> QED
      BY <2>2, <2>4, <2>5
  <1> QED
    BY <1>1, <1>2

\* The files change and a recorder goes on.
LEMMA FilesMove ==
  ASSUME HistoryIInv, NEW r \in Recorders, NEW x \in Recorder,
         recorder' = [recorder EXCEPT ![r] = x], CaptureRight(x),
         CopyRight(r, x, historyFiles', historyReceipt),
         \A f \in historyFiles' :
           \/ f \in historyFiles
           \/ f \in Snapshot /\ (f.rows # {} => Unbroken(f.rows, f.truncated)),
         \A f \in historyFiles : f \notin historyFiles' =>
           /\ NameOf(f) # historyReceipt
           /\ historyReceipt # NoFile /\ NotNewer(NameOf(f), historyReceipt),
         UNCHANGED <<timeline, workspaceGen, captureClock, historyReceipt>>
  PROVE  HistoryIInv'
  <1>1. /\ recorder' \in [Recorders -> Recorder] /\ recorder'[r] = x
        /\ \A q \in Recorders \ {r} : recorder'[q] = recorder[q]
    BY HistoryNow
  <1>2. HistoryTypeOK'
    BY <1>1, HistoryNow DEF HistoryTypeOK
  <1>3. ASSUME NEW q \in Recorders \ {r}
        PROVE  CopyRight(q, recorder[q], historyFiles', historyReceipt)
    <2>1. CopyRight(q, recorder[q], historyFiles, historyReceipt)
      BY HistoryNow
    <2>2. ASSUME NEW f \in historyFiles, NameOf(f) = NameFor(q, recorder[q])
          PROVE  \/ \E g \in historyFiles' : NameOf(g) = NameFor(q, recorder[q])
                 \/ /\ historyReceipt # NoFile
                    /\ NotNewer(NameFor(q, recorder[q]), historyReceipt)
      BY <2>2
    <2> QED
      BY <2>1, <2>2 DEF CopyRight
  <1>4. \A q \in Recorders : /\ CaptureRight(recorder'[q])
                             /\ CopyRight(q, recorder'[q], historyFiles', historyReceipt)
    BY <1>1, <1>3, HistoryNow
  <1>5. (\A q \in Recorders : /\ CaptureRight(recorder[q])
                              /\ CopyRight(q, recorder[q], historyFiles, historyReceipt))'
    BY <1>4 DEF CaptureRight, Paging, Unbroken, CopyRight, CopyPast, NameFor, NameOf, NotNewer
  <1>6. \A f \in historyFiles' : f.rows # {} => Unbroken(f.rows, f.truncated)
    BY HistoryNow
  <1>7. (\A f \in historyFiles : f.rows # {} => Unbroken(f.rows, f.truncated))'
    BY <1>6 DEF Unbroken
  <1>8. ReceiptFileKept'
    <2>1. historyReceipt # NoFile => \E f \in historyFiles' : NameOf(f) = historyReceipt
      BY HistoryNow DEF ReceiptFileKept
    <2> QED
      BY <2>1 DEF ReceiptFileKept, NameOf
  <1> QED
    BY <1>2, <1>5, <1>7, <1>8 DEF HistoryIInv

LEMMA PruneStepSafe ==
  ASSUME HistoryIInv, NEW r \in Recorders, Prune(r)
  PROVE  HistoryIInv'
  <1>1. PICK c \in FileId \cup {NoFile} : c = recorder[r].copy
    BY HistoryNow DEF Recorder
  <1>2. /\ recorder[r] \in Recorder /\ CaptureRight(recorder[r])
        /\ CopyRight(r, recorder[r], historyFiles, historyReceipt)
        /\ UNCHANGED <<timeline, workspaceGen, captureClock, historyReceipt>>
    BY HistoryNow DEF Prune
  <1>3. historyFiles' = Pruned(c) /\ CopyPast(c, historyReceipt)
    BY <1>1, <1>2 DEF Prune, CopyRight
  <1>4. /\ \A f \in historyFiles' :
             \/ f \in historyFiles
             \/ f \in Snapshot /\ (f.rows # {} => Unbroken(f.rows, f.truncated))
        /\ \A f \in historyFiles : f \notin historyFiles' =>
             /\ NameOf(f) # historyReceipt
             /\ historyReceipt # NoFile /\ NotNewer(NameOf(f), historyReceipt)
    BY <1>3, PrunedIsPast
  <1>5. CASE recorder[r].step = "prune" /\ recorder' = RecorderGoes(r, "write")
    <2> DEFINE x == [recorder[r] EXCEPT !.step = "write"]
    <2>1. /\ x \in Recorder /\ x.step = "write" /\ x.gen = recorder[r].gen
          /\ x.at = recorder[r].at /\ x.capture = recorder[r].capture
          /\ x.copy = recorder[r].copy /\ x.held = recorder[r].held
      BY <1>2 DEF Recorder, RecorderSteps
    <2>2. recorder' = [recorder EXCEPT ![r] = x]
      BY <1>5, HistoryNow DEF RecorderGoes
    <2> HIDE DEF x
    <2>3. CaptureRight(x)
      BY <1>2, <1>5, <2>1 DEF CaptureRight
    <2>4. CopyRight(r, x, historyFiles', historyReceipt)
      BY <1>2, <2>1 DEF CopyRight
    <2> QED
      BY <1>2, <1>4, <2>1, <2>2, <2>3, <2>4, FilesMove
  <1>6. CASE recorder' = RecorderRests(r)
    <2> DEFINE x == [Unrecorded EXCEPT !.at = recorder[r].at]
    <2>1. /\ x \in Recorder /\ CaptureRight(x)
          /\ CopyRight(r, x, historyFiles', historyReceipt)
      BY RecorderRestsRight
    <2>2. recorder' = [recorder EXCEPT ![r] = x]
      BY <1>6 DEF RecorderRests
    <2> HIDE DEF x
    <2> QED
      BY <1>2, <1>4, <2>1, <2>2, FilesMove
  <1> QED
    BY <1>5, <1>6 DEF Prune

LEMMA WriteStepSafe ==
  ASSUME HistoryIInv, NEW r \in Recorders, WriteFile(r)
  PROVE  HistoryIInv'
  <1> DEFINE file == [gen |-> recorder[r].gen, at |-> recorder[r].at, by |-> r,
                      rows |-> recorder[r].capture.rows,
                      truncated |-> recorder[r].capture.truncated]
  <1>1. /\ recorder[r] \in Recorder /\ CaptureRight(recorder[r]) /\ recorder[r].step = "write"
        /\ CopyRight(r, recorder[r], historyFiles, historyReceipt)
        /\ UNCHANGED <<timeline, workspaceGen, captureClock, historyReceipt>>
    BY HistoryNow DEF WriteFile
  <1>2. file \in Snapshot /\ (file.rows # {} => Unbroken(file.rows, file.truncated))
    <2>1. recorder[r].gen \in 1 .. MaxGeneration /\ recorder[r].at \in 1 .. MaxCaptureTime
      BY <1>1, HistoryAssumption DEF CaptureRight, Recorder
    <2>2. recorder[r].capture \in Capture
      BY <1>1 DEF Recorder
    <2> QED
      BY <1>1, <2>1, <2>2 DEF Snapshot, Capture, CaptureRight
  <1>3. NameOf(file) = NameFor(r, recorder[r])
    BY DEF NameOf, NameFor
  <1>4. historyFiles' = historyFiles \/ historyFiles' = historyFiles \cup {file}
    BY DEF WriteFile
  <1>5. /\ \/ /\ historyFiles' = historyFiles \cup {file}
              /\ recorder' = [RecorderGoes(r, "publish") EXCEPT ![r].capture = EmptyCapture]
           \/ recorder' = RecorderRests(r)
    BY DEF WriteFile
  <1> HIDE DEF file
  <1>6. /\ \A f \in historyFiles' :
             \/ f \in historyFiles
             \/ f \in Snapshot /\ (f.rows # {} => Unbroken(f.rows, f.truncated))
        /\ \A f \in historyFiles : f \notin historyFiles' =>
             /\ NameOf(f) # historyReceipt
             /\ historyReceipt # NoFile /\ NotNewer(NameOf(f), historyReceipt)
    <2>1. CASE historyFiles' = historyFiles
      BY <2>1
    <2>2. CASE historyFiles' = historyFiles \cup {file}
      BY <1>2, <2>2
    <2> QED
      BY <1>4, <2>1, <2>2
  <1>7. CASE /\ historyFiles' = historyFiles \cup {file}
             /\ recorder' = [RecorderGoes(r, "publish") EXCEPT ![r].capture = EmptyCapture]
    <2> DEFINE x == [recorder[r] EXCEPT !.step = "publish", !.capture = EmptyCapture]
    <2>1. /\ x \in Recorder /\ x.step = "publish" /\ x.gen = recorder[r].gen
          /\ x.at = recorder[r].at /\ x.capture = EmptyCapture
          /\ x.copy = recorder[r].copy /\ x.held = recorder[r].held
      BY <1>1, NoFileIs DEF Recorder, RecorderSteps
    <2>2. recorder' = [recorder EXCEPT ![r] = x]
      BY <1>7, HistoryNow DEF RecorderGoes
    <2> HIDE DEF x
    <2>3. CaptureRight(x)
      BY <1>1, <2>1, NoFileIs DEF CaptureRight
    <2>4. NameFor(r, x) = NameOf(file)
      BY <1>3, <2>1 DEF NameFor
    <2>5. CopyRight(r, x, historyFiles', historyReceipt)
      BY <1>1, <1>7, <2>1, <2>4 DEF CopyRight
    <2> QED
      BY <1>1, <1>6, <2>1, <2>2, <2>3, <2>5, FilesMove
  <1>8. CASE recorder' = RecorderRests(r)
    <2> DEFINE x == [Unrecorded EXCEPT !.at = recorder[r].at]
    <2>1. /\ x \in Recorder /\ CaptureRight(x)
          /\ CopyRight(r, x, historyFiles', historyReceipt)
      BY RecorderRestsRight
    <2>2. recorder' = [recorder EXCEPT ![r] = x]
      BY <1>8 DEF RecorderRests
    <2> HIDE DEF x
    <2> QED
      BY <1>1, <1>6, <2>1, <2>2, FilesMove
  <1> QED
    BY <1>5, <1>7, <1>8

\* The receipt is swapped for a newer one, and what others know of it ages.
LEMMA SwapStepSafe ==
  ASSUME HistoryIInv, NEW r \in Recorders, SwapReceipt(r)
  PROVE  /\ HistoryIInv'
         /\ historyReceipt # NoFile /\ historyReceipt' # historyReceipt
              => NotNewer(historyReceipt, historyReceipt')
  <1>1. /\ recorder[r] \in Recorder /\ CaptureRight(recorder[r]) /\ recorder[r].step = "swap"
        /\ CopyRight(r, recorder[r], historyFiles, historyReceipt)
        /\ UNCHANGED <<timeline, workspaceGen, captureClock, historyFiles>>
        /\ historyReceipt \in FileId \cup {NoFile}
    BY HistoryNow DEF SwapReceipt
  <1>2. CASE ~recorder[r].held
    <2>1. /\ historyReceipt' = historyReceipt
          /\ recorder' = RecorderGoes(r, "publish") \/ recorder' = RecorderRests(r)
      BY <1>2 DEF SwapReceipt
    <2>2. CASE recorder' = RecorderRests(r)
      BY <1>1, <2>1, <2>2, RestStepSafe
    <2>3. CASE recorder' = RecorderGoes(r, "publish")
      <3> DEFINE x == [recorder[r] EXCEPT !.step = "publish"]
      <3>1. /\ x \in Recorder /\ x.step = "publish" /\ x.gen = recorder[r].gen
            /\ x.at = recorder[r].at /\ x.capture = recorder[r].capture
            /\ x.copy = recorder[r].copy /\ x.held = recorder[r].held
        BY <1>1 DEF Recorder, RecorderSteps
      <3>2. recorder' = [recorder EXCEPT ![r] = x]
        BY <2>3, HistoryNow DEF RecorderGoes
      <3> HIDE DEF x
      <3>3. CaptureRight(x) /\ NameFor(r, x) = NameFor(r, recorder[r])
        BY <1>1, <3>1 DEF CaptureRight, NameFor
      <3>4. CopyRight(r, x, historyFiles, historyReceipt)
        BY <1>1, <3>1, <3>3 DEF CopyRight
      <3> QED
        BY <1>1, <2>1, <3>1, <3>2, <3>3, <3>4, RecorderMoves
    <2> QED
      BY <2>1, <2>2, <2>3
  <1>3. CASE recorder[r].held
    <2>1. PICK name \in FileId : name = FileName(r) /\ name = NameFor(r, recorder[r])
      <3>1. recorder[r].gen \in 1 .. MaxGeneration /\ recorder[r].at \in 1 .. MaxCaptureTime
        BY <1>1, HistoryAssumption DEF CaptureRight, Recorder
      <3>2. FileName(r) \in FileId /\ FileName(r) = NameFor(r, recorder[r])
        BY <3>1 DEF FileName, FileId, NameFor
      <3> QED
        BY <3>2
    <2>2. historyReceipt' = name
      BY <1>3, <2>1 DEF SwapReceipt
    <2>3. historyReceipt = NoFile \/ ~NotNewer(name, historyReceipt)
      BY <1>1, <1>3, <2>1 DEF CopyRight
    <2>4. \E f \in historyFiles : NameOf(f) = name
      BY <1>1, <2>1, <2>3 DEF CopyRight
    <2>5. ASSUME historyReceipt # NoFile
          PROVE  /\ historyReceipt \in FileId /\ NotNewer(historyReceipt, name)
                 /\ \A i \in FileId : NotNewer(i, historyReceipt) => NotNewer(i, name)
                 /\ \A c \in FileId : c = historyReceipt \/ ~NotNewer(historyReceipt, c)
                                        => ~NotNewer(name, c)
      <3>1. historyReceipt \in FileId /\ ~NotNewer(name, historyReceipt)
        BY <1>1, <2>3, <2>5
      <3>2. NotNewer(historyReceipt, name)
        BY <3>1, FileIdIs, NamesInOrder
      <3>3. ASSUME NEW i \in FileId, NotNewer(i, historyReceipt) PROVE NotNewer(i, name)
        BY <3>1, <3>2, <3>3, FileIdIs, NamesInOrder
      <3>4. ASSUME NEW c \in FileId, ~NotNewer(historyReceipt, c) PROVE ~NotNewer(name, c)
        <4>1. NotNewer(c, historyReceipt)
          BY <3>1, <3>4, FileIdIs, NamesInOrder
        <4>2. NotNewer(name, c) => NotNewer(name, historyReceipt)
          BY <3>1, <4>1, FileIdIs, NamesInOrder
        <4> QED
          BY <3>1, <4>2
      <3> QED
        BY <3>1, <3>2, <3>3, <3>4
    <2>6. name # NoFile
      BY FileIdIs
    <2>7. \A c \in FileId \cup {NoFile} : CopyPast(c, historyReceipt) => CopyPast(c, name)
      BY <2>5, <2>6 DEF CopyPast
    <2>8. recorder' = [s \in Recorders |->
            IF s = r THEN [recorder[r] EXCEPT !.step = "tidy", !.copy = name]
            ELSE [recorder[s] EXCEPT !.held = FALSE]]
      BY <1>3, <2>1 DEF SwapReceipt
    <2>9. ASSUME NEW s \in Recorders
          PROVE  /\ recorder'[s] \in Recorder /\ CaptureRight(recorder'[s])
                 /\ CopyRight(s, recorder'[s], historyFiles, name)
      <3>1. CASE s = r
        <4> DEFINE x == [recorder[r] EXCEPT !.step = "tidy", !.copy = name]
        <4>1. /\ x \in Recorder /\ x.step = "tidy" /\ x.gen = recorder[r].gen
              /\ x.at = recorder[r].at /\ x.capture = recorder[r].capture
              /\ x.copy = name /\ x.held = recorder[r].held
          BY <1>1 DEF Recorder, RecorderSteps
        <4>2. recorder'[s] = x
          BY <2>8, <3>1
        <4> HIDE DEF x
        <4>3. CaptureRight(x)
          BY <1>1, <4>1 DEF CaptureRight
        <4>4. CopyRight(s, x, historyFiles, name)
          BY <2>6, <4>1 DEF CopyRight, CopyPast
        <4> QED
          BY <4>1, <4>2, <4>3, <4>4
      <3>2. CASE s # r
        <4> DEFINE x == [recorder[s] EXCEPT !.held = FALSE]
        <4>1. /\ recorder[s] \in Recorder /\ CaptureRight(recorder[s])
              /\ CopyRight(s, recorder[s], historyFiles, historyReceipt)
          BY HistoryNow
        <4>2. /\ x \in Recorder /\ x.step = recorder[s].step /\ x.gen = recorder[s].gen
              /\ x.at = recorder[s].at /\ x.capture = recorder[s].capture
              /\ x.copy = recorder[s].copy /\ x.held = FALSE
              /\ x.copy \in FileId \cup {NoFile}
          BY <4>1 DEF Recorder
        <4>3. recorder'[s] = x
          BY <2>8, <3>2
        <4> HIDE DEF x
        <4>4. CaptureRight(x) /\ NameFor(s, x) = NameFor(s, recorder[s])
          BY <4>1, <4>2 DEF CaptureRight, NameFor
        <4>5. CopyPast(x.copy, name)
          BY <2>7, <4>1, <4>2 DEF CopyRight
        <4>6. x.step \in {"publish", "swap"} =>
                \/ \E f \in historyFiles : NameOf(f) = NameFor(s, x)
                \/ NotNewer(NameFor(s, x), name)
          <5>1. x.step \in {"publish", "swap"} => NameFor(s, x) \in FileId
            BY <4>1, <4>2, HistoryAssumption DEF CaptureRight, Recorder, NameFor, FileId
          <5> QED
            BY <2>5, <4>1, <4>2, <4>4, <5>1 DEF CopyRight
        <4>7. x.step = "swap" => x.copy = NoFile \/ ~NotNewer(NameFor(s, x), x.copy)
          BY <4>1, <4>2, <4>4 DEF CopyRight
        <4> QED
          BY <2>6, <4>2, <4>3, <4>4, <4>5, <4>6, <4>7 DEF CopyRight
      <3> QED
        BY <3>1, <3>2
    <2>10. recorder' \in [Recorders -> Recorder]
      BY <2>8, <2>9
    <2>11. HistoryTypeOK'
      BY <1>1, <2>2, <2>10, HistoryNow DEF HistoryTypeOK
    <2>12. (\A q \in Recorders : /\ CaptureRight(recorder[q])
                                 /\ CopyRight(q, recorder[q], historyFiles, historyReceipt))'
      BY <1>1, <2>2, <2>9
         DEF CaptureRight, Paging, Unbroken, CopyRight, CopyPast, NameFor, NameOf, NotNewer
    <2>13. (\A f \in historyFiles : f.rows # {} => Unbroken(f.rows, f.truncated))'
      BY <1>1, HistoryNow DEF Unbroken
    <2>14. ReceiptFileKept'
      BY <1>1, <2>2, <2>4 DEF ReceiptFileKept, NameOf
    <2>15. HistoryIInv'
      BY <2>11, <2>12, <2>13, <2>14 DEF HistoryIInv
    <2> QED
      BY <2>2, <2>5, <2>15
  <1> QED
    BY <1>2, <1>3

\* The timeline, the workspace and the clock concern the next captures only.
LEMMA AroundRecorders ==
  ASSUME HistoryIInv, UNCHANGED <<recorder, historyFiles, historyReceipt>>,
         timeline' \in [epoch : 1 .. MaxEpoch, n : 1 .. MaxRows],
         workspaceGen' \in 1 .. MaxGeneration, captureClock' \in 1 .. MaxCaptureTime
  PROVE  HistoryIInv'
  <1>1. HistoryTypeOK'
    BY HistoryNow DEF HistoryTypeOK
  <1>2. \A q \in Recorders : /\ CaptureRight(recorder'[q])
                             /\ CopyRight(q, recorder'[q], historyFiles, historyReceipt)
    BY HistoryNow
  <1>3. (\A q \in Recorders : /\ CaptureRight(recorder[q])
                              /\ CopyRight(q, recorder[q], historyFiles, historyReceipt))'
    BY <1>2 DEF CaptureRight, Paging, Unbroken, CopyRight, CopyPast, NameFor, NameOf, NotNewer
  <1>4. ReceiptFileKept'
    BY HistoryNow DEF ReceiptFileKept, NameOf
  <1>5. (\A f \in historyFiles : f.rows # {} => Unbroken(f.rows, f.truncated))'
    BY HistoryNow DEF Unbroken
  <1> QED
    BY <1>1, <1>3, <1>4, <1>5 DEF HistoryIInv

LEMMA HistoryInductive == HistoryIInv /\ [HistoryNext]_historyVars => HistoryIInv'
  <1> SUFFICES ASSUME HistoryIInv, [HistoryNext]_historyVars PROVE HistoryIInv'
    OBVIOUS
  <1>1. ASSUME NEW r \in Recorders,
               \/ BeginCapture(r) \/ FetchPage(r) \/ FetchFails(r) \/ PeekReceipt(r)
               \/ Prune(r) \/ WriteFile(r) \/ ReadReceipt(r) \/ SwapReceipt(r)
        PROVE  HistoryIInv'
    BY <1>1, BeginStepSafe, FetchStepSafe, FetchFailsSafe, PeekStepSafe, PruneStepSafe,
       WriteStepSafe, ReadStepSafe, SwapStepSafe
  <1>2. ASSUME NEW r \in Recorders, RecorderAborts(r) PROVE HistoryIInv'
    BY <1>2, RestStepSafe DEF RecorderAborts
  <1>3. CASE TimelineChanges
    <2>1. timeline' \in [epoch : 1 .. MaxEpoch, n : 1 .. MaxRows]
      <3>1. timeline \in [epoch : 1 .. MaxEpoch, n : 1 .. MaxRows]
        BY HistoryNow
      <3>2. CASE timeline.n < MaxRows /\ timeline' = [timeline EXCEPT !.n = @ + 1]
        <4>1. timeline.n + 1 \in 1 .. MaxRows
          BY <3>1, <3>2, HistoryAssumption
        <4> QED
          BY <3>1, <3>2, <4>1
      <3>3. ASSUME NEW n \in 1 .. timeline.n, timeline.epoch < MaxEpoch,
                   timeline' = [epoch |-> timeline.epoch + 1, n |-> n]
            PROVE  timeline' \in [epoch : 1 .. MaxEpoch, n : 1 .. MaxRows]
        <4>1. timeline.epoch + 1 \in 1 .. MaxEpoch /\ n \in 1 .. MaxRows
          BY <3>1, <3>3, HistoryAssumption
        <4> QED
          BY <3>3, <4>1
      <3> QED
        BY <1>3, <3>2, <3>3 DEF TimelineChanges
    <2> QED
      BY <1>3, <2>1, HistoryNow, AroundRecorders DEF TimelineChanges
  <1>4. CASE WorkspaceCycles
    <2>1. workspaceGen' \in 1 .. MaxGeneration
      BY <1>4, HistoryNow, HistoryAssumption DEF WorkspaceCycles
    <2> QED
      BY <1>4, <2>1, HistoryNow, AroundRecorders DEF WorkspaceCycles
  <1>5. CASE CaptureClockTicks
    <2>1. captureClock' \in 1 .. MaxCaptureTime
      BY <1>5, HistoryNow, HistoryAssumption DEF CaptureClockTicks
    <2> QED
      BY <1>5, <2>1, HistoryNow, AroundRecorders DEF CaptureClockTicks
  <1>6. CASE UNCHANGED historyVars
    BY <1>6, HistoryNow, AroundRecorders DEF historyVars
  <1> QED
    BY <1>1, <1>2, <1>3, <1>4, <1>5, <1>6 DEF HistoryNext

LEMMA HistoryStep ==
  ASSUME HistoryIInv, [HistoryNext]_historyVars,
         historyReceipt # NoFile, historyReceipt' # historyReceipt
  PROVE  NotNewer(historyReceipt, historyReceipt')
  <1>1. PICK r \in Recorders : SwapReceipt(r)
    BY DEF HistoryNext, historyVars, BeginCapture, FetchPage, FetchFails, PeekReceipt,
           Prune, WriteFile, ReadReceipt, RecorderAborts, TimelineChanges, WorkspaceCycles,
           CaptureClockTicks
  <1> QED
    BY <1>1, SwapStepSafe

\* An unbroken piece is what the property says of a stored transcript.
LEMMA UnbrokenMeans ==
  ASSUME NEW rows, NEW truncated, Unbroken(rows, truncated)
  PROVE  /\ \A x, y \in rows : x[1] = y[1]
         /\ Seqs(rows) = Least(Seqs(rows)) .. Greatest(Seqs(rows))
         /\ ~truncated => 1 \in Seqs(rows)
  <1>1. PICK e \in 1 .. MaxEpoch, a \in 1 .. MaxRows, b \in 1 .. MaxRows :
          a <= b /\ rows = RowSpan(e, a, b) /\ (~truncated => a = 1)
    BY DEF Unbroken
  <1>2. a \in Nat /\ b \in Nat /\ a <= b
    BY <1>1, HistoryAssumption
  <1>3. rows = RowSpan(e, a, b)
    BY <1>1
  <1>4. Seqs(rows) = a .. b /\ Least(Seqs(rows)) = a
    BY <1>2, <1>3, RowsOfInterval
  <1>5. Greatest(a .. b) = b
    <2>1. b \in a .. b /\ \A s \in a .. b : s <= b
      BY <1>2
    <2>2. Greatest(a .. b) \in a .. b /\ \A s \in a .. b : s <= Greatest(a .. b)
      BY <2>1 DEF Greatest
    <2> QED
      BY <1>2, <2>1, <2>2
  <1>6. \A x, y \in rows : x[1] = y[1]
    BY <1>3 DEF RowSpan
  <1>7. ~truncated => 1 \in Seqs(rows)
    BY <1>1, <1>2, <1>4
  <1> QED
    BY <1>4, <1>5, <1>6, <1>7

LEMMA HistorySafe == HistoryIInv => ReceiptFileKept /\ TranscriptIsUnbroken
  BY HistoryNow, UnbrokenMeans DEF TranscriptIsUnbroken

\* However many snapshots of a transcript overlap, and wherever each of them
\* stops, the receipt is only replaced by a newer one, the file it names is on
\* the volume, and a file holds an unbroken piece of one epoch
\* (captureRetainedHistory(), publishRetainedHistoryReceipt() and
\* pruneSnapshots()).
THEOREM HistoryIsKept == HistorySpec => HistoryKept
  <1>1. HistoryIInv /\ [HistoryNext]_historyVars =>
          [historyReceipt # NoFile /\ historyReceipt' # historyReceipt
             => NotNewer(historyReceipt, historyReceipt')]_historyVars
    BY HistoryStep
  <1> QED
    BY <1>1, HistoryInitial, HistoryInductive, HistorySafe, PTL
       DEF HistorySpec, HistoryKept, ReceiptOnlyAdvances

-----------------------------------------------------------------------------
(* File subscriptions (the bindings and the event queue of forward() and    *)
(* onMessage() in session.ts).                                              *)

\* An update of the file under s; the call, answer or acknowledgement of r.
Says(m, s) == m.kind = "update" /\ m.slot = s
Token(m, r) == m.kind # "update" /\ m.of = r

Speaks(q, s) == \E i \in 1 .. Len(q) : Says(q[i], s)
Brings(q, r) == \E i \in 1 .. Len(q) : Token(q[i], r)
ReplyIs(q, r, v) == \E i \in 1 .. Len(q) : Token(q[i], r) /\ q[i].version = v

\* The last update of s is of version v; r has one token; the updates of s come
\* before the token of r.
LastSays(q, s, v) ==
  \A i \in 1 .. Len(q) :
    Says(q[i], s) /\ (\A j \in 1 .. Len(q) : j > i => ~Says(q[j], s)) => q[i].version = v
OncePer(q) ==
  \A i, j \in 1 .. Len(q) : \A r \in FileRequests :
    Token(q[i], r) /\ Token(q[j], r) => i = j
EndsWith(q, s, r) ==
  \A i, j \in 1 .. Len(q) : Says(q[i], s) /\ Token(q[j], r) => i < j

\* The daemon has answered the request r, whose state is q, with version v.
Answered(q, r, tg, v) ==
  \/ q.step = "sent" /\ ReplyIs(tg, r, v)
  \/ q.step \in {"replied", "queued"} /\ q.version = v

\* The event queue without an update at its head that is for an earlier binding.
Unstale(s, b, et, h) ==
  IF h # 0 /\ Head(et).slot = s /\ h # b.number THEN Tail(et) ELSE et

\* A request in progress: how its binding stands and whether the file is
\* watched; where the updates are that its subscription lacks; and that none
\* of an ended watch is left behind it.
BindingRight(q, b) ==
  IF q.kind = "subscribe"
  THEN IF q.step = "queued" /\ q.version = 0 THEN b.state = "none"
       ELSE b.state = "subscribing" /\ b.number = q.mine
  ELSE IF q.step = "queued" THEN b.state = "none"
       ELSE b.state = "releasing" /\ b.number = q.mine
AnswerRight(r, s, q, b, watch, miss, fv, tg, fresh) ==
  \A v \in Versions : Answered(q, r, tg, v) =>
    /\ s \in watch <=> v # 0
    /\ q.kind = "unsubscribe" => v = 0
    /\ q.kind = "subscribe" /\ s \in watch /\ s \notin miss /\ v # fv =>
         Speaks(tg, s) \/ b.pendingUpdate # 0 \/ Speaks(fresh, s)
UnwatchedRight(r, s, q, b, tg, et) ==
  /\ q.kind = "subscribe" /\ q.step = "sent" /\ ~Brings(tg, r) =>
       ~Speaks(tg, s) /\ ~Speaks(et, s) /\ b.pendingUpdate = 0
  /\ EndsWith(tg, s, r)
  /\ q.step \in {"replied", "queued"} => ~Speaks(tg, s)
  /\ q.step = "queued" => EndsWith(et, s, r)
RequestRight(r, s, q, b, watch, miss, fv, tg, et, h) ==
  /\ BindingRight(q, b)
  /\ AnswerRight(r, s, q, b, watch, miss, fv, tg, Unstale(s, b, et, h))
  /\ s \notin watch => UnwatchedRight(r, s, q, b, tg, et)

\* A file: between requests the gateway, the daemon and the client agree, and
\* the last word on its way to the client is its version.
IdleRight(s, b, watch, miss, fv, tg, et, c) ==
  /\ b.state \in {"none", "active"}
  /\ b.state = "active" <=> s \in watch
  /\ c.subscribed <=> s \in watch
  /\ s \notin watch => ~Speaks(tg, s) /\ ~Speaks(et, s)
  /\ s \in watch /\ s \notin miss /\ ~Speaks(tg, s) /\ ~Speaks(et, s) => c.version = fv
WatchRight(s, b, watch, miss, fv, tg, et) ==
  s \in watch =>
    /\ LastSays(tg, s, fv)
    /\ ~Speaks(tg, s) => LastSays(et, s, fv)
    /\ s \notin miss /\ b.state = "subscribing" /\ b.pendingUpdate # 0
         /\ ~Speaks(tg, s) /\ ~Speaks(et, s)
       => b.pendingUpdate = fv
InUse(s, requests) ==
  \E r \in FileRequests : requests[r] # NoRequest /\ requests[r].slot = s

RequestOK(r) ==
  fileRequest[r] # NoRequest =>
    LET s == fileRequest[r].slot
    IN  RequestRight(r, s, fileRequest[r], bindings[s], watched, missed,
                     fileVersion[s], toGateway, eventTail, handling)
FileOK(s) ==
  /\ ~InUse(s, fileRequest) =>
       IdleRight(s, bindings[s], watched, missed, fileVersion[s], toGateway,
                 eventTail, client[s])
  /\ WatchRight(s, bindings[s], watched, missed, fileVersion[s], toGateway, eventTail)

\* A call is that of a request which waits for it; an answer and an
\* acknowledgement are those of a request in that step.
CallRight(m, requests, tg) ==
  LET q == requests[m.of]
  IN  q.step = "sent" /\ q.kind = m.kind /\ q.slot = m.slot /\ ~Brings(tg, m.of)
TokensRight ==
  /\ OncePer(toDaemon) /\ OncePer(toGateway) /\ OncePer(eventTail)
  /\ \A i \in 1 .. Len(toDaemon) : CallRight(toDaemon[i], fileRequest, toGateway)
  /\ \A r \in FileRequests : Brings(toGateway, r) => fileRequest[r].step = "sent"
  /\ \A r \in FileRequests : Brings(eventTail, r) => fileRequest[r].step = "queued"
OneRequestPerFile ==
  \A r, p \in FileRequests :
    r # p /\ fileRequest[r] # NoRequest /\ fileRequest[p] # NoRequest
      => fileRequest[r].slot # fileRequest[p].slot
HandlingRight ==
  handling # 0 =>
    /\ eventTail # <<>> /\ Head(eventTail).kind = "update" /\ handling <= bound
    /\ LET b == bindings[Head(eventTail).slot]
       IN  /\ b.state = "active" => b.number = handling
           /\ b.state = "subscribing" /\ b.number # handling => b.pendingUpdate = 0
NumbersRight ==
  \A s \in FileSlots : bindings[s].state # "none" => bindings[s].number <= bound

FilesInStep ==
  /\ TokensRight /\ OneRequestPerFile /\ HandlingRight /\ NumbersRight
  /\ (\A r \in FileRequests : RequestOK(r)) /\ (\A s \in FileSlots : FileOK(s))

FileIInv == FileTypeOK /\ (connected => FilesInStep)

\* A message joins the end of a queue, and the head of a queue leaves it.
LEMMA QueueGrows ==
  ASSUME NEW S, NEW q \in Seq(S), NEW m \in S
  PROVE  /\ Append(q, m) \in Seq(S)
         /\ Len(q) \in Nat /\ Len(Append(q, m)) = Len(q) + 1
         /\ \A i \in 1 .. Len(q) : Append(q, m)[i] = q[i]
         /\ Append(q, m)[Len(q) + 1] = m
  BY AppendProperties, LenProperties
LEMMA QueueShrinks ==
  ASSUME NEW S, NEW q \in Seq(S), q # <<>>
  PROVE  /\ Tail(q) \in Seq(S) /\ Head(q) \in S /\ Head(q) = q[1]
         /\ Len(q) \in Nat \ {0} /\ Len(Tail(q)) = Len(q) - 1
         /\ \A i \in 1 .. Len(q) - 1 : Tail(q)[i] = q[i + 1]
  BY HeadTailProperties, LenProperties

LEMMA NothingSpeaks ==
  ASSUME NEW s, NEW r, NEW v
  PROVE  /\ ~Speaks(<<>>, s) /\ ~Brings(<<>>, r) /\ LastSays(<<>>, s, v)
         /\ OncePer(<<>>) /\ EndsWith(<<>>, s, r)
  <1>1. Len(<<>>) = 0
    OBVIOUS
  <1>2. 1 .. 0 = {}
    OBVIOUS
  <1> QED
    BY <1>1, <1>2 DEF Speaks, Brings, LastSays, OncePer, EndsWith

\* What a queue says after a message has joined it.
LEMMA GrownSpeaks ==
  ASSUME NEW S, NEW q \in Seq(S), NEW m \in S, NEW s
  PROVE  Speaks(Append(q, m), s) <=> Speaks(q, s) \/ Says(m, s)
  <1> DEFINE p == Append(q, m)
             n == Len(q)
  <1>1. n \in Nat /\ Len(p) = n + 1 /\ (\A i \in 1 .. n : p[i] = q[i]) /\ p[n + 1] = m
    BY QueueGrows
  <1> HIDE DEF p
  <1>2. \A i \in 1 .. n + 1 : i \in 1 .. n \/ i = n + 1
    BY <1>1
  <1>3. 1 .. n \subseteq 1 .. n + 1 /\ n + 1 \in 1 .. n + 1
    BY <1>1
  <1>4. Speaks(p, s) <=> Speaks(q, s) \/ Says(m, s)
    BY <1>1, <1>2, <1>3 DEF Speaks
  <1> QED
    BY <1>4 DEF p
LEMMA GrownBrings ==
  ASSUME NEW S, NEW q \in Seq(S), NEW m \in S, NEW r
  PROVE  /\ Brings(Append(q, m), r) <=> Brings(q, r) \/ Token(m, r)
         /\ \A v : ReplyIs(Append(q, m), r, v) <=>
                     ReplyIs(q, r, v) \/ (Token(m, r) /\ m.version = v)
  <1> DEFINE p == Append(q, m)
             n == Len(q)
  <1>1. n \in Nat /\ Len(p) = n + 1 /\ (\A i \in 1 .. n : p[i] = q[i]) /\ p[n + 1] = m
    BY QueueGrows
  <1> HIDE DEF p
  <1>2. \A i \in 1 .. n + 1 : i \in 1 .. n \/ i = n + 1
    BY <1>1
  <1>3. 1 .. n \subseteq 1 .. n + 1 /\ n + 1 \in 1 .. n + 1
    BY <1>1
  <1>4. Brings(p, r) <=> Brings(q, r) \/ Token(m, r)
    BY <1>1, <1>2, <1>3 DEF Brings
  <1>5. ASSUME NEW v
        PROVE  ReplyIs(p, r, v) <=> ReplyIs(q, r, v) \/ (Token(m, r) /\ m.version = v)
    BY <1>1, <1>2, <1>3 DEF ReplyIs
  <1> QED
    BY <1>4, <1>5 DEF p
LEMMA GrownLastSays ==
  ASSUME NEW S, NEW q \in Seq(S), NEW m \in S, NEW s, NEW v
  PROVE  /\ LastSays(q, s, v) /\ ~Says(m, s) => LastSays(Append(q, m), s, v)
         /\ Says(m, s) => LastSays(Append(q, m), s, m.version)
  <1> DEFINE p == Append(q, m)
             n == Len(q)
  <1>1. n \in Nat /\ Len(p) = n + 1 /\ (\A i \in 1 .. n : p[i] = q[i]) /\ p[n + 1] = m
    BY QueueGrows
  <1> HIDE DEF p
  <1>2. \A i \in 1 .. n + 1 : i \in 1 .. n \/ i = n + 1
    BY <1>1
  <1>3. 1 .. n \subseteq 1 .. n + 1 /\ n + 1 \in 1 .. n + 1
    BY <1>1
  <1>4. ASSUME LastSays(q, s, v), ~Says(m, s), NEW i \in 1 .. n + 1, Says(p[i], s),
               \A j \in 1 .. n + 1 : j > i => ~Says(p[j], s)
        PROVE  p[i].version = v
    <2>1. i \in 1 .. n /\ p[i] = q[i]
      BY <1>1, <1>2, <1>4
    <2>2. \A j \in 1 .. n : j > i => ~Says(q[j], s)
      BY <1>1, <1>3, <1>4
    <2> QED
      BY <1>4, <2>1, <2>2 DEF LastSays
  <1>5. ASSUME Says(m, s), NEW i \in 1 .. n + 1, Says(p[i], s),
               \A j \in 1 .. n + 1 : j > i => ~Says(p[j], s)
        PROVE  p[i].version = m.version
    <2>1. i = n + 1
      BY <1>1, <1>2, <1>3, <1>5
    <2> QED
      BY <1>1, <2>1
  <1>6. /\ LastSays(q, s, v) /\ ~Says(m, s) => LastSays(p, s, v)
        /\ Says(m, s) => LastSays(p, s, m.version)
    BY <1>1, <1>4, <1>5 DEF LastSays
  <1> QED
    BY <1>6 DEF p
LEMMA GrownOnce ==
  ASSUME NEW S, NEW q \in Seq(S), NEW m \in S,
         OncePer(q), \A r \in FileRequests : Token(m, r) => ~Brings(q, r)
  PROVE  OncePer(Append(q, m))
  <1> DEFINE p == Append(q, m)
             n == Len(q)
  <1>1. n \in Nat /\ Len(p) = n + 1 /\ (\A i \in 1 .. n : p[i] = q[i]) /\ p[n + 1] = m
    BY QueueGrows
  <1> HIDE DEF p
  <1>2. \A i \in 1 .. n + 1 : i \in 1 .. n \/ i = n + 1
    BY <1>1
  <1>3. ASSUME NEW i \in 1 .. n + 1, NEW j \in 1 .. n + 1, NEW r \in FileRequests,
               Token(p[i], r), Token(p[j], r)
        PROVE  i = j
    <2>1. CASE i \in 1 .. n /\ j \in 1 .. n
      BY <1>1, <1>3, <2>1 DEF OncePer
    <2>2. CASE i = n + 1
      BY <1>1, <1>2, <1>3, <2>2 DEF Brings
    <2>3. CASE j = n + 1
      BY <1>1, <1>2, <1>3, <2>3 DEF Brings
    <2> QED
      BY <1>2, <2>1, <2>2, <2>3
  <1>4. OncePer(p)
    BY <1>1, <1>3 DEF OncePer
  <1> QED
    BY <1>4 DEF p
LEMMA GrownEnds ==
  ASSUME NEW S, NEW q \in Seq(S), NEW m \in S, NEW s, NEW r,
         EndsWith(q, s, r), Says(m, s) => ~Brings(q, r)
  PROVE  EndsWith(Append(q, m), s, r)
  <1> DEFINE p == Append(q, m)
             n == Len(q)
  <1>1. n \in Nat /\ Len(p) = n + 1 /\ (\A i \in 1 .. n : p[i] = q[i]) /\ p[n + 1] = m
    BY QueueGrows
  <1> HIDE DEF p
  <1>2. \A i \in 1 .. n + 1 : i \in 1 .. n \/ i = n + 1
    BY <1>1
  <1>3. ASSUME NEW i \in 1 .. n + 1, NEW j \in 1 .. n + 1, Says(p[i], s), Token(p[j], r)
        PROVE  i < j
    <2>1. CASE i \in 1 .. n /\ j \in 1 .. n
      BY <1>1, <1>3, <2>1 DEF EndsWith
    <2>2. CASE i = n + 1 /\ j \in 1 .. n
      BY <1>1, <1>3, <2>2 DEF Brings
    <2>3. CASE i = n + 1 /\ j = n + 1
      BY <1>1, <1>3, <2>3 DEF Says, Token
    <2>4. CASE i \in 1 .. n /\ j = n + 1
      BY <1>1, <2>4
    <2> QED
      BY <1>2, <2>1, <2>2, <2>3, <2>4
  <1>4. EndsWith(p, s, r)
    BY <1>1, <1>3 DEF EndsWith
  <1> QED
    BY <1>4 DEF p

\* What a queue says after its head has left it.
LEMMA ShrunkSpeaks ==
  ASSUME NEW S, NEW q \in Seq(S), q # <<>>, NEW s
  PROVE  Speaks(q, s) <=> Says(Head(q), s) \/ Speaks(Tail(q), s)
  <1> DEFINE p == Tail(q)
             n == Len(q)
  <1>1. /\ n \in Nat \ {0} /\ Len(p) = n - 1 /\ (\A i \in 1 .. n - 1 : p[i] = q[i + 1])
        /\ Head(q) = q[1]
    BY QueueShrinks
  <1> HIDE DEF p
  <1>2. \A i \in 1 .. n : i = 1 \/ (i - 1 \in 1 .. n - 1 /\ (i - 1) + 1 = i)
    BY <1>1
  <1>3. 1 \in 1 .. n /\ \A i \in 1 .. n - 1 : i + 1 \in 1 .. n
    BY <1>1
  <1>4. ASSUME NEW i \in 1 .. n, Says(q[i], s), ~Says(Head(q), s)
        PROVE  Speaks(p, s)
    <2>1. i - 1 \in 1 .. n - 1 /\ p[i - 1] = q[i]
      BY <1>1, <1>2, <1>4
    <2> QED
      BY <1>1, <1>4, <2>1 DEF Speaks
  <1>5. Speaks(q, s) <=> Says(Head(q), s) \/ Speaks(p, s)
    BY <1>1, <1>3, <1>4 DEF Speaks
  <1> QED
    BY <1>5 DEF p
LEMMA ShrunkBrings ==
  ASSUME NEW S, NEW q \in Seq(S), q # <<>>, NEW r
  PROVE  /\ Brings(q, r) <=> Token(Head(q), r) \/ Brings(Tail(q), r)
         /\ \A v : ReplyIs(q, r, v) <=>
                     (Token(Head(q), r) /\ Head(q).version = v) \/ ReplyIs(Tail(q), r, v)
  <1> DEFINE p == Tail(q)
             n == Len(q)
  <1>1. /\ n \in Nat \ {0} /\ Len(p) = n - 1 /\ (\A i \in 1 .. n - 1 : p[i] = q[i + 1])
        /\ Head(q) = q[1]
    BY QueueShrinks
  <1> HIDE DEF p
  <1>2. \A i \in 1 .. n : i = 1 \/ (i - 1 \in 1 .. n - 1 /\ (i - 1) + 1 = i)
    BY <1>1
  <1>3. 1 \in 1 .. n /\ \A i \in 1 .. n - 1 : i + 1 \in 1 .. n
    BY <1>1
  <1>4. ASSUME NEW i \in 1 .. n, Token(q[i], r), i # 1
        PROVE  Brings(p, r) /\ ReplyIs(p, r, q[i].version)
    <2>1. i - 1 \in 1 .. n - 1 /\ p[i - 1] = q[i]
      BY <1>1, <1>2, <1>4
    <2> QED
      BY <1>1, <1>4, <2>1 DEF Brings, ReplyIs
  <1>5. Brings(q, r) <=> Token(Head(q), r) \/ Brings(p, r)
    BY <1>1, <1>3, <1>4 DEF Brings
  <1>6. ASSUME NEW v
        PROVE  ReplyIs(q, r, v) <=>
                 (Token(Head(q), r) /\ Head(q).version = v) \/ ReplyIs(p, r, v)
    BY <1>1, <1>3, <1>4 DEF ReplyIs
  <1> QED
    BY <1>5, <1>6 DEF p
LEMMA ShrunkLastSays ==
  ASSUME NEW S, NEW q \in Seq(S), q # <<>>, NEW s, NEW v, LastSays(q, s, v)
  PROVE  /\ LastSays(Tail(q), s, v)
         /\ Says(Head(q), s) /\ ~Speaks(Tail(q), s) => Head(q).version = v
  <1> DEFINE p == Tail(q)
             n == Len(q)
  <1>1. /\ n \in Nat \ {0} /\ Len(p) = n - 1 /\ (\A i \in 1 .. n - 1 : p[i] = q[i + 1])
        /\ Head(q) = q[1]
    BY QueueShrinks
  <1> HIDE DEF p
  <1>2. \A i \in 1 .. n : i = 1 \/ (i - 1 \in 1 .. n - 1 /\ (i - 1) + 1 = i)
    BY <1>1
  <1>3. 1 \in 1 .. n /\ \A i \in 1 .. n - 1 : i + 1 \in 1 .. n
    BY <1>1
  <1>4. ASSUME NEW i \in 1 .. n - 1, Says(p[i], s),
               \A j \in 1 .. n - 1 : j > i => ~Says(p[j], s)
        PROVE  p[i].version = v
    <2>1. i + 1 \in 1 .. n /\ q[i + 1] = p[i]
      BY <1>1, <1>3
    <2>2. ASSUME NEW j \in 1 .. n, j > i + 1
          PROVE  ~Says(q[j], s)
      <3>1. j - 1 \in 1 .. n - 1 /\ j - 1 > i /\ p[j - 1] = q[j]
        BY <1>1, <1>2, <2>2
      <3> QED
        BY <1>4, <3>1
    <2> QED
      BY <1>4, <2>1, <2>2 DEF LastSays
  <1>5. ASSUME Says(Head(q), s), ~Speaks(p, s)
        PROVE  Head(q).version = v
    <2>1. ASSUME NEW j \in 1 .. n, j > 1
          PROVE  ~Says(q[j], s)
      <3>1. j - 1 \in 1 .. n - 1 /\ p[j - 1] = q[j]
        BY <1>1, <1>2, <2>1
      <3> QED
        BY <1>1, <1>5, <3>1 DEF Speaks
    <2> QED
      BY <1>1, <1>3, <1>5, <2>1 DEF LastSays
  <1>6. LastSays(p, s, v) /\ (Says(Head(q), s) /\ ~Speaks(p, s) => Head(q).version = v)
    BY <1>1, <1>4, <1>5 DEF LastSays
  <1> QED
    BY <1>6 DEF p
LEMMA ShrunkOnce ==
  ASSUME NEW S, NEW q \in Seq(S), q # <<>>, OncePer(q)
  PROVE  /\ OncePer(Tail(q))
         /\ \A r \in FileRequests : Token(Head(q), r) => ~Brings(Tail(q), r)
  <1> DEFINE p == Tail(q)
             n == Len(q)
  <1>1. /\ n \in Nat \ {0} /\ Len(p) = n - 1 /\ (\A i \in 1 .. n - 1 : p[i] = q[i + 1])
        /\ Head(q) = q[1]
    BY QueueShrinks
  <1> HIDE DEF p
  <1>2. 1 \in 1 .. n /\ \A i \in 1 .. n - 1 : i + 1 \in 1 .. n /\ i + 1 # 1
    BY <1>1
  <1>3. ASSUME NEW i \in 1 .. n - 1, NEW j \in 1 .. n - 1, NEW r \in FileRequests,
               Token(p[i], r), Token(p[j], r)
        PROVE  i = j
    <2>1. i + 1 = j + 1
      BY <1>1, <1>2, <1>3 DEF OncePer
    <2> QED
      BY <2>1
  <1>4. ASSUME NEW r \in FileRequests, Token(Head(q), r), Brings(p, r)
        PROVE  FALSE
    <2>1. PICK i \in 1 .. n - 1 : Token(p[i], r)
      BY <1>1, <1>4 DEF Brings
    <2>2. 1 = i + 1
      BY <1>1, <1>2, <1>4, <2>1 DEF OncePer
    <2> QED
      BY <1>2, <2>2
  <1>5. OncePer(p) /\ \A r \in FileRequests : Token(Head(q), r) => ~Brings(p, r)
    BY <1>1, <1>3, <1>4 DEF OncePer
  <1> QED
    BY <1>5 DEF p
LEMMA ShrunkEnds ==
  ASSUME NEW S, NEW q \in Seq(S), q # <<>>, NEW s, NEW r, EndsWith(q, s, r)
  PROVE  /\ EndsWith(Tail(q), s, r)
         /\ Token(Head(q), r) => ~Speaks(Tail(q), s)
  <1> DEFINE p == Tail(q)
             n == Len(q)
  <1>1. /\ n \in Nat \ {0} /\ Len(p) = n - 1 /\ (\A i \in 1 .. n - 1 : p[i] = q[i + 1])
        /\ Head(q) = q[1]
    BY QueueShrinks
  <1> HIDE DEF p
  <1>2. 1 \in 1 .. n /\ \A i \in 1 .. n - 1 : i + 1 \in 1 .. n /\ ~(i + 1 < 1)
    BY <1>1
  <1>3. ASSUME NEW i \in 1 .. n - 1, NEW j \in 1 .. n - 1, Says(p[i], s), Token(p[j], r)
        PROVE  i < j
    <2>1. i + 1 < j + 1
      BY <1>1, <1>2, <1>3 DEF EndsWith
    <2> QED
      BY <2>1
  <1>4. ASSUME Token(Head(q), r), Speaks(p, s)
        PROVE  FALSE
    <2>1. PICK i \in 1 .. n - 1 : Says(p[i], s)
      BY <1>1, <1>4 DEF Speaks
    <2>2. i + 1 < 1
      BY <1>1, <1>2, <1>4, <2>1 DEF EndsWith
    <2> QED
      BY <1>2, <2>2
  <1>5. EndsWith(p, s, r) /\ (Token(Head(q), r) => ~Speaks(p, s))
    BY <1>1, <1>3, <1>4 DEF EndsWith
  <1> QED
    BY <1>5 DEF p
LEMMA NoTokenNoAnswer ==
  ASSUME NEW q, NEW r, ~Brings(q, r)
  PROVE  (\A v : ~ReplyIs(q, r, v)) /\ (\A s : EndsWith(q, s, r))
  BY DEF Brings, ReplyIs, EndsWith
LEMMA SilentQueue ==
  ASSUME NEW q, NEW s, ~Speaks(q, s)
  PROVE  (\A v : LastSays(q, s, v)) /\ (\A r : EndsWith(q, s, r))
  BY DEF Speaks, LastSays, EndsWith

\* What a queue says of the file s, and what it carries for the request r,
\* before and after a step that is not about them.
SaysSame(q, p, s) ==
  (Speaks(p, s) <=> Speaks(q, s)) /\ (\A v : LastSays(q, s, v) => LastSays(p, s, v))
AsksSame(q, p, s, r) ==
  /\ Brings(p, r) <=> Brings(q, r)
  /\ \A v : ReplyIs(p, r, v) <=> ReplyIs(q, r, v)
  /\ EndsWith(q, s, r) => EndsWith(p, s, r)
LEMMA SameQueue ==
  ASSUME NEW q, NEW s, NEW r
  PROVE  SaysSame(q, q, s) /\ AsksSame(q, q, s, r)
  BY DEF SaysSame, AsksSame
LEMMA GrownSaysSame ==
  ASSUME NEW S, NEW q \in Seq(S), NEW m \in S, NEW s, ~Says(m, s)
  PROVE  SaysSame(q, Append(q, m), s)
  BY GrownSpeaks, GrownLastSays DEF SaysSame
LEMMA GrownAsksSame ==
  ASSUME NEW S, NEW q \in Seq(S), NEW m \in S, NEW s, NEW r, ~Token(m, r),
         ~Says(m, s) \/ ~Brings(q, r)
  PROVE  AsksSame(q, Append(q, m), s, r)
  BY GrownBrings, GrownEnds DEF AsksSame
LEMMA ShrunkSaysSame ==
  ASSUME NEW S, NEW q \in Seq(S), q # <<>>, NEW s, ~Says(Head(q), s)
  PROVE  SaysSame(q, Tail(q), s)
  BY ShrunkSpeaks, ShrunkLastSays DEF SaysSame
LEMMA ShrunkAsksSame ==
  ASSUME NEW S, NEW q \in Seq(S), q # <<>>, NEW s, NEW r, ~Token(Head(q), r)
  PROVE  AsksSame(q, Tail(q), s, r)
  BY ShrunkBrings, ShrunkEnds DEF AsksSame

\* The event queue grows at its end, or loses its head, which was handled.
LEMMA GrownUnstale ==
  ASSUME NEW S, NEW q \in Seq(S), NEW m \in S, NEW s, NEW b, NEW h,
         h # 0 => q # <<>>
  PROVE  Speaks(Unstale(s, b, Append(q, m), h), s) <=>
           Speaks(Unstale(s, b, q, h), s) \/ Says(m, s)
  <1>1. CASE q = <<>>
    BY <1>1, GrownSpeaks DEF Unstale
  <1>2. CASE q # <<>>
    <2>1. Head(Append(q, m)) = Head(q) /\ Tail(Append(q, m)) = Append(Tail(q), m)
      BY <1>2, HeadTailAppend
    <2>2. Tail(q) \in Seq(S)
      BY <1>2, QueueShrinks
    <2>3. Unstale(s, b, Append(q, m), h) =
            IF h # 0 /\ Head(q).slot = s /\ h # b.number THEN Append(Tail(q), m)
            ELSE Append(q, m)
      BY <2>1 DEF Unstale
    <2>4. Unstale(s, b, q, h) =
            IF h # 0 /\ Head(q).slot = s /\ h # b.number THEN Tail(q) ELSE q
      BY DEF Unstale
    <2> QED
      BY ZenonT(60), <2>2, <2>3, <2>4, GrownSpeaks
  <1> QED
    BY <1>1, <1>2

\* Nothing happens to the file s, nor to the request r for it.
Calm(s) ==
  /\ bindings'[s] = bindings[s] /\ fileVersion'[s] = fileVersion[s]
  /\ (s \in watched' <=> s \in watched) /\ (s \in missed' <=> s \in missed)
  /\ SaysSame(toGateway, toGateway', s) /\ SaysSame(eventTail, eventTail', s)
CalmFor(s, r) ==
  /\ AsksSame(toGateway, toGateway', s, r) /\ AsksSame(eventTail, eventTail', s, r)
  /\ Speaks(Unstale(s, bindings[s], eventTail', handling'), s) <=>
       Speaks(Unstale(s, bindings[s], eventTail, handling), s)
LEMMA CalmRequest ==
  ASSUME NEW r \in FileRequests, RequestOK(r), fileRequest'[r] = fileRequest[r],
         fileRequest[r] # NoRequest =>
           Calm(fileRequest[r].slot) /\ CalmFor(fileRequest[r].slot, r)
  PROVE  RequestOK(r)'
  <1> DEFINE q == fileRequest[r]
             s == q.slot
             b == bindings[s]
             old == Unstale(s, b, eventTail, handling)
             new == Unstale(s, b, eventTail', handling')
  <1> SUFFICES ASSUME q # NoRequest
               PROVE  RequestRight(r, s, q, b, watched', missed', fileVersion[s],
                                   toGateway', eventTail', handling')
    BY DEF RequestOK, Calm
  <1>1. Calm(s) /\ CalmFor(s, r)
    OBVIOUS
  <1>2. RequestRight(r, s, q, b, watched, missed, fileVersion[s], toGateway, eventTail,
                     handling)
    BY DEF RequestOK
  <1>3. Speaks(new, s) <=> Speaks(old, s)
    BY <1>1 DEF CalmFor
  <1> HIDE DEF q, s, b, old, new
  <1>4. AnswerRight(r, s, q, b, watched', missed', fileVersion[s], toGateway', new)
    <2>1. AnswerRight(r, s, q, b, watched, missed, fileVersion[s], toGateway, old)
      BY <1>2 DEF RequestRight, old
    <2>2. \A v : Answered(q, r, toGateway', v) <=> Answered(q, r, toGateway, v)
      BY <1>1 DEF CalmFor, AsksSame, Answered
    <2> QED
      BY <1>1, <1>3, <2>1, <2>2 DEF Calm, SaysSame, AnswerRight
  <1>5. ASSUME s \notin watched'
        PROVE  UnwatchedRight(r, s, q, b, toGateway', eventTail')
    <2>1. UnwatchedRight(r, s, q, b, toGateway, eventTail)
      BY <1>1, <1>2, <1>5 DEF RequestRight, Calm
    <2> QED
      BY <1>1, <2>1 DEF Calm, CalmFor, SaysSame, AsksSame, UnwatchedRight
  <1> QED
    BY <1>2, <1>4, <1>5 DEF RequestRight, new
LEMMA CalmFile ==
  ASSUME NEW s \in FileSlots, FileOK(s), Calm(s), client'[s] = client[s],
         InUse(s, fileRequest') <=> InUse(s, fileRequest)
  PROVE  FileOK(s)'
  <1>1. WatchRight(s, bindings'[s], watched', missed', fileVersion'[s], toGateway',
                   eventTail')
    BY DEF FileOK, Calm, SaysSame, WatchRight
  <1>2. ASSUME ~InUse(s, fileRequest')
        PROVE  IdleRight(s, bindings'[s], watched', missed', fileVersion'[s],
                         toGateway', eventTail', client'[s])
    BY <1>2 DEF FileOK, Calm, SaysSame, IdleRight
  <1> QED
    BY <1>1, <1>2 DEF FileOK

LEMMA FileMessageIs ==
  /\ \A m \in FileCall : m.kind \in {"subscribe", "unsubscribe"} /\ m.slot \in FileSlots
                           /\ m.of \in FileRequests
  /\ \A m \in FileReply : m.kind = "reply" /\ m.of \in FileRequests
                           /\ m.version \in Versions
  /\ \A m \in FileUpdate : m.kind = "update" /\ m.slot \in FileSlots
                           /\ m.version \in 1 .. MaxVersion
  /\ \A m \in FileAck : m.kind = "ack" /\ m.of \in FileRequests
  BY DEF FileCall, FileReply, FileUpdate, FileAck

LEMMA FileRequestIs ==
  ASSUME NEW q \in FileRequest
  PROVE  /\ q = NoRequest <=> q.step = "idle"
         /\ q # NoRequest => /\ q.step \in {"sent", "replied", "queued"}
                             /\ q.kind \in {"subscribe", "unsubscribe"}
                             /\ q.slot \in FileSlots /\ q.mine \in 1 .. MaxBindings
                             /\ q.previous \in Binding /\ q.version \in Versions
                             /\ q = [step |-> q.step, kind |-> q.kind, slot |-> q.slot,
                                     mine |-> q.mine, previous |-> q.previous,
                                     version |-> q.version]
  BY DEF FileRequest, NoRequest

LEMMA FileBindingIs ==
  ASSUME NEW b \in Binding
  PROVE  /\ b = NoFileBinding <=> b.state = "none"
         /\ b.state \in {"none", "subscribing", "active", "releasing"}
         /\ b.state # "none" => /\ b.number \in 1 .. MaxBindings
                                /\ b.pendingUpdate \in Versions
                                /\ b = [state |-> b.state, number |-> b.number,
                                        pendingUpdate |-> b.pendingUpdate]
  BY DEF Binding, NoFileBinding

\* The file changes; its watcher says so.
LEMMA ChangeKeepsStep ==
  ASSUME FileTypeOK, FilesInStep, NEW f \in FileSlots, FileChanges(f)
  PROVE  FilesInStep'
  <1> DEFINE m == [kind |-> "update", slot |-> f, version |-> fileVersion[f] + 1]
             S == FileReply \cup FileUpdate
  <1>1. fileVersion[f] \in Nat /\ fileVersion[f] + 1 \in 1 .. MaxVersion
    BY FileAssumption DEF FileTypeOK, FileChanges
  <1>2. m \in S /\ Says(m, f) /\ m.version = fileVersion[f] + 1
        /\ (\A s : s # f => ~Says(m, s)) /\ (\A r : ~Token(m, r))
    BY <1>1 DEF FileUpdate, Says, Token
  <1>3. toGateway \in Seq(S)
    BY DEF FileTypeOK
  <1>4. /\ watched' = watched /\ missed' = missed /\ toDaemon' = toDaemon
        /\ bindings' = bindings /\ fileRequest' = fileRequest /\ eventTail' = eventTail
        /\ handling' = handling /\ client' = client /\ bound' = bound
        /\ fileVersion'[f] = fileVersion[f] + 1
        /\ \A s \in FileSlots : s # f => fileVersion'[s] = fileVersion[s]
    BY DEF FileChanges, sessionVars, FileTypeOK
  <1>5. toGateway' = IF f \in watched THEN Append(toGateway, m) ELSE toGateway
    BY DEF FileChanges
  <1> HIDE DEF m, S
  <1>6. ASSUME NEW s \in FileSlots, s # f
        PROVE  Calm(s)
    BY <1>2, <1>3, <1>4, <1>5, <1>6, SameQueue, GrownSaysSame DEF Calm
  <1>7. ASSUME NEW s \in FileSlots, s # f, NEW r
        PROVE  CalmFor(s, r)
    BY <1>2, <1>3, <1>4, <1>5, <1>7, SameQueue, GrownAsksSame DEF CalmFor
  <1>8. ASSUME NEW r \in FileRequests
        PROVE  RequestOK(r)'
    <2>1. CASE fileRequest[r] # NoRequest => fileRequest[r].slot # f
      <3>1. fileRequest[r] # NoRequest => fileRequest[r].slot \in FileSlots
        BY FileRequestIs DEF FileTypeOK
      <3> QED
        BY <1>4, <1>6, <1>7, <2>1, <3>1, CalmRequest DEF FilesInStep
    <2>2. CASE fileRequest[r] # NoRequest /\ fileRequest[r].slot = f
      <3> DEFINE q == fileRequest[r]
                 b == bindings[f]
      <3>1. RequestRight(r, f, q, b, watched, missed, fileVersion[f], toGateway,
                         eventTail, handling)
        BY <2>2 DEF FilesInStep, RequestOK
      <3> HIDE DEF q, b
      <3>2. RequestRight(r, f, q, b, watched, missed, fileVersion'[f], toGateway',
                         eventTail, handling)
        <4>1. CASE f \in watched
          <5>1. Speaks(toGateway', f)
            BY <1>2, <1>3, <1>5, <4>1, GrownSpeaks
          <5>2. \A v : Answered(q, r, toGateway', v) <=> Answered(q, r, toGateway, v)
            BY <1>2, <1>3, <1>5, <4>1, GrownBrings DEF Answered
          <5> QED
            BY <3>1, <4>1, <5>1, <5>2 DEF RequestRight, AnswerRight
        <4>2. CASE f \notin watched
          BY <1>5, <3>1, <4>2 DEF RequestRight, AnswerRight
        <4> QED
          BY <4>1, <4>2
      <3> QED
        BY <1>4, <2>2, <3>2 DEF RequestOK, q, b
    <2> QED
      BY <2>1, <2>2
  <1>9. ASSUME NEW s \in FileSlots
        PROVE  FileOK(s)'
    <2>1. CASE s # f
      BY <1>4, <1>6, <2>1, CalmFile DEF FilesInStep
    <2>2. CASE s = f
      <3>1. FileOK(f)
        BY DEF FilesInStep
      <3>2. f \in watched => Speaks(toGateway', f) /\ LastSays(toGateway', f, fileVersion'[f])
        BY <1>2, <1>3, <1>4, <1>5, GrownSpeaks, GrownLastSays
      <3>3. WatchRight(f, bindings[f], watched, missed, fileVersion'[f], toGateway',
                       eventTail)
        BY <3>2 DEF WatchRight
      <3>4. ASSUME ~InUse(f, fileRequest)
            PROVE  IdleRight(f, bindings[f], watched, missed, fileVersion'[f], toGateway',
                             eventTail, client[f])
        BY <1>5, <3>1, <3>2, <3>4 DEF FileOK, IdleRight
      <3> QED
        BY <1>4, <2>2, <3>3, <3>4 DEF FileOK
    <2> QED
      BY <2>1, <2>2
  <1>10. TokensRight'
    <2>1. \A r : Brings(toGateway', r) <=> Brings(toGateway, r)
      BY <1>2, <1>3, <1>5, GrownBrings
    <2>2. OncePer(toGateway')
      BY <1>2, <1>3, <1>5, GrownOnce DEF FilesInStep, TokensRight
    <2> QED
      BY <1>4, <2>1, <2>2 DEF FilesInStep, TokensRight, CallRight
  <1>11. OneRequestPerFile' /\ HandlingRight' /\ NumbersRight'
    BY <1>4 DEF FilesInStep, OneRequestPerFile, HandlingRight, NumbersRight
  <1> QED
    BY <1>8, <1>9, <1>10, <1>11 DEF FilesInStep

\* The workspace stops being ready, or is ready again.
LEMMA FlipKeepsStep ==
  ASSUME FilesInStep, WorkspaceFlips
  PROVE  FilesInStep'
  BY DEF WorkspaceFlips, sessionVars, FilesInStep, TokensRight, CallRight, RequestOK, FileOK,
         OneRequestPerFile, HandlingRight, NumbersRight

\* The daemon answers the request at the head: it watches the file from now on
\* and says its version, or has stopped watching it.
LEMMA AnswerKeepsStep ==
  ASSUME FileTypeOK, FilesInStep, DaemonAnswers
  PROVE  FilesInStep'
  <1>1. toDaemon # <<>> /\ toDaemon \in Seq(FileCall) /\ toDaemon' = Tail(toDaemon)
    BY DEF DaemonAnswers, FileTypeOK
  <1>2. PICK c : c = Head(toDaemon)
    OBVIOUS
  <1>3. /\ Len(toDaemon) \in Nat \ {0} /\ Len(toDaemon') = Len(toDaemon) - 1
        /\ \A i \in 1 .. Len(toDaemon) - 1 : toDaemon'[i] = toDaemon[i + 1]
        /\ c = toDaemon[1] /\ c \in FileCall
    BY <1>1, <1>2, QueueShrinks
  <1>4. PICK v : /\ v \in Versions
                 /\ toGateway' = Append(toGateway, [kind |-> "reply", of |-> c.of,
                                                    version |-> v])
                 /\ \/ c.kind = "subscribe" /\ watched' = watched \cup {c.slot}
                       /\ v = fileVersion[c.slot] /\ v # 0
                    \/ watched' = watched \ {c.slot} /\ v = 0
    <2>1. \A s \in FileSlots : fileVersion[s] \in Versions /\ fileVersion[s] # 0
      BY FileAssumption DEF FileTypeOK, Versions
    <2>2. 0 \in Versions
      BY FileAssumption DEF Versions
    <2>3. c.slot \in FileSlots
      BY <1>3, FileMessageIs
    <2> QED
      BY <1>2, <2>1, <2>2, <2>3 DEF DaemonAnswers
  <1>5. PICK m : m = [kind |-> "reply", of |-> c.of, version |-> v]
    OBVIOUS
  <1>6. PICK r0 : r0 = c.of
    OBVIOUS
  <1>7. PICK f : f = c.slot
    OBVIOUS
  <1>8. r0 \in FileRequests /\ f \in FileSlots /\ Token(c, r0)
    BY <1>3, <1>6, <1>7, FileMessageIs DEF Token
  <1>9. /\ m \in FileReply \cup FileUpdate /\ Token(m, r0) /\ m.version = v
        /\ (\A s : ~Says(m, s)) /\ (\A r : r # r0 => ~Token(m, r))
    BY <1>4, <1>5, <1>6, <1>8 DEF FileReply, Says, Token
  <1>10. toGateway \in Seq(FileReply \cup FileUpdate) /\ toGateway' = Append(toGateway, m)
    BY <1>4, <1>5 DEF FileTypeOK
  <1>11. /\ fileVersion' = fileVersion /\ missed' = missed /\ bindings' = bindings
         /\ fileRequest' = fileRequest /\ eventTail' = eventTail /\ handling' = handling
         /\ client' = client /\ bound' = bound
         /\ \A s : s # f => (s \in watched' <=> s \in watched)
    BY <1>4, <1>7 DEF DaemonAnswers, sessionVars
  <1>12. CallRight(c, fileRequest, toGateway)
    <2>1. 1 \in 1 .. Len(toDaemon)
      BY <1>3
    <2> QED
      BY <1>3, <2>1 DEF FilesInStep, TokensRight
  <1>13. /\ fileRequest[r0].step = "sent" /\ fileRequest[r0].kind = c.kind
         /\ fileRequest[r0].slot = f /\ ~Brings(toGateway, r0)
         /\ fileRequest[r0] # NoRequest
    BY <1>6, <1>7, <1>12 DEF CallRight, NoRequest
  <1>14. \A s : SaysSame(toGateway, toGateway', s)
    BY <1>9, <1>10, GrownSaysSame
  <1>15. \A s, r : r # r0 => AsksSame(toGateway, toGateway', s, r)
    BY <1>9, <1>10, GrownAsksSame
  <1>16. ASSUME NEW s \in FileSlots, s # f
         PROVE  Calm(s)
    BY <1>11, <1>14, <1>16, SameQueue DEF Calm
  <1>17. ASSUME NEW s \in FileSlots, NEW r, r # r0
         PROVE  CalmFor(s, r)
    BY <1>11, <1>15, <1>17, SameQueue DEF CalmFor
  <1>18. RequestRight(r0, f, fileRequest[r0], bindings[f], watched, missed,
                      fileVersion[f], toGateway, eventTail, handling)
    BY <1>8, <1>13 DEF FilesInStep, RequestOK
  <1>19. ASSUME NEW r \in FileRequests
         PROVE  RequestOK(r)'
    <2>1. CASE r # r0
      <3>1. fileRequest[r] # NoRequest =>
              fileRequest[r].slot \in FileSlots /\ fileRequest[r].slot # f
        BY <1>8, <1>13, <2>1, FileRequestIs DEF FileTypeOK, FilesInStep, OneRequestPerFile
      <3> QED
        BY <1>11, <1>16, <1>17, <2>1, <3>1, CalmRequest DEF FilesInStep
    <2>2. CASE r = r0
      <3> DEFINE q == fileRequest[r0]
                 b == bindings[f]
      <3>1. q.step = "sent" /\ q.kind = c.kind
        BY <1>13
      <3>2. \A x : Answered(q, r0, toGateway', x) <=> x = v
        <4>1. \A x : ReplyIs(toGateway', r0, x) <=> x = v
          BY <1>9, <1>10, <1>13, GrownBrings, NoTokenNoAnswer
        <4> QED
          BY <3>1, <4>1 DEF Answered
      <3>3. Brings(toGateway', r0) /\ EndsWith(toGateway', f, r0)
        BY <1>9, <1>10, <1>13, GrownBrings, GrownEnds, NoTokenNoAnswer
      <3> HIDE DEF q, b
      <3>4. AnswerRight(r0, f, q, b, watched', missed, fileVersion[f], toGateway',
                        Unstale(f, b, eventTail, handling))
        <4>1. c.kind \in {"subscribe", "unsubscribe"}
          BY <1>3, FileMessageIs
        <4> QED
          BY <1>4, <1>7, <1>13, <3>1, <3>2, <4>1 DEF AnswerRight
      <3>5. UnwatchedRight(r0, f, q, b, toGateway', eventTail)
        BY <3>1, <3>3 DEF UnwatchedRight
      <3>6. BindingRight(q, b)
        BY <1>18 DEF RequestRight, q, b
      <3>7. RequestRight(r0, f, q, b, watched', missed, fileVersion[f], toGateway',
                         eventTail, handling)
        BY <3>4, <3>5, <3>6 DEF RequestRight
      <3> QED
        BY <1>11, <1>13, <2>2, <3>7 DEF RequestOK, q, b
    <2> QED
      BY <2>1, <2>2
  <1>20. ASSUME NEW s \in FileSlots
         PROVE  FileOK(s)'
    <2>1. CASE s # f
      BY <1>11, <1>16, <2>1, CalmFile DEF FilesInStep
    <2>2. CASE s = f
      <3>1. InUse(f, fileRequest)
        BY <1>8, <1>13 DEF InUse
      <3>2. WatchRight(f, bindings[f], watched', missed, fileVersion[f], toGateway',
                       eventTail)
        <4>1. CASE f \in watched
          BY <1>8, <1>14, <4>1 DEF FilesInStep, FileOK, WatchRight, SaysSame
        <4>2. CASE f \notin watched /\ c.kind = "subscribe"
          <5>1. ~Speaks(toGateway, f) /\ ~Speaks(eventTail, f)
                  /\ bindings[f].pendingUpdate = 0
            BY <1>13, <1>18, <4>2 DEF RequestRight, UnwatchedRight
          <5>2. /\ LastSays(toGateway', f, fileVersion[f])
                /\ LastSays(eventTail, f, fileVersion[f])
            BY <1>14, <5>1, SilentQueue DEF SaysSame
          <5> QED
            BY <5>1, <5>2 DEF WatchRight
        <4>3. CASE f \notin watched'
          BY <4>3 DEF WatchRight
        <4> QED
          BY <1>4, <1>7, <4>1, <4>2, <4>3
      <3> QED
        BY <1>11, <2>2, <3>1, <3>2 DEF FileOK
    <2> QED
      BY <2>1, <2>2
  <1>21. TokensRight'
    <2>1. OncePer(toDaemon') /\ ~Brings(toDaemon', r0)
      BY <1>1, <1>2, <1>8, ShrunkOnce DEF FilesInStep, TokensRight
    <2>2. OncePer(toGateway')
      BY <1>8, <1>9, <1>10, <1>13, GrownOnce DEF FilesInStep, TokensRight
    <2>3. \A r : Brings(toGateway', r) <=> Brings(toGateway, r) \/ r = r0
      BY <1>9, <1>10, GrownBrings
    <2>4. ASSUME NEW i \in 1 .. Len(toDaemon')
          PROVE  CallRight(toDaemon'[i], fileRequest', toGateway')
      <3>1. i \in 1 .. Len(toDaemon) - 1 /\ i + 1 \in 1 .. Len(toDaemon)
        BY <1>3
      <3>2. toDaemon'[i] = toDaemon[i + 1] /\ CallRight(toDaemon[i + 1], fileRequest, toGateway)
        BY <1>3, <3>1 DEF FilesInStep, TokensRight
      <3>3. toDaemon[i + 1] \in FileCall
        BY <1>1, <3>1, ElementOfSeq
      <3>4. toDaemon[i + 1].of # r0
        BY <2>1, <3>2, <3>3, FileMessageIs DEF Brings, Token
      <3> QED
        BY <1>11, <2>3, <3>2, <3>4 DEF CallRight
    <2> QED
      BY <1>8, <1>11, <1>13, <2>1, <2>2, <2>3, <2>4 DEF FilesInStep, TokensRight
  <1>22. OneRequestPerFile' /\ HandlingRight' /\ NumbersRight'
    BY <1>11 DEF FilesInStep, OneRequestPerFile, HandlingRight, NumbersRight
  <1> QED
    BY <1>19, <1>20, <1>21, <1>22 DEF FilesInStep

\* What a file that no request is about is like, and one that a request is about.
LEMMA IdleOrInUse ==
  ASSUME FileTypeOK, FilesInStep, NEW f \in FileSlots
  PROVE  /\ bindings[f].state \in {"subscribing", "releasing"} => InUse(f, fileRequest)
         /\ bindings[f].state = "active" => ~InUse(f, fileRequest) /\ f \in watched
  <1>1. ~InUse(f, fileRequest) => /\ bindings[f].state \in {"none", "active"}
                                  /\ bindings[f].state = "active" => f \in watched
    BY DEF FilesInStep, FileOK, IdleRight
  <1>2. ASSUME InUse(f, fileRequest)
        PROVE  bindings[f].state # "active"
    <2>1. PICK r \in FileRequests : fileRequest[r] # NoRequest /\ fileRequest[r].slot = f
      BY <1>2 DEF InUse
    <2>2. BindingRight(fileRequest[r], bindings[f])
      BY <2>1 DEF FilesInStep, RequestOK, RequestRight
    <2> QED
      BY <2>2 DEF BindingRight
  <1> QED
    BY <1>1, <1>2

\* A call is made: its request is the only one for the file, and the queues
\* towards the client stay as they are.
LEMMA CallKeepsStep ==
  ASSUME FileTypeOK, FilesInStep, NEW r0 \in FileRequests, NEW f \in FileSlots,
         NEW kind \in {"subscribe", "unsubscribe"},
         fileRequest[r0] = NoRequest, ~InUse(f, fileRequest),
         fileRequest'[r0].step = "sent", fileRequest'[r0] # NoRequest,
         fileRequest'[r0].slot = f, fileRequest'[r0].kind = kind,
         \A r \in FileRequests : r # r0 => fileRequest'[r] = fileRequest[r],
         SendNative(r0, kind, f),
         \A s \in FileSlots : s # f => bindings'[s] = bindings[s],
         \A s \in FileSlots : s # f => (s \in missed' <=> s \in missed),
         UnchangedWorld, UNCHANGED <<toGateway, eventTail, handling, client>>,
         BindingRight(fileRequest'[r0], bindings'[f]),
         f \notin watched => kind = "subscribe" /\ bindings'[f].pendingUpdate = 0,
         bindings'[f].state = "subscribing" => bindings'[f].pendingUpdate = 0,
         HandlingRight', NumbersRight'
  PROVE  FilesInStep'
  <1> DEFINE m == [kind |-> kind, slot |-> f, of |-> r0]
  <1>1. m \in FileCall /\ Token(m, r0) /\ (\A r : r # r0 => ~Token(m, r))
        /\ m.of = r0 /\ m.kind = kind /\ m.slot = f
    BY DEF FileCall, Token
  <1>2. toDaemon \in Seq(FileCall) /\ toDaemon' = Append(toDaemon, m)
    BY DEF FileTypeOK, SendNative
  <1> HIDE DEF m
  <1>3. /\ fileVersion' = fileVersion /\ watched' = watched /\ toGateway' = toGateway
        /\ eventTail' = eventTail /\ handling' = handling /\ client' = client
    BY DEF UnchangedWorld
  <1>4. fileRequest[r0].step # "sent" /\ ~Brings(toGateway, r0)
    BY DEF FilesInStep, TokensRight, NoRequest
  <1>5. ASSUME NEW s \in FileSlots, s # f
        PROVE  Calm(s) /\ \A r : CalmFor(s, r)
    BY <1>3, <1>5, SameQueue DEF Calm, CalmFor
  <1>6. ASSUME NEW r \in FileRequests
        PROVE  RequestOK(r)'
    <2>1. CASE r # r0
      <3>1. fileRequest[r] # NoRequest =>
              fileRequest[r].slot \in FileSlots /\ fileRequest[r].slot # f
        BY FileRequestIs DEF FileTypeOK, InUse
      <3> QED
        BY <1>5, <2>1, <3>1, CalmRequest DEF FilesInStep
    <2>2. CASE r = r0
      <3> DEFINE q == fileRequest'[r0]
                 b == bindings'[f]
      <3>1. f \notin watched => ~Speaks(toGateway, f) /\ ~Speaks(eventTail, f)
        BY DEF FilesInStep, FileOK, IdleRight
      <3>2. EndsWith(toGateway, f, r0) /\ \A v : ~Answered(q, r0, toGateway, v)
        BY <1>4, NoTokenNoAnswer DEF Answered
      <3> HIDE DEF q, b
      <3>3. /\ q.step = "sent" /\ q.kind = kind /\ BindingRight(q, b)
            /\ f \notin watched => kind = "subscribe" /\ b.pendingUpdate = 0
        BY DEF q, b
      <3>4. RequestRight(r0, f, q, b, watched, missed', fileVersion[f], toGateway,
                         eventTail, handling)
        BY <3>1, <3>2, <3>3 DEF RequestRight, AnswerRight, UnwatchedRight
      <3> QED
        BY <1>3, <2>2, <3>4 DEF RequestOK, q, b
    <2> QED
      BY <2>1, <2>2
  <1>7. ASSUME NEW s \in FileSlots
        PROVE  FileOK(s)'
    <2>1. CASE s # f
      <3>1. InUse(s, fileRequest') <=> InUse(s, fileRequest)
        BY <2>1 DEF InUse
      <3> QED
        BY <1>3, <1>5, <2>1, <3>1, CalmFile DEF FilesInStep
    <2>2. CASE s = f
      <3>1. InUse(f, fileRequest')
        BY DEF InUse
      <3>2. WatchRight(f, bindings[f], watched, missed, fileVersion[f], toGateway,
                       eventTail)
        BY DEF FilesInStep, FileOK
      <3>3. WatchRight(f, bindings'[f], watched, missed', fileVersion[f], toGateway,
                       eventTail)
        BY <3>2 DEF WatchRight
      <3> QED
        BY <1>3, <2>2, <3>1, <3>3 DEF FileOK
    <2> QED
      BY <2>1, <2>2
  <1>8. TokensRight'
    <2>1. ASSUME NEW i \in 1 .. Len(toDaemon)
          PROVE  /\ toDaemon[i] \in FileCall /\ toDaemon[i].of # r0
                 /\ CallRight(toDaemon[i], fileRequest', toGateway')
      <3>1. toDaemon[i] \in FileCall
        BY <1>2, ElementOfSeq
      <3>2. CallRight(toDaemon[i], fileRequest, toGateway)
        BY DEF FilesInStep, TokensRight
      <3>3. toDaemon[i].of \in FileRequests /\ toDaemon[i].of # r0
        BY <1>4, <3>1, <3>2, FileMessageIs DEF CallRight
      <3> QED
        BY <1>3, <3>1, <3>2, <3>3 DEF CallRight
    <2>2. \A i \in 1 .. Len(toDaemon') : CallRight(toDaemon'[i], fileRequest', toGateway')
      <3>1. CallRight(m, fileRequest', toGateway')
        BY <1>1, <1>3, <1>4 DEF CallRight
      <3>2. /\ Len(toDaemon) \in Nat /\ Len(toDaemon') = Len(toDaemon) + 1
            /\ \A i \in 1 .. Len(toDaemon) : toDaemon'[i] = toDaemon[i]
            /\ toDaemon'[Len(toDaemon) + 1] = m
        BY <1>1, <1>2, QueueGrows
      <3>3. \A i \in 1 .. Len(toDaemon') : i \in 1 .. Len(toDaemon) \/ i = Len(toDaemon) + 1
        BY <3>2
      <3> QED
        BY <2>1, <3>1, <3>2, <3>3
    <2>3. OncePer(toDaemon')
      <3>1. ~Brings(toDaemon, r0)
        BY <2>1 DEF Brings, Token
      <3> QED
        BY <1>1, <1>2, <3>1, GrownOnce DEF FilesInStep, TokensRight
    <2>4. \A r \in FileRequests : Brings(toGateway', r) => fileRequest'[r].step = "sent"
      BY <1>3 DEF FilesInStep, TokensRight
    <2>5. \A r \in FileRequests : Brings(eventTail', r) => fileRequest'[r].step = "queued"
      <3>1. ~Brings(eventTail, r0)
        BY DEF FilesInStep, TokensRight, NoRequest
      <3> QED
        BY <1>3, <3>1 DEF FilesInStep, TokensRight
    <2> QED
      BY <1>3, <2>2, <2>3, <2>4, <2>5 DEF FilesInStep, TokensRight
  <1>9. OneRequestPerFile'
    BY DEF FilesInStep, OneRequestPerFile, InUse
  <1> QED
    BY <1>6, <1>7, <1>8, <1>9 DEF FilesInStep

\* A client subscribes to a file, or subscribes again.
LEMMA SubscribeKeepsStep ==
  ASSUME FileTypeOK, FilesInStep, NEW r \in FileRequests, NEW f \in FileSlots,
         Subscribe(r, f)
  PROVE  FilesInStep'
  <1>1. fileRequest[r] = NoRequest /\ ~InUse(f, fileRequest)
    <2>1. \A p \in FileRequests : fileRequest[p] # NoRequest => fileRequest[p].step # "idle"
      BY FileRequestIs DEF FileTypeOK
    <2> QED
      BY <2>1 DEF Subscribe, ClientMaySubscribe, InUse
  <1>2. /\ fileRequest'[r] = [step |-> "sent", kind |-> "subscribe", slot |-> f,
                              mine |-> bound + 1, previous |-> bindings[f], version |-> 0]
        /\ \A p \in FileRequests : p # r => fileRequest'[p] = fileRequest[p]
        /\ bindings'[f] = [state |-> "subscribing", number |-> bound + 1,
                           pendingUpdate |-> 0]
        /\ \A s \in FileSlots : s # f => bindings'[s] = bindings[s]
        /\ missed' = missed \ {f} /\ bound' = bound + 1 /\ bound \in Nat
    BY DEF Subscribe, FileTypeOK
  <1>3. /\ fileRequest'[r].step = "sent" /\ fileRequest'[r] # NoRequest
        /\ fileRequest'[r].slot = f /\ fileRequest'[r].kind = "subscribe"
        /\ BindingRight(fileRequest'[r], bindings'[f])
        /\ bindings'[f].pendingUpdate = 0 /\ bindings'[f].state = "subscribing"
        /\ bindings'[f].number = bound + 1
    BY <1>2 DEF NoRequest, BindingRight
  <1>4. /\ UNCHANGED <<toGateway, eventTail, handling, client>> /\ UnchangedWorld
        /\ SendNative(r, "subscribe", f)
    BY DEF Subscribe
  <1>5. HandlingRight'
    <2> SUFFICES ASSUME handling # 0 PROVE HandlingRight'
      BY <1>4 DEF HandlingRight
    <2>1. /\ eventTail # <<>> /\ Head(eventTail).kind = "update" /\ handling <= bound
          /\ handling \in Nat
      BY DEF FilesInStep, HandlingRight, FileTypeOK
    <2>2. Head(eventTail).slot \in FileSlots
      <3>1. Head(eventTail) \in FileUpdate \cup FileAck
        BY <2>1, QueueShrinks DEF FileTypeOK
      <3> QED
        BY <2>1, <3>1, FileMessageIs
    <2>3. handling <= bound'
      BY <1>2, <2>1
    <2> QED
      BY <1>2, <1>3, <1>4, <2>1, <2>2, <2>3 DEF FilesInStep, HandlingRight
  <1>6. NumbersRight'
    <2> SUFFICES ASSUME NEW s \in FileSlots, bindings'[s].state # "none"
                 PROVE  bindings'[s].number <= bound'
      BY DEF NumbersRight
    <2>1. CASE s = f
      BY <1>2, <1>3, <2>1
    <2>2. CASE s # f
      <3>1. bindings[s].number <= bound /\ bindings[s].number \in Nat
        BY <1>2, <2>2, FileBindingIs DEF FilesInStep, NumbersRight, FileTypeOK
      <3> QED
        BY <1>2, <2>2, <3>1
    <2> QED
      BY <2>1, <2>2
  <1>7. \A s \in FileSlots : s # f => (s \in missed' <=> s \in missed)
    BY <1>2
  <1> QED
    BY <1>1, <1>2, <1>3, <1>4, <1>5, <1>6, <1>7, CallKeepsStep

\* A client unsubscribes: an ID nobody knows is acknowledged at once.
LEMMA UnsubscribeKeepsStep ==
  ASSUME FileTypeOK, FilesInStep, NEW r \in FileRequests, NEW f \in FileSlots,
         Unsubscribe(r, f)
  PROVE  FilesInStep'
  <1>1. /\ UNCHANGED <<toGateway, eventTail, handling, bound, missed>> /\ UnchangedWorld
        /\ fileRequest[r] = NoRequest
    BY DEF Unsubscribe
  <1>2. CASE bindings[f].state = "none" /\ UNCHANGED <<bindings, fileRequest, toDaemon>>
             /\ client' = [client EXCEPT ![f].subscribed = FALSE]
    <2>1. \A s \in FileSlots : Calm(s) /\ \A p : CalmFor(s, p)
      BY <1>1, <1>2, SameQueue DEF Calm, CalmFor, UnchangedWorld
    <2>2. ASSUME NEW p \in FileRequests
          PROVE  RequestOK(p)'
      <3>1. fileRequest[p] # NoRequest => fileRequest[p].slot \in FileSlots
        BY FileRequestIs DEF FileTypeOK
      <3> QED
        BY <1>2, <2>1, <3>1, CalmRequest DEF FilesInStep
    <2>3. ASSUME NEW s \in FileSlots
          PROVE  FileOK(s)'
      <3>1. CASE s # f
        BY <1>2, <2>1, <3>1, CalmFile DEF FilesInStep, FileTypeOK
      <3>2. CASE s = f
        <4>1. FileOK(f)
          BY DEF FilesInStep
        <4>2. ~InUse(f, fileRequest) =>
                IdleRight(f, bindings[f], watched, missed, fileVersion[f], toGateway,
                          eventTail, client'[f])
          <5>1. client'[f].subscribed = FALSE
            BY <1>2 DEF FileTypeOK
          <5> QED
            BY <1>2, <4>1, <5>1 DEF FileOK, IdleRight
        <4> QED
          BY <1>1, <1>2, <3>2, <4>1, <4>2 DEF FileOK, UnchangedWorld
      <3> QED
        BY <3>1, <3>2
    <2>4. TokensRight' /\ OneRequestPerFile' /\ HandlingRight' /\ NumbersRight'
      BY <1>1, <1>2 DEF FilesInStep, TokensRight, OneRequestPerFile, HandlingRight,
         NumbersRight, UnchangedWorld
    <2> QED
      BY <2>2, <2>3, <2>4 DEF FilesInStep
  <1>3. CASE /\ bindings[f].state = "active"
             /\ bindings' = [bindings EXCEPT ![f].state = "releasing"]
             /\ fileRequest' = [fileRequest EXCEPT ![r] =
                  [step |-> "sent", kind |-> "unsubscribe", slot |-> f,
                   mine |-> bindings[f].number, previous |-> NoFileBinding,
                   version |-> 0]]
             /\ SendNative(r, "unsubscribe", f) /\ UNCHANGED client
    <2>1. ~InUse(f, fileRequest) /\ f \in watched
      BY <1>3, IdleOrInUse
    <2>2. /\ bindings'[f].state = "releasing" /\ bindings'[f].number = bindings[f].number
          /\ \A s \in FileSlots : s # f => bindings'[s] = bindings[s]
      BY <1>3, FileBindingIs DEF FileTypeOK
    <2>3. fileRequest'[r] = [step |-> "sent", kind |-> "unsubscribe", slot |-> f,
                             mine |-> bindings[f].number, previous |-> NoFileBinding,
                             version |-> 0]
          /\ \A p \in FileRequests : p # r => fileRequest'[p] = fileRequest[p]
      BY <1>3 DEF FileTypeOK
    <2>4. /\ fileRequest'[r].step = "sent" /\ fileRequest'[r] # NoRequest
          /\ fileRequest'[r].slot = f /\ fileRequest'[r].kind = "unsubscribe"
          /\ BindingRight(fileRequest'[r], bindings'[f])
      BY <2>2, <2>3 DEF NoRequest, BindingRight
    <2>5. HandlingRight'
      <3> SUFFICES ASSUME handling # 0 PROVE HandlingRight'
        BY <1>1 DEF HandlingRight
      <3>1. eventTail # <<>> /\ Head(eventTail).kind = "update" /\ handling <= bound
        BY DEF FilesInStep, HandlingRight
      <3>2. Head(eventTail).slot \in FileSlots
        <4>1. Head(eventTail) \in FileUpdate \cup FileAck
          BY <3>1, QueueShrinks DEF FileTypeOK
        <4> QED
          BY <3>1, <4>1, FileMessageIs
      <3> QED
        BY <1>1, <2>2, <3>1, <3>2 DEF FilesInStep, HandlingRight
    <2>6. NumbersRight'
      BY <1>1, <1>3, <2>2 DEF FilesInStep, NumbersRight
    <2>7. \A s \in FileSlots : s # f => (s \in missed' <=> s \in missed)
      BY <1>1
    <2>8. UNCHANGED <<toGateway, eventTail, handling, client>> /\ UnchangedWorld
      BY <1>1, <1>3
    <2> QED
      BY <1>1, <1>3, <2>1, <2>2, <2>3, <2>4, <2>5, <2>6, <2>7, <2>8, CallKeepsStep
  <1> QED
    BY <1>2, <1>3 DEF Unsubscribe

\* An update leaves the socket for the event queue.
LEMMA UpdateArrives ==
  ASSUME FileTypeOK, FilesInStep, toGateway # <<>>, toGateway' = Tail(toGateway),
         Head(toGateway).kind = "update", eventTail' = Append(eventTail, Head(toGateway)),
         UNCHANGED <<toDaemon, bindings, bound, handling, client, missed, fileRequest>>,
         UnchangedWorld
  PROVE  FilesInStep'
  <1> DEFINE S == FileReply \cup FileUpdate
             E == FileUpdate \cup FileAck
  <1>1. PICK m : m = Head(toGateway)
    OBVIOUS
  <1>2. toGateway \in Seq(S) /\ eventTail \in Seq(E)
    BY DEF FileTypeOK
  <1>3. m \in FileUpdate /\ m \in E /\ m \in S
    <2>1. m \in S
      BY <1>1, <1>2, QueueShrinks
    <2> QED
      BY <1>1, <2>1, FileMessageIs
  <1>4. PICK f \in FileSlots : f = m.slot
    BY <1>3, FileMessageIs
  <1>5. /\ Says(m, f) /\ (\A s : s # f => ~Says(m, s)) /\ (\A r : ~Token(m, r))
        /\ m.version # 0
    <2>1. m.kind = "update" /\ m.version \in 1 .. MaxVersion
      BY <1>3, FileMessageIs
    <2> QED
      BY <1>4, <2>1 DEF Says, Token
  <1>6. Tail(toGateway) = toGateway' /\ Append(eventTail, m) = eventTail'
    BY <1>1
  <1>7. handling # 0 => eventTail # <<>>
    BY DEF FilesInStep, HandlingRight
  <1>8. /\ fileVersion' = fileVersion /\ watched' = watched /\ missed' = missed
        /\ bindings' = bindings /\ fileRequest' = fileRequest /\ handling' = handling
        /\ client' = client /\ toDaemon' = toDaemon /\ bound' = bound
    BY DEF UnchangedWorld
  <1>9. \A r : (Brings(toGateway', r) <=> Brings(toGateway, r))
               /\ (Brings(eventTail', r) <=> Brings(eventTail, r))
               /\ \A v : ReplyIs(toGateway', r, v) <=> ReplyIs(toGateway, r, v)
    <2>1. \A r : Brings(eventTail', r) <=> Brings(eventTail, r)
      BY <1>2, <1>3, <1>5, <1>6, GrownBrings
    <2>2. \A r : (Brings(toGateway', r) <=> Brings(toGateway, r))
                 /\ \A v : ReplyIs(toGateway', r, v) <=> ReplyIs(toGateway, r, v)
      BY ZenonT(60), <1>1, <1>2, <1>5, <1>6, ShrunkBrings
    <2> QED
      BY <2>1, <2>2
  <1>10. /\ Speaks(toGateway, f) /\ Speaks(eventTail', f)
         /\ \A s, b : Speaks(Unstale(s, b, eventTail', handling), s) <=>
                        Speaks(Unstale(s, b, eventTail, handling), s) \/ Says(m, s)
    <2>1. Speaks(toGateway, f)
      BY <1>1, <1>2, <1>5, ShrunkSpeaks
    <2>2. Speaks(eventTail', f)
      BY <1>2, <1>3, <1>5, <1>6, GrownSpeaks
    <2>3. \A s, b : Speaks(Unstale(s, b, eventTail', handling), s) <=>
                      Speaks(Unstale(s, b, eventTail, handling), s) \/ Says(m, s)
      BY <1>2, <1>3, <1>6, <1>7, GrownUnstale
    <2> QED
      BY <2>1, <2>2, <2>3
  <1>11. ASSUME NEW s \in FileSlots, s # f
         PROVE  Calm(s) /\ \A r : CalmFor(s, r)
    <2>1. SaysSame(toGateway, toGateway', s)
      BY <1>1, <1>2, <1>5, <1>6, <1>11, ShrunkSaysSame
    <2>2. SaysSame(eventTail, eventTail', s)
      BY <1>2, <1>3, <1>5, <1>6, <1>11, GrownSaysSame
    <2>3. \A r : AsksSame(toGateway, toGateway', s, r)
      BY <1>1, <1>2, <1>5, <1>6, ShrunkAsksSame
    <2>4. \A r : AsksSame(eventTail, eventTail', s, r)
      BY <1>2, <1>3, <1>5, <1>6, <1>11, GrownAsksSame
    <2> QED
      BY <1>5, <1>8, <1>10, <1>11, <2>1, <2>2, <2>3, <2>4 DEF Calm, CalmFor
  <1>12. ASSUME NEW r \in FileRequests
         PROVE  RequestOK(r)'
    <2>1. CASE fileRequest[r] # NoRequest => fileRequest[r].slot # f
      <3>1. fileRequest[r] # NoRequest => fileRequest[r].slot \in FileSlots
        BY FileRequestIs DEF FileTypeOK
      <3> QED
        BY <1>8, <1>11, <2>1, <3>1, CalmRequest DEF FilesInStep
    <2>2. CASE fileRequest[r] # NoRequest /\ fileRequest[r].slot = f
      <3> DEFINE q == fileRequest[r]
                 b == bindings[f]
                 old == Unstale(f, b, eventTail, handling)
                 new == Unstale(f, b, eventTail', handling)
      <3>1. RequestRight(r, f, q, b, watched, missed, fileVersion[f], toGateway,
                         eventTail, handling)
        BY <2>2 DEF FilesInStep, RequestOK
      <3>2. Speaks(new, f)
        BY <1>5, <1>10
      <3> HIDE DEF q, b, new, old
      <3>3. AnswerRight(r, f, q, b, watched, missed, fileVersion[f], toGateway', new)
        <4>1. \A v : Answered(q, r, toGateway', v) <=> Answered(q, r, toGateway, v)
          BY <1>9 DEF Answered
        <4> QED
          BY <3>1, <3>2, <4>1 DEF RequestRight, AnswerRight
      <3>4. ASSUME f \notin watched
            PROVE  UnwatchedRight(r, f, q, b, toGateway', eventTail')
        <4>1. UnwatchedRight(r, f, q, b, toGateway, eventTail)
          BY <3>1, <3>4 DEF RequestRight
        <4>2. EndsWith(toGateway', f, r)
          BY <1>2, <1>6, <4>1, ShrunkEnds DEF UnwatchedRight
        <4>3. q.step \notin {"replied", "queued"}
          BY <1>10, <4>1 DEF UnwatchedRight
        <4> QED
          BY <1>9, <1>10, <4>1, <4>2, <4>3 DEF UnwatchedRight
      <3> QED
        BY <1>8, <2>2, <3>1, <3>3, <3>4 DEF RequestOK, RequestRight, q, b, new
    <2> QED
      BY <2>1, <2>2
  <1>13. ASSUME NEW s \in FileSlots
         PROVE  FileOK(s)'
    <2>1. CASE s # f
      BY <1>8, <1>11, <2>1, CalmFile DEF FilesInStep
    <2>2. CASE s = f
      <3>1. FileOK(f)
        BY DEF FilesInStep
      <3>2. ~InUse(f, fileRequest) =>
              IdleRight(f, bindings[f], watched, missed, fileVersion[f], toGateway',
                        eventTail', client[f])
        BY <1>10, <3>1 DEF FileOK, IdleRight
      <3>3. WatchRight(f, bindings[f], watched, missed, fileVersion[f], toGateway',
                       eventTail')
        <4> SUFFICES ASSUME f \in watched
                     PROVE  /\ LastSays(toGateway', f, fileVersion[f])
                            /\ ~Speaks(toGateway', f) =>
                                 LastSays(eventTail', f, fileVersion[f])
          BY <1>10 DEF WatchRight
        <4>1. LastSays(toGateway, f, fileVersion[f])
          BY <3>1 DEF FileOK, WatchRight
        <4>2. /\ LastSays(toGateway', f, fileVersion[f])
              /\ ~Speaks(toGateway', f) => m.version = fileVersion[f]
          BY <1>1, <1>2, <1>5, <1>6, <4>1, ShrunkLastSays
        <4>3. LastSays(eventTail', f, m.version)
          BY <1>2, <1>3, <1>5, <1>6, GrownLastSays
        <4> QED
          BY <4>2, <4>3
      <3> QED
        BY <1>8, <2>2, <3>2, <3>3 DEF FileOK
    <2> QED
      BY <2>1, <2>2
  <1>14. TokensRight'
    <2>1. OncePer(toGateway')
      BY <1>2, <1>6, ShrunkOnce DEF FilesInStep, TokensRight
    <2>2. OncePer(eventTail')
      BY <1>2, <1>3, <1>5, <1>6, GrownOnce DEF FilesInStep, TokensRight
    <2> QED
      BY <1>8, <1>9, <2>1, <2>2 DEF FilesInStep, TokensRight, CallRight
  <1>15. HandlingRight'
    <2>1. eventTail # <<>> => eventTail' # <<>> /\ Head(eventTail') = Head(eventTail)
      BY <1>2, <1>3, <1>6, HeadTailAppend
    <2> QED
      BY <1>8, <2>1 DEF FilesInStep, HandlingRight
  <1>16. OneRequestPerFile' /\ NumbersRight'
    BY <1>8 DEF FilesInStep, OneRequestPerFile, NumbersRight
  <1> QED
    BY <1>12, <1>13, <1>14, <1>15, <1>16 DEF FilesInStep

\* An answer reaches its request.
LEMMA AnswerArrives ==
  ASSUME FileTypeOK, FilesInStep, toGateway # <<>>, toGateway' = Tail(toGateway),
         NEW r0 \in FileRequests, NEW v0 \in Versions,
         Head(toGateway) = [kind |-> "reply", of |-> r0, version |-> v0],
         fileRequest[r0].step = "sent",
         fileRequest'[r0].step = "replied", fileRequest'[r0].version = v0,
         fileRequest'[r0].kind = fileRequest[r0].kind,
         fileRequest'[r0].mine = fileRequest[r0].mine,
         fileRequest'[r0].slot = fileRequest[r0].slot,
         \A r \in FileRequests : r # r0 => fileRequest'[r] = fileRequest[r],
         UNCHANGED <<toDaemon, bindings, bound, handling, client, missed, eventTail>>,
         UnchangedWorld
  PROVE  FilesInStep'
  <1> DEFINE S == FileReply \cup FileUpdate
  <1>1. PICK m : m = Head(toGateway)
    OBVIOUS
  <1>2. toGateway \in Seq(S) /\ Tail(toGateway) = toGateway'
    BY DEF FileTypeOK
  <1>3. /\ Token(m, r0) /\ (\A s : ~Says(m, s)) /\ (\A r : r # r0 => ~Token(m, r))
        /\ m.version = v0
    BY <1>1 DEF Says, Token
  <1>4. fileRequest[r0] # NoRequest /\ fileRequest[r0] \in FileRequest
    BY DEF NoRequest, FileTypeOK
  <1>5. PICK f \in FileSlots : f = fileRequest[r0].slot
    BY <1>4, FileRequestIs
  <1>6. /\ fileRequest'[r0].step = "replied" /\ fileRequest'[r0].version = v0
        /\ fileRequest'[r0].kind = fileRequest[r0].kind
        /\ fileRequest'[r0].mine = fileRequest[r0].mine
        /\ fileRequest'[r0].slot = f /\ fileRequest'[r0] # NoRequest
        /\ \A r \in FileRequests : r # r0 => fileRequest'[r] = fileRequest[r]
    <2>1. fileRequest'[r0] # NoRequest
      BY DEF NoRequest
    <2> QED
      BY <1>5, <2>1
  <1>7. /\ fileVersion' = fileVersion /\ watched' = watched /\ missed' = missed
        /\ bindings' = bindings /\ handling' = handling /\ eventTail' = eventTail
        /\ client' = client /\ toDaemon' = toDaemon /\ bound' = bound
    BY DEF UnchangedWorld
  <1>8. /\ Brings(toGateway, r0) /\ ReplyIs(toGateway, r0, v0)
        /\ \A r : Brings(toGateway', r) => Brings(toGateway, r)
    BY <1>1, <1>2, <1>3, ShrunkBrings
  <1>9. OncePer(toGateway') /\ ~Brings(toGateway', r0)
    BY <1>1, <1>2, <1>3, ShrunkOnce DEF FilesInStep, TokensRight
  <1>10. \A s : SaysSame(toGateway, toGateway', s)
    BY <1>1, <1>2, <1>3, ShrunkSaysSame
  <1>11. ASSUME NEW s \in FileSlots
         PROVE  Calm(s) /\ \A r : r # r0 => CalmFor(s, r)
    <2>1. \A r : r # r0 => AsksSame(toGateway, toGateway', s, r)
      BY <1>1, <1>2, <1>3, ShrunkAsksSame
    <2> QED
      BY <1>7, <1>10, <2>1, SameQueue DEF Calm, CalmFor
  <1>12. ASSUME NEW r \in FileRequests
         PROVE  RequestOK(r)'
    <2>1. CASE r # r0
      <3>1. fileRequest[r] # NoRequest => fileRequest[r].slot \in FileSlots
        BY FileRequestIs DEF FileTypeOK
      <3>2. fileRequest[r] # NoRequest =>
              Calm(fileRequest[r].slot) /\ CalmFor(fileRequest[r].slot, r)
        BY <1>11, <2>1, <3>1
      <3>3. fileRequest'[r] = fileRequest[r] /\ RequestOK(r)
        BY <1>6, <2>1 DEF FilesInStep
      <3> QED
        BY <3>2, <3>3, CalmRequest
    <2>2. CASE r = r0
      <3> DEFINE q == fileRequest[r0]
                 p == fileRequest'[r0]
                 b == bindings[f]
                 fresh == Unstale(f, b, eventTail, handling)
      <3>1. RequestRight(r0, f, q, b, watched, missed, fileVersion[f], toGateway,
                         eventTail, handling)
        BY <1>4, <1>5 DEF FilesInStep, RequestOK
      <3>2. /\ q.step = "sent" /\ p.step = "replied" /\ p.version = v0
            /\ p.kind = q.kind /\ p.mine = q.mine
        BY <1>6
      <3> HIDE DEF q, p, b, fresh
      <3>3. AnswerRight(r0, f, p, b, watched, missed, fileVersion[f], toGateway', fresh)
        <4>1. Answered(q, r0, toGateway, v0) /\ \A v : Answered(p, r0, toGateway', v) <=> v = v0
          BY <1>8, <3>2 DEF Answered
        <4>2. Speaks(toGateway', f) <=> Speaks(toGateway, f)
          BY <1>10 DEF SaysSame
        <4>3. AnswerRight(r0, f, q, b, watched, missed, fileVersion[f], toGateway, fresh)
          BY <3>1 DEF RequestRight, fresh
        <4> QED
          BY <3>2, <4>1, <4>2, <4>3 DEF AnswerRight
      <3>4. ASSUME f \notin watched
            PROVE  UnwatchedRight(r0, f, p, b, toGateway', eventTail)
        <4>1. EndsWith(toGateway, f, r0)
          BY <3>1, <3>4 DEF RequestRight, UnwatchedRight
        <4>2. EndsWith(toGateway', f, r0) /\ ~Speaks(toGateway', f)
          BY <1>1, <1>2, <1>3, <4>1, ShrunkEnds
        <4> QED
          BY <3>2, <4>2 DEF UnwatchedRight
      <3>5. BindingRight(p, b)
        BY <3>1, <3>2 DEF RequestRight, BindingRight
      <3>6. RequestRight(r0, f, p, b, watched, missed, fileVersion[f], toGateway',
                         eventTail, handling)
        BY <3>3, <3>4, <3>5 DEF RequestRight, fresh
      <3> QED
        BY <1>6, <1>7, <2>2, <3>6 DEF RequestOK, p, b
    <2> QED
      BY <2>1, <2>2
  <1>13. ASSUME NEW s \in FileSlots
         PROVE  FileOK(s)'
    <2>1. InUse(s, fileRequest') <=> InUse(s, fileRequest)
      BY <1>4, <1>5, <1>6 DEF InUse
    <2> QED
      BY <1>7, <1>11, <2>1, CalmFile DEF FilesInStep
  <1>14. TokensRight'
    <2>1. ASSUME NEW i \in 1 .. Len(toDaemon)
          PROVE  CallRight(toDaemon[i], fileRequest', toGateway')
      <3>1. toDaemon[i].of \in FileRequests
        BY ElementOfSeq, FileMessageIs DEF FileTypeOK
      <3>2. CallRight(toDaemon[i], fileRequest, toGateway)
        BY DEF FilesInStep, TokensRight
      <3> QED
        BY <1>6, <1>8, <3>1, <3>2 DEF CallRight
    <2>2. \A r \in FileRequests : Brings(toGateway', r) => fileRequest'[r].step = "sent"
      BY <1>6, <1>8, <1>9 DEF FilesInStep, TokensRight
    <2>3. \A r \in FileRequests : Brings(eventTail, r) => fileRequest'[r].step = "queued"
      <3>1. ~Brings(eventTail, r0)
        BY DEF FilesInStep, TokensRight
      <3> QED
        BY <1>6, <3>1 DEF FilesInStep, TokensRight
    <2> QED
      BY <1>7, <1>9, <2>1, <2>2, <2>3 DEF FilesInStep, TokensRight
  <1>15. OneRequestPerFile'
    <2>1. \A r \in FileRequests : fileRequest'[r] # NoRequest => fileRequest[r] # NoRequest
      BY <1>4, <1>6
    <2>2. \A r \in FileRequests : fileRequest'[r].slot = fileRequest[r].slot
      BY <1>6
    <2>3. OneRequestPerFile
      BY DEF FilesInStep
    <2> QED
      BY <2>1, <2>2, <2>3 DEF OneRequestPerFile
  <1>16. HandlingRight' /\ NumbersRight'
    BY <1>7 DEF FilesInStep, HandlingRight, NumbersRight
  <1> QED
    BY <1>12, <1>13, <1>14, <1>15, <1>16 DEF FilesInStep

\* A message arrives: an answer that nobody waits for does not, while connected.
LEMMA ReceiveKeepsStep ==
  ASSUME FileTypeOK, FilesInStep, Receive
  PROVE  FilesInStep'
  <1>1. /\ toGateway # <<>> /\ toGateway' = Tail(toGateway) /\ UnchangedWorld
        /\ UNCHANGED <<toDaemon, bindings, bound, handling, client, missed>>
    BY DEF Receive
  <1>2. PICK m : m = Head(toGateway)
    OBVIOUS
  <1>3. m \in FileReply \cup FileUpdate
    BY <1>1, <1>2, QueueShrinks DEF FileTypeOK
  <1>4. CASE m.kind = "update" /\ eventTail' = Append(eventTail, m) /\ UNCHANGED fileRequest
    BY <1>1, <1>2, <1>4, UpdateArrives
  <1>5. CASE m.kind = "reply"
    <2>1. m \in FileReply
      BY <1>3, <1>5, FileMessageIs
    <2>2. m.of \in FileRequests /\ m.version \in Versions
          /\ m = [kind |-> "reply", of |-> m.of, version |-> m.version]
      BY <2>1 DEF FileReply
    <2>3. fileRequest[m.of].step = "sent"
      <3>1. Brings(toGateway, m.of)
        <4>1. Token(m, m.of)
          BY <1>5 DEF Token
        <4> QED
          BY <1>1, <1>2, <4>1, ShrunkBrings DEF FileTypeOK
      <3> QED
        BY <2>2, <3>1 DEF FilesInStep, TokensRight
    <2>4. fileRequest' = [fileRequest EXCEPT ![m.of].step = "replied",
                                             ![m.of].version = m.version]
          /\ UNCHANGED eventTail
      BY <1>2, <1>5, <2>3 DEF Receive
    <2>5. /\ fileRequest'[m.of].step = "replied"
          /\ fileRequest'[m.of].version = m.version
          /\ fileRequest'[m.of].kind = fileRequest[m.of].kind
          /\ fileRequest'[m.of].mine = fileRequest[m.of].mine
          /\ fileRequest'[m.of].slot = fileRequest[m.of].slot
          /\ \A r \in FileRequests : r # m.of => fileRequest'[r] = fileRequest[r]
      <3>1. PICK q \in FileRequest : q = fileRequest[m.of]
        BY <2>2 DEF FileTypeOK
      <3>2. q # NoRequest
        BY <2>3, <3>1 DEF NoRequest
      <3>3. PICK p : p = [q EXCEPT !.step = "replied", !.version = m.version]
        OBVIOUS
      <3>4. /\ p.step = "replied" /\ p.version = m.version
            /\ p.kind = q.kind /\ p.mine = q.mine /\ p.slot = q.slot
        BY <3>2, <3>3 DEF FileRequest
      <3>5. fileRequest'[m.of] = p /\ \A r \in FileRequests : r # m.of => fileRequest'[r] = fileRequest[r]
        BY <2>2, <2>4, <3>1, <3>3 DEF FileTypeOK
      <3> QED
        BY <3>1, <3>4, <3>5
    <2> QED
      BY <1>1, <1>2, <2>2, <2>3, <2>4, <2>5, AnswerArrives
  <1> QED
    BY <1>2, <1>4, <1>5 DEF Receive

\* The answer is in order: its acknowledgement joins the event queue.
LEMMA RepliedKeepsStep ==
  ASSUME FileTypeOK, FilesInStep, NEW r0 \in FileRequests, Replied(r0), connected'
  PROVE  FilesInStep'
  <1> DEFINE E == FileUpdate \cup FileAck
  <1>1. PICK q \in FileRequest : q = fileRequest[r0]
    BY DEF FileTypeOK
  <1>2. q.step = "replied" /\ q # NoRequest
    BY <1>1 DEF Replied, NoRequest
  <1>3. PICK f \in FileSlots : f = q.slot
    BY <1>2, FileRequestIs
  <1>4. PICK m : m = [kind |-> "ack", of |-> r0]
    OBVIOUS
  <1>5. /\ m \in E /\ Token(m, r0) /\ (\A s : ~Says(m, s)) /\ (\A r : r # r0 => ~Token(m, r))
    BY <1>4 DEF FileAck, Says, Token
  <1>6. PICK gone \in BOOLEAN : gone <=> (q.kind = "unsubscribe" \/ q.version = 0)
    OBVIOUS
  <1>7. /\ bindings' = IF gone /\ MyFileBinding(r0)
                       THEN [bindings EXCEPT ![f] = NoFileBinding] ELSE bindings
        /\ fileRequest' = [fileRequest EXCEPT ![r0].step = "queued"]
        /\ eventTail' = Append(eventTail, m)
        /\ UNCHANGED <<toDaemon, toGateway, bound, handling, client, missed, fileFaults>>
        /\ UnchangedWorld
    <2>1. ~Rollback(r0)
      BY DEF Rollback
    <2> QED
      BY <1>1, <1>3, <1>4, <1>6, <2>1 DEF Replied
  <1>8. /\ fileVersion' = fileVersion /\ watched' = watched /\ missed' = missed
        /\ toGateway' = toGateway /\ handling' = handling /\ client' = client
        /\ toDaemon' = toDaemon /\ bound' = bound
    BY <1>7 DEF UnchangedWorld
  <1>9. PICK p : p = [q EXCEPT !.step = "queued"]
    OBVIOUS
  <1>10. /\ p.step = "queued" /\ p.kind = q.kind /\ p.slot = f /\ p.mine = q.mine
         /\ p.version = q.version /\ p # NoRequest
    <2>1. p.step = "queued" /\ p.kind = q.kind /\ p.slot = f /\ p.mine = q.mine
          /\ p.version = q.version
      BY <1>2, <1>3, <1>9 DEF FileRequest
    <2> QED
      BY <2>1 DEF NoRequest
  <1>11. fileRequest'[r0] = p /\ \A r \in FileRequests : r # r0 => fileRequest'[r] = fileRequest[r]
    BY <1>1, <1>7, <1>9 DEF FileTypeOK
  <1>12. RequestRight(r0, f, q, bindings[f], watched, missed, fileVersion[f], toGateway,
                      eventTail, handling)
    BY <1>1, <1>2, <1>3 DEF FilesInStep, RequestOK
  <1>13. /\ bindings[f].number = q.mine
         /\ bindings[f].state = IF q.kind = "subscribe" THEN "subscribing" ELSE "releasing"
    BY <1>2, <1>12 DEF RequestRight, BindingRight
  <1>14. MyFileBinding(r0)
    BY <1>1, <1>3, <1>13 DEF MyFileBinding
  <1>15. bindings'[f] = (IF gone THEN NoFileBinding ELSE bindings[f])
         /\ \A s \in FileSlots : s # f => bindings'[s] = bindings[s]
    BY <1>7, <1>14 DEF FileTypeOK
  <1>16. q.kind \in {"subscribe", "unsubscribe"} /\ q.version \in Versions
    BY <1>2, FileRequestIs
  <1>17. /\ f \in watched <=> q.version # 0
         /\ q.kind = "unsubscribe" => q.version = 0
         /\ gone <=> f \notin watched
    <2>1. Answered(q, r0, toGateway, q.version)
      BY <1>2 DEF Answered
    <2> QED
      BY <1>6, <1>12, <1>16, <2>1 DEF RequestRight, AnswerRight
  <1>18. eventTail \in Seq(E) /\ ~Brings(eventTail, r0)
    BY <1>1, <1>2 DEF FileTypeOK, FilesInStep, TokensRight
  <1>19. (\A s : SaysSame(eventTail, eventTail', s))
         /\ (\A s, r : r # r0 => AsksSame(eventTail, eventTail', s, r))
    BY <1>5, <1>7, <1>18, GrownSaysSame, GrownAsksSame
  <1>20. \A s, b : Speaks(Unstale(s, b, eventTail', handling), s) <=>
                     Speaks(Unstale(s, b, eventTail, handling), s)
    <2>1. handling # 0 => eventTail # <<>>
      BY DEF FilesInStep, HandlingRight
    <2> QED
      BY <1>5, <1>7, <1>18, <2>1, GrownUnstale
  <1>21. ASSUME NEW s \in FileSlots, s # f
         PROVE  Calm(s)
    BY <1>8, <1>15, <1>19, <1>21, SameQueue DEF Calm
  <1>22. ASSUME NEW s \in FileSlots, NEW r, r # r0
         PROVE  CalmFor(s, r)
    BY <1>8, <1>19, <1>20, <1>22, SameQueue DEF CalmFor
  <1>23. ASSUME NEW r \in FileRequests
         PROVE  RequestOK(r)'
    <2>1. CASE r # r0
      <3>1. fileRequest[r] # NoRequest =>
              fileRequest[r].slot \in FileSlots /\ fileRequest[r].slot # f
        BY <1>1, <1>2, <1>3, <2>1, FileRequestIs
           DEF FileTypeOK, FilesInStep, OneRequestPerFile
      <3> QED
        BY <1>11, <1>21, <1>22, <2>1, <3>1, CalmRequest DEF FilesInStep
    <2>2. CASE r = r0
      <3>1. PICK b : b = bindings[f]
        OBVIOUS
      <3>2. PICK c : c = bindings'[f]
        OBVIOUS
      <3>3. BindingRight(p, c)
        BY <1>6, <1>10, <1>13, <1>15, <1>16, <3>2 DEF BindingRight, NoFileBinding
      <3>4. AnswerRight(r0, f, p, c, watched, missed, fileVersion[f], toGateway,
                        Unstale(f, c, eventTail', handling))
        <4>1. \A v : Answered(p, r0, toGateway, v) <=> v = q.version
          BY <1>10 DEF Answered
        <4>2. Answered(q, r0, toGateway, q.version)
          BY <1>2 DEF Answered
        <4>3. AnswerRight(r0, f, q, b, watched, missed, fileVersion[f], toGateway,
                          Unstale(f, b, eventTail, handling))
          BY <1>12, <3>1 DEF RequestRight
        <4>4. f \in watched => c = b
          BY <1>15, <1>17, <3>1, <3>2
        <4>5. Speaks(Unstale(f, b, eventTail', handling), f) <=>
                Speaks(Unstale(f, b, eventTail, handling), f)
          BY <1>20
        <4> QED
          BY <1>10, <1>16, <1>17, <4>1, <4>2, <4>3, <4>4, <4>5 DEF AnswerRight
      <3>5. ASSUME f \notin watched
            PROVE  UnwatchedRight(r0, f, p, c, toGateway, eventTail')
        <4>1. EndsWith(toGateway, f, r0) /\ ~Speaks(toGateway, f)
          BY <1>2, <1>12, <3>5 DEF RequestRight, UnwatchedRight
        <4>2. EndsWith(eventTail', f, r0)
          BY <1>5, <1>7, <1>18, NoTokenNoAnswer, GrownEnds
        <4> QED
          BY <1>10, <4>1, <4>2 DEF UnwatchedRight
      <3>6. RequestRight(r0, f, p, c, watched, missed, fileVersion[f], toGateway,
                         eventTail', handling)
        BY <3>3, <3>4, <3>5 DEF RequestRight
      <3> QED
        BY <1>8, <1>10, <1>11, <2>2, <3>2, <3>6 DEF RequestOK
    <2> QED
      BY <2>1, <2>2
  <1>24. ASSUME NEW s \in FileSlots
         PROVE  FileOK(s)'
    <2>1. InUse(s, fileRequest') <=> InUse(s, fileRequest)
      <3>1. \A r \in FileRequests : /\ fileRequest'[r] # NoRequest <=> fileRequest[r] # NoRequest
                                    /\ fileRequest'[r].slot = fileRequest[r].slot
        BY <1>1, <1>2, <1>3, <1>10, <1>11
      <3> QED
        BY <3>1 DEF InUse
    <2>2. CASE s # f
      BY <1>8, <1>21, <2>1, <2>2, CalmFile DEF FilesInStep
    <2>3. CASE s = f
      <3>1. InUse(f, fileRequest')
        BY <1>10, <1>11 DEF InUse
      <3>2. f \in watched => bindings'[f] = bindings[f]
        BY <1>15, <1>17
      <3>3. WatchRight(f, bindings[f], watched, missed, fileVersion[f], toGateway,
                       eventTail)
        BY DEF FilesInStep, FileOK
      <3>4. WatchRight(f, bindings'[f], watched, missed, fileVersion[f], toGateway,
                       eventTail')
        BY <1>19, <3>2, <3>3 DEF WatchRight, SaysSame
      <3> QED
        BY <1>8, <2>3, <3>1, <3>4 DEF FileOK
    <2> QED
      BY <2>2, <2>3
  <1>25. TokensRight'
    <2>1. OncePer(eventTail')
      BY <1>5, <1>7, <1>18, GrownOnce DEF FilesInStep, TokensRight
    <2>2. ~Brings(toGateway, r0)
      BY <1>1, <1>2 DEF FilesInStep, TokensRight
    <2>3. ASSUME NEW i \in 1 .. Len(toDaemon)
          PROVE  CallRight(toDaemon[i], fileRequest', toGateway')
      <3>1. toDaemon[i].of \in FileRequests
        BY ElementOfSeq, FileMessageIs DEF FileTypeOK
      <3>2. CallRight(toDaemon[i], fileRequest, toGateway)
        BY DEF FilesInStep, TokensRight
      <3>3. toDaemon[i].of # r0
        BY <1>1, <1>2, <3>2 DEF CallRight
      <3> QED
        BY <1>8, <1>11, <3>1, <3>2, <3>3 DEF CallRight
    <2>4. \A r \in FileRequests : Brings(toGateway, r) => fileRequest'[r].step = "sent"
      BY <1>11, <2>2 DEF FilesInStep, TokensRight
    <2>5. \A r \in FileRequests : Brings(eventTail', r) => fileRequest'[r].step = "queued"
      <3>1. \A r : Brings(eventTail', r) <=> Brings(eventTail, r) \/ r = r0
        BY <1>5, <1>7, <1>18, GrownBrings
      <3> QED
        BY <1>10, <1>11, <3>1 DEF FilesInStep, TokensRight
    <2> QED
      BY <1>8, <2>1, <2>3, <2>4, <2>5 DEF FilesInStep, TokensRight
  <1>26. OneRequestPerFile'
    <2>1. \A r \in FileRequests : fileRequest'[r] # NoRequest => fileRequest[r] # NoRequest
      BY <1>1, <1>2, <1>11
    <2>2. \A r \in FileRequests : fileRequest'[r].slot = fileRequest[r].slot
      BY <1>1, <1>3, <1>10, <1>11
    <2>3. OneRequestPerFile
      BY DEF FilesInStep
    <2> QED
      BY <2>1, <2>2, <2>3 DEF OneRequestPerFile
  <1>27. HandlingRight'
    <2> SUFFICES ASSUME handling # 0 PROVE HandlingRight'
      BY <1>8 DEF HandlingRight
    <2>1. /\ eventTail # <<>> /\ Head(eventTail).kind = "update" /\ handling <= bound
          /\ LET b == bindings[Head(eventTail).slot]
             IN  /\ b.state = "active" => b.number = handling
                 /\ b.state = "subscribing" /\ b.number # handling => b.pendingUpdate = 0
      BY DEF FilesInStep, HandlingRight
    <2>2. Head(eventTail).slot \in FileSlots
      BY <1>18, <2>1, QueueShrinks, FileMessageIs
    <2>3. eventTail' # <<>> /\ Head(eventTail') = Head(eventTail)
      BY <1>5, <1>7, <1>18, <2>1, HeadTailAppend
    <2>4. \A s \in FileSlots : bindings'[s] = bindings[s] \/ bindings'[s].state = "none"
      BY <1>15 DEF NoFileBinding
    <2>5. PICK s \in FileSlots : s = Head(eventTail).slot
      BY <2>2
    <2>6. bindings'[s] = bindings[s] \/ bindings'[s].state = "none"
      BY <2>4
    <2> QED
      BY <1>8, <2>1, <2>3, <2>5, <2>6 DEF HandlingRight
  <1>28. NumbersRight'
    BY <1>8, <1>15 DEF FilesInStep, NumbersRight, NoFileBinding
  <1> QED
    BY <1>23, <1>24, <1>25, <1>26, <1>27, <1>28 DEF FilesInStep

\* The update at the head of the event queue was handled: what is left to show
\* is what became of its file f.
LEMMA UpdateLeaves ==
  ASSUME FileTypeOK, FilesInStep, eventTail # <<>>, NEW f \in FileSlots,
         Head(eventTail).kind = "update", Head(eventTail).slot = f,
         eventTail' = Tail(eventTail), handling' = 0,
         UNCHANGED <<toDaemon, toGateway, bound, fileRequest>>, UnchangedWorld,
         \A s \in FileSlots : s # f =>
           /\ bindings'[s] = bindings[s] /\ client'[s] = client[s]
           /\ s \in missed' <=> s \in missed,
         FileOK(f)',
         \A r \in FileRequests : fileRequest[r] # NoRequest /\ fileRequest[r].slot = f =>
           RequestRight(r, f, fileRequest[r], bindings'[f], watched, missed',
                        fileVersion[f], toGateway, eventTail', 0),
         NumbersRight'
  PROVE  FilesInStep'
  <1>1. PICK m : m = Head(eventTail)
    OBVIOUS
  <1>2. Says(m, f) /\ (\A s : s # f => ~Says(m, s)) /\ (\A r : ~Token(m, r))
    BY <1>1 DEF Says, Token
  <1>3. eventTail \in Seq(FileUpdate \cup FileAck)
    BY DEF FileTypeOK
  <1>4. /\ fileVersion' = fileVersion /\ watched' = watched /\ toGateway' = toGateway
        /\ fileRequest' = fileRequest /\ toDaemon' = toDaemon /\ bound' = bound
    BY DEF UnchangedWorld
  <1>5. ASSUME NEW s \in FileSlots, s # f
        PROVE  Calm(s)
    <2>1. SaysSame(eventTail, eventTail', s)
      BY <1>1, <1>2, <1>3, <1>5, ShrunkSaysSame
    <2> QED
      BY <1>4, <1>5, <2>1, SameQueue DEF Calm
  <1>6. ASSUME NEW s \in FileSlots, s # f, NEW r
        PROVE  CalmFor(s, r)
    <2>1. AsksSame(eventTail, eventTail', s, r)
      BY <1>1, <1>2, <1>3, ShrunkAsksSame
    <2>2. \A b : /\ Unstale(s, b, eventTail, handling) = eventTail
                 /\ Unstale(s, b, eventTail', handling') = eventTail'
      BY <1>6 DEF Unstale
    <2>3. Speaks(eventTail', s) <=> Speaks(eventTail, s)
      BY <1>1, <1>2, <1>3, <1>6, ShrunkSpeaks
    <2> QED
      BY <1>4, <2>1, <2>2, <2>3, SameQueue DEF CalmFor
  <1>7. ASSUME NEW r \in FileRequests
        PROVE  RequestOK(r)'
    <2>1. CASE fileRequest[r] # NoRequest => fileRequest[r].slot # f
      <3>1. fileRequest[r] # NoRequest => fileRequest[r].slot \in FileSlots
        BY FileRequestIs DEF FileTypeOK
      <3> QED
        BY <1>4, <1>5, <1>6, <2>1, <3>1, CalmRequest DEF FilesInStep
    <2>2. CASE fileRequest[r] # NoRequest /\ fileRequest[r].slot = f
      BY <1>4, <2>2 DEF RequestOK
    <2> QED
      BY <2>1, <2>2
  <1>8. ASSUME NEW s \in FileSlots
        PROVE  FileOK(s)'
    BY <1>4, <1>5, CalmFile DEF FilesInStep
  <1>9. TokensRight'
    <2>1. \A r : Brings(eventTail', r) <=> Brings(eventTail, r)
      BY <1>1, <1>2, <1>3, ShrunkBrings
    <2>2. OncePer(eventTail')
      BY <1>3, ShrunkOnce DEF FilesInStep, TokensRight
    <2> QED
      BY <1>4, <2>1, <2>2 DEF FilesInStep, TokensRight
  <1>10. OneRequestPerFile' /\ HandlingRight'
    BY <1>4 DEF FilesInStep, OneRequestPerFile, HandlingRight
  <1> QED
    BY <1>7, <1>8, <1>9, <1>10 DEF FilesInStep

\* What the head of the event queue, an update of f, says of the rest.
LEMMA UpdateAtHead ==
  ASSUME FileTypeOK, eventTail # <<>>, NEW f, Says(Head(eventTail), f),
         eventTail' = Tail(eventTail)
  PROVE  /\ Speaks(eventTail, f)
         /\ \A r : EndsWith(eventTail, f, r) => EndsWith(eventTail', f, r)
         /\ \A v : LastSays(eventTail, f, v) =>
              /\ LastSays(eventTail', f, v)
              /\ ~Speaks(eventTail', f) => Head(eventTail).version = v
  <1>1. eventTail \in Seq(FileUpdate \cup FileAck)
    BY DEF FileTypeOK
  <1>2. Speaks(eventTail, f)
    BY <1>1, ShrunkSpeaks
  <1>3. \A r : EndsWith(eventTail, f, r) => EndsWith(eventTail', f, r)
    BY <1>1, ShrunkEnds
  <1>4. \A v : LastSays(eventTail, f, v) =>
           /\ LastSays(eventTail', f, v)
           /\ ~Speaks(eventTail', f) => Head(eventTail).version = v
    BY <1>1, ShrunkLastSays
  <1> QED
    BY <1>2, <1>3, <1>4

\* It is dropped: it was not wanted, it was for an earlier binding, or the
\* workspace was not ready and the update counts as missed.
LEMMA UpdateDropped ==
  ASSUME FileTypeOK, FilesInStep, eventTail # <<>>, NEW f \in FileSlots,
         Head(eventTail).kind = "update", Head(eventTail).slot = f,
         eventTail' = Tail(eventTail), handling' = 0,
         UNCHANGED <<toDaemon, toGateway, bindings, bound, fileRequest, client>>,
         UnchangedWorld, missed' = missed \/ missed' = missed \cup {f},
         \/ f \in missed'
         \/ handling # 0 /\ handling # bindings[f].number
         \/ bindings[f].state \in {"none", "releasing"}
  PROVE  FilesInStep'
  <1>1. Says(Head(eventTail), f)
    BY DEF Says
  <1>2. PICK b : b = bindings[f]
    OBVIOUS
  <1>3. FileOK(f) /\ (f \in missed => f \in missed')
    BY DEF FilesInStep
  <1>4. handling # 0 /\ handling # b.number =>
          /\ b.state # "active" /\ (b.state = "subscribing" => b.pendingUpdate = 0)
          /\ Unstale(f, b, eventTail, handling) = eventTail'
    BY <1>2 DEF FilesInStep, HandlingRight, Unstale
  <1>5. FileOK(f)'
    <2>1. ASSUME ~InUse(f, fileRequest)
          PROVE  IdleRight(f, b, watched, missed', fileVersion[f], toGateway, eventTail',
                           client[f])
      <3>1. IdleRight(f, b, watched, missed, fileVersion[f], toGateway, eventTail, client[f])
        BY <1>2, <1>3, <2>1 DEF FileOK
      <3>2. f \in watched
        BY <1>1, <3>1, UpdateAtHead DEF IdleRight
      <3>3. b.state = "active"
        BY <3>1, <3>2 DEF IdleRight
      <3>4. f \in missed'
        BY <1>2, <1>4, <3>3
      <3> QED
        BY <3>1, <3>2, <3>3, <3>4 DEF IdleRight
    <2>2. WatchRight(f, b, watched, missed', fileVersion[f], toGateway, eventTail')
      <3> SUFFICES ASSUME f \in watched
                   PROVE  WatchRight(f, b, watched, missed', fileVersion[f], toGateway,
                                     eventTail')
        BY DEF WatchRight
      <3>1. WatchRight(f, b, watched, missed, fileVersion[f], toGateway, eventTail)
        BY <1>2, <1>3 DEF FileOK
      <3>2. ~Speaks(toGateway, f) => LastSays(eventTail', f, fileVersion[f])
        BY <1>1, <3>1, UpdateAtHead DEF WatchRight
      <3>3. f \notin missed' /\ b.state = "subscribing" => b.pendingUpdate = 0
        BY <1>2, <1>4
      <3> QED
        BY <3>1, <3>2, <3>3 DEF WatchRight
    <2> QED
      BY <1>2, <2>1, <2>2 DEF FileOK, UnchangedWorld
  <1>6. ASSUME NEW r \in FileRequests, fileRequest[r] # NoRequest, fileRequest[r].slot = f
        PROVE  RequestRight(r, f, fileRequest[r], b, watched, missed', fileVersion[f],
                            toGateway, eventTail', 0)
    <2>1. PICK q \in FileRequest : q = fileRequest[r]
      BY DEF FileTypeOK
    <2>2. RequestRight(r, f, q, b, watched, missed, fileVersion[f], toGateway, eventTail,
                       handling)
      BY <1>2, <1>6, <2>1 DEF FilesInStep, RequestOK
    <2>3. Unstale(f, b, eventTail', 0) = eventTail'
      BY DEF Unstale
    <2>4. AnswerRight(r, f, q, b, watched, missed', fileVersion[f], toGateway, eventTail')
      <3>1. AnswerRight(r, f, q, b, watched, missed, fileVersion[f], toGateway,
                        Unstale(f, b, eventTail, handling))
        BY <2>2 DEF RequestRight
      <3>2. ASSUME NEW v \in Versions, Answered(q, r, toGateway, v), q.kind = "subscribe",
                   f \in watched, b.state \in {"none", "releasing"}
            PROVE  FALSE
        <4>1. q.step = "queued" /\ q.version = 0
          BY <2>2, <3>2 DEF RequestRight, BindingRight
        <4> QED
          BY <3>1, <3>2, <4>1 DEF AnswerRight, Answered
      <3> SUFFICES ASSUME NEW v \in Versions, Answered(q, r, toGateway, v),
                          q.kind = "subscribe", f \in watched, f \notin missed',
                          v # fileVersion[f]
                   PROVE  Speaks(toGateway, f) \/ b.pendingUpdate # 0
                            \/ Speaks(eventTail', f)
        BY <3>1 DEF AnswerRight
      <3>3. Unstale(f, b, eventTail, handling) = eventTail'
        BY <1>2, <1>4, <3>2
      <3> QED
        BY <1>3, <3>1, <3>3 DEF AnswerRight
    <2>5. f \notin watched => UnwatchedRight(r, f, q, b, toGateway, eventTail')
      BY <1>1, <2>2, UpdateAtHead DEF RequestRight, UnwatchedRight
    <2> QED
      BY <2>1, <2>2, <2>3, <2>4, <2>5 DEF RequestRight
  <1>7. NumbersRight'
    BY DEF FilesInStep, NumbersRight
  <1>8. \A s \in FileSlots : s # f => (s \in missed' <=> s \in missed)
    OBVIOUS
  <1>9. bindings'[f] = b
    BY <1>2
  <1>10. \A r \in FileRequests : fileRequest[r] # NoRequest /\ fileRequest[r].slot = f =>
           RequestRight(r, f, fileRequest[r], bindings'[f], watched, missed',
                        fileVersion[f], toGateway, eventTail', 0)
    BY <1>6, <1>9
  <1> QED
    BY <1>5, <1>7, <1>8, <1>10, UpdateLeaves

\* The binding is active: the client is told.
LEMMA UpdateTold ==
  ASSUME FileTypeOK, FilesInStep, eventTail # <<>>, NEW f \in FileSlots,
         Head(eventTail).kind = "update", Head(eventTail).slot = f,
         eventTail' = Tail(eventTail), handling' = 0, bindings[f].state = "active",
         UNCHANGED <<toDaemon, toGateway, bindings, bound, fileRequest, missed>>,
         UnchangedWorld, client' = Emit(f, Head(eventTail).version)
  PROVE  FilesInStep'
  <1>1. Says(Head(eventTail), f)
    BY DEF Says
  <1>2. PICK b : b = bindings[f]
    OBVIOUS
  <1>3. ~InUse(f, fileRequest) /\ f \in watched
    BY IdleOrInUse
  <1>4. PICK c : c = client'[f]
    OBVIOUS
  <1>5. /\ c.subscribed = client[f].subscribed /\ c.version = Head(eventTail).version
        /\ \A s \in FileSlots : s # f => client'[s] = client[s]
    BY <1>4 DEF Emit, FileTypeOK
  <1>6. /\ IdleRight(f, b, watched, missed, fileVersion[f], toGateway, eventTail, client[f])
        /\ WatchRight(f, b, watched, missed, fileVersion[f], toGateway, eventTail)
    BY <1>2, <1>3 DEF FilesInStep, FileOK
  <1>7. ~Speaks(toGateway, f) => /\ LastSays(eventTail', f, fileVersion[f])
                                 /\ ~Speaks(eventTail', f) => c.version = fileVersion[f]
    BY <1>1, <1>3, <1>5, <1>6, UpdateAtHead DEF WatchRight
  <1>8. /\ IdleRight(f, b, watched, missed, fileVersion[f], toGateway, eventTail', c)
        /\ WatchRight(f, b, watched, missed, fileVersion[f], toGateway, eventTail')
    BY <1>2, <1>3, <1>5, <1>6, <1>7 DEF IdleRight, WatchRight
  <1>9. FileOK(f)'
    BY <1>2, <1>4, <1>8 DEF FileOK, UnchangedWorld
  <1>10. \A r \in FileRequests : ~(fileRequest[r] # NoRequest /\ fileRequest[r].slot = f)
    BY <1>3 DEF InUse
  <1>11. NumbersRight'
    BY DEF FilesInStep, NumbersRight
  <1> QED
    BY <1>5, <1>9, <1>10, <1>11, UpdateLeaves

\* The subscription is not acknowledged yet: the binding keeps the update.
LEMMA UpdateKept ==
  ASSUME FileTypeOK, FilesInStep, eventTail # <<>>, NEW f \in FileSlots,
         Head(eventTail).kind = "update", Head(eventTail).slot = f,
         eventTail' = Tail(eventTail), handling' = 0, bindings[f].state = "subscribing",
         UNCHANGED <<toDaemon, toGateway, client, bound, fileRequest, missed>>,
         UnchangedWorld,
         bindings' = [bindings EXCEPT ![f].pendingUpdate = Head(eventTail).version]
  PROVE  FilesInStep'
  <1>1. Says(Head(eventTail), f)
    BY DEF Says
  <1>2. PICK b \in Binding : b = bindings[f]
    BY DEF FileTypeOK
  <1>3. PICK c : c = bindings'[f]
    OBVIOUS
  <1>4. /\ c.state = "subscribing" /\ c.number = b.number
        /\ c.pendingUpdate = Head(eventTail).version
        /\ \A s \in FileSlots : s # f => bindings'[s] = bindings[s]
    <2>1. c = [b EXCEPT !.pendingUpdate = Head(eventTail).version]
          /\ \A s \in FileSlots : s # f => bindings'[s] = bindings[s]
      BY <1>2, <1>3 DEF FileTypeOK
    <2>2. b.state = "subscribing"
      BY <1>2
    <2> HIDE DEF NoFileBinding
    <2>3. b \in [state : {"subscribing", "active", "releasing"}, number : 1 .. MaxBindings,
                 pendingUpdate : Versions]
      BY <1>2, <2>2, FileBindingIs DEF Binding
    <2> QED
      BY <2>1, <2>2, <2>3
  <1>5. c.pendingUpdate # 0
    <2>1. Head(eventTail) \in FileUpdate
      <3>1. Head(eventTail) \in FileUpdate \cup FileAck
        BY QueueShrinks DEF FileTypeOK
      <3> QED
        BY <3>1, FileMessageIs
    <2> QED
      BY <1>4, <2>1, FileMessageIs
  <1>6. InUse(f, fileRequest)
    BY IdleOrInUse
  <1>7. WatchRight(f, b, watched, missed, fileVersion[f], toGateway, eventTail)
    BY <1>2 DEF FilesInStep, FileOK
  <1>8. WatchRight(f, c, watched, missed, fileVersion[f], toGateway, eventTail')
    BY <1>1, <1>4, <1>7, UpdateAtHead DEF WatchRight
  <1>9. FileOK(f)'
    BY <1>3, <1>6, <1>8 DEF FileOK, UnchangedWorld
  <1>10. ASSUME NEW r \in FileRequests, fileRequest[r] # NoRequest, fileRequest[r].slot = f
         PROVE  RequestRight(r, f, fileRequest[r], c, watched, missed, fileVersion[f],
                             toGateway, eventTail', 0)
    <2>1. PICK q \in FileRequest : q = fileRequest[r]
      BY DEF FileTypeOK
    <2>2. RequestRight(r, f, q, b, watched, missed, fileVersion[f], toGateway, eventTail,
                       handling)
      BY <1>2, <1>10, <2>1 DEF FilesInStep, RequestOK
    <2>3. BindingRight(q, c)
      BY <1>2, <1>4, <2>2 DEF RequestRight, BindingRight
    <2>4. AnswerRight(r, f, q, c, watched, missed, fileVersion[f], toGateway,
                      Unstale(f, c, eventTail', 0))
      BY <1>5, <2>2 DEF RequestRight, AnswerRight
    <2>5. f \notin watched => UnwatchedRight(r, f, q, c, toGateway, eventTail')
      BY <1>1, <2>2, UpdateAtHead DEF RequestRight, UnwatchedRight
    <2> QED
      BY <2>1, <2>3, <2>4, <2>5 DEF RequestRight
  <1>11. NumbersRight'
    BY <1>2, <1>3, <1>4 DEF FilesInStep, NumbersRight
  <1>12. \A r \in FileRequests : fileRequest[r] # NoRequest /\ fileRequest[r].slot = f =>
           RequestRight(r, f, fileRequest[r], bindings'[f], watched, missed',
                        fileVersion[f], toGateway, eventTail', 0)
    BY <1>3, <1>10
  <1> QED
    BY <1>4, <1>9, <1>11, <1>12, UpdateLeaves

\* The first look at an update: dropped, or its binding is remembered.
LEMMA TakeKeepsStep ==
  ASSUME FileTypeOK, FilesInStep, connected, TakeUpdate
  PROVE  FilesInStep'
  <1>1. /\ eventTail # <<>> /\ Head(eventTail).kind = "update" /\ handling = 0
        /\ UNCHANGED <<toDaemon, toGateway, bindings, bound, fileRequest, client, missed>>
        /\ UnchangedWorld
    BY DEF TakeUpdate, HeadIs
  <1>2. PICK f \in FileSlots : f = Head(eventTail).slot
    <2>1. Head(eventTail) \in FileUpdate \cup FileAck
      BY <1>1, QueueShrinks DEF FileTypeOK
    <2> QED
      BY <1>1, <2>1, FileMessageIs
  <1>3. PICK b \in Binding : b = bindings[f]
    BY DEF FileTypeOK
  <1>4. CASE b.state \in {"subscribing", "active"}
    <2>1. handling' = b.number /\ eventTail' = eventTail
      BY <1>2, <1>3, <1>4 DEF TakeUpdate
    <2>2. /\ fileVersion' = fileVersion /\ watched' = watched /\ missed' = missed
          /\ bindings' = bindings /\ fileRequest' = fileRequest /\ toGateway' = toGateway
          /\ client' = client /\ toDaemon' = toDaemon /\ bound' = bound
      BY <1>1 DEF UnchangedWorld
    <2>3. \A s \in FileSlots : Unstale(s, bindings[s], eventTail', handling') =
                                Unstale(s, bindings[s], eventTail, handling)
      BY <1>1, <1>2, <1>3, <2>1 DEF Unstale
    <2>4. \A s \in FileSlots : Calm(s) /\ \A r : CalmFor(s, r)
      BY <2>1, <2>2, <2>3, SameQueue DEF Calm, CalmFor
    <2>5. ASSUME NEW r \in FileRequests
          PROVE  RequestOK(r)'
      <3>1. fileRequest[r] # NoRequest => fileRequest[r].slot \in FileSlots
        BY FileRequestIs DEF FileTypeOK
      <3> QED
        BY <2>2, <2>4, <3>1, CalmRequest DEF FilesInStep
    <2>6. ASSUME NEW s \in FileSlots
          PROVE  FileOK(s)'
      BY <2>2, <2>4, CalmFile DEF FilesInStep
    <2>7. HandlingRight'
      <3>1. handling' <= bound
        BY <1>3, <1>4, <2>1 DEF FilesInStep, NumbersRight
      <3> QED
        BY <1>1, <1>2, <1>3, <2>1, <2>2, <3>1 DEF HandlingRight
    <2>8. TokensRight' /\ OneRequestPerFile' /\ NumbersRight'
      BY <2>1, <2>2 DEF FilesInStep, TokensRight, OneRequestPerFile, NumbersRight
    <2> QED
      BY <2>5, <2>6, <2>7, <2>8 DEF FilesInStep
  <1>5. CASE b.state \notin {"subscribing", "active"}
    <2>1. eventTail' = Tail(eventTail) /\ handling' = 0
      BY <1>1, <1>2, <1>3, <1>5 DEF TakeUpdate
    <2>2. b.state \in {"none", "releasing"}
      BY <1>5, FileBindingIs
    <2> QED
      BY <1>1, <1>2, <1>3, <2>1, <2>2, UpdateDropped
  <1> QED
    BY <1>4, <1>5

\* The second look: passed on, kept with the binding, or dropped.
LEMMA FinishKeepsStep ==
  ASSUME FileTypeOK, FilesInStep, connected, FinishUpdate, connected'
  PROVE  FilesInStep'
  <1>1. /\ eventTail # <<>> /\ Head(eventTail).kind = "update" /\ handling # 0
        /\ eventTail' = Tail(eventTail) /\ handling' = 0
        /\ UNCHANGED <<toDaemon, toGateway, bound, fileRequest>> /\ UnchangedWorld
    BY DEF FinishUpdate, HeadIs
  <1>2. PICK f \in FileSlots : f = Head(eventTail).slot
    <2>1. Head(eventTail) \in FileUpdate \cup FileAck
      BY <1>1, QueueShrinks DEF FileTypeOK
    <2> QED
      BY <1>1, <2>1, FileMessageIs
  <1>3. PICK b \in Binding : b = bindings[f]
    BY DEF FileTypeOK
  <1>4. PICK kept \in BOOLEAN :
          kept <=> workspaceOk /\ b.state \in {"subscribing", "active"} /\ b.number = handling
    OBVIOUS
  <1>5. missed' = IF ~workspaceOk THEN missed \cup {f} ELSE missed
    BY <1>2 DEF FinishUpdate
  <1>6. \/ ~kept /\ UNCHANGED <<bindings, client>>
        \/ kept /\ b.state = "active" /\ client' = Emit(f, Head(eventTail).version)
             /\ UNCHANGED bindings
        \/ kept /\ b.state = "subscribing" /\ UNCHANGED client
             /\ bindings' = [bindings EXCEPT ![f].pendingUpdate = Head(eventTail).version]
    BY <1>2, <1>3, <1>4 DEF FinishUpdate
  <1>7. CASE ~kept /\ UNCHANGED <<bindings, client>>
    <2>1. f \in missed' \/ handling # bindings[f].number
            \/ bindings[f].state \in {"none", "releasing"}
      BY <1>3, <1>4, <1>5, <1>7, FileBindingIs
    <2> QED
      BY <1>1, <1>2, <1>5, <1>7, <2>1, UpdateDropped
  <1>8. CASE kept /\ b.state = "active" /\ client' = Emit(f, Head(eventTail).version)
               /\ UNCHANGED bindings
    BY <1>1, <1>2, <1>3, <1>4, <1>5, <1>8, UpdateTold
  <1>9. CASE kept /\ b.state = "subscribing" /\ UNCHANGED client
               /\ bindings' = [bindings EXCEPT ![f].pendingUpdate = Head(eventTail).version]
    BY <1>1, <1>2, <1>3, <1>4, <1>5, <1>9, UpdateKept
  <1> QED
    BY <1>6, <1>7, <1>8, <1>9

\* The acknowledgement: its request is the only one for the file and leaves.
LEMMA AcknowledgeKeepsStep ==
  ASSUME FileTypeOK, FilesInStep, connected, Acknowledge, connected'
  PROVE  FilesInStep'
  <1> DEFINE E == FileUpdate \cup FileAck
  <1>1. PICK m : m = Head(eventTail)
    OBVIOUS
  <1>2. eventTail # <<>> /\ m.kind = "ack" /\ eventTail' = Tail(eventTail)
        /\ eventTail \in Seq(E)
    BY <1>1 DEF Acknowledge, HeadIs, FileTypeOK
  <1>3. PICK r0 \in FileRequests : r0 = m.of
    <2>1. m \in E
      BY <1>1, <1>2, QueueShrinks
    <2> QED
      BY <1>2, <2>1, FileMessageIs
  <1>4. /\ Token(m, r0) /\ (\A s : ~Says(m, s)) /\ (\A r : r # r0 => ~Token(m, r))
    BY <1>2, <1>3 DEF Says, Token
  <1>5. Brings(eventTail, r0)
    BY <1>1, <1>2, <1>4, ShrunkBrings
  <1>6. PICK q \in FileRequest : q = fileRequest[r0]
    BY DEF FileTypeOK
  <1>7. q.step = "queued" /\ q # NoRequest
    BY <1>5, <1>6 DEF FilesInStep, TokensRight, NoRequest
  <1>8. PICK f \in FileSlots : f = q.slot
    BY <1>7, FileRequestIs
  <1>9. PICK b \in Binding : b = bindings[f]
    BY DEF FileTypeOK
  <1>10. PICK live \in BOOLEAN : live <=> q.kind = "subscribe" /\ q.version # 0
    OBVIOUS
  <1>11. RequestRight(r0, f, q, b, watched, missed, fileVersion[f], toGateway, eventTail,
                      handling)
    BY <1>6, <1>7, <1>8, <1>9 DEF FilesInStep, RequestOK
  <1>12. q.kind \in {"subscribe", "unsubscribe"} /\ q.version \in Versions
    BY <1>7, FileRequestIs
  <1>13. handling = 0
    BY <1>1, <1>2 DEF FilesInStep, HandlingRight
  <1>14. Unstale(f, b, eventTail, handling) = eventTail
    BY <1>13 DEF Unstale
  <1>15. /\ f \in watched <=> q.version # 0
         /\ q.kind = "unsubscribe" => q.version = 0
         /\ live <=> f \in watched
         /\ live /\ f \notin missed /\ q.version # fileVersion[f] =>
              Speaks(toGateway, f) \/ b.pendingUpdate # 0 \/ Speaks(eventTail, f)
    <2>1. Answered(q, r0, toGateway, q.version)
      BY <1>7 DEF Answered
    <2> QED
      BY <1>10, <1>11, <1>12, <1>14, <2>1 DEF RequestRight, AnswerRight
  <1>16. /\ live => b.state = "subscribing" /\ b.number = q.mine
         /\ ~live => b.state = "none"
    BY <1>7, <1>10, <1>11, <1>12, <1>15 DEF RequestRight, BindingRight
  <1>17. /\ fileRequest' = FileRests(r0)
         /\ bindings' = IF live THEN [bindings EXCEPT ![f].state = "active",
                                                      ![f].pendingUpdate = 0]
                        ELSE bindings
         /\ client' = [client EXCEPT ![f] =
              [subscribed |-> live,
               version |-> IF live /\ b.pendingUpdate # 0 THEN b.pendingUpdate
                           ELSE q.version]]
         /\ UNCHANGED <<toDaemon, toGateway, bound, handling, missed>> /\ UnchangedWorld
    <2>1. connected' # FALSE
      OBVIOUS
    <2> QED
      BY <1>1, <1>3, <1>6, <1>8, <1>9, <1>10, <2>1 DEF Acknowledge
  <1>18. /\ fileVersion' = fileVersion /\ watched' = watched /\ missed' = missed
         /\ toGateway' = toGateway /\ handling' = handling /\ toDaemon' = toDaemon
         /\ bound' = bound
    BY <1>17 DEF UnchangedWorld
  <1>19. /\ fileRequest'[r0] = NoRequest
         /\ \A r \in FileRequests : r # r0 => fileRequest'[r] = fileRequest[r]
    BY <1>17 DEF FileRests, FileTypeOK
  <1>20. PICK c : c = client'[f]
    OBVIOUS
  <1>21. /\ c.subscribed = live
         /\ c.version = IF live /\ b.pendingUpdate # 0 THEN b.pendingUpdate ELSE q.version
         /\ \A s \in FileSlots : s # f => client'[s] = client[s]
    BY <1>17, <1>20 DEF FileTypeOK
  <1>22. PICK d : d = bindings'[f]
    OBVIOUS
  <1>23. /\ live => d.state = "active" /\ d.pendingUpdate = 0 /\ d.number = b.number
         /\ ~live => d = b
         /\ \A s \in FileSlots : s # f => bindings'[s] = bindings[s]
    <2>1. CASE live
      <3>1. d = [b EXCEPT !.state = "active", !.pendingUpdate = 0]
            /\ \A s \in FileSlots : s # f => bindings'[s] = bindings[s]
        BY <1>9, <1>17, <1>22, <2>1 DEF FileTypeOK
      <3>2. b \in [state : {"subscribing", "active", "releasing"},
                   number : 1 .. MaxBindings, pendingUpdate : Versions]
        BY <1>16, <2>1, FileBindingIs DEF Binding
      <3>3. d.state = "active" /\ d.pendingUpdate = 0 /\ d.number = b.number
        BY <3>1, <3>2
      <3> QED
        BY <2>1, <3>1, <3>3
    <2>2. CASE ~live
      BY <1>9, <1>17, <1>22, <2>2
    <2> QED
      BY <2>1, <2>2
  <1>24. \A s : SaysSame(eventTail, eventTail', s)
    BY <1>1, <1>2, <1>4, ShrunkSaysSame
  <1>25. ASSUME NEW s \in FileSlots, s # f
         PROVE  Calm(s)
    BY <1>18, <1>23, <1>24, <1>25, SameQueue DEF Calm
  <1>26. ASSUME NEW s \in FileSlots, NEW r, r # r0
         PROVE  CalmFor(s, r)
    <2>1. AsksSame(eventTail, eventTail', s, r)
      BY <1>1, <1>2, <1>4, <1>26, ShrunkAsksSame
    <2>2. \A x : Unstale(s, x, eventTail, handling) = eventTail
                 /\ Unstale(s, x, eventTail', handling) = eventTail'
      BY <1>13 DEF Unstale
    <2>3. Speaks(eventTail', s) <=> Speaks(eventTail, s)
      BY <1>24 DEF SaysSame
    <2> QED
      BY <1>18, <2>1, <2>2, <2>3, SameQueue DEF CalmFor
  <1>27. ASSUME NEW r \in FileRequests
         PROVE  RequestOK(r)'
    <2>1. CASE r # r0
      <3>1. fileRequest[r] # NoRequest =>
              fileRequest[r].slot \in FileSlots /\ fileRequest[r].slot # f
        BY <1>6, <1>7, <1>8, <2>1, FileRequestIs
           DEF FileTypeOK, FilesInStep, OneRequestPerFile
      <3> QED
        BY <1>19, <1>25, <1>26, <2>1, <3>1, CalmRequest DEF FilesInStep
    <2>2. CASE r = r0
      BY <1>19, <2>2 DEF RequestOK
    <2> QED
      BY <2>1, <2>2
  <1>28. ASSUME NEW s \in FileSlots
         PROVE  FileOK(s)'
    <2>1. CASE s # f
      <3>1. InUse(s, fileRequest') <=> InUse(s, fileRequest)
        BY <1>6, <1>8, <1>19, <2>1 DEF InUse
      <3> QED
        BY <1>21, <1>25, <2>1, <3>1, CalmFile DEF FilesInStep
    <2>2. CASE s = f
      <3>1. WatchRight(f, b, watched, missed, fileVersion[f], toGateway, eventTail)
        BY <1>9 DEF FilesInStep, FileOK
      <3>2. Speaks(eventTail', f) <=> Speaks(eventTail, f)
        BY <1>24 DEF SaysSame
      <3>3. WatchRight(f, d, watched, missed, fileVersion[f], toGateway, eventTail')
        BY <1>15, <1>23, <1>24, <3>1 DEF WatchRight, SaysSame
      <3>4. IdleRight(f, d, watched, missed, fileVersion[f], toGateway, eventTail', c)
        <4>1. CASE live
          <5>1. ASSUME f \notin missed, ~Speaks(toGateway, f), ~Speaks(eventTail', f)
                PROVE  c.version = fileVersion[f]
            <6>1. CASE b.pendingUpdate # 0
              <7>1. b.pendingUpdate = fileVersion[f]
                BY <1>15, <1>16, <3>1, <3>2, <4>1, <5>1, <6>1 DEF WatchRight
              <7> QED
                BY <1>21, <4>1, <6>1, <7>1
            <6>2. CASE b.pendingUpdate = 0
              BY <1>15, <1>21, <3>2, <4>1, <5>1, <6>2
            <6> QED
              BY <6>1, <6>2
          <5> QED
            BY <1>15, <1>21, <1>23, <4>1, <5>1 DEF IdleRight
        <4>2. CASE ~live
          <5>1. ~Speaks(toGateway, f) /\ EndsWith(eventTail, f, r0)
            BY <1>7, <1>11, <1>15, <4>2 DEF RequestRight, UnwatchedRight
          <5>2. ~Speaks(eventTail', f)
            BY <1>1, <1>2, <1>4, <5>1, ShrunkEnds
          <5> QED
            BY <1>15, <1>16, <1>21, <1>23, <4>2, <5>1, <5>2 DEF IdleRight
        <4> QED
          BY <4>1, <4>2
      <3> QED
        BY <1>18, <1>20, <1>22, <2>2, <3>3, <3>4 DEF FileOK
    <2> QED
      BY <2>1, <2>2
  <1>29. TokensRight'
    <2>1. OncePer(eventTail') /\ ~Brings(eventTail', r0)
      BY <1>1, <1>2, <1>4, ShrunkOnce DEF FilesInStep, TokensRight
    <2>2. ~Brings(toGateway, r0)
      BY <1>6, <1>7 DEF FilesInStep, TokensRight
    <2>3. ASSUME NEW i \in 1 .. Len(toDaemon)
          PROVE  CallRight(toDaemon[i], fileRequest', toGateway')
      <3>1. toDaemon[i].of \in FileRequests
        BY ElementOfSeq, FileMessageIs DEF FileTypeOK
      <3>2. CallRight(toDaemon[i], fileRequest, toGateway)
        BY DEF FilesInStep, TokensRight
      <3>3. toDaemon[i].of # r0
        BY <1>6, <1>7, <3>2 DEF CallRight
      <3> QED
        BY <1>18, <1>19, <3>1, <3>2, <3>3 DEF CallRight
    <2>4. \A r \in FileRequests : Brings(toGateway, r) => fileRequest'[r].step = "sent"
      BY <1>19, <2>2 DEF FilesInStep, TokensRight
    <2>5. \A r \in FileRequests : Brings(eventTail', r) => fileRequest'[r].step = "queued"
      <3>1. \A r : Brings(eventTail', r) => Brings(eventTail, r)
        BY <1>1, <1>2, ShrunkBrings
      <3> QED
        BY <1>19, <2>1, <3>1 DEF FilesInStep, TokensRight
    <2> QED
      BY <1>18, <2>1, <2>3, <2>4, <2>5 DEF FilesInStep, TokensRight
  <1>30. OneRequestPerFile'
    BY <1>19 DEF FilesInStep, OneRequestPerFile
  <1>31. HandlingRight'
    BY <1>13, <1>18 DEF HandlingRight
  <1>32. NumbersRight'
    BY <1>9, <1>16, <1>18, <1>22, <1>23 DEF FilesInStep, NumbersRight
  <1> QED
    BY <1>27, <1>28, <1>29, <1>30, <1>31, <1>32 DEF FilesInStep

\* Every action keeps the types.
LEMMA FileTypes ==
  ASSUME FileIInv, FileNext
  PROVE  FileTypeOK'
  <1> USE DEF FileTypeOK
  <1>1. FileTypeOK /\ (connected => FilesInStep)
    BY DEF FileIInv
  <1>2. /\ MaxVersion \in Nat \ {0} /\ MaxBindings \in Nat \ {0} /\ MaxFileFaults \in Nat
        /\ 0 \in Versions /\ NoFileBinding \in Binding /\ NoRequest \in FileRequest
        /\ 0 \in 0 .. MaxBindings
    BY FileAssumption DEF Versions, Binding, FileRequest
  <1>3. ASSUME NEW s \in FileSlots, FileChanges(s)
        PROVE  FileTypeOK'
    <2>1. fileVersion[s] + 1 \in 1 .. MaxVersion
      BY <1>1, <1>2, <1>3 DEF FileChanges
    <2>2. fileVersion' \in [FileSlots -> 1 .. MaxVersion]
      BY <1>1, <1>3, <2>1 DEF FileChanges
    <2>3. PICK m : m = [kind |-> "update", slot |-> s, version |-> fileVersion[s] + 1]
      OBVIOUS
    <2>4. m \in FileReply \cup FileUpdate
      BY <2>1, <2>3 DEF FileUpdate
    <2>5. toGateway' \in Seq(FileReply \cup FileUpdate)
      BY <1>1, <1>3, <2>3, <2>4, QueueGrows DEF FileChanges
    <2> QED
      BY <1>1, <1>3, <2>2, <2>5 DEF FileChanges, sessionVars
  <1>4. CASE WorkspaceFlips
    BY <1>1, <1>4 DEF WorkspaceFlips, sessionVars
  <1>5. CASE DaemonAnswers
    <2>1. toDaemon # <<>> /\ toDaemon' = Tail(toDaemon)
      BY <1>5 DEF DaemonAnswers
    <2>2. PICK q \in FileCall : q = Head(toDaemon)
      BY <1>1, <2>1, QueueShrinks
    <2>3. toDaemon' \in Seq(FileCall) /\ q.of \in FileRequests /\ q.slot \in FileSlots
      BY <1>1, <2>1, QueueShrinks, FileMessageIs
    <2>4. fileVersion[q.slot] \in Versions
      BY <1>1, <1>2, <2>3 DEF Versions
    <2>5. watched' \subseteq FileSlots
      BY <1>1, <1>5, <2>2, <2>3 DEF DaemonAnswers
    <2>6. PICK v \in Versions :
            toGateway' = Append(toGateway, [kind |-> "reply", of |-> q.of, version |-> v])
      BY <1>2, <1>5, <2>2, <2>4 DEF DaemonAnswers
    <2>7. [kind |-> "reply", of |-> q.of, version |-> v] \in FileReply \cup FileUpdate
      BY <2>3 DEF FileReply
    <2>8. toGateway' \in Seq(FileReply \cup FileUpdate)
      BY <1>1, <2>6, <2>7, QueueGrows
    <2> QED
      BY <1>1, <1>5, <2>3, <2>5, <2>8 DEF DaemonAnswers, sessionVars
  <1>6. CASE Receive
    <2>1. toGateway # <<>> /\ toGateway' = Tail(toGateway)
      BY <1>6 DEF Receive
    <2>2. PICK m \in FileReply \cup FileUpdate : m = Head(toGateway)
      BY <1>1, <2>1, QueueShrinks
    <2>3. toGateway' \in Seq(FileReply \cup FileUpdate)
      BY <1>1, <2>1, QueueShrinks
    <2>4. eventTail' \in Seq(FileUpdate \cup FileAck)
      <3>1. CASE m.kind = "update" /\ eventTail' = Append(eventTail, m)
        <4>1. m \in FileUpdate \cup FileAck
          BY <3>1, FileMessageIs
        <4> QED
          BY <1>1, <3>1, <4>1, QueueGrows
      <3>2. CASE eventTail' = eventTail
        BY <1>1, <3>2
      <3> QED
        BY <1>6, <2>2, <3>1, <3>2 DEF Receive
    <2>5. fileRequest' \in [FileRequests -> FileRequest]
      <3>1. CASE /\ m.kind = "reply" /\ fileRequest[m.of].step = "sent"
                 /\ fileRequest' = [fileRequest EXCEPT ![m.of].step = "replied",
                                                       ![m.of].version = m.version]
        <4>1. m.of \in FileRequests /\ m.version \in Versions
          BY <3>1, FileMessageIs
        <4>2. PICK q \in FileRequest : q = fileRequest[m.of]
          BY <1>1, <4>1
        <4>3. q # NoRequest
          BY <3>1, <4>2 DEF NoRequest
        <4>4. PICK p : p = [q EXCEPT !.step = "replied", !.version = m.version]
          OBVIOUS
        <4>5. p \in FileRequest
          BY <4>1, <4>3, <4>4 DEF FileRequest
        <4> QED
          BY <1>1, <3>1, <4>1, <4>2, <4>4, <4>5
      <3>2. CASE fileRequest' = fileRequest
        BY <1>1, <3>2
      <3> QED
        BY <1>6, <2>2, <3>1, <3>2 DEF Receive
    <2> QED
      BY <1>1, <1>6, <2>3, <2>4, <2>5 DEF Receive, UnchangedWorld
  <1>7. ASSUME NEW r \in FileRequests, NEW s \in FileSlots, Subscribe(r, s)
        PROVE  FileTypeOK'
    <2>1. bound + 1 \in 1 .. MaxBindings /\ bound + 1 \in 0 .. MaxBindings
      BY <1>1, <1>2, <1>7 DEF Subscribe
    <2>2. [state |-> "subscribing", number |-> bound + 1, pendingUpdate |-> 0] \in Binding
      BY <1>2, <2>1 DEF Binding
    <2>3. bindings[s] \in Binding
      BY <1>1
    <2>4. [step |-> "sent", kind |-> "subscribe", slot |-> s, mine |-> bound + 1,
           previous |-> bindings[s], version |-> 0] \in FileRequest
      BY <1>2, <2>1, <2>3 DEF FileRequest
    <2>5. [kind |-> "subscribe", slot |-> s, of |-> r] \in FileCall
      BY DEF FileCall
    <2>6. toDaemon' \in Seq(FileCall)
      BY <1>1, <1>7, <2>5, QueueGrows DEF Subscribe, SendNative
    <2>7. /\ bindings' \in [FileSlots -> Binding]
          /\ fileRequest' \in [FileRequests -> FileRequest]
      BY <1>1, <1>7, <2>2, <2>4 DEF Subscribe
    <2> QED
      BY <1>1, <1>7, <2>1, <2>6, <2>7 DEF Subscribe, UnchangedWorld
  <1>8. ASSUME NEW r \in FileRequests, NEW s \in FileSlots, Unsubscribe(r, s)
        PROVE  FileTypeOK'
    <2>1. CASE /\ client' = [client EXCEPT ![s].subscribed = FALSE]
               /\ UNCHANGED <<bindings, fileRequest, toDaemon>>
      BY <1>1, <1>8, <2>1 DEF Unsubscribe, UnchangedWorld
    <2>2. CASE /\ bindings[s].state = "active"
               /\ bindings' = [bindings EXCEPT ![s].state = "releasing"]
               /\ fileRequest' = [fileRequest EXCEPT ![r] =
                    [step |-> "sent", kind |-> "unsubscribe", slot |-> s,
                     mine |-> bindings[s].number, previous |-> NoFileBinding,
                     version |-> 0]]
               /\ SendNative(r, "unsubscribe", s) /\ UNCHANGED client
      <3>1. PICK b \in Binding : b = bindings[s]
        BY <1>1
      <3>2. b.state # "none" /\ b.number \in 1 .. MaxBindings
        BY <2>2, <3>1, FileBindingIs
      <3>3. [b EXCEPT !.state = "releasing"] \in Binding
        BY <3>2 DEF Binding, NoFileBinding
      <3>4. [step |-> "sent", kind |-> "unsubscribe", slot |-> s, mine |-> b.number,
             previous |-> NoFileBinding, version |-> 0] \in FileRequest
        BY <1>2, <3>2 DEF FileRequest
      <3>5. [kind |-> "unsubscribe", slot |-> s, of |-> r] \in FileCall
        BY DEF FileCall
      <3>6. toDaemon' \in Seq(FileCall)
        BY <1>1, <2>2, <3>5, QueueGrows DEF SendNative
      <3>7. /\ bindings' \in [FileSlots -> Binding]
            /\ fileRequest' \in [FileRequests -> FileRequest]
        BY <1>1, <2>2, <3>1, <3>3, <3>4
      <3> QED
        BY <1>1, <1>8, <2>2, <3>6, <3>7 DEF Unsubscribe, UnchangedWorld
    <2> QED
      BY <1>8, <2>1, <2>2 DEF Unsubscribe
  <1>9. ASSUME NEW r \in FileRequests, Rollback(r),
               fileRequest[r].step \in {"sent", "replied"}
        PROVE  /\ bindings' \in [FileSlots -> Binding] /\ connected' \in BOOLEAN
               /\ fileRequest' \in [FileRequests -> FileRequest]
    <2>1. PICK q \in FileRequest : q = fileRequest[r]
      BY <1>1
    <2>2. q.slot \in FileSlots /\ q.previous \in Binding
      BY <1>9, <2>1, FileRequestIs
    <2>3. PICK b \in Binding : b = bindings[q.slot]
      BY <1>1, <2>2
    <2>4. bindings' \in [FileSlots -> Binding]
      <3>1. CASE bindings' = bindings
        BY <1>1, <3>1
      <3>2. CASE bindings' = [bindings EXCEPT ![q.slot] = q.previous]
        BY <1>1, <2>2, <3>2
      <3>3. CASE b.state # "none" /\ bindings' = [bindings EXCEPT ![q.slot].state = "active"]
        <4>1. [b EXCEPT !.state = "active"] \in Binding
          BY <3>3 DEF Binding, NoFileBinding
        <4> QED
          BY <1>1, <2>2, <2>3, <3>3, <4>1
      <3> QED
        BY <1>9, <2>1, <2>3, <3>1, <3>2, <3>3 DEF Rollback, MyFileBinding
    <2> QED
      BY <1>1, <1>2, <1>9, <2>4 DEF Rollback, FileRests
  <1>10. ASSUME NEW r \in FileRequests, AnswerLost(r)
         PROVE  FileTypeOK'
    <2>1. /\ bindings' \in [FileSlots -> Binding] /\ connected' \in BOOLEAN
          /\ fileRequest' \in [FileRequests -> FileRequest]
      BY <1>9, <1>10 DEF AnswerLost
    <2>2. fileFaults' \in 0 .. MaxFileFaults
      BY <1>1, <1>2, <1>10 DEF AnswerLost
    <2> QED
      BY <1>1, <1>10, <2>1, <2>2 DEF AnswerLost, UnchangedWorld
  <1>11. ASSUME NEW r \in FileRequests, Replied(r)
         PROVE  FileTypeOK'
    <2>1. fileRequest[r].step = "replied" /\ UnchangedWorld
          /\ UNCHANGED <<toDaemon, toGateway, bound, handling, client, missed, fileFaults>>
      BY <1>11 DEF Replied
    <2>2. CASE Rollback(r) /\ UNCHANGED eventTail
      <3>1. /\ bindings' \in [FileSlots -> Binding] /\ connected' \in BOOLEAN
            /\ fileRequest' \in [FileRequests -> FileRequest]
        BY <1>9, <2>1, <2>2
      <3> QED
        BY <1>1, <2>1, <2>2, <3>1 DEF UnchangedWorld
    <2>3. CASE /\ \/ bindings' = bindings
                  \/ bindings' = [bindings EXCEPT ![fileRequest[r].slot] = NoFileBinding]
               /\ fileRequest' = [fileRequest EXCEPT ![r].step = "queued"]
               /\ eventTail' = Append(eventTail, [kind |-> "ack", of |-> r])
               /\ UNCHANGED connected
      <3>1. PICK q \in FileRequest : q = fileRequest[r]
        BY <1>1
      <3>2. q # NoRequest
        BY <2>1, <3>1 DEF NoRequest
      <3>3. [q EXCEPT !.step = "queued"] \in FileRequest
        BY <3>2 DEF FileRequest
      <3>4. fileRequest' \in [FileRequests -> FileRequest]
        BY <1>1, <2>3, <3>1, <3>3
      <3>5. bindings' \in [FileSlots -> Binding]
        BY <1>1, <1>2, <2>3
      <3>6. [kind |-> "ack", of |-> r] \in FileUpdate \cup FileAck
        BY DEF FileAck
      <3>7. eventTail' \in Seq(FileUpdate \cup FileAck)
        BY <1>1, <2>3, <3>6, QueueGrows
      <3> QED
        BY <1>1, <2>1, <2>3, <3>4, <3>5, <3>7 DEF UnchangedWorld
    <2> QED
      BY <1>11, <2>2, <2>3 DEF Replied
  <1>12. CASE TakeUpdate
    <2>1. PICK m \in FileUpdate : m = Head(eventTail)
      <3>1. eventTail # <<>> /\ Head(eventTail).kind = "update"
        BY <1>12 DEF TakeUpdate, HeadIs
      <3>2. Head(eventTail) \in FileUpdate \cup FileAck
        BY <1>1, <3>1, QueueShrinks
      <3> QED
        BY <3>1, <3>2, FileMessageIs
    <2>2. PICK b \in Binding : b = bindings[m.slot]
      BY <1>1, <2>1, FileMessageIs
    <2>3. b.state # "none" => b.number \in 0 .. MaxBindings
      <3>1. b.state # "none" => b.number \in 1 .. MaxBindings
        BY FileBindingIs
      <3> QED
        BY <1>2, <3>1
    <2>4. Tail(eventTail) \in Seq(FileUpdate \cup FileAck)
      BY <1>1, <1>12, QueueShrinks DEF TakeUpdate, HeadIs
    <2>5. handling' \in 0 .. MaxBindings /\ eventTail' \in Seq(FileUpdate \cup FileAck)
      BY <1>1, <1>12, <2>1, <2>2, <2>3, <2>4 DEF TakeUpdate
    <2> QED
      BY <1>1, <1>12, <2>5 DEF TakeUpdate, UnchangedWorld
  <1>13. CASE FinishUpdate
    <2>1. PICK m \in FileUpdate : m = Head(eventTail)
      <3>1. eventTail # <<>> /\ Head(eventTail).kind = "update"
        BY <1>13 DEF FinishUpdate, HeadIs
      <3>2. Head(eventTail) \in FileUpdate \cup FileAck
        BY <1>1, <3>1, QueueShrinks
      <3> QED
        BY <3>1, <3>2, FileMessageIs
    <2>2. m.slot \in FileSlots /\ m.version \in Versions
      BY <1>2, <2>1, FileMessageIs DEF Versions
    <2>3. PICK b \in Binding : b = bindings[m.slot]
      BY <1>1, <2>2
    <2>4. eventTail' \in Seq(FileUpdate \cup FileAck) /\ handling' \in 0 .. MaxBindings
      BY <1>1, <1>2, <1>13, QueueShrinks DEF FinishUpdate, HeadIs
    <2>5. missed' \subseteq FileSlots
      BY <1>1, <1>13, <2>1, <2>2 DEF FinishUpdate
    <2>6. client' \in [FileSlots -> [subscribed : BOOLEAN, version : Versions]]
      <3>1. client' = client \/ client' = Emit(m.slot, m.version)
        BY <1>13, <2>1 DEF FinishUpdate
      <3> QED
        BY ZenonT(60), <1>1, <2>2, <3>1 DEF Emit
    <2>7. bindings' \in [FileSlots -> Binding]
      <3>1. CASE bindings' = bindings
        BY <1>1, <3>1
      <3>2. CASE b.state = "subscribing"
                 /\ bindings' = [bindings EXCEPT ![m.slot].pendingUpdate = m.version]
        <4>1. [b EXCEPT !.pendingUpdate = m.version] \in Binding
          BY <2>2, <3>2 DEF Binding, NoFileBinding
        <4> QED
          BY <1>1, <2>2, <2>3, <3>2, <4>1
      <3> QED
        BY <1>13, <2>1, <2>3, <3>1, <3>2 DEF FinishUpdate
    <2>8. connected' \in BOOLEAN /\ fileFaults' \in 0 .. MaxFileFaults
      <3>1. \/ connected' = connected /\ fileFaults' = fileFaults
            \/ connected' = FALSE /\ fileFaults' = fileFaults + 1 /\ fileFaults < MaxFileFaults
        BY <1>13 DEF FinishUpdate
      <3>2. connected' \in BOOLEAN
        <4>1. connected' = connected \/ connected' = FALSE
          BY <3>1
        <4> QED
          BY <1>1, <4>1
      <3>3. fileFaults < MaxFileFaults => fileFaults + 1 \in 0 .. MaxFileFaults
        BY <1>1, <1>2
      <3>4. fileFaults' \in 0 .. MaxFileFaults
        BY <1>1, <3>1, <3>3
      <3> QED
        BY <3>2, <3>4
    <2> QED
      BY <1>1, <1>13, <2>4, <2>5, <2>6, <2>7, <2>8 DEF FinishUpdate, UnchangedWorld
  <1>14. CASE Acknowledge
    <2>1. PICK m \in FileAck : m = Head(eventTail)
      <3>1. eventTail # <<>> /\ Head(eventTail).kind = "ack"
        BY <1>14 DEF Acknowledge, HeadIs
      <3>2. Head(eventTail) \in FileUpdate \cup FileAck
        BY <1>1, <3>1, QueueShrinks
      <3> QED
        BY <3>1, <3>2, FileMessageIs
    <2>2. eventTail # <<>> /\ eventTail' = Tail(eventTail) /\ fileRequest' = FileRests(m.of)
          /\ UNCHANGED <<toDaemon, toGateway, bound, handling, missed, fileFaults>>
          /\ UnchangedWorld
      BY <1>14, <2>1 DEF Acknowledge, HeadIs
    <2>3. eventTail' \in Seq(FileUpdate \cup FileAck)
          /\ fileRequest' \in [FileRequests -> FileRequest]
      BY <1>1, <1>2, <2>2, QueueShrinks DEF FileRests
    <2>4. PICK q \in FileRequest : q = fileRequest[m.of]
      BY <1>1, <2>1, FileMessageIs
    <2>5. CASE connected' = FALSE /\ UNCHANGED <<bindings, client>>
      BY <1>1, <2>2, <2>3, <2>5 DEF UnchangedWorld
    <2>6. CASE connected /\ UNCHANGED connected
      <3>1. q # NoRequest
        <4>1. Token(m, m.of)
          BY FileMessageIs DEF Token
        <4>2. Brings(eventTail, m.of)
          BY <1>1, <2>1, <2>2, <4>1, ShrunkBrings
        <4> QED
          BY <1>1, <2>1, <2>4, <2>6, <4>2, FileMessageIs
             DEF FilesInStep, TokensRight, NoRequest
      <3>2. q.slot \in FileSlots /\ q.version \in Versions
        BY <3>1, FileRequestIs
      <3>3. PICK b \in Binding : b = bindings[q.slot]
        BY <1>1, <3>2
      <3>4. PICK live \in BOOLEAN : live <=> q.kind = "subscribe" /\ q.version # 0
        OBVIOUS
      <3>5. CASE /\ live => b.state = "subscribing"
                 /\ bindings' = IF live THEN [bindings EXCEPT ![q.slot].state = "active",
                                                              ![q.slot].pendingUpdate = 0]
                                ELSE bindings
                 /\ client' = [client EXCEPT ![q.slot] =
                      [subscribed |-> live,
                       version |-> IF live /\ b.pendingUpdate # 0 THEN b.pendingUpdate
                                   ELSE q.version]]
        <4>1. bindings' \in [FileSlots -> Binding]
          <5>1. CASE live
            <6>1. [b EXCEPT !.state = "active", !.pendingUpdate = 0] \in Binding
              <7>1. b \in [state : {"subscribing", "active", "releasing"},
                           number : 1 .. MaxBindings, pendingUpdate : Versions]
                BY <3>5, <5>1, FileBindingIs DEF Binding
              <7> QED
                BY <1>2, <7>1 DEF Binding
            <6> QED
              BY <1>1, <3>2, <3>3, <3>5, <5>1, <6>1
          <5>2. CASE ~live
            BY <1>1, <3>5, <5>2
          <5> QED
            BY <5>1, <5>2
        <4>2. live => b.pendingUpdate \in Versions
          BY <3>5, FileBindingIs
        <4>3. [subscribed |-> live,
               version |-> IF live /\ b.pendingUpdate # 0 THEN b.pendingUpdate
                           ELSE q.version] \in [subscribed : BOOLEAN, version : Versions]
          BY <3>2, <4>2
        <4>4. client' \in [FileSlots -> [subscribed : BOOLEAN, version : Versions]]
          BY <1>1, <3>5, <4>3
        <4> QED
          BY <1>1, <2>2, <2>3, <2>6, <4>1, <4>4 DEF UnchangedWorld
      <3>6. CASE UNCHANGED <<bindings, client>>
        BY <1>1, <2>2, <2>3, <2>6, <3>6 DEF UnchangedWorld
      <3> QED
        BY <1>14, <2>1, <2>4, <2>6, <3>3, <3>4, <3>5, <3>6 DEF Acknowledge
    <2> QED
      BY <1>14, <2>5, <2>6 DEF Acknowledge
  <1> QED
    BY <1>3, <1>4, <1>5, <1>6, <1>7, <1>8, <1>10, <1>11, <1>12, <1>13, <1>14 DEF FileNext

LEMMA FileInitial == FileInit => FileIInv
  <1> SUFFICES ASSUME FileInit PROVE FileIInv
    OBVIOUS
  <1>1. FileTypeOK
    <2>1. 0 \in Versions /\ 1 \in 1 .. MaxVersion /\ 0 \in 0 .. MaxBindings
          /\ 0 \in 0 .. MaxFileFaults
      BY FileAssumption DEF Versions
    <2> QED
      BY <2>1 DEF FileInit, FileTypeOK, Binding, FileRequest
  <1>2. Len(<<>>) = 0 /\ 1 .. 0 = {}
    OBVIOUS
  <1>3. TokensRight
    BY <1>2, NothingSpeaks DEF FileInit, TokensRight
  <1>4. OneRequestPerFile /\ HandlingRight /\ NumbersRight
    BY DEF FileInit, OneRequestPerFile, HandlingRight, NumbersRight, NoFileBinding
  <1>5. \A r \in FileRequests : RequestOK(r)
    BY DEF FileInit, RequestOK
  <1>6. ASSUME NEW s \in FileSlots
        PROVE  FileOK(s)
    <2>1. s \notin watched /\ bindings[s].state = "none" /\ client[s].subscribed = FALSE
      BY DEF FileInit, NoFileBinding
    <2>2. ~Speaks(toGateway, s) /\ ~Speaks(eventTail, s)
      BY NothingSpeaks DEF FileInit
    <2> QED
      BY <2>1, <2>2 DEF FileOK, IdleRight, WatchRight
  <1> QED
    BY <1>1, <1>3, <1>4, <1>5, <1>6 DEF FileIInv, FilesInStep

\* Every action keeps the invariant; what disconnects need not.
LEMMA FileInductive == FileIInv /\ [FileNext]_fileVars => FileIInv'
  <1>1. ASSUME FileIInv, UNCHANGED fileVars
        PROVE  FileIInv'
    BY <1>1 DEF FileIInv, fileVars, FileTypeOK, FilesInStep, TokensRight, OneRequestPerFile,
       HandlingRight, NumbersRight, RequestOK, FileOK
  <1>2. ASSUME FileIInv, FileNext
        PROVE  FileIInv'
    <2>1. FileTypeOK'
      BY <1>2, FileTypes
    <2> SUFFICES ASSUME connected' PROVE FilesInStep'
      BY <2>1 DEF FileIInv
    <2>2. connected
      BY <1>2 DEF FileNext, FileChanges, WorkspaceFlips, DaemonAnswers, sessionVars, Receive,
         Subscribe, Unsubscribe, AnswerLost, Replied, Rollback, TakeUpdate, FinishUpdate,
         Acknowledge, FileIInv, FileTypeOK
    <2>3. FileTypeOK /\ FilesInStep
      BY <1>2, <2>2 DEF FileIInv
    <2>4. \A r \in FileRequests : ~AnswerLost(r)
      BY DEF AnswerLost, Rollback
    <2> QED
      BY <1>2, <2>2, <2>3, <2>4, ChangeKeepsStep, FlipKeepsStep, AnswerKeepsStep,
         ReceiveKeepsStep, SubscribeKeepsStep, UnsubscribeKeepsStep, RepliedKeepsStep,
         TakeKeepsStep, FinishKeepsStep, AcknowledgeKeepsStep
         DEF FileNext
  <1> QED
    BY <1>1, <1>2

\* When nothing is under way, everybody agrees.
LEMMA FileSafe == FileIInv => NewestVersionSeen /\ WatchersAgree
  <1> SUFFICES ASSUME FileIInv, Quiet, NEW s \in FileSlots
               PROVE  /\ client[s].subscribed /\ s \notin missed =>
                           client[s].version = fileVersion[s]
                      /\ (bindings[s].state = "active") = (s \in watched)
                      /\ (bindings[s].state = "active") = client[s].subscribed
    BY DEF NewestVersionSeen, WatchersAgree
  <1>1. FileOK(s) /\ ~InUse(s, fileRequest)
    BY DEF FileIInv, Quiet, FilesInStep, InUse
  <1>2. IdleRight(s, bindings[s], watched, missed, fileVersion[s], toGateway, eventTail,
                  client[s])
    BY <1>1 DEF FileOK
  <1>3. ~Speaks(toGateway, s) /\ ~Speaks(eventTail, s)
    BY NothingSpeaks DEF Quiet
  <1>4. client[s].subscribed \in BOOLEAN
    BY DEF FileIInv, FileTypeOK
  <1> QED
    BY <1>2, <1>3, <1>4 DEF IdleRight

\* A client that is told a version is a subscriber.
LEMMA FileStep ==
  FileIInv /\ [FileNext]_fileVars =>
    [\A s \in FileSlots :
       client'[s].version # client[s].version /\ client'[s].version # 0
         => client'[s].subscribed]_fileVars
  <1> SUFFICES ASSUME FileIInv, FileNext, NEW s \in FileSlots,
                      client'[s].version # client[s].version, client'[s].version # 0
               PROVE  client'[s].subscribed
    BY DEF fileVars
  <1>1. FileTypeOK /\ (connected => FilesInStep)
    BY DEF FileIInv
  <1>2. CASE FinishUpdate
    <2>1. PICK f \in FileSlots : f = Head(eventTail).slot
      <3>1. eventTail # <<>> /\ Head(eventTail).kind = "update"
        BY <1>2 DEF FinishUpdate, HeadIs
      <3>2. Head(eventTail) \in FileUpdate \cup FileAck
        BY <1>1, <3>1, QueueShrinks DEF FileTypeOK
      <3> QED
        BY <3>1, <3>2, FileMessageIs
    <2>2. /\ connected /\ bindings[f].state = "active"
          /\ client' = Emit(f, Head(eventTail).version)
      BY <1>2, <2>1 DEF FinishUpdate
    <2>3. s = f /\ client'[f].subscribed = client[f].subscribed
      BY <1>1, <2>2 DEF Emit, FileTypeOK
    <2>4. ~InUse(f, fileRequest) /\ f \in watched /\ FileOK(f)
      BY <1>1, <2>2, IdleOrInUse DEF FilesInStep
    <2> QED
      BY <2>3, <2>4 DEF FileOK, IdleRight
  <1>3. CASE Acknowledge
    <2>1. eventTail # <<>> /\ Head(eventTail).kind = "ack"
      BY <1>3 DEF Acknowledge, HeadIs
    <2>2. PICK r \in FileRequests : r = Head(eventTail).of
      <3>1. Head(eventTail) \in FileUpdate \cup FileAck
        BY <1>1, <2>1, QueueShrinks DEF FileTypeOK
      <3> QED
        BY <2>1, <3>1, FileMessageIs
    <2>3. PICK q \in FileRequest : q = fileRequest[r]
      BY <1>1 DEF FileTypeOK
    <2>4. PICK live \in BOOLEAN : live <=> q.kind = "subscribe" /\ q.version # 0
      OBVIOUS
    <2>5. PICK b : b = bindings[q.slot]
      OBVIOUS
    <2>6. /\ connected
          /\ client' = [client EXCEPT ![q.slot] =
               [subscribed |-> live,
                version |-> IF live /\ b.pendingUpdate # 0 THEN b.pendingUpdate
                            ELSE q.version]]
      BY <1>3, <2>2, <2>3, <2>4, <2>5 DEF Acknowledge
    <2>7. s = q.slot
      BY <1>1, <2>6 DEF FileTypeOK
    <2>8. /\ client'[s].subscribed = live
          /\ ~live => client'[s].version = q.version
      BY <1>1, <2>6, <2>7 DEF FileTypeOK
    <2>9. Brings(eventTail, r)
      <3>1. Token(Head(eventTail), r)
        BY <2>1, <2>2 DEF Token
      <3> QED
        BY <1>1, <2>1, <3>1, ShrunkBrings DEF FileTypeOK
    <2>10. q.step = "queued" /\ q # NoRequest
      BY <1>1, <2>3, <2>6, <2>9 DEF FilesInStep, TokensRight, NoRequest
    <2>11. q.kind \in {"subscribe", "unsubscribe"} /\ q.version \in Versions
      BY <2>10, FileRequestIs
    <2>12. q.kind = "unsubscribe" => q.version = 0
      <3>1. AnswerRight(r, s, q, bindings[s], watched, missed, fileVersion[s], toGateway,
                        Unstale(s, bindings[s], eventTail, handling))
        BY <1>1, <2>3, <2>6, <2>7, <2>10 DEF FilesInStep, RequestOK, RequestRight
      <3>2. Answered(q, r, toGateway, q.version)
        BY <2>10 DEF Answered
      <3> QED
        BY <2>11, <3>1, <3>2 DEF AnswerRight
    <2> QED
      BY <2>4, <2>8, <2>11, <2>12
  <1>4. CASE \E r \in FileRequests, f \in FileSlots : Unsubscribe(r, f)
    <2>1. PICK f \in FileSlots :
            client' = client \/ client' = [client EXCEPT ![f].subscribed = FALSE]
      BY <1>4 DEF Unsubscribe
    <2>2. client'[s].version = client[s].version
      BY ZenonT(60), <1>1, <2>1 DEF FileTypeOK
    <2> QED
      BY <2>2
  <1>5. CASE client' = client
    BY <1>5
  <1> QED
    BY <1>2, <1>3, <1>4, <1>5 DEF FileNext, FileChanges, WorkspaceFlips, DaemonAnswers,
       sessionVars, Receive, Subscribe, AnswerLost, Replied, TakeUpdate

\* A subscriber ends up with the newest version, hears of the file only while
\* it subscribes, and leaves no watcher behind, however the answers, updates
\* and acknowledgements interleave (forward() and onMessage() of session.ts).
THEOREM WatchersAreServed == FileSpec => WatchersServed
  BY FileInitial, FileInductive, FileSafe, FileStep, PTL
     DEF FileSpec, WatchersServed, UpdatesWithinSubscription
=============================================================================
