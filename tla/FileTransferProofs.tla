------------------------- MODULE FileTransferProofs -------------------------
(***************************************************************************)
(* What the bridge promises about requested files, for any requests, paths, *)
(* extractors and chunk counts.                                             *)
(***************************************************************************)
EXTENDS FileTransfer, FiniteSetTheorems, TLAPS

\* Only a worker whose extractor has the file gets past the response, and a
\* request that is done has no worker left.
FoundInv ==
    /\ \A w \in Workers :
         at[w] \notin {"none", "ask", "asked", "ended"} => w \in found
    /\ \A r \in Requests, e \in Extractors : r \in done => at[<<r, e>>] \in Ended

\* Results in the table are those of the only worker of the path, and an "ok"
\* is the server's.
TableInv ==
    /\ \A p \in Paths, n \in Numbers : chunks[p][n] = "ok" => n \in stored[p]
    /\ \A v \in Workers, n \in Numbers :
         Alone(v) /\ chunks[Path(v)][n] # "none"
           => v \in found /\ n <= sent[v]

\* The only worker of a path counts the results of all its chunks.
CountInv ==
    \A w \in Workers :
      at[w] = "count" /\ Alone(w) =>
        \A n \in 1..PartsOf(w) : chunks[Path(w)][n] # "none"

Uploads == TypeOK /\ FoundInv /\ TableInv /\ CountInv /\ CompleteMeansUploaded

Single(r) == \A v, w \in found : v[1] = r /\ w[1] = r => v = w

Readable(r) == \A e \in Extractors : at[<<r, e>>] # "unread"

\* Before it is done, a request was answered once if it succeeded, and not at
\* all if it did not.
Unanswered(r) == acks[r] = <<>> /\ ~success[r]

Answered(r) ==
    /\ Len(acks[r]) = 1 /\ success[r]
    /\ \E w \in found : w[1] = r /\ at[w] = "ended"

AckInv ==
    \A r \in Requests :
      Single(r) /\ Readable(r) =>
        IF r \in done THEN Len(acks[r]) = 1
        ELSE Unanswered(r) \/ Answered(r)

Inv == Uploads /\ AckInv
-----------------------------------------------------------------------------
LEMMA PartsFacts ==
  /\ \A w \in Workers : /\ Path(w) \in Paths /\ w[1] \in Requests
                        /\ w[2] \in Extractors /\ PartsOf(w) \in Nat
                        /\ w = <<w[1], w[2]>> /\ 1..PartsOf(w) \subseteq Numbers
  /\ Numbers \subseteq Nat \ {0}
  BY FilesAssumption, SMTT(30) DEF Workers, Path, PartsOf, Numbers

\* A worker that saw as many results as it has chunks, all of them its own,
\* saw all its chunks'.
LEMMA AllResults ==
  ASSUME NEW n \in Nat, NEW S \in SUBSET (1..n), Cardinality(S) >= n
  PROVE  S = 1..n
<1>1. IsFiniteSet(1..n) /\ Cardinality(1..n) = n
  BY FS_Interval
<1>2. IsFiniteSet(S) /\ Cardinality(S) <= Cardinality(1..n)
      /\ (Cardinality(S) = Cardinality(1..n) => S = 1..n)
  BY <1>1, FS_Subset
<1>3. Cardinality(S) \in Nat
  BY <1>2, FS_CardinalityType
<1> QED
  BY <1>1, <1>2, <1>3

LEMMA AckType ==
  ASSUME TypeOK, NEW r \in Requests, NEW a \in {"file", "null"}, Ack(r, a)
  PROVE  acks' \in [Requests -> Seq({"file", "null"})]
<1>1. Append(acks[r], a) \in Seq({"file", "null"})
  BY DEF TypeOK
<1> QED
  BY <1>1 DEF TypeOK, Ack

LEMMA FoundKept ==
  ASSUME TypeOK, FoundInv, NEW w \in Workers, NEW a,
         at' = [at EXCEPT ![w] = a], UNCHANGED <<found, done>>,
         a \notin {"none", "ask", "asked", "ended"} => w \in found,
         w[1] \in done => a \in Ended
  PROVE  FoundInv'
  BY SMTT(30) DEF FoundInv, TypeOK, Workers

LEMMA NotDone ==
  ASSUME FoundInv, NEW w \in Workers, at[w] \notin Ended
  PROVE  w[1] \notin done
  BY SMTT(30) DEF FoundInv, Workers

\* What a step of worker w adds to Uploads: the table is left alone.
LEMMA WorkerStep ==
  ASSUME Uploads, NEW w \in Workers, NEW a \in Stages,
         at' = [at EXCEPT ![w] = a], UNCHANGED <<found, sent, tableVars, done>>,
         a \notin {"none", "ask", "asked", "ended"} => w \in found,
         w[1] \in done => a \in Ended,
         a = "count" /\ Alone(w) =>
           \A n \in 1..PartsOf(w) : chunks[Path(w)][n] # "none",
         a = "complete" /\ Alone(w) => 1..PartsOf(w) \subseteq stored[Path(w)],
         success' \in [Requests -> BOOLEAN],
         acks' \in [Requests -> Seq({"file", "null"})]
  PROVE  Uploads'
<1> USE DEF Uploads, tableVars, TypeOK
<1>1. TypeOK'
  OBVIOUS
<1>2. FoundInv'
  BY FoundKept
<1>3. TableInv'
  BY DEF TableInv, Alone
<1>4. CountInv'
  BY DEF CountInv, Alone
<1>5. CompleteMeansUploaded'
  BY DEF CompleteMeansUploaded, Alone
<1> QED
  BY <1>1, <1>2, <1>3, <1>4, <1>5

LEMMA UploadsInductive == ASSUME Uploads, [Next]_vars PROVE Uploads'
<1> USE DEF Uploads, workerVars, requestVars, tableVars
<1>1. ASSUME NEW r \in Requests, Begin(r)
      PROVE  Uploads'
  <2> USE <1>1 DEF Begin
  <2>0. acks' \in [Requests -> Seq({"file", "null"})]
    BY AckType DEF TypeOK
  <2>1. TypeOK'
    BY <2>0 DEF TypeOK, Stages
  <2>2. \A w \in Workers : at'[w] \in {"count", "complete"} => at'[w] = at[w]
    BY DEF TypeOK
  <2>3. TableInv' /\ CountInv' /\ CompleteMeansUploaded'
    BY <2>2 DEF TableInv, CountInv, CompleteMeansUploaded, Alone
  <2>4. \A w \in Workers : at'[w] = at[w] \/ (at'[w] = "ask" /\ w[1] = r)
    BY DEF TypeOK
  <2>5. \A e \in Extractors : at[<<r, e>>] = "none" /\ r \notin done
    BY DEF Begun
  <2>6. FoundInv'
    <3>1. \A w \in Workers :
            at'[w] \notin {"none", "ask", "asked", "ended"} => w \in found'
      BY <2>4 DEF FoundInv
    <3>2. ASSUME NEW q \in Requests, NEW e \in Extractors, q \in done'
          PROVE  at'[<<q, e>>] \in Ended
      <4>1. <<q, e>> \in Workers /\ <<q, e>>[1] = q
        BY DEF Workers
      <4>2. CASE q = r
        BY <2>5, <3>2, <4>1, <4>2 DEF TypeOK, Ended
      <4>3. CASE q # r
        BY <2>4, <3>2, <4>1, <4>3 DEF FoundInv
      <4> QED
        BY <4>2, <4>3
    <3> QED
      BY <3>1, <3>2 DEF FoundInv
  <2> QED
    BY <2>1, <2>3, <2>6
<1>2. ASSUME NEW r \in Requests, Finish(r)
      PROVE  Uploads'
  <2> USE <1>2 DEF Finish
  <2>0. acks' \in [Requests -> Seq({"file", "null"})]
    BY AckType DEF TypeOK
  <2>1. TypeOK' /\ FoundInv'
    BY <2>0 DEF TypeOK, FoundInv
  <2>2. TableInv' /\ CountInv' /\ CompleteMeansUploaded'
    BY DEF TableInv, CountInv, CompleteMeansUploaded, Alone
  <2> QED
    BY <2>1, <2>2
<1>3. ASSUME NEW w \in Workers, Find(w)
      PROVE  Uploads'
  <2> USE <1>3 DEF Find
  <2>1. TypeOK' /\ FoundInv'
    BY SMTT(30) DEF TypeOK, FoundInv
  <2>2. \A v \in Workers : Alone(v)' => Alone(v)
    BY DEF Alone
  <2>3. TableInv' /\ CountInv' /\ CompleteMeansUploaded'
    BY <2>2 DEF TableInv, CountInv, CompleteMeansUploaded
  <2> QED
    BY <2>1, <2>3
<1>4. ASSUME NEW w \in Workers, Send(w) \/ Response(w)
      PROVE  Uploads'
  <2>1. w[1] \notin done
    BY <1>4 DEF Send, Response, FoundInv, Ended, Workers
  <2>2. CASE Send(w)
    BY <2>1, <2>2, WorkerStep DEF Send, Goto, TypeOK, Stages, requestVars
  <2>3. CASE Response(w)
    <3> DEFINE a == IF w \in found THEN "reset" ELSE "ended"
    <3>1. a \in Stages /\ (a # "ended" => w \in found)
          /\ a \notin {"count", "complete"}
      BY DEF Stages
    <3>2. at' = [at EXCEPT ![w] = a]
      BY <2>3 DEF Response, Goto
    <3> HIDE DEF a
    <3> QED
      BY <2>1, <2>3, <3>1, <3>2, WorkerStep DEF Response, TypeOK
  <2> QED
    BY <1>4, <2>2, <2>3
<1>5. ASSUME NEW w \in Workers, Erase(w)
      PROVE  Uploads'
  <2> USE <1>5, PartsFacts DEF Erase, Goto
  <2>1. w \in found
    BY DEF FoundInv
  <2>2. TypeOK'
    BY DEF TypeOK, Stages, Missing
  <2>7. FoundInv'
    BY <2>1, FoundKept, NotDone DEF Ended
  <2>3. \A p \in Paths, n \in Numbers :
          chunks'[p][n] # "none" => p # Path(w) /\ chunks'[p][n] = chunks[p][n]
    BY DEF TypeOK, Missing
  <2>4. TableInv'
    BY <2>3 DEF TableInv, Alone
  <2>5. CountInv'
    BY <2>1, <2>2 DEF CountInv, Alone, TypeOK
  <2>6. CompleteMeansUploaded'
    BY DEF CompleteMeansUploaded, Alone, TypeOK
  <2> QED
    BY <2>2, <2>4, <2>5, <2>6, <2>7
<1>6. ASSUME NEW w \in Workers, Emplace(w)
      PROVE  Uploads'
  <2> USE <1>6, PartsFacts DEF Emplace, Goto
  <2>1. TypeOK'
    BY DEF TypeOK, Stages
  <2>2. FoundInv'
    BY SMTT(30) DEF TypeOK, FoundInv, Ended, Workers
  <2>3. TableInv' /\ CountInv' /\ CompleteMeansUploaded'
    BY DEF TableInv, CountInv, CompleteMeansUploaded, Alone, TypeOK
  <2> QED
    BY <2>1, <2>2, <2>3
<1>7. ASSUME NEW w \in Workers, EndWait(w)
      PROVE  Uploads'
  <2> USE <1>7, PartsFacts DEF EndWait
  <2>1. w \in found /\ w[1] \notin done
    BY SMTT(30) DEF FoundInv, Ended, Workers
  <2>2. ASSUME Alone(w)
        PROVE  \A n \in 1..PartsOf(w) : chunks[Path(w)][n] # "none"
    <3>1. Results(w) \subseteq 1..PartsOf(w)
      BY <2>2 DEF Results, TableInv, TypeOK
    <3>2. Results(w) = 1..PartsOf(w)
      BY <3>1, AllResults
    <3> QED
      BY <3>2 DEF Results
  <2> QED
    BY <2>1, <2>2, WorkerStep DEF Goto, TypeOK, Stages
<1>8. ASSUME NEW w \in Workers, Count(w)
      PROVE  Uploads'
  <2> USE <1>8, PartsFacts DEF Count
  <2>1. w \in found /\ w[1] \notin done
    BY SMTT(30) DEF FoundInv, Ended, Workers
  <2>2. CASE \E n \in Numbers : chunks[Path(w)][n] = "failed"
    BY <2>1, <2>2, WorkerStep DEF Goto, TypeOK, Stages
  <2>3. CASE \A n \in Numbers : chunks[Path(w)][n] # "failed"
    <3>1. Alone(w) => 1..PartsOf(w) \subseteq stored[Path(w)]
      BY <2>3 DEF CountInv, TableInv, TypeOK
    <3> QED
      BY <2>1, <2>3, <3>1, WorkerStep DEF Goto, TypeOK, Stages
  <2> QED
    BY <2>2, <2>3
<1>9. ASSUME NEW w \in Workers,
             NoEntry(w) \/ Completed(w) \/ CompletedUnread(w) \/ Refused(w)
      PROVE  Uploads'
  <2>1. w \in found /\ w[1] \notin done /\ w[1] \in Requests
    BY <1>9, SMTT(30)
       DEF NoEntry, Completed, CompletedUnread, Refused, FoundInv, Ended, Workers
  <2> USE DEF Goto, TypeOK, Stages
  <2>2. CASE NoEntry(w)
    BY <2>1, <2>2, WorkerStep DEF NoEntry
  <2>3. CASE Completed(w)
    BY <2>1, <2>3, WorkerStep, AckType DEF Completed
  <2>4. CASE CompletedUnread(w)
    BY <2>1, <2>4, WorkerStep DEF CompletedUnread
  <2>5. CASE Refused(w)
    BY <2>1, <2>5, WorkerStep DEF Refused
  <2> QED
    BY <1>9, <2>2, <2>3, <2>4, <2>5
<1>10. ASSUME NEW w \in Workers, ReceiveChunk(w)
       PROVE  Uploads'
  <2> DEFINE p == Path(w)
             n == sent[w] + 1
  <2> USE <1>10, PartsFacts DEF ReceiveChunk
  <2>1. n \in Numbers /\ n <= PartsOf(w) /\ p \in Paths
    <3>1. sent[w] \in Nat /\ PartsOf(w) \in Nat /\ sent[w] < PartsOf(w)
      BY DEF TypeOK
    <3>2. n \in 1..PartsOf(w)
      BY <3>1
    <3> QED
      BY <3>2
  <2>8. PICK result \in {"ok", "failed"} :
          /\ Mark(p, n, result)
          /\ stored' = IF result = "ok" THEN [stored EXCEPT ![p] = @ \cup {n}]
                       ELSE stored
    OBVIOUS
  <2>2. \A q \in Paths, m \in Numbers :
          \/ chunks'[q][m] = chunks[q][m]
          \/ /\ q = p /\ m = n /\ q \in known /\ chunks[q][m] = "none"
             /\ chunks'[q][m] = result
    BY <2>1, <2>8 DEF TypeOK, Mark
  <2>9. \A q \in Paths : stored[q] \subseteq stored'[q]
    BY <2>1, <2>8 DEF TypeOK
  <2>10. result = "ok" => n \in stored'[p]
    BY <2>1, <2>8 DEF TypeOK
  <2>3. TypeOK'
    <3>1. chunks' \in [Paths -> [Numbers -> {"none", "ok", "failed"}]]
      BY <2>1, <2>8 DEF TypeOK, Mark
    <3>2. \A q \in Paths \ known : chunks'[q] = Missing
      BY <2>1, <2>8 DEF TypeOK, Mark
    <3>3. stored' \in [Paths -> SUBSET Numbers]
      BY <2>1, <2>8 DEF TypeOK
    <3>4. sent' \in [Workers -> Nat] /\ \A v \in Workers : sent'[v] <= PartsOf(v)
      BY <2>1 DEF TypeOK
    <3> QED
      BY <2>1, <3>1, <3>2, <3>3, <3>4 DEF TypeOK
  <2>4. FoundInv'
    BY DEF FoundInv
  <2>5. TableInv'
    <3>1. \A q \in Paths, m \in Numbers :
            chunks'[q][m] = "ok" => m \in stored'[q]
      BY <2>2, <2>9, <2>10 DEF TableInv
    <3>2. ASSUME NEW v \in Workers, NEW m \in Numbers, Alone(v),
                 chunks'[Path(v)][m] # "none"
          PROVE  v \in found /\ m <= sent'[v]
      <4>1. CASE chunks[Path(v)][m] # "none"
        BY <3>2, <4>1 DEF TableInv, TypeOK
      <4>2. CASE chunks[Path(v)][m] = "none"
        <5>1. Path(v) = p /\ m = n
          BY <2>2, <3>2, <4>2
        <5>2. v = w
          BY <3>2, <5>1 DEF Alone
        <5> QED
          BY <5>1, <5>2 DEF TypeOK
      <4> QED
        BY <4>1, <4>2
    <3> QED
      BY <3>1, <3>2 DEF TableInv, Alone
  <2>6. CountInv'
    <3>1. \A q \in Paths, m \in Numbers :
            chunks[q][m] # "none" => chunks'[q][m] # "none"
      BY <2>2, <2>8
    <3> QED
      BY <3>1 DEF CountInv, Alone
  <2>7. CompleteMeansUploaded'
    BY <2>9 DEF CompleteMeansUploaded, Alone, TypeOK
  <2> QED
    BY <2>3, <2>4, <2>5, <2>6, <2>7
<1>11. CASE UNCHANGED vars
  BY <1>11 DEF vars, TypeOK, FoundInv, TableInv, CountInv,
               CompleteMeansUploaded, Alone
<1> QED
  BY <1>1, <1>2, <1>3, <1>4, <1>5, <1>6, <1>7, <1>8, <1>9, <1>10, <1>11
     DEF Next, Step, Quiescent

-----------------------------------------------------------------------------
\* A worker whose last reply was not read stays so.
LEMMA ReadableBefore ==
  ASSUME TypeOK, NEW w \in Workers, NEW a, at[w] # "unread",
         at' = [at EXCEPT ![w] = a], NEW r \in Requests, Readable(r)'
  PROVE  Readable(r)
<1> SUFFICES ASSUME NEW e \in Extractors
             PROVE  at[<<r, e>>] # "unread"
  BY DEF Readable
<1>1. <<r, e>> \in Workers /\ at'[<<r, e>>] # "unread"
  BY DEF Workers, Readable
<1>2. at'[<<r, e>>] = IF <<r, e>> = w THEN a ELSE at[<<r, e>>]
  BY <1>1 DEF TypeOK
<1> QED
  BY <1>1, <1>2

\* A worker's step that answers nothing.
LEMMA SilentStep ==
  ASSUME Uploads, AckInv, NEW w \in Workers, NEW a,
         at[w] \notin {"ended", "unread"}, at' = [at EXCEPT ![w] = a],
         found \subseteq found', UNCHANGED requestVars
  PROVE  AckInv'
<1> SUFFICES ASSUME NEW r \in Requests, Single(r)', Readable(r)'
             PROVE  IF r \in done THEN Len(acks[r]) = 1
                    ELSE (Unanswered(r) \/ Answered(r))'
  BY DEF AckInv, requestVars
<1>1. Single(r)
  BY DEF Single
<1>2. Readable(r)
  BY ReadableBefore DEF Uploads
<1>3. Answered(r) => Answered(r)'
  BY DEF Answered, Uploads, TypeOK, requestVars
<1>4. Unanswered(r) => Unanswered(r)'
  BY DEF Unanswered, requestVars
<1> QED
  BY <1>1, <1>2, <1>3, <1>4 DEF AckInv

\* A worker's step that decides its request.
LEMMA DecidingStep ==
  ASSUME Uploads, AckInv, NEW w \in Workers, NEW a \in {"ended", "unread"},
         at[w] \in {"count", "complete"}, at' = [at EXCEPT ![w] = a],
         UNCHANGED <<found, done>>, NEW b \in BOOLEAN,
         success' = [success EXCEPT ![w[1]] = b],
         a = "unread" \/ IF b THEN Ack(w[1], "file") ELSE UNCHANGED acks,
         a = "unread" => UNCHANGED acks
  PROVE  AckInv'
<1> USE DEF Uploads, TypeOK
<1> SUFFICES ASSUME NEW r \in Requests, Single(r)', Readable(r)'
             PROVE  IF r \in done THEN Len(acks'[r]) = 1
                    ELSE (Unanswered(r) \/ Answered(r))'
  BY DEF AckInv
<1>1. w \in found /\ w[1] \in Requests /\ w[1] \notin done
      /\ w = <<w[1], w[2]>> /\ w[2] \in Extractors
  BY PartsFacts, NotDone DEF FoundInv, Ended
<1>2. Single(r) /\ Readable(r)
  BY ReadableBefore DEF Single
<1>3. CASE r # w[1]
  <2>1. acks'[r] = acks[r] /\ success'[r] = success[r]
    BY <1>1, <1>3 DEF Ack
  <2>2. Answered(r) => Answered(r)'
    BY <1>3, <2>1 DEF Answered
  <2> QED
    BY <1>2, <2>1, <2>2 DEF AckInv, Unanswered
<1>4. CASE r = w[1]
  <2>1. a = "ended"
    BY <1>1, <1>4 DEF Readable
  <2>2. Unanswered(r)
    BY <1>1, <1>2, <1>4 DEF AckInv, Answered, Single
  <2>3. CASE b
    <3>1. acks'[r] = <<"file">> /\ success'[r]
      BY <1>1, <1>4, <2>1, <2>2, <2>3 DEF Ack, Unanswered
    <3>2. Len(acks'[r]) = 1
      BY <3>1
    <3>3. w \in found' /\ at'[w] = "ended" /\ w[1] = r
      BY <1>1, <1>4, <2>1
    <3> QED
      BY <1>1, <1>4, <3>1, <3>2, <3>3 DEF Answered
  <2>4. CASE ~b
    BY <1>1, <1>4, <2>1, <2>2, <2>4 DEF Unanswered
  <2> QED
    BY <2>3, <2>4
<1> QED
  BY <1>3, <1>4

LEMMA AckKept == ASSUME Inv, [Next]_vars PROVE AckInv'
<1> USE DEF Inv, workerVars, requestVars, tableVars
<1>1. ASSUME NEW r \in Requests, Begin(r)
      PROVE  AckInv'
  <2>1. \A e \in Extractors : at[<<r, e>>] = "none"
    BY <1>1 DEF Begin, Begun
  <2>2. r \notin done /\ Readable(r) /\ ~Answered(r)
    <3>1. \A w \in found : w[1] = r => at[w] = "none"
      BY <2>1, PartsFacts DEF Uploads, TypeOK
    <3> QED
      BY <1>1, <2>1, <3>1 DEF Begin, Begun, Readable, Answered
  <2> SUFFICES ASSUME NEW q \in Requests, Single(q)', Readable(q)'
               PROVE  IF q \in done' THEN Len(acks'[q]) = 1
                      ELSE (Unanswered(q) \/ Answered(q))'
    BY DEF AckInv
  <2>3. Single(q)
    BY <1>1 DEF Begin, Single
  <2>4. \A w \in Workers : at'[w] = at[w] \/ (at'[w] = "ask" /\ w[1] = r)
    BY <1>1 DEF Begin, Uploads, TypeOK
  <2>5. CASE q = r
    <3>1. acks[r] = <<>> /\ ~success[r]
      BY <2>2, <2>3, <2>5 DEF AckInv, Unanswered
    <3>2. CASE r \in done'
      <4>1. acks' = [acks EXCEPT ![r] = Append(@, "null")]
        BY <1>1, <2>2, <3>2 DEF Begin, Ack
      <4> QED
        BY <2>5, <3>1, <3>2, <4>1 DEF Uploads, TypeOK
    <3>3. CASE r \notin done'
      BY <1>1, <2>5, <3>1, <3>3 DEF Begin, Unanswered
    <3> QED
      BY <3>2, <3>3
  <2>6. CASE q # r
    <3>1. acks'[q] = acks[q] /\ success'[q] = success[q]
          /\ (q \in done <=> q \in done')
      BY <1>1, <2>6 DEF Begin, Ack, Uploads, TypeOK
    <3>2. Readable(q)
      <4>1. \A e \in Extractors : <<q, e>> \in Workers /\ <<q, e>>[1] = q
        BY DEF Workers
      <4> QED
        BY <2>4, <2>6, <4>1 DEF Readable
    <3>3. Answered(q) => Answered(q)'
      BY <1>1, <2>4, <2>6, <3>1 DEF Begin, Answered, Uploads, TypeOK
    <3> QED
      BY <2>3, <3>1, <3>2, <3>3 DEF AckInv, Unanswered
  <2> QED
    BY <2>5, <2>6
<1>2. ASSUME NEW r \in Requests, Finish(r)
      PROVE  AckInv'
  <2> SUFFICES ASSUME NEW q \in Requests, Single(q)', Readable(q)'
               PROVE  IF q \in done' THEN Len(acks'[q]) = 1
                      ELSE (Unanswered(q) \/ Answered(q))'
    BY DEF AckInv
  <2> USE <1>2 DEF Finish
  <2>1. Single(q) /\ Readable(q)
    BY DEF Single, Readable
  <2>2. CASE q = r
    <3>1. CASE success[r]
      BY <2>1, <2>2, <3>1 DEF AckInv, Unanswered, Answered
    <3>2. CASE ~success[r]
      <4>1. acks[r] = <<>>
        BY <2>1, <2>2, <3>2 DEF AckInv, Unanswered, Answered
      <4>2. acks'[r] = <<"null">>
        BY <3>2, <4>1 DEF Ack, Uploads, TypeOK
      <4> QED
        BY <2>2, <4>2
    <3> QED
      BY <3>1, <3>2
  <2>3. CASE q # r
    <3>1. acks'[q] = acks[q] /\ success'[q] = success[q]
          /\ (q \in done <=> q \in done')
      BY <2>3 DEF Ack, Uploads, TypeOK
    <3> QED
      BY <2>1, <3>1 DEF AckInv, Unanswered, Answered
  <2> QED
    BY <2>2, <2>3
<1>3. ASSUME NEW w \in Workers, Find(w) \/ ReceiveChunk(w)
      PROVE  AckInv'
  <2>1. found \subseteq found' /\ UNCHANGED <<at, done, success, acks>>
    BY <1>3 DEF Find, ReceiveChunk
  <2> QED
    BY <2>1 DEF AckInv, Single, Readable, Unanswered, Answered
<1>4. ASSUME NEW w \in Workers,
             \/ Send(w) \/ Response(w) \/ Erase(w) \/ Emplace(w)
             \/ EndWait(w) \/ NoEntry(w)
      PROVE  AckInv'
  <2>1. at[w] \notin {"ended", "unread"} /\ found' = found
        /\ UNCHANGED requestVars
    BY <1>4 DEF Send, Response, Erase, Emplace, EndWait, NoEntry
  <2>2. PICK a : at' = [at EXCEPT ![w] = a]
    BY <1>4 DEF Send, Response, Erase, Emplace, EndWait, NoEntry, Goto
  <2> QED
    BY <2>1, <2>2, SilentStep
<1>5. ASSUME NEW w \in Workers, Count(w)
      PROVE  AckInv'
  <2>1. CASE \E n \in Numbers : chunks[Path(w)][n] = "failed"
    BY <1>5, <2>1, DecidingStep DEF Count, Goto
  <2>2. CASE ~ \E n \in Numbers : chunks[Path(w)][n] = "failed"
    BY <1>5, <2>2, SilentStep DEF Count, Goto
  <2> QED
    BY <2>1, <2>2
<1>6. ASSUME NEW w \in Workers,
             Completed(w) \/ CompletedUnread(w) \/ Refused(w)
      PROVE  AckInv'
  <2>1. CASE Completed(w)
    BY <2>1, DecidingStep DEF Completed, Goto
  <2>2. CASE CompletedUnread(w)
    BY <2>2, DecidingStep DEF CompletedUnread, Goto
  <2>3. CASE Refused(w)
    BY <2>3, DecidingStep DEF Refused, Goto
  <2> QED
    BY <1>6, <2>1, <2>2, <2>3
<1>7. CASE UNCHANGED vars
  BY <1>7 DEF vars, AckInv, Single, Readable, Unanswered, Answered
<1> QED
  BY <1>1, <1>2, <1>3, <1>4, <1>5, <1>6, <1>7 DEF Next, Step, Quiescent

LEMMA InvCorrect == Spec => []Inv
<1>1. Init => Inv
  BY FilesAssumption, PartsFacts
     DEF Init, Inv, Uploads, TypeOK, FoundInv, TableInv, CountInv,
         CompleteMeansUploaded, AckInv, Unanswered, Stages, Missing
<1>2. Inv /\ [Next]_vars => Inv'
  BY UploadsInductive, AckKept DEF Inv
<1> QED
  BY <1>1, <1>2, PTL DEF Spec

\* Whatever the requests, the extractors and their chunks: a worker's counter
\* never passes its file's chunks, and a path that is not in uploaded_chunks has
\* no result (receiveChunk, markChunkResult and the resets of the entry).
THEOREM TypeCorrect == Spec => []TypeOK
<1>1. Inv => TypeOK
  BY DEF Inv, Uploads
<1> QED
  BY <1>1, InvCorrect, PTL

\* For any requests, extractors and chunk counts: the server is asked to
\* complete a file only when it has all the parts, unless several extractors'
\* uploads of that path share the table's entry (findAndUploadFile).
THEOREM CompleteCorrect == Spec => []CompleteMeansUploaded
<1>1. Inv => CompleteMeansUploaded
  BY DEF Inv, Uploads
<1> QED
  BY <1>1, InvCorrect, PTL

\* A request is answered exactly once by the time it is done, but for the two
\* cases the property names (findAndUploadFile and the acks of its workers).
THEOREM AnsweredCorrect == Spec => []AnsweredOnce
<1>1. Inv => AnsweredOnce
  BY DEF Inv, Uploads, TypeOK, AckInv, AnsweredOnce, Single, Readable
<1> QED
  BY <1>1, InvCorrect, PTL
=============================================================================
