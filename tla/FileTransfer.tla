---------------------------- MODULE FileTransfer ----------------------------
(***************************************************************************)
(* Files that clients ask for (src/file_extractor.cpp).  Each request has a *)
(* detached thread (findAndUploadFile) that asks every discovered file      *)
(* extractor in a thread of its own, here a worker <<request, extractor>>.  *)
(* An extractor that has the file publishes it in chunks; the main thread   *)
(* uploads them one by one and notes the results in uploaded_chunks, one    *)
(* table entry per path, which the workers of all requests for that path    *)
(* share.  The extractors and the upload server are the environment.        *)
(*                                                                          *)
(* rclcpp::ok() turns false at the very end of main, when the process ends: *)
(* the early returns that ask for it are not modelled.                      *)
(***************************************************************************)
EXTENDS Naturals, Sequences, FiniteSets

CONSTANTS Requests,
          Extractors,
          Paths,
          PathOf,     \* the path a request asks for
          Discovered, \* extractors that may be discovered when it comes
          Parts       \* how many chunks an extractor makes of a file

ASSUME FilesAssumption ==
    /\ PathOf \in [Requests -> Paths]
    /\ Discovered \in [Requests -> SUBSET Extractors]
    /\ Parts \in [Extractors -> Nat \ {0}]

Workers == Requests \X Extractors
Path(w) == PathOf[w[1]]
PartsOf(w) == Parts[w[2]]
Numbers == UNION {1..Parts[e] : e \in Extractors}

VARIABLES
    at,       \* where a worker is; none: its extractor is not asked
    done,     \* requests whose thread has ended
    success,  \* the requests' success flags, shared by their workers
    acks,     \* what the requests' messages were answered with
    found,    \* workers whose extractor has the file and publishes it
    sent,     \* chunks for a worker that the main thread has handled
    known,    \* paths with an entry in uploaded_chunks
    chunks,   \* the entry: the result of every chunk number
    stored,   \* parts of each path that the server has
    lost      \* history: paths with a result that was dropped or erased

workerVars == <<at, found, sent>>
requestVars == <<done, success, acks>>
tableVars == <<known, chunks, stored, lost>>
vars == <<workerVars, requestVars, tableVars>>

Stages == {"none", "ask", "asked", "reset", "emplace", "wait", "count",
           "complete", "ended", "unread"}
Ended == {"none", "ended", "unread"}
Missing == [n \in Numbers |-> "none"]

TypeOK ==
    /\ at \in [Workers -> Stages]
    /\ done \subseteq Requests
    /\ success \in [Requests -> BOOLEAN]
    /\ acks \in [Requests -> Seq({"file", "null"})]
    /\ found \subseteq Workers
    /\ sent \in [Workers -> Nat]
    /\ \A w \in Workers : sent[w] <= PartsOf(w)
    /\ known \subseteq Paths
    /\ chunks \in [Paths -> [Numbers -> {"none", "ok", "failed"}]]
    /\ \A p \in Paths \ known : chunks[p] = Missing
    /\ stored \in [Paths -> SUBSET Numbers]
    /\ lost \subseteq Paths

Init ==
    /\ at = [w \in Workers |-> "none"]
    /\ done = {}
    /\ success = [r \in Requests |-> FALSE]
    /\ acks = [r \in Requests |-> <<>>]
    /\ found = {}
    /\ sent = [w \in Workers |-> 0]
    /\ known = {}
    /\ chunks = [p \in Paths |-> Missing]
    /\ stored = [p \in Paths |-> {}]
    /\ lost = {}

-----------------------------------------------------------------------------
Goto(w, a) == at' = [at EXCEPT ![w] = a]
Ack(r, a) == acks' = [acks EXCEPT ![r] = Append(@, a)]

Begun(r) == r \in done \/ \E e \in Extractors : at[<<r, e>>] # "none"

\* onFileRequest and the start of findAndUploadFile: the extractors that are
\* discovered by now are asked.
Begin(r) ==
    /\ ~Begun(r)
    /\ \E S \in SUBSET Discovered[r] :
         IF S = {}
         THEN Ack(r, "null") /\ done' = done \cup {r} /\ UNCHANGED at
         ELSE /\ at' = [w \in Workers |->
                          IF w[1] = r /\ w[2] \in S THEN "ask" ELSE at[w]]
              /\ UNCHANGED <<acks, done>>
    /\ UNCHANGED <<success, found, sent, tableVars>>

\* The extractor's service is there: the request is sent.
Send(w) ==
    /\ at[w] = "ask"
    /\ Goto(w, "asked")
    /\ UNCHANGED <<found, sent, requestVars, tableVars>>

\* The extractor has the file and starts to publish it.
Find(w) ==
    /\ at[w] = "asked" /\ w \notin found
    /\ found' = found \cup {w}
    /\ UNCHANGED <<at, sent, requestVars, tableVars>>

\* The response loop ends: the file was found, or was not, or the future is
\* no longer valid.
Response(w) ==
    /\ at[w] = "asked"
    /\ Goto(w, IF w \in found THEN "reset" ELSE "ended")
    /\ UNCHANGED <<found, sent, requestVars, tableVars>>

\* uploaded_chunks_mutex, held between the two steps of a reset.
TableFree == \A w \in Workers : at[w] # "emplace"

\* The path's entry is erased ...
Erase(w) ==
    /\ at[w] = "reset" /\ TableFree
    /\ known' = known \ {Path(w)}
    /\ chunks' = [chunks EXCEPT ![Path(w)] = Missing]
    /\ lost' = IF chunks[Path(w)] = Missing THEN lost ELSE lost \cup {Path(w)}
    /\ Goto(w, "emplace")
    /\ UNCHANGED <<stored, found, sent, requestVars>>

\* ... and made anew.
Emplace(w) ==
    /\ at[w] = "emplace"
    /\ known' = known \cup {Path(w)}
    /\ Goto(w, "wait")
    /\ UNCHANGED <<chunks, stored, lost, found, sent, requestVars>>

Results(w) == {n \in Numbers : chunks[Path(w)][n] # "none"}

\* Mutant: one result too few ends the wait.
EndWaitEarly(w) ==
    /\ at[w] = "wait"
    /\ Path(w) \in known
    /\ Cardinality(Results(w)) + 1 >= PartsOf(w)
    /\ Goto(w, "count")
    /\ UNCHANGED <<found, sent, requestVars, tableVars>>

\* The polling loop sees enough results; it reads without the mutex.
EndWait(w) ==
    /\ at[w] = "wait"
    /\ Path(w) \in known
    /\ Cardinality(Results(w)) >= PartsOf(w)
    /\ Goto(w, "count")
    /\ UNCHANGED <<found, sent, requestVars, tableVars>>

\* Results are counted; again without the mutex.
Count(w) ==
    /\ at[w] = "count"
    /\ Path(w) \in known
    /\ IF \E n \in Numbers : chunks[Path(w)][n] = "failed"
       THEN /\ Goto(w, "ended")
            /\ success' = [success EXCEPT ![w[1]] = FALSE]
       ELSE /\ Goto(w, "complete")
            /\ UNCHANGED success
    /\ UNCHANGED <<found, sent, done, acks, tableVars>>

\* Either finds no entry while another worker resets it: at() throws, which
\* the worker catches.
NoEntry(w) ==
    /\ at[w] \in {"wait", "count"} /\ Path(w) \notin known
    /\ Goto(w, "ended")
    /\ UNCHANGED <<found, sent, requestVars, tableVars>>

\* The server is asked to complete the file.
Completed(w) ==
    /\ at[w] = "complete"
    /\ Goto(w, "ended")
    /\ success' = [success EXCEPT ![w[1]] = TRUE]
    /\ Ack(w[1], "file")
    /\ UNCHANGED <<found, sent, done, tableVars>>

\* ... its reply's body is no JSON object, which throws after success is set;
CompletedUnread(w) ==
    /\ at[w] = "complete"
    /\ Goto(w, "unread")
    /\ success' = [success EXCEPT ![w[1]] = TRUE]
    /\ UNCHANGED <<found, sent, done, acks, tableVars>>

\* Mutant: the failure is answered at once, and at the end again.
RefusedAcked(w) ==
    /\ at[w] = "complete"
    /\ Goto(w, "ended")
    /\ success' = [success EXCEPT ![w[1]] = FALSE]
    /\ Ack(w[1], "null")
    /\ UNCHANGED <<found, sent, done, tableVars>>

\* ... the request fails or is refused.
Refused(w) ==
    /\ at[w] = "complete"
    /\ Goto(w, "ended")
    /\ success' = [success EXCEPT ![w[1]] = FALSE]
    /\ UNCHANGED <<found, sent, done, acks, tableVars>>

\* All threads of the request have been joined.
Finish(r) ==
    /\ Begun(r) /\ r \notin done
    /\ \A e \in Extractors : at[<<r, e>>] \in Ended
    /\ done' = done \cup {r}
    /\ IF success[r] THEN UNCHANGED acks ELSE Ack(r, "null")
    /\ UNCHANGED <<success, workerVars, tableVars>>

\* Mutants: the first chunk is not counted; a path without an entry gets one.
MarkFromTwo(p, n, result) ==
    chunks' = IF p \in known /\ n > 1 /\ chunks[p][n] = "none"
              THEN [chunks EXCEPT ![p][n] = result] ELSE chunks

MarkAnyPath(p, n, result) ==
    chunks' = IF chunks[p][n] = "none"
              THEN [chunks EXCEPT ![p][n] = result] ELSE chunks

\* markChunkResult: emplace keeps the result that is there.
Mark(p, n, result) ==
    chunks' = IF p \in known /\ chunks[p][n] = "none"
              THEN [chunks EXCEPT ![p][n] = result] ELSE chunks

\* receiveChunk, in the main thread: the next chunk is uploaded, or not, and
\* its result is noted.
ReceiveChunk(w) ==
    /\ w \in found /\ sent[w] < PartsOf(w) /\ TableFree
    /\ LET p == Path(w)
           n == sent[w] + 1
       IN  /\ sent' = [sent EXCEPT ![w] = n]
           /\ \/ Mark(p, n, "ok") /\ stored' = [stored EXCEPT ![p] = @ \cup {n}]
              \/ Mark(p, n, "failed") /\ UNCHANGED stored
           /\ lost' = IF p \in known THEN lost ELSE lost \cup {p}
    /\ UNCHANGED <<known, at, found, requestVars>>

-----------------------------------------------------------------------------
Step(w) ==
    \/ Erase(w) \/ Emplace(w) \/ EndWait(w) \/ Count(w) \/ NoEntry(w)
    \/ Completed(w) \/ CompletedUnread(w) \/ Refused(w)

\* Requests are done, or a worker waits for chunks that will not come.
Quiescent ==
    /\ \A r \in Requests : Begun(r)
    /\ \A w \in Workers :
         /\ at[w] \in Ended \cup {"wait"}
         /\ w \in found => sent[w] = PartsOf(w)
    /\ UNCHANGED vars

Next ==
    \/ \E r \in Requests : Begin(r) \/ Finish(r)
    \/ \E w \in Workers :
         Send(w) \/ Find(w) \/ Response(w) \/ Step(w) \/ ReceiveChunk(w)
    \/ Quiescent

Spec == Init /\ [][Next]_vars

\* Threads that can run do run; extractors answer, and what they publish is
\* delivered.
FairSpec ==
    /\ Spec
    /\ \A r \in Requests : WF_vars(Finish(r))
    /\ \A w \in Workers :
         /\ WF_vars(Send(w)) /\ WF_vars(Response(w))
         /\ WF_vars(Step(w)) /\ WF_vars(ReceiveChunk(w))

-----------------------------------------------------------------------------
(* Properties                                                               *)

\* No other worker ever used the path's entry.
Alone(w) == \A v \in found \ {w} : Path(v) # Path(w)

\* "All parts of uploaded": when the server is asked to complete a file, it
\* has all its parts, unless the path's entry is shared with another worker.
CompleteMeansUploaded ==
    \A w \in Workers :
      at[w] = "complete" /\ Alone(w) => 1..PartsOf(w) \subseteq stored[Path(w)]

\* A request that is done was answered exactly once, unless several
\* extractors found its file, or the server's last reply could not be read.
AnsweredOnce ==
    \A r \in done :
      \/ Len(acks[r]) = 1
      \/ \E v, w \in found : v # w /\ v[1] = r /\ w[1] = r
      \/ \E e \in Extractors : at[<<r, e>>] = "unread"

\* "wait for all search threads to finish": every request comes to an end.
SearchesFinish == \A r \in Requests : Begun(r) ~> r \in done

\* ... unless a result for the path was lost: its chunk came before the entry
\* was made, or the entry was reset under it.
SearchesFinishUnlessLost ==
    \A r \in Requests : Begun(r) ~> r \in done \/ PathOf[r] \in lost
=============================================================================
