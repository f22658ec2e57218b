-------------------------------- MODULE DiskIO --------------------------------
(***************************************************************************)
(* The write path of DiskIOManager (src/ccbt/storage/disk_io.py) with its      *)
(* default settings: a priority queue, the batcher task, the writes held per   *)
(* file until a batch is due, the executor's threads, and stop().              *)
(*                                                                           *)
(* A write is a request of write_block with its file and its place in units    *)
(* of one block; its data is the request itself.  Every request is made once.  *)
(* Time is a choice: a request may be too old when it is taken, the wait for    *)
(* the queue may time out when it is empty, stop() may lose patience.          *)
(***************************************************************************)
EXTENDS Integers, FiniteSets, Sequences

CONSTANTS Writes,      \* the requests
          Files,
          FileOf,      \* [Writes -> Files]
          PlaceOf,     \* [Writes -> Places]: the offset
          PriorityOf,  \* [Writes -> Int]
          Places,      \* blocks of a file, 0 .. n
          BatchLimit,  \* write_batch_kib * 1024 // 16384, at least 1
          MergeGap,    \* write_contiguous_threshold in whole blocks
          MayFail,     \* may a thread's write raise, or stop early?
          Hole         \* what a block holds that nobody wrote

ASSUME WritesAreOfFiles ==
  FileOf \in [Writes -> Files] /\ PlaceOf \in [Writes -> Places]
ASSUME BatchIsPositive == BatchLimit \in Nat \ {0} /\ MergeGap \in Nat
ASSUME PlacesAreOffsets == Places \subseteq Nat /\ Hole \notin Writes

VARIABLES answer,    \* [Writes -> what its future holds]
          heap,      \* the queue, in the order of arrival
          held,      \* write_requests: [Files -> Seq(Writes)]
          batcher,   \* the batcher task
          stale,     \* files its sweep has still to flush
          jobs,      \* the executor's jobs
          disk,      \* [Files -> [Places -> Writes \cup {Hole}]]
          exists,    \* files on disk
          stopping,  \* how far stop() is
          cut,       \* history: writes whose flush raised or was cancelled
          short      \* history: writes that os.write left out without an error

diskVars == <<answer, heap, held, batcher, stale, jobs, disk, exists, stopping, cut, short>>

Answers == {"unasked", "pending", "ok", "cancelled"}
Elems(s) == {s[i] : i \in DOMAIN s}
Job(by, f, batch) == [by |-> by, file |-> f, batch |-> batch, at |-> "queued"]
JobOf(by) == {j \in jobs : j.by = by}
Finished(j) == j.at \in {"written", "raised"}

DiskInit ==
  /\ answer = [w \in Writes |-> "unasked"]
  /\ heap = <<>> /\ held = [f \in Files |-> <<>>]
  /\ batcher = "waiting" /\ stale = {} /\ jobs = {}
  /\ disk = [f \in Files |-> [p \in Places |-> Hole]] /\ exists \in SUBSET Files
  /\ stopping = "no" /\ cut = {} /\ short = {}

-----------------------------------------------------------------------------
\* Mutant: without the test for done().
SettleAgain(ws, result) ==
  [w \in Writes |-> IF w \in ws THEN result ELSE answer[w]]
\* A future that is done is never set again.
Settle(ws, result) ==
  [w \in Writes |-> IF w \in ws /\ answer[w] = "pending" THEN result ELSE answer[w]]

WriteBlock(w) ==
  /\ answer[w] = "unasked"
  /\ answer' = [answer EXCEPT ![w] = "pending"]
  /\ heap' = Append(heap, w)
  /\ UNCHANGED <<held, batcher, stale, jobs, disk, exists, stopping, cut, short>>

\* WriteRequest.__lt__: the higher priority first, then the earlier request.
IsNext(i) ==
  /\ i \in DOMAIN heap
  /\ \A k \in DOMAIN heap : \/ PriorityOf[heap[k]] < PriorityOf[heap[i]]
                            \/ PriorityOf[heap[k]] = PriorityOf[heap[i]] /\ i <= k
Without(s, i) == [k \in 1 .. Len(s) - 1 |-> s[IF k < i THEN k ELSE k + 1]]

\* Mutant: the requests stay in write_requests.
FlushKeeping(by, f, requests, state) ==
  /\ jobs' = jobs \cup {Job(by, f, requests[f])}
  /\ held' = requests /\ batcher' = state
\* _flush_file_writes up to its await: the file's requests leave write_requests.
Flush(by, f, requests, state) ==
  /\ jobs' = jobs \cup {Job(by, f, requests[f])}
  /\ held' = [requests EXCEPT ![f] = <<>>]
  /\ batcher' = state

Take(i) ==
  /\ batcher = "waiting" /\ IsNext(i)
  /\ LET w == heap[i]
         f == FileOf[w]
         requests == [held EXCEPT ![f] = Append(@, w)]
     IN \/ Flush("batcher", f, requests, "flushing")   \* full, or the request is old
        \/ /\ Len(requests[f]) < BatchLimit
           /\ held' = requests /\ UNCHANGED <<jobs, batcher>>
  /\ heap' = Without(heap, i)
  /\ UNCHANGED <<answer, stale, disk, exists, stopping, cut, short>>

\* Mutant: a sweep waits for a full batch.
SweepFull(f) ==
  /\ batcher = "waiting" /\ heap = <<>> /\ Len(held[f]) >= BatchLimit
  /\ stale' = {} /\ Flush("batcher", f, held, "sweeping")
  /\ UNCHANGED <<answer, heap, disk, exists, stopping, cut, short>>
\* The wait timed out: by then every held request is older than five milliseconds.
Sweep(f) ==
  /\ batcher = "waiting" /\ heap = <<>> /\ held[f] # <<>>
  /\ stale' = {g \in Files : held[g] # <<>>} \ {f}
  /\ Flush("batcher", f, held, "sweeping")
  /\ UNCHANGED <<answer, heap, disk, exists, stopping, cut, short>>

\* The flush returns to the batcher, which answers and goes on with its sweep.
BatcherAnswers(j) ==
  /\ j \in JobOf("batcher") /\ j.at = "written" /\ batcher \in {"flushing", "sweeping"}
  /\ answer' = Settle(Elems(j.batch), "ok")
  /\ \/ /\ stale = {} /\ jobs' = jobs \ {j} /\ batcher' = "waiting"
        /\ UNCHANGED <<held, stale>>
     \/ \E f \in stale :
          /\ stale' = stale \ {f}
          /\ jobs' = (jobs \ {j}) \cup {Job("batcher", f, held[f])}
          /\ held' = [held EXCEPT ![f] = <<>>] /\ UNCHANGED batcher
  /\ UNCHANGED <<heap, disk, exists, stopping, cut, short>>

\* An exception leaves the futures of the batch alone.  The batcher logs it and
\* rests; in a sweep _flush_stale_writes swallows it with the files still to do.
BatcherFails(j) ==
  /\ j \in JobOf("batcher") /\ j.at = "raised" /\ batcher \in {"flushing", "sweeping"}
  /\ batcher' = (IF batcher = "flushing" THEN "resting" ELSE "waiting")
  /\ stale' = {} /\ jobs' = jobs \ {j} /\ cut' = cut \cup Elems(j.batch)
  /\ UNCHANGED <<answer, heap, held, disk, exists, stopping, short>>

BatcherRests ==
  /\ batcher = "resting" /\ batcher' = "waiting"
  /\ UNCHANGED <<answer, heap, held, stale, jobs, disk, exists, stopping, cut, short>>

-----------------------------------------------------------------------------
\* _combine_contiguous_writes: sorted by offset, each request is put behind the
\* one before it where it would begin earlier, and a small gap is filled.
Before(s, i, k) ==
  \/ PlaceOf[s[i]] < PlaceOf[s[k]]
  \/ PlaceOf[s[i]] = PlaceOf[s[k]] /\ i <= k
Landing(s, k) ==
  LET behind(i) == PlaceOf[s[i]]
                   + Cardinality({m \in DOMAIN s : m # i /\ Before(s, i, m) /\ Before(s, m, k)})
      starts == {behind(i) : i \in {i \in DOMAIN s : Before(s, i, k)}}
  IN CHOOSE p \in starts : \A q \in starts : q <= p
Filled(s, p) ==
  \E i, k \in DOMAIN s : /\ Landing(s, i) < p /\ p < Landing(s, k)
                         /\ Landing(s, k) - Landing(s, i) - 1 <= MergeGap
                         /\ \A m \in DOMAIN s : Landing(s, m) <= Landing(s, i)
                                                \/ Landing(s, k) <= Landing(s, m)
Combined(s, old) ==
  [p \in Places |->
     IF \E k \in DOMAIN s : Landing(s, k) = p
     THEN s[CHOOSE k \in DOMAIN s : Landing(s, k) = p]
     ELSE IF Filled(s, p) THEN Hole ELSE old[p]]

\* Mutant: the file is created without looking for it.
ThreadBeginsAnew(j) ==
  /\ j \in jobs /\ j.at = "queued"
  /\ jobs' = (jobs \ {j}) \cup {[j EXCEPT !.at = "absent"]}
  /\ UNCHANGED <<answer, heap, held, batcher, stale, disk, exists, stopping, cut, short>>
\* The thread, in _write_combined_sync: the test for the file and the creation of
\* a file of zeros are two steps, the writes one.
ThreadBegins(j) ==
  /\ j \in jobs /\ j.at = "queued"
  /\ jobs' = (jobs \ {j})
             \cup {[j EXCEPT !.at = IF j.file \in exists THEN "open" ELSE "absent"]}
  /\ UNCHANGED <<answer, heap, held, batcher, stale, disk, exists, stopping, cut, short>>

ThreadCreates(j) ==
  /\ j \in jobs /\ j.at = "absent"
  /\ exists' = exists \cup {j.file}
  /\ disk' = [disk EXCEPT ![j.file] = [p \in Places |-> Hole]]
  /\ jobs' = (jobs \ {j}) \cup {[j EXCEPT !.at = "open"]}
  /\ UNCHANGED <<answer, heap, held, batcher, stale, stopping, cut, short>>

Partly(s, done, old) == [p \in Places |-> IF p \in done THEN Combined(s, old)[p] ELSE old[p]]
LeftOut(s, done) == {s[k] : k \in {i \in DOMAIN s : Landing(s, i) \notin done}}

\* os.write may stop early, on a full disk say, and says so in a count that
\* nobody reads: the run, or what is left of it, is not written and the next call
\* goes on behind it.  (A block that is half written counts as not written.)
ThreadWrites(j) ==
  /\ j \in jobs /\ j.at = "open"
  /\ \E done \in SUBSET Places :
       /\ MayFail \/ done = Places
       /\ disk' = [disk EXCEPT ![j.file] = Partly(j.batch, done, @)]
       /\ short' = short \cup LeftOut(j.batch, done)
  /\ jobs' = (jobs \ {j}) \cup {[j EXCEPT !.at = "written"]}
  /\ UNCHANGED <<answer, heap, held, batcher, stale, exists, stopping, cut>>

\* DiskIOError, before anything was written or after some of it was.
ThreadRaises(j) ==
  /\ MayFail /\ j \in jobs /\ j.at \in {"queued", "absent", "open"}
  /\ \E done \in SUBSET Places :
       /\ j.at # "open" => done = {}
       /\ disk' = [disk EXCEPT ![j.file] = Partly(j.batch, done, @)]
  /\ jobs' = (jobs \ {j}) \cup {[j EXCEPT !.at = "raised"]}
  /\ UNCHANGED <<answer, heap, held, batcher, stale, exists, stopping, cut, short>>

-----------------------------------------------------------------------------
\* Cancelling a flush: a job no thread has begun is dropped, another runs on
\* with nobody waiting for it.
CutLoose(gone) ==
  /\ jobs' = (jobs \ gone) \cup {[j EXCEPT !.by = "nobody"] : j \in {k \in gone : k.at # "queued"}}
  /\ cut' = cut \cup UNION {Elems(j.batch) : j \in gone}

\* stop() cancels the batcher.  Its handler cancels the futures of the requests
\* it holds, and leaves the requests there; in its rest after an error there is
\* no handler.
Stop ==
  /\ stopping = "no" /\ stopping' = "cancelled"
  /\ batcher' = "ended" /\ stale' = {}
  /\ answer' = IF batcher = "resting" THEN answer
               ELSE Settle(UNION {Elems(held[f]) : f \in Files}, "cancelled")
  /\ CutLoose(JobOf("batcher"))
  /\ UNCHANGED <<heap, held, disk, exists, short>>

\* _flush_all_writes: a flush for every file at once, also for requests whose
\* future has been cancelled.
StopFlushes ==
  /\ stopping = "cancelled" /\ stopping' = "flushing"
  /\ jobs' = jobs \cup {Job("stop", f, held[f]) : f \in {f \in Files : held[f] # <<>>}}
  /\ held' = [f \in Files |-> <<>>]
  /\ UNCHANGED <<answer, heap, batcher, stale, disk, exists, cut, short>>

StopAnswers(j) ==
  /\ j \in JobOf("stop") /\ j.at = "written"
  /\ answer' = Settle(Elems(j.batch), "ok") /\ jobs' = jobs \ {j}
  /\ UNCHANGED <<heap, held, batcher, stale, disk, exists, stopping, cut, short>>

\* gather() passes the first exception on and stop() ends with it; the other
\* flushes go on.
StopRaises(j) ==
  /\ j \in JobOf("stop") /\ j.at = "raised"
  /\ stopping' = "raised"
  /\ jobs' = jobs \ {j} /\ cut' = cut \cup Elems(j.batch)
  /\ UNCHANGED <<answer, heap, held, batcher, stale, disk, exists, short>>

\* Five seconds have passed: the flushes are cancelled.
StopGivesUp ==
  /\ stopping = "flushing" /\ JobOf("stop") # {}
  /\ CutLoose(JobOf("stop"))
  /\ UNCHANGED <<answer, heap, held, batcher, stale, disk, exists, stopping, short>>

\* What is still queued is cancelled and never written.
StopDrains ==
  /\ stopping = "flushing" /\ JobOf("stop") = {} /\ stopping' = "drained"
  /\ answer' = Settle(Elems(heap), "cancelled") /\ heap' = <<>>
  /\ UNCHANGED <<held, batcher, stale, jobs, disk, exists, cut, short>>

\* The executor is shut down once its threads are done.
StopEnds ==
  /\ stopping = "drained" /\ stopping' = "stopped"
  /\ \A j \in jobs : Finished(j)
  /\ UNCHANGED <<answer, heap, held, batcher, stale, jobs, disk, exists, cut, short>>

-----------------------------------------------------------------------------
BatcherStep ==
  \/ \E i \in DOMAIN heap : Take(i)
  \/ \E f \in Files : Sweep(f)
  \/ \E j \in jobs : BatcherAnswers(j) \/ BatcherFails(j)
  \/ BatcherRests
ThreadStep(j) == ThreadBegins(j) \/ ThreadCreates(j) \/ ThreadWrites(j)
StopStep ==
  \/ StopFlushes \/ StopDrains \/ StopEnds
  \/ \E j \in jobs : StopAnswers(j) \/ StopRaises(j)

DiskNext ==
  \/ \E w \in Writes : WriteBlock(w)
  \/ BatcherStep \/ Stop \/ StopStep \/ StopGivesUp
  \/ \E j \in jobs : ThreadStep(j) \/ ThreadRaises(j)

\* The loop runs the tasks that are ready and a thread ends its write; no caller
\* need ask for anything, and stop() need not be called.
DiskFairness ==
  /\ WF_diskVars(BatcherStep) /\ WF_diskVars(StopStep)
  /\ WF_diskVars(\E j \in jobs : ThreadStep(j))
DiskSpec == DiskInit /\ [][DiskNext]_diskVars /\ DiskFairness

-----------------------------------------------------------------------------
\* Types.
DiskTypeOK ==
  /\ answer \in [Writes -> Answers]
  /\ heap \in Seq(Writes) /\ held \in [Files -> Seq(Writes)]
  /\ batcher \in {"waiting", "flushing", "sweeping", "resting", "ended"}
  /\ stale \subseteq Files /\ exists \subseteq Files
  /\ cut \subseteq Writes /\ short \subseteq Writes
  /\ jobs \subseteq [by : {"batcher", "stop", "nobody"}, file : Files, batch : Seq(Writes),
                     at : {"queued", "absent", "open", "written", "raised"}]
  /\ disk \in [Files -> [Places -> Writes \cup {Hole}]]
  /\ stopping \in {"no", "cancelled", "flushing", "drained", "stopped", "raised"}

\* A future that is not set is still somebody's duty: its request is queued, held
\* for its file or in a flush that someone waits for.  The exceptions are the
\* requests of a flush that raised or was cancelled (write_block's callers await
\* these for ever: nobody sets them).
OpenIsInHand ==
  \A w \in Writes : answer[w] = "pending" =>
     \/ w \in Elems(heap) \cup cut
     \/ w \in Elems(held[FileOf[w]])
     \/ \E j \in jobs : j.by # "nobody" /\ w \in Elems(j.batch)

\* A request is in one place at a time: queued, held for its file, in one flush, or
\* cut; stop() flushes what the batcher held while the batcher's thread may still
\* write, and takes no request a second time (storage/disk_io.py:397-545, :963-1064).
Held == UNION {Elems(held[f]) : f \in Files}
HandledOnce ==
  /\ \A j \in jobs :
       /\ Elems(j.batch) \cap (Elems(heap) \cup Held) = {}
       /\ \A k \in jobs \ {j} : Elems(j.batch) \cap Elems(k.batch) = {}
       /\ j.by # "nobody" => Elems(j.batch) \cap cut = {}
  /\ cut \cap (Elems(heap) \cup Held) = {}
  /\ Elems(heap) \cap Held = {}

\* A flush that answers with success has put the data where it belongs, unless
\* os.write left it out, and no flush before or after it, none that raised and no
\* thread that stop() cut loose takes it away (for requests to different places,
\* and no gap merged).
AnsweredIsOnDisk ==
  \A w \in Writes : answer[w] = "ok" => disk[FileOf[w]][PlaceOf[w]] = w \/ w \in short

\* Two threads are never in the same file, though stop() flushes while a thread
\* that nobody waits for may still write: two of them could both find no file,
\* and the later creation would empty what the earlier one had written.
OneThreadPerFile ==
  \A j, k \in jobs : j # k => j.file # k.file \/ Finished(j) \/ Finished(k)

\* When stop() has returned, the futures it left open belong to flushes that were
\* cut or to calls that came after it had emptied the queue.
StopSettles ==
  stopping = "stopped" =>
     \A w \in Writes : answer[w] = "pending" => w \in cut \cup Elems(heap)

\* The manager keeps the promise of DurableWrites: besides AnsweredIsOnDisk, an
\* answer is final (the flush of stop() writes the requests whose futures the
\* batcher's handler has cancelled, and must not answer them again), and no step
\* writes what has not been asked for.
OnDisk == {w \in Writes : disk[FileOf[w]][PlaceOf[w]] = w}
Durable == INSTANCE DurableWrites WITH future <- answer, durable <- OnDisk, leftOut <- short
ImplementsDurableWrites == Durable!Spec

\* While nobody stops the manager and no write fails every request is answered.
\* (Each request comes once: a stream of requests to other files that never pauses
\* could keep a small batch waiting, since only an empty queue starts the sweep.)
WritesAreAnsweredUnlessCut ==
  \A w \in Writes : answer[w] = "pending" ~>
     answer[w] # "pending" \/ w \in cut \/ stopping # "no"

\* stop() comes to an end, with an exception if a flush of its own raised.
StopComesToAnEnd ==
  stopping # "no" ~> stopping \in {"stopped", "raised"}

\* Each write is in one place until it is answered, each file in one thread
\* (write_block, the batcher, the sweep, stop).
WritesAreSound == DiskTypeOK /\ OpenIsInHand /\ HandledOnce /\ OneThreadPerFile /\ StopSettles

\* Writes are answered and stop() ends, by value or by exception.
WritesProceed == WritesAreAnsweredUnlessCut /\ StopComesToAnEnd
=============================================================================
