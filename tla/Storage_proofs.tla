---------------------------- MODULE Storage_proofs ----------------------------
(***************************************************************************)
(* What holds of the write path for any requests, files and priorities, and *)
(* of the checkpoint files for any number of pieces, crashes and restarts.  *)
(***************************************************************************)
EXTENDS DiskIO, CheckpointFiles, FiniteSetTheorems, TLAPS

-----------------------------------------------------------------------------
(* Writes *)

DiskStates == {"queued", "absent", "open", "written", "raised"}
Owners == {"batcher", "stop", "nobody"}
DiskJobs == [by : Owners, file : Files, batch : Seq(Writes), at : DiskStates]

LEMMA ElemsAreWrites == ASSUME NEW s \in Seq(Writes) PROVE Elems(s) \subseteq Writes
BY DEF Elems

LEMMA AppendElems ==
  ASSUME NEW s \in Seq(Writes), NEW w \in Writes
  PROVE  Append(s, w) \in Seq(Writes) /\ Elems(Append(s, w)) = Elems(s) \cup {w}
<1>1. Append(s, w) \in Seq(Writes) /\ Len(Append(s, w)) = Len(s) + 1
  OBVIOUS
<1>2. Elems(s) \cup {w} \subseteq Elems(Append(s, w))
  <2>1. ASSUME NEW i \in DOMAIN s PROVE s[i] \in Elems(Append(s, w))
    <3>1. i \in DOMAIN Append(s, w) /\ Append(s, w)[i] = s[i]
      OBVIOUS
    <3>2. QED
      BY <3>1 DEF Elems
  <2>2. w \in Elems(Append(s, w))
    <3>1. Len(s) + 1 \in DOMAIN Append(s, w) /\ Append(s, w)[Len(s) + 1] = w
      OBVIOUS
    <3>2. QED
      BY <3>1 DEF Elems
  <2>3. QED
    BY <2>1, <2>2 DEF Elems
<1>3. ASSUME NEW i \in DOMAIN Append(s, w) PROVE Append(s, w)[i] \in Elems(s) \cup {w}
  <2>1. CASE i = Len(s) + 1
    BY <2>1
  <2>2. CASE i # Len(s) + 1
    <3>1. i \in DOMAIN s /\ Append(s, w)[i] = s[i]
      BY <2>2
    <3>2. QED
      BY <3>1 DEF Elems
  <2>3. QED
    BY <2>1, <2>2
<1>4. QED
  BY <1>1, <1>2, <1>3 DEF Elems

\* Taking one request out of the queue leaves the others in it.
LEMMA WithoutElems ==
  ASSUME NEW s \in Seq(Writes), NEW i \in DOMAIN s
  PROVE  /\ Without(s, i) \in Seq(Writes)
         /\ Elems(s) \subseteq Elems(Without(s, i)) \cup {s[i]}
<1> DEFINE t == Without(s, i)
<1>1. Len(s) \in Nat /\ i \in 1 .. Len(s) /\ DOMAIN s = 1 .. Len(s)
  OBVIOUS
<1>2. t = [k \in 1 .. Len(s) - 1 |-> s[IF k < i THEN k ELSE k + 1]]
  BY DEF Without
<1>3. ASSUME NEW k \in 1 .. Len(s) - 1 PROVE s[IF k < i THEN k ELSE k + 1] \in Writes
  BY <1>1
<1>4. t \in Seq(Writes)
  BY <1>1, <1>2, <1>3
<1>5. ASSUME NEW k \in 1 .. Len(s), k # i PROVE s[k] \in Elems(t)
  <2>1. CASE k < i
    <3>1. k \in DOMAIN t /\ t[k] = s[k]
      BY <1>1, <1>2, <1>5, <2>1
    <3>2. QED
      BY <3>1 DEF Elems
  <2>2. CASE ~(k < i)
    <3>1. k - 1 \in DOMAIN t /\ t[k - 1] = s[k]
      BY <1>1, <1>2, <1>5, <2>2
    <3>2. QED
      BY <3>1 DEF Elems
  <2>3. QED
    BY <2>1, <2>2
<1>6. QED
  BY <1>1, <1>4, <1>5 DEF Elems

LEMMA CombinedType ==
  ASSUME NEW s \in Seq(Writes), NEW old \in [Places -> Writes \cup {Hole}]
  PROVE  Combined(s, old) \in [Places -> Writes \cup {Hole}]
<1> SUFFICES ASSUME NEW p \in Places PROVE Combined(s, old)[p] \in Writes \cup {Hole}
  BY DEF Combined
<1>1. CASE \E k \in DOMAIN s : Landing(s, k) = p
  <2>1. (CHOOSE k \in DOMAIN s : Landing(s, k) = p) \in DOMAIN s
    BY <1>1
  <2>2. s[CHOOSE k \in DOMAIN s : Landing(s, k) = p] \in Writes
    BY <2>1
  <2>3. QED
    BY <1>1, <2>2 DEF Combined
<1>2. CASE ~\E k \in DOMAIN s : Landing(s, k) = p
  BY <1>2 DEF Combined
<1>3. QED
  BY <1>1, <1>2

LEMMA PartlyType ==
  ASSUME DiskTypeOK, NEW j \in jobs, NEW done
  PROVE  /\ Partly(j.batch, done, disk[j.file]) \in [Places -> Writes \cup {Hole}]
         /\ LeftOut(j.batch, done) \subseteq Writes
<1>1. /\ Combined(j.batch, disk[j.file]) \in [Places -> Writes \cup {Hole}]
      /\ disk[j.file] \in [Places -> Writes \cup {Hole}] /\ j.batch \in Seq(Writes)
  BY CombinedType DEF DiskTypeOK
<1>2. QED
  BY <1>1 DEF Partly, LeftOut

LEMMA SettleType ==
  ASSUME DiskTypeOK, NEW ws, NEW result \in Answers
  PROVE  Settle(ws, result) \in [Writes -> Answers]
BY DEF Settle, DiskTypeOK

\* The jobs of a cancelled flush: dropped, or nobody's.
LEMMA CutLooseType ==
  ASSUME DiskTypeOK, NEW gone \in SUBSET jobs, CutLoose(gone)
  PROVE  jobs' \subseteq DiskJobs /\ cut' \subseteq Writes
<1>1. \A j \in jobs : Elems(j.batch) \subseteq Writes
  BY ElemsAreWrites DEF DiskTypeOK
<1>2. jobs \subseteq DiskJobs
  BY DEF DiskTypeOK, DiskJobs, Owners, DiskStates
<1>3. \A j \in jobs : [j EXCEPT !.by = "nobody"] \in DiskJobs
  BY <1>2 DEF DiskJobs, Owners
<1>4. jobs' \subseteq DiskJobs
  BY <1>2, <1>3 DEF CutLoose
<1>5. cut' \subseteq Writes
  BY <1>1 DEF CutLoose, DiskTypeOK
<1>6. QED
  BY <1>4, <1>5

\* A job whose thread goes on is still one.
LEMMA JobsMoveOn ==
  ASSUME DiskTypeOK, NEW j \in jobs, NEW a \in DiskStates
  PROVE  (jobs \ {j}) \cup {[j EXCEPT !.at = a]} \subseteq DiskJobs
<1>1. jobs \subseteq DiskJobs
  BY DEF DiskTypeOK, DiskJobs, Owners, DiskStates
<1>2. [j EXCEPT !.at = a] \in DiskJobs
  BY <1>1 DEF DiskJobs
<1>3. QED
  BY <1>1, <1>2

LEMMA DiskTypeInit == DiskInit => DiskTypeOK
BY DEF DiskInit, DiskTypeOK, Answers

LEMMA DiskTypeStep == DiskTypeOK /\ [DiskNext]_diskVars => DiskTypeOK'
<1> SUFFICES ASSUME DiskTypeOK, [DiskNext]_diskVars PROVE DiskTypeOK'
  OBVIOUS
<1> USE WritesAreOfFiles DEF DiskTypeOK, Job, JobOf
<1>1. CASE UNCHANGED diskVars
  BY <1>1 DEF diskVars
<1>2. ASSUME NEW w \in Writes, WriteBlock(w) PROVE DiskTypeOK'
  BY <1>2, AppendElems DEF WriteBlock, Answers
<1>3. ASSUME NEW i \in DOMAIN heap, Take(i) PROVE DiskTypeOK'
  <2>1. heap[i] \in Writes /\ Without(heap, i) \in Seq(Writes)
    BY WithoutElems
  <2> DEFINE f == FileOf[heap[i]]
             requests == [held EXCEPT ![f] = Append(@, heap[i])]
  <2>2. requests \in [Files -> Seq(Writes)] /\ f \in Files
    BY <2>1, AppendElems
  <2>3. CASE Flush("batcher", f, requests, "flushing")
    <3>1. requests[f] \in Seq(Writes)
      BY <2>2
    <3>2. Job("batcher", f, requests[f]) \in DiskJobs
      BY <2>2, <3>1 DEF DiskJobs, Owners, DiskStates
    <3> HIDE DEF requests, f, Job
    <3>3. QED
      BY <1>3, <2>1, <2>2, <2>3, <3>1, <3>2 DEF Take, Flush, DiskJobs, Owners, DiskStates
  <2>4. CASE held' = requests /\ UNCHANGED <<jobs, batcher>>
    BY <1>3, <2>1, <2>2, <2>4 DEF Take
  <2>5. QED
    BY <1>3, <2>3, <2>4 DEF Take
<1>4. ASSUME NEW f \in Files, Sweep(f) PROVE DiskTypeOK'
  BY <1>4 DEF Sweep, Flush
<1>5. ASSUME NEW j \in jobs, BatcherAnswers(j) PROVE DiskTypeOK'
  <2>1. answer' \in [Writes -> Answers]
    BY <1>5, SettleType DEF BatcherAnswers, Answers
  <2>2. CASE stale = {} /\ jobs' = jobs \ {j} /\ batcher' = "waiting" /\ UNCHANGED <<held, stale>>
    BY <1>5, <2>1, <2>2 DEF BatcherAnswers
  <2>3. ASSUME NEW f \in stale, stale' = stale \ {f},
               jobs' = (jobs \ {j}) \cup {Job("batcher", f, held[f])},
               held' = [held EXCEPT ![f] = <<>>], UNCHANGED batcher
        PROVE  DiskTypeOK'
    BY <1>5, <2>1, <2>3 DEF BatcherAnswers
  <2>4. QED
    BY <1>5, <2>2, <2>3 DEF BatcherAnswers
<1>6. ASSUME NEW j \in jobs, BatcherFails(j) PROVE DiskTypeOK'
  <2>1. Elems(j.batch) \subseteq Writes
    BY ElemsAreWrites
  <2>2. QED
    BY <1>6, <2>1 DEF BatcherFails
<1>7. CASE BatcherRests
  BY <1>7 DEF BatcherRests
<1>8. ASSUME NEW j \in jobs, ThreadBegins(j) PROVE DiskTypeOK'
  BY <1>8 DEF ThreadBegins
<1>9. ASSUME NEW j \in jobs, ThreadCreates(j) PROVE DiskTypeOK'
  BY <1>9 DEF ThreadCreates
<1>10. ASSUME NEW j \in jobs, ThreadWrites(j) PROVE DiskTypeOK'
  <2>1. /\ \A done : Partly(j.batch, done, disk[j.file]) \in [Places -> Writes \cup {Hole}]
        /\ \A done : LeftOut(j.batch, done) \subseteq Writes
    BY PartlyType
  <2>2. disk' \in [Files -> [Places -> Writes \cup {Hole}]] /\ short' \subseteq Writes
    BY <1>10, <2>1 DEF ThreadWrites
  <2>3. jobs' \subseteq DiskJobs
    BY <1>10, JobsMoveOn DEF ThreadWrites, DiskStates
  <2>4. UNCHANGED <<answer, heap, held, batcher, stale, exists, stopping, cut>>
    BY <1>10 DEF ThreadWrites
  <2> HIDE DEF Job, JobOf
  <2>5. QED
    BY <2>2, <2>3, <2>4 DEF DiskJobs, Owners, DiskStates
<1>11. ASSUME NEW j \in jobs, ThreadRaises(j) PROVE DiskTypeOK'
  <2>1. \A done : Partly(j.batch, done, disk[j.file]) \in [Places -> Writes \cup {Hole}]
    BY PartlyType
  <2>2. disk' \in [Files -> [Places -> Writes \cup {Hole}]]
    BY <1>11, <2>1 DEF ThreadRaises
  <2>3. jobs' \subseteq DiskJobs
    BY <1>11, JobsMoveOn DEF ThreadRaises, DiskStates
  <2>4. UNCHANGED <<answer, heap, held, batcher, stale, exists, stopping, cut, short>>
    BY <1>11 DEF ThreadRaises
  <2> HIDE DEF Job, JobOf
  <2>5. QED
    BY <2>2, <2>3, <2>4 DEF DiskJobs, Owners, DiskStates
<1>12. CASE Stop
  <2>1. answer' \in [Writes -> Answers]
    BY <1>12, SettleType DEF Stop, Answers
  <2>2. jobs' \subseteq DiskJobs /\ cut' \subseteq Writes
    BY <1>12, CutLooseType DEF Stop
  <2>3. QED
    BY <1>12, <2>1, <2>2 DEF Stop, DiskJobs, Owners, DiskStates
<1>13. CASE StopFlushes
  BY <1>13 DEF StopFlushes
<1>14. ASSUME NEW j \in jobs, StopAnswers(j) PROVE DiskTypeOK'
  <2>1. answer' \in [Writes -> Answers]
    BY <1>14, SettleType DEF StopAnswers, Answers
  <2>2. QED
    BY <1>14, <2>1 DEF StopAnswers
<1>15. ASSUME NEW j \in jobs, StopRaises(j) PROVE DiskTypeOK'
  <2>1. Elems(j.batch) \subseteq Writes
    BY ElemsAreWrites
  <2>2. QED
    BY <1>15, <2>1 DEF StopRaises
<1>16. CASE StopGivesUp
  <2>1. jobs' \subseteq DiskJobs /\ cut' \subseteq Writes
    BY <1>16, CutLooseType DEF StopGivesUp
  <2>2. QED
    BY <1>16, <2>1 DEF StopGivesUp, DiskJobs, Owners, DiskStates
<1>17. CASE StopDrains
  <2>1. answer' \in [Writes -> Answers]
    BY <1>17, SettleType DEF StopDrains, Answers
  <2>2. QED
    BY <1>17, <2>1 DEF StopDrains
<1>18. CASE StopEnds
  BY <1>18 DEF StopEnds
<1>19. QED
  BY <1>1, <1>2, <1>3, <1>4, <1>5, <1>6, <1>7, <1>8, <1>9, <1>10, <1>11, <1>12, <1>13,
     <1>14, <1>15, <1>16, <1>17, <1>18
  DEF DiskNext, BatcherStep, ThreadStep, StopStep

\* Every reachable state of the manager is well typed.
THEOREM DiskTypeCorrect == DiskSpec => []DiskTypeOK
BY DiskTypeInit, DiskTypeStep, PTL DEF DiskSpec

\* Who is waiting for what: a file whose flush is not over has no request held, so
\* a flush of it cannot begin; the batcher waits for one flush or for none; once it
\* has ended it has no flush, and stop() goes through its own.
FlushInv ==
  /\ \A j \in jobs : (~Finished(j) \/ j.by = "batcher") => held[j.file] = <<>>
  /\ \A j \in jobs : j.by = "batcher" => batcher \in {"flushing", "sweeping"}
  /\ \A j, k \in jobs : j.by = "batcher" /\ k.by = "batcher" => j = k
  /\ \A j \in jobs : j.by = "stop" => stopping \in {"flushing", "raised"}
  /\ \A j \in jobs : j.by = "nobody" => stopping # "no"
  /\ \A f \in stale : held[f] # <<>>
  /\ stale # {} => batcher = "sweeping"
  /\ batcher = "ended" <=> stopping # "no"
  /\ stopping \notin {"no", "cancelled"} => \A f \in Files : held[f] = <<>>
  /\ OneThreadPerFile

LEMMA FlushInit == DiskInit => FlushInv
BY DEF DiskInit, FlushInv, OneThreadPerFile

LEMMA FlushStep == DiskTypeOK /\ FlushInv /\ [DiskNext]_diskVars => FlushInv'
<1> SUFFICES ASSUME DiskTypeOK, FlushInv, [DiskNext]_diskVars PROVE FlushInv'
  OBVIOUS
<1> USE WritesAreOfFiles DEF FlushInv, OneThreadPerFile, Finished, JobOf
<1>0. jobs \subseteq DiskJobs /\ held \in [Files -> Seq(Writes)] /\ stale \subseteq Files
  BY DEF DiskTypeOK, DiskJobs, Owners, DiskStates
<1>1. CASE UNCHANGED diskVars
  BY <1>1 DEF diskVars
<1>2. ASSUME NEW w \in Writes, WriteBlock(w) PROVE FlushInv'
  BY <1>2 DEF WriteBlock
<1>3. ASSUME NEW i \in DOMAIN heap, Take(i) PROVE FlushInv'
  <2>1. heap[i] \in Writes /\ FileOf[heap[i]] \in Files
    BY DEF DiskTypeOK
  <2> DEFINE f == FileOf[heap[i]]
             requests == [held EXCEPT ![f] = Append(@, heap[i])]
             new == Job("batcher", f, requests[f])
  <2>2. batcher = "waiting" /\ stopping = "no" /\ stale = {} /\ UNCHANGED <<stale, stopping>>
    BY <1>3 DEF Take
  <2>3. \A j \in jobs : j.by \notin {"batcher", "nobody", "stop"} \/ j.by \notin Owners
    BY <2>2, <1>0 DEF Owners
  <2>4. jobs = {}
    BY <2>3, <1>0 DEF DiskJobs, Owners
  <2>5. CASE Flush("batcher", f, requests, "flushing")
    <3>1. held' = [requests EXCEPT ![f] = <<>>] /\ held'[f] = <<>>
      BY <2>1, <2>5, <1>0 DEF Flush
    <3>2. jobs' = {new} /\ new.by = "batcher" /\ new.file = f
      BY <2>4, <2>5 DEF Flush, Job
    <3>3. batcher' = "flushing"
      BY <2>5 DEF Flush
    <3> HIDE DEF new, requests, f
    <3>4. QED
      BY <2>2, <3>1, <3>2, <3>3
  <2>6. CASE held' = requests /\ UNCHANGED <<jobs, batcher>>
    BY <2>2, <2>4, <2>6
  <2>7. QED
    BY <1>3, <2>5, <2>6 DEF Take
<1>4. ASSUME NEW f \in Files, Sweep(f) PROVE FlushInv'
  <2>1. batcher = "waiting" /\ stopping = "no" /\ UNCHANGED stopping
    BY <1>4 DEF Sweep
  <2>2. jobs = {}
    BY <2>1, <1>0 DEF DiskJobs, Owners
  <2> DEFINE new == Job("batcher", f, held[f])
  <2>3. jobs' = {new} /\ new.by = "batcher" /\ new.file = f
    BY <1>4, <2>2 DEF Sweep, Flush, Job
  <2>4. /\ held' = [held EXCEPT ![f] = <<>>] /\ batcher' = "sweeping"
        /\ stale' = {g \in Files : held[g] # <<>>} \ {f}
    BY <1>4 DEF Sweep, Flush
  <2>5. held'[f] = <<>> /\ \A g \in stale' : held'[g] # <<>>
    BY <2>4, <1>0
  <2> HIDE DEF new
  <2>6. QED
    BY <2>1, <2>3, <2>4, <2>5
<1>5. ASSUME NEW j \in jobs, BatcherAnswers(j) PROVE FlushInv'
  <2>1. j.by = "batcher" /\ stopping = "no" /\ UNCHANGED stopping
    BY <1>5 DEF BatcherAnswers
  <2>2. jobs = {j}
    BY <2>1, <1>0 DEF DiskJobs, Owners
  <2>3. CASE stale = {} /\ jobs' = jobs \ {j} /\ batcher' = "waiting" /\ UNCHANGED <<held, stale>>
    BY <2>1, <2>2, <2>3
  <2>4. ASSUME NEW f \in stale, stale' = stale \ {f},
               jobs' = (jobs \ {j}) \cup {Job("batcher", f, held[f])},
               held' = [held EXCEPT ![f] = <<>>], UNCHANGED batcher
        PROVE  FlushInv'
    <3> DEFINE new == Job("batcher", f, held[f])
    <3>1. jobs' = {new} /\ new.by = "batcher" /\ new.file = f
      BY <2>2, <2>4 DEF Job
    <3>2. held'[f] = <<>> /\ \A g \in stale' : held'[g] # <<>>
      BY <2>4, <1>0
    <3>3. batcher' = "sweeping"
      BY <2>4
    <3> HIDE DEF new
    <3>4. QED
      BY <2>1, <3>1, <3>2, <3>3
  <2>5. QED
    BY <1>5, <2>3, <2>4 DEF BatcherAnswers
<1>6. ASSUME NEW j \in jobs, BatcherFails(j) PROVE FlushInv'
  <2>1. j.by = "batcher" /\ stopping = "no"
    BY <1>6 DEF BatcherFails
  <2>2. jobs = {j}
    BY <2>1, <1>0 DEF DiskJobs, Owners
  <2>3. jobs' = {} /\ stale' = {} /\ batcher' \in {"resting", "waiting"} /\ UNCHANGED <<held, stopping>>
    BY <1>6, <2>2 DEF BatcherFails
  <2>4. QED
    BY <2>1, <2>3
<1>7. CASE BatcherRests
  BY <1>7 DEF BatcherRests
<1>8. ASSUME NEW j \in jobs, NEW a \in DiskStates, ~Finished(j),
             jobs' = (jobs \ {j}) \cup {[j EXCEPT !.at = a]},
             UNCHANGED <<held, batcher, stale, stopping>>
      PROVE  FlushInv'
  <2> DEFINE new == [j EXCEPT !.at = a]
  <2>1. new.by = j.by /\ new.file = j.file
    BY <1>0 DEF DiskJobs
  <2>2. held[j.file] = <<>>
    BY <1>8
  <2>3. ~Finished(j)
    BY <1>8
  <2>4. \A k \in jobs \ {j} : k.file # j.file \/ Finished(k)
    BY <2>3
  <2>5. \A k \in jobs' : k = new \/ k \in jobs \ {j}
    BY <1>8
  <2> HIDE DEF new
  <2>6. OneThreadPerFile'
    BY <2>1, <2>4, <2>5
  <2>7. \A k, m \in jobs' : k.by = "batcher" /\ m.by = "batcher" => k = m
    BY <2>1, <2>5
  <2>8. \A k \in jobs' : (~Finished(k) \/ k.by = "batcher") => held'[k.file] = <<>>
    BY <1>8, <2>1, <2>2, <2>5
  <2>9. \A k \in jobs' : \E m \in jobs : k.by = m.by
    BY <2>1, <2>5
  <2> HIDE DEF OneThreadPerFile, Finished
  <2>10. QED
    BY <1>8, <2>6, <2>7, <2>8, <2>9
<1>9. ASSUME NEW j \in jobs, ThreadStep(j) \/ ThreadRaises(j) PROVE FlushInv'
  <2>1. ~Finished(j) /\ UNCHANGED <<held, batcher, stale, stopping>>
    BY <1>9 DEF ThreadStep, ThreadBegins, ThreadCreates, ThreadWrites, ThreadRaises
  <2>2. \E a \in DiskStates : jobs' = (jobs \ {j}) \cup {[j EXCEPT !.at = a]}
    BY <1>9 DEF ThreadStep, ThreadBegins, ThreadCreates, ThreadWrites, ThreadRaises, DiskStates
  <2>3. QED
    BY <1>8, <2>1, <2>2
<1>10. CASE Stop
  <2>1. /\ stopping = "no" /\ stopping' = "cancelled" /\ batcher' = "ended" /\ stale' = {}
        /\ UNCHANGED held
    BY <1>10 DEF Stop
  <2>2. \A j \in jobs : j.by = "batcher"
    BY <2>1, <1>0 DEF DiskJobs, Owners
  <2>3. \A j \in jobs' : /\ j.by = "nobody"
                          /\ \E k \in jobs : j = [k EXCEPT !.by = "nobody"]
    <3>1. JobOf("batcher") = jobs
      BY <2>2 DEF JobOf
    <3>2. jobs' = {[k EXCEPT !.by = "nobody"] : k \in {k \in jobs : k.at # "queued"}}
      BY <1>10, <3>1 DEF Stop, CutLoose
    <3>3. \A k \in jobs : [k EXCEPT !.by = "nobody"].by = "nobody"
      BY <1>0 DEF DiskJobs
    <3>4. QED
      BY <3>2, <3>3
  <2>4. \A j \in jobs' : held[j.file] = <<>>
    <3>1. \A k \in jobs : [k EXCEPT !.by = "nobody"].file = k.file
      BY <1>0 DEF DiskJobs
    <3>2. \A k \in jobs : held[k.file] = <<>>
      BY <2>2
    <3>3. ASSUME NEW j \in jobs' PROVE held[j.file] = <<>>
      <4>1. PICK k \in jobs : j = [k EXCEPT !.by = "nobody"]
        BY <2>3
      <4>2. j.file = k.file
        BY <3>1, <4>1
      <4>3. QED
        BY <3>2, <4>2
    <3>4. QED
      BY <3>3
  <2>5. \A j, k \in jobs' : j = k
    BY <2>2, <2>3
  <2>6. QED
    BY <2>1, <2>3, <2>4, <2>5
<1>11. CASE StopFlushes
  <2> DEFINE new == {Job("stop", f, held[f]) : f \in {f \in Files : held[f] # <<>>}}
  <2>1. /\ stopping = "cancelled" /\ stopping' = "flushing" /\ UNCHANGED <<batcher, stale>>
        /\ jobs' = jobs \cup new /\ held' = [f \in Files |-> <<>>]
    BY <1>11 DEF StopFlushes
  <2>2. batcher = "ended" /\ stale = {}
    BY <2>1
  <2>3. \A j \in jobs : j.by = "nobody" /\ (Finished(j) \/ held[j.file] = <<>>)
    BY <2>1, <2>2, <1>0 DEF DiskJobs, Owners
  <2>4. \A j \in new : j.by = "stop" /\ j.file \in Files /\ held[j.file] # <<>>
    BY DEF Job
  <2>5. \A j, k \in new : j.file = k.file => j = k
    BY DEF Job
  <2>6. \A j \in jobs, k \in new : j.file # k.file \/ Finished(j)
    BY <2>3, <2>4
  <2>7. \A j \in jobs' : j.file \in Files /\ held'[j.file] = <<>>
    BY <2>1, <2>4, <1>0 DEF DiskJobs
  <2> HIDE DEF new
  <2>8. OneThreadPerFile'
    BY <2>1, <2>5, <2>6
  <2>9. QED
    BY <2>1, <2>2, <2>3, <2>4, <2>7, <2>8
<1>12. ASSUME NEW j \in jobs, StopAnswers(j) PROVE FlushInv'
  BY <1>12 DEF StopAnswers
<1>13. ASSUME NEW j \in jobs, StopRaises(j) PROVE FlushInv'
  BY <1>13 DEF StopRaises
<1>14. CASE StopGivesUp
  <2>1. stopping = "flushing" /\ UNCHANGED <<held, batcher, stale, stopping>>
    BY <1>14 DEF StopGivesUp
  <2>2. \A f \in Files : held[f] = <<>>
    BY <2>1
  <2> DEFINE loose(k) == [k EXCEPT !.by = "nobody"]
  <2>3. \A j \in jobs' : \/ j \in jobs /\ j.by # "stop"
                         \/ \E k \in jobs : k.by = "stop" /\ j = loose(k)
    BY <1>14 DEF StopGivesUp, CutLoose
  <2>4. \A k \in jobs : loose(k).by = "nobody" /\ loose(k).file = k.file /\ loose(k).at = k.at
    BY <1>0 DEF DiskJobs
  <2> HIDE DEF loose
  <2>5. \A j \in jobs' : /\ j.file \in Files /\ held'[j.file] = <<>>
                          /\ j.by = "nobody"
    BY <2>1, <2>2, <2>3, <2>4, <1>0 DEF DiskJobs, Owners
  <2>6. ASSUME NEW j \in jobs', NEW k \in jobs', j # k, j.file = k.file
        PROVE  Finished(j) \/ Finished(k)
    <3>1. PICK a \in jobs : (j = a /\ a.by # "stop") \/ (a.by = "stop" /\ j = loose(a))
      BY <2>3
    <3>2. PICK b \in jobs : (k = b /\ b.by # "stop") \/ (b.by = "stop" /\ k = loose(b))
      BY <2>3
    <3>3. a # b /\ a.file = b.file /\ a.at = j.at /\ b.at = k.at
      BY <2>4, <2>6, <3>1, <3>2
    <3>4. QED
      BY <3>3
  <2>7. QED
    BY <2>1, <2>2, <2>5, <2>6
<1>15. CASE StopDrains
  BY <1>15 DEF StopDrains
<1>16. CASE StopEnds
  BY <1>16 DEF StopEnds
<1>17. QED
  BY <1>1, <1>2, <1>3, <1>4, <1>5, <1>6, <1>7, <1>9, <1>10, <1>11, <1>12, <1>13, <1>14,
     <1>15, <1>16
  DEF DiskNext, BatcherStep, StopStep

\* Two threads are never in one file: none is ever created over another's data.
THEOREM ThreadsStayApart == DiskSpec => []OneThreadPerFile
<1>1. DiskSpec => []FlushInv
  BY DiskTypeInit, DiskTypeStep, FlushInit, FlushStep, PTL DEF DiskSpec
<1>2. FlushInv => OneThreadPerFile
  BY DEF FlushInv
<1>3. QED
  BY <1>1, <1>2, PTL

\* Where the request of an open future is (OpenIsInHand says that of each).
InHand(w) ==
  \/ w \in Elems(heap) \cup cut
  \/ w \in Elems(held[FileOf[w]])
  \/ \E j \in jobs : j.by # "nobody" /\ w \in Elems(j.batch)

\* A flush takes what was held for its file and leaves the rest where it was.
LEMMA FlushHands ==
  ASSUME NEW by \in {"batcher", "stop"}, NEW f \in Files, NEW requests \in [Files -> Seq(Writes)],
         NEW state, Flush(by, f, requests, state),
         NEW w \in Writes, w \in Elems(requests[FileOf[w]])
  PROVE  \/ w \in Elems(held'[FileOf[w]])
         \/ \E j \in jobs' : j.by # "nobody" /\ w \in Elems(j.batch)
<1>1. CASE FileOf[w] = f
  <2> DEFINE new == Job(by, f, requests[f])
  <2>1. new \in jobs' /\ new.by = by /\ new.batch = requests[f]
    BY DEF Flush, Job
  <2> HIDE DEF new
  <2>2. QED
    BY <1>1, <2>1
<1>2. CASE FileOf[w] # f
  <2>1. held'[FileOf[w]] = requests[FileOf[w]]
    BY <1>2, WritesAreOfFiles DEF Flush
  <2>2. QED
    BY <2>1
<1>3. QED
  BY <1>1, <1>2

\* Nothing that is cut loose is lost from sight: it is in cut.
LEMMA CutLooseHands ==
  ASSUME NEW gone \in SUBSET jobs, CutLoose(gone), UNCHANGED <<heap, held>>,
         NEW w \in Writes, InHand(w)
  PROVE  InHand(w)'
BY DEF InHand, CutLoose

\* Settling never opens a future.
LEMMA SettleCloses ==
  ASSUME NEW ws, NEW result, result # "pending", NEW w \in Writes,
         Settle(ws, result)[w] = "pending"
  PROVE  answer[w] = "pending" /\ w \notin ws
BY DEF Settle

LEMMA InHandStep ==
  ASSUME DiskTypeOK, FlushInv, [DiskNext]_diskVars, OpenIsInHand,
         NEW w \in Writes, answer'[w] = "pending"
  PROVE  InHand(w)'
<1>0. /\ jobs \subseteq DiskJobs /\ held \in [Files -> Seq(Writes)] /\ heap \in Seq(Writes)
      /\ stale \subseteq Files /\ FileOf[w] \in Files
      /\ answer[w] = "pending" => InHand(w)
  BY WritesAreOfFiles DEF DiskTypeOK, DiskJobs, Owners, DiskStates, OpenIsInHand, InHand
<1>1. CASE UNCHANGED diskVars
  BY <1>0, <1>1 DEF diskVars, InHand
<1>2. ASSUME NEW v \in Writes, WriteBlock(v) PROVE InHand(w)'
  <2>1. Elems(heap') = Elems(heap) \cup {v}
    BY <1>2, AppendElems, <1>0 DEF WriteBlock
  <2>2. CASE v = w
    BY <2>1, <2>2 DEF InHand
  <2>3. CASE v # w
    <3>1. answer[w] = "pending"
      BY <1>2, <2>3 DEF WriteBlock, DiskTypeOK
    <3>2. QED
      BY <1>0, <1>2, <2>1, <3>1 DEF InHand, WriteBlock
  <2>4. QED
    BY <2>2, <2>3
<1>3. ASSUME NEW i \in DOMAIN heap, Take(i) PROVE InHand(w)'
  <2> DEFINE f == FileOf[heap[i]]
             requests == [held EXCEPT ![f] = Append(@, heap[i])]
  <2>1. /\ heap[i] \in Writes /\ f \in Files /\ requests \in [Files -> Seq(Writes)]
        /\ Elems(heap) \subseteq Elems(heap') \cup {heap[i]}
    BY <1>3, <1>0, WithoutElems, AppendElems, WritesAreOfFiles DEF Take
  <2>2. InHand(w) /\ UNCHANGED cut
    BY <1>3, <1>0 DEF Take
  <2>3. Elems(requests[f]) = Elems(held[f]) \cup {heap[i]}
    BY <2>1, <1>0, AppendElems
  <2>4. \A g \in Files : g # f => requests[g] = held[g]
    BY <2>1, <1>0
  <2>5. \/ Flush("batcher", f, requests, "flushing")
        \/ held' = requests /\ UNCHANGED jobs
    BY <1>3 DEF Take
  <2>6. jobs \subseteq jobs'
    BY <2>5 DEF Flush
  <2>7. CASE w \in Elems(heap') \cup cut'
    BY <2>7 DEF InHand
  <2>8. CASE w = heap[i] \/ w \in Elems(held[FileOf[w]])
    <3>1. w \in Elems(requests[FileOf[w]])
      <4>1. CASE FileOf[w] = f
        BY <2>3, <2>8, <4>1
      <4>2. CASE FileOf[w] # f
        BY <1>0, <2>4, <2>8, <4>2
      <4>3. QED
        BY <4>1, <4>2
    <3> HIDE DEF f, requests
    <3>2. CASE Flush("batcher", f, requests, "flushing")
      BY <2>1, <3>1, <3>2, FlushHands DEF InHand
    <3>3. CASE held' = requests /\ UNCHANGED jobs
      BY <3>1, <3>3 DEF InHand
    <3>4. QED
      BY <2>5, <3>2, <3>3
  <2>9. CASE \E j \in jobs : j.by # "nobody" /\ w \in Elems(j.batch)
    BY <2>6, <2>9 DEF InHand
  <2>10. QED
    BY <2>1, <2>2, <2>7, <2>8, <2>9 DEF InHand
<1>4. ASSUME NEW f \in Files, Sweep(f) PROVE InHand(w)'
  <2>1. InHand(w) /\ UNCHANGED <<heap, cut>> /\ Flush("batcher", f, held, "sweeping")
    BY <1>4, <1>0 DEF Sweep
  <2>2. jobs \subseteq jobs'
    BY <2>1 DEF Flush
  <2>3. QED
    BY <1>0, <2>1, <2>2, FlushHands DEF InHand
<1>5. ASSUME NEW j \in jobs, BatcherAnswers(j) PROVE InHand(w)'
  <2>1. InHand(w) /\ w \notin Elems(j.batch) /\ UNCHANGED <<heap, cut>>
    BY <1>5, <1>0, SettleCloses DEF BatcherAnswers
  <2>2. CASE stale = {} /\ jobs' = jobs \ {j} /\ UNCHANGED held
    BY <2>1, <2>2 DEF InHand
  <2>3. ASSUME NEW f \in stale, jobs' = (jobs \ {j}) \cup {Job("batcher", f, held[f])},
               held' = [held EXCEPT ![f] = <<>>]
        PROVE  InHand(w)'
    <3> DEFINE new == Job("batcher", f, held[f])
    <3>1. new \in jobs' /\ new.by = "batcher" /\ new.batch = held[f]
      BY <2>3 DEF Job
    <3>2. jobs \ {j} \subseteq jobs' /\ \A g \in Files \ {f} : held'[g] = held[g]
      BY <2>3, <1>0
    <3> HIDE DEF new
    <3>3. CASE w \in Elems(held[FileOf[w]])
      <4>1. CASE FileOf[w] = f
        BY <3>1, <3>3, <4>1 DEF InHand
      <4>2. CASE FileOf[w] # f
        BY <1>0, <3>2, <3>3, <4>2 DEF InHand
      <4>3. QED
        BY <4>1, <4>2
    <3>4. CASE w \notin Elems(held[FileOf[w]])
      BY <2>1, <3>2, <3>4 DEF InHand
    <3>5. QED
      BY <3>3, <3>4
  <2>4. QED
    BY <1>5, <2>2, <2>3 DEF BatcherAnswers
<1>6. ASSUME NEW j \in jobs, BatcherFails(j) PROVE InHand(w)'
  BY <1>6, <1>0 DEF BatcherFails, InHand
<1>7. CASE BatcherRests
  BY <1>7, <1>0 DEF BatcherRests, InHand
<1>8. ASSUME NEW j \in jobs, ThreadStep(j) \/ ThreadRaises(j) PROVE InHand(w)'
  <2>1. InHand(w) /\ UNCHANGED <<heap, held, cut>>
    BY <1>8, <1>0 DEF ThreadStep, ThreadBegins, ThreadCreates, ThreadWrites, ThreadRaises
  <2>2. PICK a \in DiskStates : jobs' = (jobs \ {j}) \cup {[j EXCEPT !.at = a]}
    BY <1>8 DEF ThreadStep, ThreadBegins, ThreadCreates, ThreadWrites, ThreadRaises, DiskStates
  <2> DEFINE new == [j EXCEPT !.at = a]
  <2>3. new \in jobs' /\ new.by = j.by /\ new.batch = j.batch
    BY <1>0, <2>2 DEF DiskJobs
  <2>4. jobs \ {j} \subseteq jobs'
    BY <2>2
  <2> HIDE DEF new
  <2>5. QED
    BY <2>1, <2>3, <2>4 DEF InHand
<1>9. CASE Stop
  <2>1. answer[w] = "pending"
    BY <1>9, SettleCloses DEF Stop
  <2>2. QED
    BY <1>9, <1>0, <2>1, CutLooseHands DEF Stop, JobOf
<1>10. CASE StopFlushes
  <2>1. /\ InHand(w) /\ UNCHANGED <<heap, cut>> /\ jobs \subseteq jobs'
        /\ \A f \in Files : held[f] # <<>> => Job("stop", f, held[f]) \in jobs'
    BY <1>10, <1>0 DEF StopFlushes
  <2>2. CASE w \in Elems(held[FileOf[w]])
    <3> DEFINE new == Job("stop", FileOf[w], held[FileOf[w]])
    <3>1. held[FileOf[w]] # <<>>
      BY <2>2 DEF Elems
    <3>2. new \in jobs' /\ new.by = "stop" /\ new.batch = held[FileOf[w]]
      BY <1>0, <2>1, <3>1 DEF Job
    <3> HIDE DEF new
    <3>3. QED
      BY <2>2, <3>2 DEF InHand
  <2>3. CASE w \notin Elems(held[FileOf[w]])
    BY <2>1, <2>3 DEF InHand
  <2>4. QED
    BY <2>2, <2>3
<1>11. ASSUME NEW j \in jobs, StopAnswers(j) PROVE InHand(w)'
  BY <1>11, <1>0, SettleCloses DEF StopAnswers, InHand
<1>12. ASSUME NEW j \in jobs, StopRaises(j) PROVE InHand(w)'
  BY <1>12, <1>0 DEF StopRaises, InHand
<1>13. CASE StopGivesUp
  BY <1>13, <1>0, CutLooseHands DEF StopGivesUp, JobOf
<1>14. CASE StopDrains
  BY <1>14, <1>0, SettleCloses DEF StopDrains, InHand
<1>15. CASE StopEnds
  BY <1>15, <1>0 DEF StopEnds, InHand
<1>16. QED
  BY <1>1, <1>2, <1>3, <1>4, <1>5, <1>6, <1>7, <1>8, <1>9, <1>10, <1>11, <1>12, <1>13,
     <1>14, <1>15
  DEF DiskNext, BatcherStep, StopStep

\* An open future's request is queued, held, in a flush someone waits for, or cut.
THEOREM OpenWritesAreInHand == DiskSpec => []OpenIsInHand
<1>1. DiskInit => OpenIsInHand
  BY DEF DiskInit, OpenIsInHand
<1>2. DiskTypeOK /\ FlushInv /\ OpenIsInHand /\ [DiskNext]_diskVars => OpenIsInHand'
  BY InHandStep DEF OpenIsInHand, InHand
<1>3. QED
  BY <1>1, <1>2, DiskTypeInit, DiskTypeStep, FlushInit, FlushStep, PTL DEF DiskSpec

\* What stop() leaves open was cut, or asked for after it had emptied the queue.
THEOREM StopLeavesLittle == DiskSpec => []StopSettles
<1>1. DiskTypeOK /\ FlushInv /\ OpenIsInHand => StopSettles
  <2> SUFFICES ASSUME DiskTypeOK, FlushInv, OpenIsInHand, stopping = "stopped",
                      NEW w \in Writes, answer[w] = "pending"
               PROVE  w \in cut \cup Elems(heap)
    BY DEF StopSettles
  <2>1. held[FileOf[w]] = <<>>
    BY WritesAreOfFiles DEF FlushInv
  <2>2. w \notin Elems(held[FileOf[w]])
    BY <2>1 DEF Elems
  <2>3. ASSUME NEW j \in jobs, j.by # "nobody" PROVE FALSE
    <3>1. j.by \in {"batcher", "stop"}
      BY <2>3 DEF DiskTypeOK
    <3>2. batcher = "ended"
      BY DEF FlushInv
    <3>3. QED
      BY <3>1, <3>2 DEF FlushInv
  <2>4. QED
    BY <2>2, <2>3 DEF OpenIsInHand
<1>2. DiskSpec => [](DiskTypeOK /\ FlushInv)
  BY DiskTypeInit, DiskTypeStep, FlushInit, FlushStep, PTL DEF DiskSpec
<1>3. QED
  BY <1>1, <1>2, OpenWritesAreInHand, PTL

-----------------------------------------------------------------------------
(* What is on disk *)

Distinct(s) == \A i, k \in DOMAIN s : s[i] = s[k] => i = k

LEMMA AppendDistinct ==
  ASSUME NEW s \in Seq(Writes), Distinct(s), NEW w \in Writes, w \notin Elems(s)
  PROVE  Distinct(Append(s, w))
<1>1. \A i \in DOMAIN Append(s, w) :
         \/ i \in DOMAIN s /\ Append(s, w)[i] = s[i] /\ s[i] # w
         \/ i = Len(s) + 1 /\ Append(s, w)[i] = w
  BY DEF Elems
<1>2. QED
  BY <1>1 DEF Distinct

\* Without its i-th request a queue of different requests has the others.
LEMMA WithoutDistinct ==
  ASSUME NEW s \in Seq(Writes), Distinct(s), NEW i \in DOMAIN s
  PROVE  /\ Distinct(Without(s, i))
         /\ Elems(Without(s, i)) \subseteq Elems(s) \ {s[i]}
<1> DEFINE t == Without(s, i)
           from(k) == IF k < i THEN k ELSE k + 1
<1>1. Len(s) \in Nat /\ i \in 1 .. Len(s) /\ DOMAIN s = 1 .. Len(s)
  OBVIOUS
<1>2. DOMAIN t = 1 .. Len(s) - 1 /\ \A k \in DOMAIN t : t[k] = s[from(k)]
  BY <1>1 DEF Without
<1>3. \A k \in DOMAIN t : from(k) \in DOMAIN s \ {i}
  BY <1>1, <1>2
<1>4. \A k, m \in DOMAIN t : from(k) = from(m) => k = m
  BY <1>1, <1>2
<1> HIDE DEF t, from
<1>5. Distinct(t)
  BY <1>2, <1>3, <1>4 DEF Distinct
<1>6. Elems(t) \subseteq Elems(s) \ {s[i]}
  BY <1>2, <1>3 DEF Elems, Distinct
<1>7. QED
  BY <1>5, <1>6 DEF t

\* No two requests of one file are for the same place.
PlacesDiffer ==
  \A v, w \in Writes : FileOf[v] = FileOf[w] /\ PlaceOf[v] = PlaceOf[w] => v = w

\* The requests of a batch for one file.
Batch(s, f) == s \in Seq(Writes) /\ Distinct(s) /\ \A w \in Elems(s) : FileOf[w] = f

\* How far a request can be pushed behind the requests before it: the places
\* between two requests are enough for those that lie between them.
LEMMA RoomBetween ==
  ASSUME NEW S, NEW a \in Nat, NEW b \in Nat, a <= b,
         NEW place \in [S -> a + 1 .. b], \A m, n \in S : place[m] = place[n] => m = n
  PROVE  Cardinality(S) \in Nat /\ a + Cardinality(S) <= b
<1>1. place \in Injection(S, a + 1 .. b)
  BY DEF Injection, IsInjective
<1>2. /\ IsFiniteSet(a + 1 .. b)
      /\ Cardinality(a + 1 .. b) = IF a + 1 > b THEN 0 ELSE b - (a + 1) + 1
  BY FS_Interval
<1>3. Cardinality(a + 1 .. b) = b - a
  BY <1>2
<1>4. IsFiniteSet(S) /\ Cardinality(S) <= Cardinality(a + 1 .. b)
  BY <1>1, <1>2, FS_Injection
<1>5. Cardinality(S) \in Nat
  BY <1>4, FS_CardinalityType
<1>6. QED
  BY <1>3, <1>4, <1>5

\* Requests for different places land where they belong.
LEMMA LandsInPlace ==
  ASSUME PlacesDiffer, NEW s, NEW f, Batch(s, f), NEW k \in DOMAIN s
  PROVE  Landing(s, k) = PlaceOf[s[k]]
<1> DEFINE P(i) == PlaceOf[s[i]]
           between(i) == {m \in DOMAIN s : m # i /\ Before(s, i, m) /\ Before(s, m, k)}
           behind(i) == P(i) + Cardinality(between(i))
           starts == {behind(i) : i \in {i \in DOMAIN s : Before(s, i, k)}}
<1>1. \A i \in DOMAIN s : s[i] \in Writes /\ s[i] \in Elems(s)
  BY DEF Batch, Elems
<1>2. \A i \in DOMAIN s : P(i) \in Nat /\ i \in Int
  <2>1. \A w \in Writes : PlaceOf[w] \in Nat
    BY WritesAreOfFiles, PlacesAreOffsets
  <2>2. s \in Seq(Writes)
    BY DEF Batch
  <2>3. DOMAIN s \subseteq Int
    BY <2>2
  <2>4. QED
    BY <1>1, <2>1, <2>3
<1>3. \A i, m \in DOMAIN s : P(i) = P(m) => i = m
  BY <1>1 DEF Batch, Distinct, PlacesDiffer
<1>4. \A i, m \in DOMAIN s : Before(s, i, m) <=> P(i) < P(m) \/ i = m
  BY <1>2, <1>3 DEF Before
<1> HIDE DEF P
<1>5. ASSUME NEW i \in DOMAIN s, Before(s, i, k)
      PROVE  behind(i) \in Nat /\ behind(i) <= P(k)
  <2> DEFINE place == [m \in between(i) |-> P(m)]
  <2>1. P(i) <= P(k) /\ P(i) \in Nat /\ P(k) \in Nat
    BY <1>2, <1>4, <1>5
  <2>2. \A m \in between(i) : m \in DOMAIN s /\ P(i) < P(m) /\ P(m) <= P(k) /\ P(m) \in Nat
    BY <1>2, <1>4
  <2>3. place \in [between(i) -> P(i) + 1 .. P(k)]
    BY <2>1, <2>2
  <2>4. \A m, n \in between(i) : place[m] = place[n] => m = n
    BY <1>3, <2>2
  <2> HIDE DEF between, place
  <2>5. Cardinality(between(i)) \in Nat /\ P(i) + Cardinality(between(i)) <= P(k)
    BY <2>1, <2>3, <2>4, RoomBetween
  <2>6. QED
    BY <2>1, <2>5
<1>6. behind(k) = P(k) /\ behind(k) \in starts
  <2>1. between(k) = {}
    BY <1>2, <1>4
  <2>2. Cardinality(between(k)) = 0
    BY <2>1, FS_EmptySet
  <2>3. Before(s, k, k)
    BY <1>4
  <2>4. behind(k) \in starts
    BY <2>3
  <2>5. QED
    BY <1>2, <2>2, <2>4
<1>7. \A q \in starts : q \in Nat /\ q <= P(k)
  BY <1>5
<1>8. P(k) \in starts /\ P(k) \in Nat
  BY <1>2, <1>6
<1>9. Landing(s, k) = CHOOSE p \in starts : \A q \in starts : q <= p
  BY DEF Landing, P
<1> HIDE DEF starts
<1>10. \A p \in starts : (\A q \in starts : q <= p) => p = P(k)
  BY <1>7, <1>8
<1>11. QED
  BY <1>7, <1>8, <1>9, <1>10 DEF P

\* A batch is written to its places and nothing else is: no gap is filled.
LEMMA CombinedPlaces ==
  ASSUME PlacesDiffer, MergeGap = 0, NEW s, NEW f, Batch(s, f),
         NEW old \in [Places -> Writes \cup {Hole}]
  PROVE  /\ \A w \in Elems(s) : Combined(s, old)[PlaceOf[w]] = w
         /\ \A p \in Places : (\A w \in Elems(s) : PlaceOf[w] # p) => Combined(s, old)[p] = old[p]
<1>1. \A k \in DOMAIN s : Landing(s, k) = PlaceOf[s[k]]
  BY LandsInPlace
<1>2. \A k \in DOMAIN s : s[k] \in Writes /\ s[k] \in Elems(s) /\ PlaceOf[s[k]] \in Places
  BY WritesAreOfFiles DEF Batch, Elems
<1>3. \A k, m \in DOMAIN s : PlaceOf[s[k]] = PlaceOf[s[m]] => k = m
  BY <1>2 DEF Batch, Distinct, PlacesDiffer
<1>4. ASSUME NEW w \in Elems(s) PROVE Combined(s, old)[PlaceOf[w]] = w
  <2>1. PICK k \in DOMAIN s : s[k] = w
    BY DEF Elems
  <2>2. PlaceOf[w] \in Places /\ Landing(s, k) = PlaceOf[w]
    BY <1>1, <1>2, <2>1
  <2>3. (CHOOSE m \in DOMAIN s : Landing(s, m) = PlaceOf[w]) = k
    BY <1>1, <1>3, <2>1, <2>2
  <2>4. QED
    BY <2>1, <2>2, <2>3 DEF Combined
<1>5. ASSUME NEW p \in Places, \A w \in Elems(s) : PlaceOf[w] # p
      PROVE  Combined(s, old)[p] = old[p]
  <2>1. ~\E k \in DOMAIN s : Landing(s, k) = p
    BY <1>1, <1>2, <1>5
  <2>2. ~Filled(s, p)
    <3>1. SUFFICES ASSUME NEW i \in DOMAIN s, NEW k \in DOMAIN s,
                          Landing(s, i) < p, p < Landing(s, k),
                          Landing(s, k) - Landing(s, i) - 1 <= 0
                   PROVE  FALSE
      BY DEF Filled
    <3>2. Landing(s, i) \in Nat /\ Landing(s, k) \in Nat /\ p \in Nat
      BY <1>1, <1>2, PlacesAreOffsets
    <3>3. QED
      BY <3>1, <3>2
  <2>3. QED
    BY <2>1, <2>2 DEF Combined
<1>6. QED
  BY <1>4, <1>5

\* Each request is in the queue once, or held for its file once, and no batch has
\* a request twice or one of another file.
Asked(ws) == \A w \in ws : answer[w] # "unasked"
InOnePlace ==
  /\ Distinct(heap) /\ Asked(Elems(heap))
  /\ \A f \in Files : /\ Batch(held[f], f) /\ Asked(Elems(held[f]))
                      /\ Elems(heap) \cap Elems(held[f]) = {}
  /\ \A j \in jobs : Batch(j.batch, j.file) /\ Asked(Elems(j.batch))

LEMMA AskedStays ==
  ASSUME DiskTypeOK, [DiskNext]_diskVars, NEW w \in Writes, answer[w] # "unasked"
  PROVE  answer'[w] # "unasked"
<1>1. \A ws : Settle(ws, "ok")[w] # "unasked" /\ Settle(ws, "cancelled")[w] # "unasked"
  BY DEF Settle
<1>2. CASE \E v \in Writes : WriteBlock(v)
  BY <1>2 DEF WriteBlock, DiskTypeOK
<1>3. CASE BatcherStep
  <2>1. CASE \E i \in DOMAIN heap : Take(i)
    BY <2>1 DEF Take
  <2>2. CASE \E f \in Files : Sweep(f)
    BY <2>2 DEF Sweep
  <2>3. CASE BatcherRests \/ \E j \in jobs : BatcherAnswers(j) \/ BatcherFails(j)
    BY <1>1, <2>3 DEF BatcherAnswers, BatcherFails, BatcherRests
  <2>4. QED
    BY <1>3, <2>1, <2>2, <2>3 DEF BatcherStep
<1>4. CASE \E j \in jobs : ThreadStep(j) \/ ThreadRaises(j)
  BY <1>4 DEF ThreadStep, ThreadBegins, ThreadCreates, ThreadWrites, ThreadRaises
<1>5. CASE Stop \/ StopGivesUp
  BY <1>1, <1>5 DEF Stop, StopGivesUp
<1>6. CASE StopStep
  BY <1>1, <1>6 DEF StopStep, StopFlushes, StopAnswers, StopRaises, StopDrains, StopEnds
<1>7. CASE UNCHANGED diskVars
  BY <1>7 DEF diskVars
<1>8. QED
  BY <1>2, <1>3, <1>4, <1>5, <1>6, <1>7 DEF DiskNext

\* A step that takes no request from the queue keeps the batches: its jobs have
\* those of earlier jobs or what was held.
LEMMA BatchesAreKept ==
  ASSUME DiskTypeOK, InOnePlace,
         \A w \in Writes : answer[w] # "unasked" => answer'[w] # "unasked",
         heap' \in {heap, <<>>}, \A f \in Files : held'[f] \in {held[f], <<>>},
         \A j \in jobs' : \/ \E k \in jobs : j.batch = k.batch /\ j.file = k.file
                          \/ j.file \in Files /\ j.batch = held[j.file]
  PROVE  InOnePlace'
<1>1. Elems(<<>>) = {} /\ Distinct(<<>>) /\ \A f : Batch(<<>>, f)
  BY DEF Elems, Distinct, Batch
<1>2. Elems(heap) \subseteq Writes
  BY ElemsAreWrites DEF DiskTypeOK
<1>3. \A s, f : Batch(s, f) /\ Asked(Elems(s)) => Asked(Elems(s))'
  <2>1. SUFFICES ASSUME NEW s, NEW f, Batch(s, f), Asked(Elems(s)), NEW w \in Elems(s)
                 PROVE  answer'[w] # "unasked"
    BY DEF Asked, Elems
  <2>2. w \in Writes
    BY <2>1, ElemsAreWrites DEF Batch
  <2>3. QED
    BY <2>1, <2>2 DEF Asked
<1>4. Distinct(heap') /\ Asked(Elems(heap))' /\ Elems(heap') \subseteq Elems(heap)
  <2>1. CASE heap' = heap
    BY <1>2, <2>1 DEF InOnePlace, Asked
  <2>2. CASE heap' = <<>>
    BY <1>1, <2>2 DEF Asked
  <2>3. QED
    BY <2>1, <2>2
<1>5. ASSUME NEW f \in Files
      PROVE  /\ Batch(held'[f], f) /\ Asked(Elems(held[f]))'
             /\ Elems(heap') \cap Elems(held'[f]) = {}
  <2>1. CASE held'[f] = held[f]
    <3>1. Batch(held[f], f) /\ Asked(Elems(held[f])) /\ Elems(heap) \cap Elems(held[f]) = {}
      BY DEF InOnePlace
    <3>2. \A w \in Elems(held[f]) : answer'[w] # "unasked"
      BY <1>3, <3>1 DEF Asked, Elems
    <3>3. QED
      BY <1>4, <2>1, <3>1, <3>2 DEF Asked
  <2>2. CASE held'[f] = <<>>
    BY <1>1, <2>2 DEF Asked
  <2>3. QED
    BY <2>1, <2>2
<1>6. ASSUME NEW j \in jobs' PROVE Batch(j.batch, j.file) /\ Asked(Elems(j.batch))'
  <2>1. CASE \E k \in jobs : j.batch = k.batch /\ j.file = k.file
    BY <1>3, <2>1 DEF InOnePlace
  <2>2. CASE j.file \in Files /\ j.batch = held[j.file]
    BY <1>3, <2>2 DEF InOnePlace
  <2>3. QED
    BY <1>6, <2>1, <2>2
<1>7. QED
  BY <1>4, <1>5, <1>6 DEF InOnePlace

LEMMA InOnePlaceInit == DiskInit => InOnePlace
BY DEF DiskInit, InOnePlace, Batch, Distinct, Elems, Asked

LEMMA InOnePlaceStep ==
  ASSUME DiskTypeOK, InOnePlace, [DiskNext]_diskVars
  PROVE  InOnePlace'
<1> USE WritesAreOfFiles
<1>0. \A w \in Writes : answer[w] # "unasked" => answer'[w] # "unasked"
  BY AskedStays
<1>1. /\ heap \in Seq(Writes) /\ held \in [Files -> Seq(Writes)]
      /\ jobs \subseteq DiskJobs
  BY DEF DiskTypeOK, DiskJobs, Owners, DiskStates
<1>2. ASSUME NEW w \in Writes, WriteBlock(w) PROVE InOnePlace'
  <2>1. heap' = Append(heap, w) /\ answer[w] = "unasked" /\ answer'[w] # "unasked"
    BY <1>2 DEF WriteBlock, DiskTypeOK
  <2>2. UNCHANGED <<held, jobs>>
    BY <1>2 DEF WriteBlock
  <2>3. w \notin Elems(heap) /\ \A f \in Files : w \notin Elems(held[f])
    BY <2>1 DEF InOnePlace, Asked
  <2>4. Distinct(heap') /\ Elems(heap') = Elems(heap) \cup {w}
    BY <1>1, <2>1, <2>3, AppendDistinct, AppendElems DEF InOnePlace
  <2>5. Elems(heap) \subseteq Writes
    BY <1>1, ElemsAreWrites
  <2>6. \A v \in Elems(heap') : answer'[v] # "unasked"
    BY <1>0, <2>1, <2>4, <2>5 DEF InOnePlace, Asked
  <2>7. ASSUME NEW f \in Files
        PROVE  /\ Batch(held[f], f) /\ Elems(heap') \cap Elems(held[f]) = {}
               /\ \A v \in Elems(held[f]) : answer'[v] # "unasked"
    <3>1. Batch(held[f], f) /\ Elems(held[f]) \subseteq Writes
      BY <1>1, ElemsAreWrites DEF InOnePlace
    <3>2. QED
      BY <1>0, <2>3, <2>4, <3>1 DEF InOnePlace, Asked
  <2>8. ASSUME NEW j \in jobs
        PROVE  Batch(j.batch, j.file) /\ \A v \in Elems(j.batch) : answer'[v] # "unasked"
    <3>1. Batch(j.batch, j.file) /\ Elems(j.batch) \subseteq Writes
      BY <1>1, ElemsAreWrites DEF InOnePlace, DiskJobs
    <3>2. QED
      BY <1>0, <3>1 DEF InOnePlace, Asked
  <2>9. QED
    BY <2>2, <2>4, <2>6, <2>7, <2>8 DEF InOnePlace, Asked
<1>3. ASSUME NEW i \in DOMAIN heap, Take(i) PROVE InOnePlace'
  <2> DEFINE w == heap[i]
             g == FileOf[w]
             requests == [held EXCEPT ![g] = Append(@, w)]
             new == Job("batcher", g, requests[g])
  <2>1. w \in Writes /\ w \in Elems(heap) /\ g \in Files
    BY <1>1 DEF Elems
  <2>2. heap' = Without(heap, i) /\ UNCHANGED answer
    BY <1>3 DEF Take
  <2>3. /\ Distinct(heap') /\ Elems(heap') \subseteq Elems(heap) \ {w}
        /\ heap' \in Seq(Writes)
    BY <1>1, <2>2, WithoutDistinct, WithoutElems DEF InOnePlace
  <2>4. requests \in [Files -> Seq(Writes)] /\ requests[g] = Append(held[g], w)
    BY <1>1, <2>1, AppendElems
  <2>5. held[g] \in Seq(Writes) /\ Distinct(held[g]) /\ w \notin Elems(held[g])
    BY <1>1, <2>1 DEF InOnePlace, Batch
  <2>6. Distinct(requests[g]) /\ Elems(requests[g]) = Elems(held[g]) \cup {w}
    BY <2>1, <2>4, <2>5, AppendDistinct, AppendElems
  <2>7. \A f \in Files \ {g} : requests[f] = held[f]
    BY <1>1
  <2> HIDE DEF w, g, requests
  <2>8. ASSUME NEW f \in Files
        PROVE  /\ Batch(requests[f], f) /\ Asked(Elems(requests[f]))
               /\ Elems(heap') \cap Elems(requests[f]) = {}
    <3>1. CASE f = g
      <4>1. Batch(requests[f], f)
        BY <2>4, <2>6, <3>1 DEF InOnePlace, Batch, g
      <4>2. QED
        BY <2>1, <2>3, <2>6, <3>1, <4>1 DEF InOnePlace, Asked
    <3>2. CASE f # g
      BY <2>3, <2>7, <3>2 DEF InOnePlace
    <3>3. QED
      BY <3>1, <3>2
  <2>9. \A v \in Elems(heap') : answer[v] # "unasked"
    BY <2>3 DEF InOnePlace, Asked
  <2>10. CASE Flush("batcher", g, requests, "flushing")
    <3>1. held' = [requests EXCEPT ![g] = <<>>] /\ jobs' = jobs \cup {new}
      BY <2>10 DEF Flush
    <3>2. new.file = g /\ new.batch = requests[g]
      BY DEF Job
    <3>3. Batch(new.batch, new.file) /\ Asked(Elems(new.batch))
      BY <2>1, <2>8, <3>2
    <3>4. Elems(<<>>) = {} /\ \A f : Batch(<<>>, f)
      BY DEF Elems, Distinct, Batch
    <3>5. ASSUME NEW f \in Files
          PROVE  /\ Batch(held'[f], f) /\ Asked(Elems(held'[f]))
                 /\ Elems(heap') \cap Elems(held'[f]) = {}
      <4>1. CASE f = g
        BY <2>1, <2>4, <3>1, <3>4, <4>1 DEF Asked
      <4>2. CASE f # g
        BY <2>4, <2>8, <3>1, <4>2
      <4>3. QED
        BY <4>1, <4>2
    <3> HIDE DEF new
    <3>6. \A j \in jobs' : Batch(j.batch, j.file) /\ Asked(Elems(j.batch))
      BY <3>1, <3>3 DEF InOnePlace
    <3>7. QED
      BY <2>2, <2>3, <2>9, <3>5, <3>6 DEF InOnePlace, Asked
  <2>11. CASE held' = requests /\ UNCHANGED <<jobs, batcher>>
    <3>1. \A j \in jobs' : Batch(j.batch, j.file) /\ Asked(Elems(j.batch))
      BY <2>11 DEF InOnePlace
    <3>2. \A f \in Files : /\ Batch(held'[f], f) /\ Asked(Elems(held'[f]))
                            /\ Elems(heap') \cap Elems(held'[f]) = {}
      BY <2>8, <2>11
    <3>3. QED
      BY <2>2, <2>3, <2>9, <3>1, <3>2 DEF InOnePlace, Asked
  <2>12. QED
    BY <1>3, <2>10, <2>11 DEF Take, w, g, requests
<1>4. ASSUME heap' \in {heap, <<>>}, \A f \in Files : held'[f] \in {held[f], <<>>},
             \A j \in jobs' : \/ \E k \in jobs : j.batch = k.batch /\ j.file = k.file
                              \/ j.file \in Files /\ j.batch = held[j.file]
      PROVE  InOnePlace'
  BY <1>0, <1>4, BatchesAreKept
<1>5. ASSUME NEW f \in Files, Sweep(f) PROVE InOnePlace'
  BY <1>1, <1>4, <1>5 DEF Sweep, Flush, Job
<1>6. ASSUME NEW j \in jobs, BatcherAnswers(j) PROVE InOnePlace'
  <2>1. heap' = heap
    BY <1>6 DEF BatcherAnswers
  <2>2. CASE stale = {} /\ jobs' = jobs \ {j} /\ batcher' = "waiting" /\ UNCHANGED <<held, stale>>
    BY <1>4, <2>1, <2>2
  <2>3. ASSUME NEW f \in stale, jobs' = (jobs \ {j}) \cup {Job("batcher", f, held[f])},
               held' = [held EXCEPT ![f] = <<>>]
        PROVE  InOnePlace'
    <3>1. f \in Files
      BY DEF DiskTypeOK
    <3>2. QED
      BY <1>1, <1>4, <2>1, <2>3, <3>1 DEF Job
  <2>4. QED
    BY <1>6, <2>2, <2>3 DEF BatcherAnswers
<1>7. ASSUME NEW j \in jobs, BatcherFails(j) \/ StopAnswers(j) \/ StopRaises(j) PROVE InOnePlace'
  BY <1>4, <1>7 DEF BatcherFails, StopAnswers, StopRaises
<1>8. CASE BatcherRests \/ StopDrains \/ StopEnds \/ UNCHANGED diskVars
  BY <1>4, <1>8 DEF BatcherRests, StopDrains, StopEnds, diskVars
<1>9. ASSUME NEW j \in jobs, ThreadStep(j) \/ ThreadRaises(j) PROVE InOnePlace'
  <2>1. /\ UNCHANGED <<heap, held>>
        /\ \E a \in DiskStates : jobs' = (jobs \ {j}) \cup {[j EXCEPT !.at = a]}
    BY <1>9 DEF ThreadStep, ThreadBegins, ThreadCreates, ThreadWrites, ThreadRaises, DiskStates
  <2>2. \A a : [j EXCEPT !.at = a].batch = j.batch /\ [j EXCEPT !.at = a].file = j.file
    BY <1>1 DEF DiskJobs
  <2>3. \A k \in jobs' : \E m \in jobs : k.batch = m.batch /\ k.file = m.file
    BY <2>1, <2>2
  <2>4. QED
    BY <1>4, <2>1, <2>3
<1>10. CASE Stop \/ StopGivesUp
  <2>1. UNCHANGED <<heap, held>>
    BY <1>10 DEF Stop, StopGivesUp
  <2>2. PICK gone \in SUBSET jobs : CutLoose(gone)
    BY <1>10 DEF Stop, StopGivesUp, JobOf
  <2>3. \A j \in jobs : /\ [j EXCEPT !.by = "nobody"].batch = j.batch
                        /\ [j EXCEPT !.by = "nobody"].file = j.file
    BY <1>1 DEF DiskJobs
  <2>4. \A j \in jobs' : \E k \in jobs : j.batch = k.batch /\ j.file = k.file
    <3> DEFINE loose(k) == [k EXCEPT !.by = "nobody"]
    <3>1. jobs' = (jobs \ gone) \cup {loose(k) : k \in {k \in gone : k.at # "queued"}}
      BY <2>2 DEF CutLoose
    <3>2. \A k \in jobs : loose(k).batch = k.batch /\ loose(k).file = k.file
      BY <2>3
    <3> HIDE DEF loose
    <3>3. QED
      BY <3>1, <3>2
  <2>5. QED
    BY <1>4, <2>1, <2>4
<1>11. CASE StopFlushes
  BY <1>4, <1>11 DEF StopFlushes, Job
<1>12. QED
  BY <1>2, <1>3, <1>5, <1>6, <1>7, <1>8, <1>9, <1>10, <1>11
  DEF DiskNext, BatcherStep, StopStep

-----------------------------------------------------------------------------
(* Each request is handled once *)

\* What is held for two files is not the same.
LEMMA HeldApart ==
  ASSUME InOnePlace, NEW f \in Files, NEW g \in Files, f # g
  PROVE  Elems(held[f]) \cap Elems(held[g]) = {}
<1>1. Batch(held[f], f) /\ Batch(held[g], g)
  BY DEF InOnePlace
<1>2. (\A w \in Elems(held[f]) : FileOf[w] = f) /\ (\A w \in Elems(held[g]) : FileOf[w] = g)
  BY <1>1 DEF Batch
<1>3. QED
  BY <1>2

\* What is held once nothing is held for f any more.
LEMMA HeldWithout ==
  ASSUME InOnePlace, held \in [Files -> Seq(Writes)], NEW f \in Files, held' = [held EXCEPT ![f] = <<>>]
  PROVE  Held' = Held \ Elems(held[f]) /\ Elems(held[f]) \subseteq Held
<1>1. Elems(<<>>) = {}
  BY DEF Elems
<1>2. \A g \in Files : Elems(held'[g]) = IF g = f THEN {} ELSE Elems(held[g])
  BY <1>1
<1>3. \A g \in Files : Elems(held[g]) \cap Elems(held[f]) = IF g = f THEN Elems(held[f]) ELSE {}
  BY HeldApart
<1>4. Held' = UNION {IF g = f THEN {} ELSE Elems(held[g]) : g \in Files}
  BY <1>2 DEF Held
<1>5. Held = UNION {Elems(held[g]) : g \in Files}
  BY DEF Held
<1>6. Elems(held[f]) \subseteq Held
  BY <1>5
<1>7. ASSUME NEW w \in Held' PROVE w \in Held \ Elems(held[f])
  <2>1. PICK g \in Files : g # f /\ w \in Elems(held[g])
    BY <1>4, <1>7
  <2>2. w \notin Elems(held[f])
    BY <1>3, <2>1
  <2>3. QED
    BY <1>5, <2>1, <2>2
<1>8. ASSUME NEW w \in Held \ Elems(held[f]) PROVE w \in Held'
  <2>1. PICK g \in Files : w \in Elems(held[g])
    BY <1>5, <1>8
  <2>2. g # f
    BY <1>8, <2>1
  <2>3. QED
    BY <1>4, <2>1, <2>2
<1>9. QED
  BY <1>6, <1>7, <1>8

\* No request comes to be waiting, and none of those is in two places.
LessWaits ==
  /\ Elems(heap') \cup Held' \subseteq Elems(heap) \cup Held
  /\ Elems(heap') \cap Held' = {}

\* A step that starts no flush.
LEMMA NoFlush ==
  ASSUME HandledOnce, LessWaits, jobs' \subseteq jobs, cut' = cut
  PROVE  HandledOnce'
BY DEF HandledOnce, LessWaits

\* A step that starts one flush, of requests that waited.
LEMMA OneFlush ==
  ASSUME HandledOnce, LessWaits, cut' = cut,
         NEW gone, NEW new, jobs' = (jobs \ gone) \cup {new},
         Elems(new.batch) \subseteq Elems(heap) \cup Held,
         Elems(new.batch) \cap (Elems(heap') \cup Held') = {}
  PROVE  HandledOnce'
<1>1. \A j \in jobs : /\ Elems(j.batch) \cap Elems(new.batch) = {}
                      /\ Elems(j.batch) \cap (Elems(heap') \cup Held') = {}
  BY DEF HandledOnce, LessWaits
<1>2. cut \cap Elems(new.batch) = {} /\ cut \cap (Elems(heap') \cup Held') = {}
  BY DEF HandledOnce, LessWaits
<1>3. QED
  BY <1>1, <1>2 DEF HandledOnce, LessWaits

\* A thread goes on with its job.
LEMMA JobGoesOn ==
  ASSUME HandledOnce, NEW j \in jobs, NEW m, m.batch = j.batch, m.by = j.by,
         jobs' = (jobs \ {j}) \cup {m}, UNCHANGED <<heap, held, cut>>
  PROVE  HandledOnce'
BY DEF HandledOnce, Held

\* A flush that raised has no job any more.
LEMMA JobRaised ==
  ASSUME HandledOnce, NEW j \in jobs, j.by # "nobody",
         jobs' = jobs \ {j}, cut' = cut \cup Elems(j.batch), UNCHANGED <<heap, held>>
  PROVE  HandledOnce'
BY DEF HandledOnce, Held

\* What is cut loose is nobody's.
LEMMA JobsCut ==
  ASSUME DiskTypeOK, HandledOnce, NEW gone \in SUBSET jobs, CutLoose(gone), UNCHANGED <<heap, held>>
  PROVE  HandledOnce'
<1> DEFINE loose(k) == [k EXCEPT !.by = "nobody"]
<1>1. \A k \in jobs : loose(k).batch = k.batch /\ loose(k).by = "nobody"
  BY DEF DiskTypeOK
<1>2. jobs' = (jobs \ gone) \cup {loose(k) : k \in {k \in gone : k.at # "queued"}}
  BY DEF CutLoose
<1>3. cut' = cut \cup UNION {Elems(j.batch) : j \in gone}
  BY DEF CutLoose
<1> HIDE DEF loose
<1>4. \A j \in jobs' : \/ j \in jobs \ gone
                       \/ \E k \in gone : j = loose(k) /\ j.batch = k.batch /\ j.by = "nobody"
  BY <1>1, <1>2
<1>5. Held' = Held /\ Elems(heap') = Elems(heap)
  BY DEF Held
<1>6. ASSUME NEW j \in jobs'
      PROVE  Elems(j.batch) \cap (Elems(heap') \cup Held') = {}
  BY <1>4, <1>5 DEF HandledOnce
<1>7. ASSUME NEW j \in jobs', NEW m \in jobs', j # m
      PROVE  Elems(j.batch) \cap Elems(m.batch) = {}
  <2>1. PICK k \in jobs : j.batch = k.batch /\ ((j = k /\ k \notin gone) \/ (j = loose(k) /\ k \in gone))
    BY <1>4
  <2>2. PICK l \in jobs : m.batch = l.batch /\ ((m = l /\ l \notin gone) \/ (m = loose(l) /\ l \in gone))
    BY <1>4
  <2>3. k # l
    BY <1>7, <2>1, <2>2
  <2>4. QED
    BY <2>1, <2>2, <2>3 DEF HandledOnce
<1>8. ASSUME NEW j \in jobs', j.by # "nobody"
      PROVE  Elems(j.batch) \cap cut' = {}
  <2>1. j \in jobs \ gone
    BY <1>4, <1>8
  <2>2. \A k \in gone : Elems(j.batch) \cap Elems(k.batch) = {}
    BY <2>1 DEF HandledOnce
  <2>3. Elems(j.batch) \cap cut = {}
    BY <1>8, <2>1 DEF HandledOnce
  <2>4. QED
    BY <1>3, <2>2, <2>3
<1>9. cut' \cap (Elems(heap') \cup Held') = {} /\ Elems(heap') \cap Held' = {}
  <2>1. \A k \in gone : Elems(k.batch) \cap (Elems(heap) \cup Held) = {}
    BY DEF HandledOnce
  <2>2. cut \cap (Elems(heap) \cup Held) = {} /\ Elems(heap) \cap Held = {}
    BY DEF HandledOnce
  <2>3. QED
    BY <1>3, <1>5, <2>1, <2>2
<1>10. QED
  BY <1>6, <1>7, <1>8, <1>9 DEF HandledOnce

HandsInv == HandledOnce /\ Asked(cut)

\* Only requests of a flush are cut.
LEMMA CutIsAsked ==
  ASSUME DiskTypeOK, InOnePlace, Asked(cut), [DiskNext]_diskVars
  PROVE  Asked(cut)'
<1>1. \A w \in Writes : answer[w] # "unasked" => answer'[w] # "unasked"
  BY AskedStays
<1>2. \A j \in jobs : Elems(j.batch) \subseteq Writes /\ Asked(Elems(j.batch))
  BY ElemsAreWrites DEF DiskTypeOK, InOnePlace
<1>3. cut' \subseteq cut \cup UNION {Elems(j.batch) : j \in jobs}
  <2>1. CASE \E j \in jobs : BatcherFails(j) \/ StopRaises(j)
    BY <2>1 DEF BatcherFails, StopRaises
  <2>2. CASE Stop \/ StopGivesUp
    BY <2>2 DEF Stop, StopGivesUp, CutLoose, JobOf
  <2>3. CASE cut' = cut
    BY <2>3
  <2>4. QED
    BY <2>1, <2>2, <2>3
    DEF DiskNext, BatcherStep, StopStep, ThreadStep, WriteBlock, Take, Sweep, BatcherAnswers, BatcherRests,
        ThreadBegins, ThreadCreates, ThreadWrites, ThreadRaises, StopFlushes, StopAnswers, StopDrains,
        StopEnds, diskVars
<1>4. cut \subseteq Writes
  BY DEF DiskTypeOK
<1>5. \A w \in cut' : w \in Writes /\ answer[w] # "unasked"
  BY <1>2, <1>3, <1>4 DEF Asked
<1>6. QED
  BY <1>1, <1>5 DEF Asked

LEMMA HandsStep ==
  ASSUME DiskTypeOK, InOnePlace, HandsInv, [DiskNext]_diskVars
  PROVE  HandsInv'
<1>0. HandledOnce /\ Asked(cut) /\ Asked(cut)'
  BY CutIsAsked DEF HandsInv
<1> SUFFICES HandledOnce'
  BY <1>0 DEF HandsInv
<1>1. /\ heap \in Seq(Writes) /\ held \in [Files -> Seq(Writes)]
      /\ jobs \subseteq DiskJobs /\ cut \subseteq Writes /\ stale \subseteq Files
  BY DEF DiskTypeOK, DiskJobs, Owners, DiskStates
<1>2. Elems(heap) \cap Held = {}
  BY <1>0 DEF HandledOnce
<1>3. ASSUME NEW f \in Files, heap' = heap, held' = [held EXCEPT ![f] = <<>>], cut' = cut,
             NEW gone, jobs' = (jobs \ gone) \cup {Job("batcher", f, held[f])}
      PROVE  HandledOnce'
  <2> DEFINE new == Job("batcher", f, held[f])
  <2>1. new.batch = held[f]
    BY DEF Job
  <2>2. Held' = Held \ Elems(held[f]) /\ Elems(held[f]) \subseteq Held
    BY <1>1, <1>3, HeldWithout
  <2>3. LessWaits
    BY <1>2, <1>3, <2>2 DEF LessWaits
  <2>4. jobs' = (jobs \ gone) \cup {new}
    BY <1>3
  <2> HIDE DEF new
  <2>5. Elems(new.batch) \subseteq Elems(heap) \cup Held
    BY <2>1, <2>2
  <2>6. Elems(new.batch) \cap (Elems(heap') \cup Held') = {}
    BY <1>2, <1>3, <2>1, <2>2
  <2>7. QED
    BY <1>0, <1>3, <2>3, <2>4, <2>5, <2>6, OneFlush
<1>4. ASSUME UNCHANGED <<held, cut>>, jobs' \subseteq jobs, heap' \in {heap, <<>>} PROVE HandledOnce'
  <2>1. Held' = Held /\ Elems(heap') \subseteq Elems(heap)
    BY <1>4 DEF Held, Elems
  <2>2. LessWaits
    BY <1>2, <2>1 DEF LessWaits
  <2>3. QED
    BY <1>0, <1>4, <2>2, NoFlush
<1>5. ASSUME NEW w \in Writes, WriteBlock(w) PROVE HandledOnce'
  <2>1. answer[w] = "unasked" /\ heap' = Append(heap, w) /\ UNCHANGED <<held, jobs, cut>>
    BY <1>5 DEF WriteBlock
  <2>2. Elems(heap') = Elems(heap) \cup {w} /\ Held' = Held
    BY <1>1, <2>1, AppendElems DEF Held
  <2>3. w \notin cut /\ \A j \in jobs : w \notin Elems(j.batch)
    BY <1>0, <2>1 DEF InOnePlace, Asked
  <2>4. w \notin Held
    BY <2>1 DEF InOnePlace, Asked, Held
  <2>5. QED
    BY <1>0, <2>1, <2>2, <2>3, <2>4 DEF HandledOnce
<1>6. ASSUME NEW i \in DOMAIN heap, Take(i) PROVE HandledOnce'
  <2> DEFINE w == heap[i]
             g == FileOf[w]
             requests == [held EXCEPT ![g] = Append(@, w)]
             new == Job("batcher", g, requests[g])
  <2>1. w \in Writes /\ w \in Elems(heap) /\ g \in Files
    BY <1>1, WritesAreOfFiles DEF Elems
  <2>2. heap' = Without(heap, i) /\ cut' = cut
    BY <1>6 DEF Take
  <2>3. Elems(heap') \subseteq Elems(heap) \ {w}
    BY <1>1, <2>2, WithoutDistinct DEF InOnePlace
  <2>4. /\ requests \in [Files -> Seq(Writes)] /\ Elems(requests[g]) = Elems(held[g]) \cup {w}
        /\ \A f \in Files \ {g} : requests[f] = held[f]
    BY <1>1, <2>1, AppendElems
  <2>5. Elems(held[g]) \subseteq Held /\ w \notin Held
    BY <1>2, <2>1 DEF Held
  <2> HIDE DEF w, g, requests
  <2>6. CASE Flush("batcher", g, requests, "flushing")
    <3>1. held' = [requests EXCEPT ![g] = <<>>] /\ jobs' = (jobs \ {}) \cup {new}
      BY <2>6 DEF Flush
    <3>2. held' = [held EXCEPT ![g] = <<>>]
      BY <1>1, <2>1, <2>4, <3>1
    <3>3. Held' = Held \ Elems(held[g])
      BY <1>1, <2>1, <3>2, HeldWithout
    <3>4. new.batch = requests[g]
      BY DEF Job
    <3> HIDE DEF new
    <3>5. LessWaits
      BY <1>2, <2>3, <3>3 DEF LessWaits
    <3>6. Elems(new.batch) \subseteq Elems(heap) \cup Held
      BY <2>1, <2>4, <2>5, <3>4
    <3>7. Elems(new.batch) \cap (Elems(heap') \cup Held') = {}
      BY <1>2, <2>3, <2>4, <2>5, <3>3, <3>4
    <3>8. QED
      BY <1>0, <2>2, <3>1, <3>5, <3>6, <3>7, OneFlush
  <2>7. CASE held' = requests /\ UNCHANGED <<jobs, batcher>>
    <3>1. \A f \in Files : Elems(held'[f]) \subseteq Elems(held[f]) \cup {w}
      BY <2>1, <2>4, <2>7
    <3>2. Held' \subseteq Held \cup {w}
      BY <3>1 DEF Held
    <3>3. LessWaits
      BY <1>2, <2>1, <2>3, <3>2 DEF LessWaits
    <3>4. QED
      BY <1>0, <2>2, <2>7, <3>3, NoFlush
  <2>8. QED
    BY <1>6, <2>6, <2>7 DEF Take, w, g, requests
<1>7. ASSUME NEW f \in Files, Sweep(f) PROVE HandledOnce'
  <2>1. jobs' = (jobs \ {}) \cup {Job("batcher", f, held[f])}
    BY <1>7 DEF Sweep, Flush
  <2>2. heap' = heap /\ cut' = cut /\ held' = [held EXCEPT ![f] = <<>>]
    BY <1>7 DEF Sweep, Flush
  <2>3. QED
    BY <1>3, <2>1, <2>2
<1>8. ASSUME NEW j \in jobs, BatcherAnswers(j) PROVE HandledOnce'
  <2>1. heap' = heap /\ cut' = cut
    BY <1>8 DEF BatcherAnswers
  <2>2. CASE jobs' = jobs \ {j} /\ held' = held
    BY <1>4, <2>1, <2>2
  <2>3. ASSUME NEW f \in stale, jobs' = (jobs \ {j}) \cup {Job("batcher", f, held[f])},
               held' = [held EXCEPT ![f] = <<>>]
        PROVE  HandledOnce'
    BY <1>1, <1>3, <2>1, <2>3
  <2>4. QED
    BY <1>8, <2>2, <2>3 DEF BatcherAnswers
<1>9. ASSUME NEW j \in jobs, BatcherFails(j) \/ StopRaises(j) PROVE HandledOnce'
  <2>1. /\ j.by # "nobody" /\ jobs' = jobs \ {j} /\ cut' = cut \cup Elems(j.batch)
        /\ UNCHANGED <<heap, held>>
    BY <1>9 DEF BatcherFails, StopRaises, JobOf
  <2>2. QED
    BY <1>0, <2>1, JobRaised
<1>10. ASSUME NEW j \in jobs, StopAnswers(j) PROVE HandledOnce'
  BY <1>4, <1>10 DEF StopAnswers
<1>11. CASE BatcherRests \/ StopDrains \/ StopEnds \/ UNCHANGED diskVars
  BY <1>4, <1>11 DEF BatcherRests, StopDrains, StopEnds, diskVars
<1>12. ASSUME NEW j \in jobs, ThreadStep(j) \/ ThreadRaises(j) PROVE HandledOnce'
  <2>1. UNCHANGED <<heap, held, cut>>
    BY <1>12 DEF ThreadStep, ThreadBegins, ThreadCreates, ThreadWrites, ThreadRaises
  <2>2. PICK a \in DiskStates : jobs' = (jobs \ {j}) \cup {[j EXCEPT !.at = a]}
    BY <1>12 DEF ThreadStep, ThreadBegins, ThreadCreates, ThreadWrites, ThreadRaises, DiskStates
  <2>3. [j EXCEPT !.at = a].batch = j.batch /\ [j EXCEPT !.at = a].by = j.by
    BY <1>1 DEF DiskJobs
  <2>4. QED
    BY <1>0, <2>1, <2>2, <2>3, JobGoesOn
<1>13. CASE Stop \/ StopGivesUp
  <2>1. UNCHANGED <<heap, held>>
    BY <1>13 DEF Stop, StopGivesUp
  <2>2. \E gone \in SUBSET jobs : CutLoose(gone)
    BY <1>13 DEF Stop, StopGivesUp, JobOf
  <2>3. QED
    BY <1>0, <2>1, <2>2, JobsCut
<1>14. CASE StopFlushes
  <2> DEFINE mine(f) == Job("stop", f, held[f])
  <2>1. /\ jobs' = jobs \cup {mine(f) : f \in {f \in Files : held[f] # <<>>}}
        /\ held' = [f \in Files |-> <<>>] /\ UNCHANGED <<heap, cut>>
    BY <1>14 DEF StopFlushes
  <2>2. \A f \in Files : mine(f).batch = held[f]
    BY DEF Job
  <2> HIDE DEF mine
  <2>3. Held' = {}
    BY <2>1 DEF Held, Elems
  <2>4. \A j \in jobs' : j \in jobs \/ \E f \in Files : j = mine(f) /\ Elems(j.batch) = Elems(held[f])
    BY <2>1, <2>2
  <2>5. \A f \in Files : Elems(held[f]) \subseteq Held
    BY DEF Held
  <2>6. ASSUME NEW j \in jobs', NEW k \in jobs', j # k PROVE Elems(j.batch) \cap Elems(k.batch) = {}
    <3>1. CASE j \in jobs /\ k \in jobs
      BY <1>0, <2>6, <3>1 DEF HandledOnce
    <3>2. CASE j \in jobs /\ k \notin jobs
      BY <1>0, <2>4, <2>5, <3>2 DEF HandledOnce
    <3>3. CASE j \notin jobs /\ k \in jobs
      BY <1>0, <2>4, <2>5, <3>3 DEF HandledOnce
    <3>4. CASE j \notin jobs /\ k \notin jobs
      <4>1. PICK f \in Files : j = mine(f) /\ Elems(j.batch) = Elems(held[f])
        BY <2>4, <3>4
      <4>2. PICK g \in Files : k = mine(g) /\ Elems(k.batch) = Elems(held[g])
        BY <2>4, <3>4
      <4>3. f # g
        BY <2>6, <4>1, <4>2
      <4>4. QED
        BY <4>1, <4>2, <4>3, HeldApart
    <3>5. QED
      BY <3>1, <3>2, <3>3, <3>4
  <2>7. ASSUME NEW j \in jobs'
        PROVE  /\ Elems(j.batch) \cap (Elems(heap') \cup Held') = {}
               /\ j.by # "nobody" => Elems(j.batch) \cap cut' = {}
    <3>1. CASE j \in jobs
      BY <1>0, <2>1, <2>3, <3>1 DEF HandledOnce
    <3>2. CASE j \notin jobs
      <4>1. Elems(j.batch) \subseteq Held
        BY <2>4, <2>5, <3>2
      <4>2. QED
        BY <1>0, <1>2, <2>1, <2>3, <4>1 DEF HandledOnce
    <3>3. QED
      BY <3>1, <3>2
  <2>8. cut' \cap (Elems(heap') \cup Held') = {} /\ Elems(heap') \cap Held' = {}
    BY <1>0, <2>1, <2>3 DEF HandledOnce
  <2>9. QED
    BY <2>6, <2>7, <2>8 DEF HandledOnce
<1>15. QED
  BY <1>5, <1>6, <1>7, <1>8, <1>9, <1>10, <1>11, <1>12, <1>13, <1>14
  DEF DiskNext, BatcherStep, StopStep

LEMMA HandsInit == DiskInit => HandsInv
BY DEF DiskInit, HandsInv, HandledOnce, Held, Elems, Asked

LEMMA HandsInvariant == DiskSpec => [](DiskTypeOK /\ InOnePlace /\ HandsInv)
BY DiskTypeInit, DiskTypeStep, InOnePlaceInit, InOnePlaceStep, HandsInit, HandsStep, PTL DEF DiskSpec

\* No request is in two places, for any number of writes, files and threads.
THEOREM EachRequestOnce == DiskSpec => []HandledOnce
<1>1. HandsInv => HandledOnce
  BY DEF HandsInv
<1>2. QED
  BY <1>1, HandsInvariant, PTL

LEMMA CutStep ==
  ASSUME DiskTypeOK, HandledOnce, [DiskNext]_diskVars, NEW w \in cut
  PROVE  w \in cut' /\ (answer[w] = "pending" => answer'[w] = "pending")
<1>0. w \in Writes
  BY DEF DiskTypeOK
<1>1. w \in cut'
  BY DEF DiskNext, BatcherStep, StopStep, ThreadStep, WriteBlock, Take, Sweep, BatcherAnswers, BatcherFails,
         BatcherRests, ThreadBegins, ThreadCreates, ThreadWrites, ThreadRaises, Stop, StopFlushes, StopAnswers,
         StopRaises, StopGivesUp, StopDrains, StopEnds, CutLoose, diskVars
<1>2. SUFFICES ASSUME answer[w] = "pending" PROVE answer'[w] = "pending"
  BY <1>1
<1>3. \A ws, r : w \notin ws => Settle(ws, r)[w] = "pending"
  BY <1>0, <1>2 DEF Settle
<1>4. CASE \E v \in Writes : WriteBlock(v)
  BY <1>0, <1>2, <1>4 DEF WriteBlock, DiskTypeOK
<1>5. ASSUME NEW j \in jobs, BatcherAnswers(j) \/ StopAnswers(j) PROVE answer'[w] = "pending"
  <2>1. w \notin Elems(j.batch)
    BY <1>5 DEF BatcherAnswers, StopAnswers, JobOf, HandledOnce
  <2>2. QED
    BY <1>3, <1>5, <2>1 DEF BatcherAnswers, StopAnswers
<1>6. CASE Stop
  <2>1. w \notin UNION {Elems(held[f]) : f \in Files}
    BY DEF HandledOnce, Held
  <2>2. QED
    BY <1>2, <1>3, <1>6, <2>1 DEF Stop
<1>7. CASE StopDrains
  <2>1. w \notin Elems(heap)
    BY DEF HandledOnce
  <2>2. QED
    BY <1>3, <1>7, <2>1 DEF StopDrains
<1>8. CASE answer' = answer
  BY <1>2, <1>8
<1>9. QED
  BY <1>4, <1>5, <1>6, <1>7, <1>8
  DEF DiskNext, BatcherStep, StopStep, ThreadStep, Take, Sweep, BatcherFails, BatcherRests, ThreadBegins,
      ThreadCreates, ThreadWrites, ThreadRaises, StopFlushes, StopRaises, StopGivesUp, StopEnds, diskVars

\* Nobody ever sets the future of a request whose flush raised or was cancelled:
\* neither the batcher, nor a later flush of the file, nor stop() at any point
\* (storage/disk_io.py:1022, :1044, :402-545).
THEOREM CutIsForgotten ==
  DiskSpec => [][\A w \in cut : answer[w] = "pending" => answer'[w] = "pending"]_diskVars
<1>1. DiskTypeOK /\ HandledOnce /\ [DiskNext]_diskVars
      => [\A w \in cut : answer[w] = "pending" => answer'[w] = "pending"]_diskVars
  BY CutStep
<1>2. QED
  BY <1>1, DiskTypeCorrect, EachRequestOnce, PTL DEF DiskSpec

\* The caller of write_block that awaits such a future waits for ever.
THEOREM CutIsNeverAnswered ==
  DiskSpec => \A w \in Writes : [](w \in cut /\ answer[w] = "pending" => [](answer[w] = "pending"))
<1> SUFFICES ASSUME NEW w \in Writes
             PROVE  DiskSpec => [](w \in cut /\ answer[w] = "pending" => [](answer[w] = "pending"))
  OBVIOUS
<1> DEFINE Given == w \in cut /\ answer[w] = "pending"
<1>1. DiskTypeOK /\ HandledOnce /\ Given /\ [DiskNext]_diskVars => Given'
  BY CutStep
<1>2. Given => answer[w] = "pending"
  OBVIOUS
<1> HIDE DEF Given
<1>3. DiskSpec => [](Given => [](answer[w] = "pending"))
  BY <1>1, <1>2, DiskTypeCorrect, EachRequestOnce, PTL DEF DiskSpec
<1>4. QED
  BY <1>3 DEF Given

-----------------------------------------------------------------------------
\* What a thread has written is on disk, but for what was left out, with what has
\* been confirmed of the file; a thread about to create a file is the first to
\* touch it.
Dealt == OnDisk \cup short
DiskHolds ==
  /\ \A w \in Writes : answer[w] = "ok" => w \in Dealt /\ FileOf[w] \in exists
  /\ \A j \in jobs : j.at = "written" => j.file \in exists /\ Elems(j.batch) \subseteq Dealt
  /\ \A j \in jobs : j.at = "open" => j.file \in exists
  /\ \A j \in jobs : j.at = "absent" => j.file \notin exists
  /\ Asked(Dealt)

LEMMA DiskHoldsInit == DiskInit => DiskHolds
<1> SUFFICES ASSUME DiskInit PROVE DiskHolds
  OBVIOUS
<1>1. OnDisk = {}
  <2>1. \A w \in Writes : disk[FileOf[w]][PlaceOf[w]] = Hole /\ Hole # w
    BY WritesAreOfFiles, PlacesAreOffsets DEF DiskInit
  <2>2. QED
    BY <2>1 DEF OnDisk
<1>2. QED
  BY <1>1 DEF DiskInit, DiskHolds, Dealt, Asked

\* A thread that writes some of its batch adds writes of the batch to those on
\* disk and takes none away; the rest of the batch is what it leaves out.
LEMMA WritesLand ==
  ASSUME PlacesDiffer, MergeGap = 0, DiskTypeOK, NEW j \in jobs, Batch(j.batch, j.file),
         NEW done \in SUBSET Places,
         disk' = [disk EXCEPT ![j.file] = Partly(j.batch, done, @)]
  PROVE  /\ OnDisk \subseteq OnDisk' /\ OnDisk' \subseteq OnDisk \cup Elems(j.batch)
         /\ Elems(j.batch) \subseteq OnDisk' \cup LeftOut(j.batch, done)
         /\ LeftOut(j.batch, done) \subseteq Elems(j.batch)
<1> DEFINE old == disk[j.file]
           new == Combined(j.batch, old)
           f == j.file
<1>1. j.file \in Files /\ old \in [Places -> Writes \cup {Hole}]
  BY DEF DiskTypeOK
<1>2. Elems(j.batch) \subseteq Writes /\ \A w \in Elems(j.batch) : FileOf[w] = f
  BY ElemsAreWrites DEF Batch
<1>3. /\ \A w \in Elems(j.batch) : new[PlaceOf[w]] = w
      /\ \A p \in Places : (\A w \in Elems(j.batch) : PlaceOf[w] # p) => new[p] = old[p]
  BY <1>1, CombinedPlaces
<1>4. ASSUME NEW w \in Writes
      PROVE  disk'[FileOf[w]][PlaceOf[w]] =
               IF FileOf[w] = f /\ PlaceOf[w] \in done THEN new[PlaceOf[w]]
               ELSE disk[FileOf[w]][PlaceOf[w]]
  BY <1>1, WritesAreOfFiles DEF DiskTypeOK, Partly
<1>5. ASSUME NEW w \in Writes, FileOf[w] = f, w \notin Elems(j.batch)
      PROVE  new[PlaceOf[w]] = disk[FileOf[w]][PlaceOf[w]]
  <2>1. \A v \in Elems(j.batch) : PlaceOf[v] # PlaceOf[w]
    BY <1>2, <1>5 DEF PlacesDiffer
  <2>2. QED
    BY <1>3, <1>5, <2>1, WritesAreOfFiles
<1> HIDE DEF new, old, f
<1>6. ASSUME NEW w \in Elems(j.batch), PlaceOf[w] \in done PROVE w \in OnDisk'
  BY <1>2, <1>3, <1>4, <1>6 DEF OnDisk
<1>7. ASSUME NEW w \in Writes, w \notin Elems(j.batch) PROVE w \in OnDisk <=> w \in OnDisk'
  BY <1>4, <1>5, <1>7 DEF OnDisk
<1>8. ASSUME NEW w \in Elems(j.batch), w \in OnDisk PROVE w \in OnDisk'
  BY <1>2, <1>4, <1>6, <1>8 DEF OnDisk
<1>9. OnDisk \subseteq Writes /\ OnDisk' \subseteq Writes
  BY DEF OnDisk
<1>10. /\ Elems(j.batch) \subseteq OnDisk' \cup LeftOut(j.batch, done)
       /\ LeftOut(j.batch, done) \subseteq Elems(j.batch)
  <2>1. \A k \in DOMAIN j.batch : Landing(j.batch, k) = PlaceOf[j.batch[k]]
    BY LandsInPlace
  <2>2. QED
    BY <1>6, <2>1 DEF LeftOut, Elems
<1>11. QED
  BY <1>7, <1>8, <1>9, <1>10

\* A step that leaves the disk alone and confirms only what a thread has written.
LEMMA DiskUntouched ==
  ASSUME DiskTypeOK, DiskHolds, UNCHANGED <<disk, exists, short>>,
         \A w \in Writes : answer[w] # "unasked" => answer'[w] # "unasked",
         \A w \in Writes : answer'[w] = "ok" =>
            answer[w] = "ok" \/ \E j \in jobs : j.at = "written" /\ w \in Elems(j.batch) /\ FileOf[w] = j.file,
         \A j \in jobs' : \/ j.at \in {"queued", "raised"}
                          \/ j.at = "open" /\ j.file \in exists
                          \/ j.at = "absent" /\ j.file \notin exists
                          \/ \E k \in jobs : j.batch = k.batch /\ j.file = k.file /\ j.at = k.at
  PROVE  DiskHolds'
<1>1. Dealt' = Dealt /\ Dealt \subseteq Writes
  BY DEF Dealt, OnDisk, DiskTypeOK
<1>2. \A w \in Writes : answer'[w] = "ok" => w \in Dealt /\ FileOf[w] \in exists
  BY DEF DiskHolds
<1>3. ASSUME NEW j \in jobs'
      PROVE  /\ j.at = "written" => j.file \in exists /\ Elems(j.batch) \subseteq Dealt
             /\ j.at = "open" => j.file \in exists
             /\ j.at = "absent" => j.file \notin exists
  BY DEF DiskHolds
<1>4. \A w \in Dealt : answer'[w] # "unasked"
  BY <1>1 DEF DiskHolds, Asked
<1>5. QED
  BY <1>1, <1>2, <1>3, <1>4 DEF DiskHolds, Asked

\* A step asks for one write, confirms those of a batch that is written, cancels
\* some, or leaves the futures alone; only the last kind touches the disk.
LEMMA FuturesMove ==
  ASSUME DiskTypeOK, [DiskNext]_diskVars
  PROVE  \/ UNCHANGED <<disk, short>> /\ \E w \in Writes : WriteBlock(w)
         \/ UNCHANGED <<disk, short>> /\ \E j \in jobs : j.at = "written" /\ answer' = Settle(Elems(j.batch), "ok")
         \/ UNCHANGED <<disk, short>> /\ \E ws : answer' = Settle(ws, "cancelled")
         \/ UNCHANGED answer
<1>1. CASE \E v \in Writes : WriteBlock(v)
  BY <1>1 DEF WriteBlock
<1>2. CASE BatcherStep
  <2>1. CASE \E i \in DOMAIN heap : Take(i)
    BY <2>1 DEF Take
  <2>2. CASE \E f \in Files : Sweep(f)
    BY <2>2 DEF Sweep
  <2>3. CASE BatcherRests \/ \E j \in jobs : BatcherAnswers(j) \/ BatcherFails(j)
    BY <2>3 DEF BatcherAnswers, BatcherFails, BatcherRests
  <2>4. QED
    BY <1>2, <2>1, <2>2, <2>3 DEF BatcherStep
<1>3. CASE \E j \in jobs : ThreadStep(j) \/ ThreadRaises(j)
  BY <1>3 DEF ThreadStep, ThreadBegins, ThreadCreates, ThreadWrites, ThreadRaises
<1>4. CASE Stop \/ StopGivesUp
  BY <1>4 DEF Stop, StopGivesUp
<1>5. CASE StopStep
  BY <1>5 DEF StopStep, StopFlushes, StopAnswers, StopRaises, StopDrains, StopEnds
<1>6. CASE UNCHANGED diskVars
  BY <1>6 DEF diskVars
<1>7. QED
  BY <1>1, <1>2, <1>3, <1>4, <1>5, <1>6 DEF DiskNext

\* Jobs of a step that is not a thread's are new or in the state they were in.
LEMMA ThreadsAlone ==
  ASSUME DiskTypeOK, [DiskNext]_diskVars, ~\E j \in jobs : ThreadStep(j) \/ ThreadRaises(j)
  PROVE  /\ UNCHANGED <<disk, exists, short>>
         /\ \A j \in jobs' : \/ j.at = "queued"
                             \/ \E k \in jobs : j.batch = k.batch /\ j.file = k.file /\ j.at = k.at
<1>1. CASE \E v \in Writes : WriteBlock(v)
  BY <1>1 DEF WriteBlock
<1>2. CASE BatcherStep
  <2>1. CASE \E i \in DOMAIN heap : Take(i)
    BY <2>1 DEF Take, Flush, Job
  <2>2. CASE \E f \in Files : Sweep(f)
    BY <2>2 DEF Sweep, Flush, Job
  <2>3. CASE BatcherRests \/ \E j \in jobs : BatcherAnswers(j) \/ BatcherFails(j)
    BY <2>3 DEF BatcherAnswers, BatcherFails, BatcherRests, Job
  <2>4. QED
    BY <1>2, <2>1, <2>2, <2>3 DEF BatcherStep
<1>3. CASE Stop \/ StopGivesUp
  <2>1. UNCHANGED <<disk, exists, short>> /\ \E gone \in SUBSET jobs : CutLoose(gone)
    BY <1>3 DEF Stop, StopGivesUp, JobOf
  <2>2. \A k \in jobs : LET l == [k EXCEPT !.by = "nobody"]
                        IN  l.batch = k.batch /\ l.file = k.file /\ l.at = k.at
    BY DEF DiskTypeOK
  <2>3. QED
    BY <2>1, <2>2 DEF CutLoose
<1>4. CASE StopStep
  BY <1>4 DEF StopStep, StopFlushes, StopAnswers, StopRaises, StopDrains, StopEnds, Job
<1>5. CASE UNCHANGED diskVars
  BY <1>5 DEF diskVars
<1>6. QED
  BY <1>1, <1>2, <1>3, <1>4, <1>5 DEF DiskNext

LEMMA DiskHoldsStep ==
  ASSUME PlacesDiffer, MergeGap = 0, DiskTypeOK, FlushInv, InOnePlace, DiskHolds,
         [DiskNext]_diskVars
  PROVE  DiskHolds'
<1>1. \A w \in Writes : answer[w] # "unasked" => answer'[w] # "unasked"
  BY AskedStays
<1>2. jobs \subseteq DiskJobs /\ \A j \in jobs : Batch(j.batch, j.file)
  BY DEF DiskTypeOK, DiskJobs, Owners, DiskStates, InOnePlace
<1>3. OnDisk \subseteq Writes /\ short \subseteq Writes
  BY DEF OnDisk, DiskTypeOK
<1>4. ASSUME NEW w \in Writes, answer'[w] = "ok"
      PROVE  \/ answer[w] = "ok"
             \/ \E j \in jobs : j.at = "written" /\ w \in Elems(j.batch) /\ FileOf[w] = j.file
  <2>1. CASE \E v \in Writes : WriteBlock(v)
    BY <1>4, <2>1 DEF WriteBlock, DiskTypeOK
  <2>2. CASE \E j \in jobs : j.at = "written" /\ answer' = Settle(Elems(j.batch), "ok")
    BY <1>2, <1>4, <2>2 DEF Settle, Batch
  <2>3. CASE \E ws : answer' = Settle(ws, "cancelled")
    BY <1>4, <2>3 DEF Settle
  <2>4. QED
    BY <1>4, <2>1, <2>2, <2>3, FuturesMove
<1>5. CASE ~\E j \in jobs : ThreadStep(j) \/ ThreadRaises(j)
  BY <1>1, <1>4, <1>5, ThreadsAlone, DiskUntouched
<1>6. ASSUME NEW j \in jobs, NEW a \in DiskStates,
             jobs' = (jobs \ {j}) \cup {[j EXCEPT !.at = a]}
      PROVE  \A k \in jobs' : \/ k \in jobs \ {j}
                              \/ k.at = a /\ k.batch = j.batch /\ k.file = j.file
  BY <1>2, <1>6 DEF DiskJobs
<1>7. ASSUME NEW j \in jobs, ThreadBegins(j) PROVE DiskHolds'
  <2>1. UNCHANGED <<answer, disk, exists, short>>
    BY <1>7 DEF ThreadBegins
  <2>2. \A k \in jobs' : \/ k \in jobs
                         \/ k.at = "open" /\ k.file \in exists
                         \/ k.at = "absent" /\ k.file \notin exists
    BY <1>6, <1>7 DEF ThreadBegins, DiskStates
  <2>3. QED
    BY <2>1, <2>2, DiskUntouched
<1>8. ASSUME NEW j \in jobs, ThreadCreates(j) PROVE DiskHolds'
  <2>1. j.at = "absent" /\ j.file \notin exists /\ j.file \in Files
    BY <1>2, <1>8 DEF ThreadCreates, DiskHolds, DiskJobs
  <2>2. /\ exists' = exists \cup {j.file} /\ UNCHANGED answer
        /\ disk' = [disk EXCEPT ![j.file] = [p \in Places |-> Hole]] /\ UNCHANGED short
    BY <1>8 DEF ThreadCreates
  <2>3. \A k \in jobs' : \/ k \in jobs \ {j}
                         \/ k.at = "open" /\ k.batch = j.batch /\ k.file = j.file
    BY <1>6, <1>8 DEF ThreadCreates, DiskStates
  <2>4. \A w \in Writes : disk'[FileOf[w]][PlaceOf[w]] =
                            IF FileOf[w] = j.file THEN Hole ELSE disk[FileOf[w]][PlaceOf[w]]
    BY <2>1, <2>2, WritesAreOfFiles DEF DiskTypeOK
  <2>5. OnDisk' = {w \in OnDisk : FileOf[w] # j.file}
    BY <2>4, PlacesAreOffsets DEF OnDisk
  <2>6. \A w \in Writes : answer'[w] = "ok" => w \in Dealt' /\ FileOf[w] \in exists'
    BY <2>1, <2>2, <2>5 DEF DiskHolds, Dealt
  <2>7. ASSUME NEW k \in jobs \ {j}, k.at = "written"
        PROVE  k.file \in exists' /\ Elems(k.batch) \subseteq Dealt'
    <3>1. k.file \in exists /\ Elems(k.batch) \subseteq Dealt
      BY <2>7 DEF DiskHolds
    <3>2. \A w \in Elems(k.batch) : FileOf[w] = k.file
      BY <1>2 DEF Batch
    <3>3. QED
      BY <2>1, <2>2, <2>5, <3>1, <3>2 DEF Dealt
  <2>8. \A k \in jobs \ {j} : k.at = "open" => k.file \in exists'
    BY <2>2 DEF DiskHolds
  <2>9. ASSUME NEW k \in jobs \ {j}, k.at = "absent" PROVE k.file \notin exists'
    <3>1. k.file # j.file
      BY <2>1, <2>9 DEF FlushInv, OneThreadPerFile, Finished
    <3>2. QED
      BY <2>2, <2>9, <3>1 DEF DiskHolds
  <2>10. \A w \in Dealt' : answer'[w] # "unasked"
    BY <2>2, <2>5 DEF DiskHolds, Dealt, Asked
  <2>11. QED
    BY <2>2, <2>3, <2>6, <2>7, <2>8, <2>9, <2>10 DEF DiskHolds, Asked
<1>9. ASSUME NEW j \in jobs, NEW done \in SUBSET Places, NEW a \in {"written", "raised"},
             a = "written" => j.at = "open" /\ short' = short \cup LeftOut(j.batch, done),
             a = "raised" => short' = short,
             disk' = [disk EXCEPT ![j.file] = Partly(j.batch, done, @)],
             jobs' = (jobs \ {j}) \cup {[j EXCEPT !.at = a]}, UNCHANGED <<answer, exists>>
      PROVE  DiskHolds'
  <2>1. \A k \in jobs' : \/ k \in jobs \ {j}
                         \/ k.at = a /\ k.batch = j.batch /\ k.file = j.file
    BY <1>6, <1>9 DEF DiskStates
  <2>2. Batch(j.batch, j.file) /\ \A w \in Elems(j.batch) : answer[w] # "unasked"
    BY DEF InOnePlace, Asked
  <2>3. /\ OnDisk \subseteq OnDisk' /\ OnDisk' \subseteq OnDisk \cup Elems(j.batch)
        /\ Elems(j.batch) \subseteq OnDisk' \cup LeftOut(j.batch, done)
        /\ LeftOut(j.batch, done) \subseteq Elems(j.batch)
    BY <1>9, <2>2, WritesLand
  <2>4. /\ Dealt \subseteq Dealt' /\ Dealt' \subseteq Dealt \cup Elems(j.batch)
        /\ a = "written" => Elems(j.batch) \subseteq Dealt'
    BY <1>9, <2>3 DEF Dealt
  <2>5. \A w \in Writes : answer'[w] = "ok" => w \in Dealt' /\ FileOf[w] \in exists'
    BY <1>9, <2>4 DEF DiskHolds
  <2>6. ASSUME NEW k \in jobs'
        PROVE  /\ k.at = "written" => k.file \in exists' /\ Elems(k.batch) \subseteq Dealt'
               /\ k.at = "open" => k.file \in exists'
               /\ k.at = "absent" => k.file \notin exists'
    BY <1>9, <2>1, <2>4 DEF DiskHolds
  <2>7. \A w \in Dealt' : answer'[w] # "unasked"
    BY <1>9, <2>2, <2>4 DEF DiskHolds, Asked
  <2>8. QED
    BY <2>5, <2>6, <2>7 DEF DiskHolds, Asked
<1>10. ASSUME NEW j \in jobs, ThreadWrites(j) PROVE DiskHolds'
  BY <1>9, <1>10 DEF ThreadWrites
<1>11. ASSUME NEW j \in jobs, ThreadRaises(j) PROVE DiskHolds'
  BY <1>9, <1>11 DEF ThreadRaises
<1>12. QED
  BY <1>5, <1>7, <1>8, <1>10, <1>11 DEF ThreadStep

DiskInv == DiskTypeOK /\ FlushInv /\ InOnePlace /\ DiskHolds

LEMMA DiskInvariant == ASSUME PlacesDiffer, MergeGap = 0 PROVE DiskSpec => []DiskInv
<1>1. DiskInit => DiskInv
  BY DiskTypeInit, FlushInit, InOnePlaceInit, DiskHoldsInit DEF DiskInv
<1>2. DiskInv /\ [DiskNext]_diskVars => DiskInv'
  BY DiskTypeStep, FlushStep, InOnePlaceStep, DiskHoldsStep DEF DiskInv
<1>3. QED
  BY <1>1, <1>2, PTL DEF DiskSpec

\* A confirmed write that os.write has not left out is on disk and stays there,
\* whatever other flushes, threads that raise or threads nobody waits for do, for
\* writes to different places and with the default threshold, which fills no
\* whole block.
THEOREM ConfirmedStaysOnDisk ==
  ASSUME PlacesDiffer, MergeGap = 0 PROVE DiskSpec => []AnsweredIsOnDisk
<1>1. DiskInv => AnsweredIsOnDisk
  BY DEF DiskInv, DiskHolds, Dealt, OnDisk, AnsweredIsOnDisk
<1>2. QED
  BY <1>1, DiskInvariant, PTL

\* No step takes a confirmed write off the disk.
LEMMA ConfirmedStays ==
  ASSUME PlacesDiffer, MergeGap = 0, DiskInv, [DiskNext]_diskVars
  PROVE  {w \in OnDisk : answer[w] = "ok"} \subseteq OnDisk' /\ short \subseteq short'
<1> USE WritesAreOfFiles DEF DiskInv
<1>1. ASSUME UNCHANGED <<disk, short>> PROVE OnDisk' = OnDisk /\ short' = short
  BY <1>1 DEF OnDisk
<1>2. CASE ~\E j \in jobs : ThreadStep(j) \/ ThreadRaises(j)
  BY <1>1, <1>2, ThreadsAlone
<1>3. ASSUME NEW j \in jobs, ThreadBegins(j)
      PROVE  {w \in OnDisk : answer[w] = "ok"} \subseteq OnDisk' /\ short \subseteq short'
  BY <1>1, <1>3 DEF ThreadBegins
<1>4. ASSUME NEW j \in jobs, ThreadCreates(j)
      PROVE  {w \in OnDisk : answer[w] = "ok"} \subseteq OnDisk' /\ short \subseteq short'
  <2>1. j.file \notin exists /\ j.file \in Files
    BY <1>4 DEF ThreadCreates, DiskHolds, DiskTypeOK
  <2>2. \A w \in Writes : answer[w] = "ok" => FileOf[w] # j.file
    BY <2>1 DEF DiskHolds
  <2>3. \A w \in Writes : FileOf[w] # j.file => disk'[FileOf[w]] = disk[FileOf[w]]
    BY <1>4 DEF ThreadCreates, DiskTypeOK
  <2>4. short' = short
    BY <1>4 DEF ThreadCreates
  <2>5. QED
    BY <2>2, <2>3, <2>4 DEF OnDisk
<1>5. ASSUME NEW j \in jobs, ThreadWrites(j) \/ ThreadRaises(j)
      PROVE  {w \in OnDisk : answer[w] = "ok"} \subseteq OnDisk' /\ short \subseteq short'
  <2>1. PICK done \in SUBSET Places : disk' = [disk EXCEPT ![j.file] = Partly(j.batch, done, @)]
    BY <1>5 DEF ThreadWrites, ThreadRaises
  <2>2. Batch(j.batch, j.file)
    BY DEF InOnePlace
  <2>3. OnDisk \subseteq OnDisk'
    BY <2>1, <2>2, WritesLand
  <2>4. short \subseteq short'
    BY <1>5 DEF ThreadWrites, ThreadRaises
  <2>5. QED
    BY <2>3, <2>4
<1>6. QED
  BY <1>2, <1>3, <1>4, <1>5 DEF ThreadStep

LEMMA DurableStep ==
  ASSUME PlacesDiffer, MergeGap = 0, DiskInv, DiskInv', [DiskNext]_diskVars
  PROVE  [Durable!Next]_(Durable!vars)
<1>1. DiskTypeOK /\ answer \in [Writes -> Answers]
  BY DEF DiskInv, DiskTypeOK
<1>2. UNCHANGED <<disk, short>> => UNCHANGED <<OnDisk, short>>
  BY DEF OnDisk
<1>3. ASSUME NEW ws, NEW result \in {"ok", "cancelled"}, answer' = Settle(ws, result), UNCHANGED <<disk, short>>
      PROVE  Durable!Set({w \in ws \cap Writes : answer[w] = "pending"}, result)
  BY <1>2, <1>3 DEF Settle, Durable!Set
<1>4. CASE UNCHANGED <<disk, short>> /\ \E w \in Writes : WriteBlock(w)
  BY <1>2, <1>4 DEF WriteBlock, Durable!Ask, Durable!Next
<1>5. ASSUME NEW j \in jobs, UNCHANGED <<disk, short>>, j.at = "written", answer' = Settle(Elems(j.batch), "ok")
      PROVE  Durable!Next
  <2> DEFINE ws == {w \in Elems(j.batch) \cap Writes : answer[w] = "pending"}
  <2>1. ws \subseteq Dealt /\ ws \in SUBSET Writes
    BY <1>5 DEF DiskInv, DiskHolds
  <2>2. Durable!Set(ws, "ok")
    BY <1>3, <1>5
  <2> HIDE DEF ws
  <2>3. QED
    BY <2>1, <2>2 DEF Durable!Confirm, Durable!Next, Dealt
<1>6. ASSUME NEW ws, UNCHANGED <<disk, short>>, answer' = Settle(ws, "cancelled") PROVE Durable!Next
  <2> DEFINE vs == {w \in ws \cap Writes : answer[w] = "pending"}
  <2>1. vs \in SUBSET Writes
    OBVIOUS
  <2>2. Durable!Set(vs, "cancelled")
    BY <1>3, <1>6
  <2> HIDE DEF vs
  <2>3. QED
    BY <2>1, <2>2 DEF Durable!Cancel, Durable!Next
<1>7. CASE UNCHANGED answer
  <2>1. OnDisk' \cup short' \subseteq {w \in Writes : answer[w] # "unasked"}
    BY <1>7 DEF DiskInv, DiskHolds, Dealt, Asked, OnDisk, DiskTypeOK
  <2>2. {w \in OnDisk : answer[w] = "ok"} \subseteq OnDisk' /\ short \subseteq short'
    BY ConfirmedStays
  <2>3. QED
    BY <1>7, <2>1, <2>2 DEF Durable!Disturb, Durable!Next
<1>8. QED
  BY <1>1, <1>4, <1>5, <1>6, <1>7, FuturesMove

\* The write path implements the abstract one: writes are asked for, reach the
\* disk or not, are confirmed when they have or have been left out, stay there
\* then, and are answered once.
THEOREM DurableImplemented ==
  ASSUME PlacesDiffer, MergeGap = 0 PROVE DiskSpec => ImplementsDurableWrites
<1>1. DiskInit => Durable!Init
  <2>1. SUFFICES ASSUME DiskInit PROVE Durable!Init
    OBVIOUS
  <2>2. DiskHolds /\ OnDisk \subseteq Writes
    BY <2>1, DiskHoldsInit DEF OnDisk
  <2>3. OnDisk = {}
    BY <2>1, <2>2 DEF DiskInit, DiskHolds, Dealt, Asked
  <2>4. QED
    BY <2>1, <2>3 DEF DiskInit, Durable!Init
<1>2. DiskInv /\ DiskInv' /\ [DiskNext]_diskVars => [Durable!Next]_(Durable!vars)
  BY DurableStep
<1>3. QED
  BY <1>1, <1>2, DiskInvariant, PTL DEF DiskSpec, ImplementsDurableWrites, Durable!Spec
-----------------------------------------------------------------------------
(* Checkpoints *)

CkptThreads == [owner : Savers \cup {"nobody"}, kind : Kinds, state : States,
                mixed : BOOLEAN, linked : BOOLEAN]
Saves == [at : {"idle", "begun", "writing"}, kind : Kinds, state : States, alone : BOOLEAN]

\* The calls that begin a save or cancel one leave well-typed saves and threads.
LEMMA BegunType ==
  ASSUME CkptTypeOK, NEW s \in Savers, NEW from \in [Savers -> Saves]
  PROVE  Begun(s, from) \in [Savers -> Saves]
<1> DEFINE alone == ~(\E r \in Savers \ {s} : from[r].at # "idle") /\ threads = {}
<1>1. alone \in BOOLEAN /\ verified \in States
  BY DEF CkptTypeOK
<1>2. Begun(s, from) = [r \in Savers |->
        IF r = s THEN [at |-> "begun", kind |-> "json", state |-> verified, alone |-> alone]
        ELSE [from[r] EXCEPT !.alone = FALSE]]
  BY DEF Begun
<1> HIDE DEF alone
<1>3. [at |-> "begun", kind |-> "json", state |-> verified, alone |-> alone] \in Saves
  BY <1>1 DEF Saves, Kinds
<1>4. \A r \in Savers : [from[r] EXCEPT !.alone = FALSE] \in Saves
  BY DEF Saves
<1>5. QED
  BY <1>2, <1>3, <1>4

LEMMA CancelType ==
  ASSUME CkptTypeOK
  PROVE  LoopCancelled(save) \in [Savers -> Saves] /\ Abandoned \subseteq CkptThreads
<1>1. Idle \in Saves
  BY FileStatesDiffer DEF Idle, Saves, Kinds, States
<1>2. LoopCancelled(save) \in [Savers -> Saves]
  BY <1>1 DEF CkptTypeOK, LoopCancelled, Saves
<1>3. Abandoned \subseteq CkptThreads
  BY DEF CkptTypeOK, Abandoned, CkptThreads
<1>4. QED
  BY <1>2, <1>3

LEMMA CkptTypeInit == CkptInit => CkptTypeOK
<1>1. Idle \in Saves /\ 0 \in States /\ 0 \in 0 .. MaxLeaves
  BY FileStatesDiffer DEF Idle, Saves, Kinds, States
<1> SUFFICES ASSUME CkptInit PROVE CkptTypeOK
  OBVIOUS
<1>2. save \in [Savers -> Saves]
  BY <1>1 DEF CkptInit
<1>3. file \in [Kinds -> States \cup {NoFile, Torn}]
  BY DEF CkptInit
<1>4. threads = {} /\ session = "down" /\ harmed = {} /\ verified = 0 /\ kept = 0 /\ leaves = 0
      /\ looping \in BOOLEAN /\ intact \in BOOLEAN
  BY DEF CkptInit
<1>5. QED
  BY <1>1, <1>2, <1>3, <1>4 DEF CkptTypeOK, Saves

LEMMA CkptTypeStep == CkptTypeOK /\ [CkptNext]_ckptVars => CkptTypeOK'
<1> SUFFICES ASSUME CkptTypeOK, [CkptNext]_ckptVars PROVE CkptTypeOK'
  OBVIOUS
<1> USE FileStatesDiffer
<1>0. /\ Idle \in Saves /\ save \in [Savers -> Saves] /\ threads \subseteq CkptThreads
      /\ file \in [Kinds -> States \cup {NoFile, Torn}]
  BY DEF Idle, CkptTypeOK, Saves, CkptThreads, Kinds, States
<1>a. ASSUME save' \in [Savers -> Saves], threads' \subseteq CkptThreads,
             file' \in [Kinds -> States \cup {NoFile, Torn}], harmed' \subseteq Kinds,
             verified' \in States, kept' \in States, leaves' \in 0 .. MaxLeaves,
             session' \in {"running", "pausing", "paused", "stopping", "down"},
             looping' \in BOOLEAN, intact' \in BOOLEAN
      PROVE  CkptTypeOK'
  BY <1>a DEF CkptTypeOK, Saves, CkptThreads
<1>b. leaves \in 0 .. MaxLeaves /\ (leaves < MaxLeaves => leaves + 1 \in 0 .. MaxLeaves)
  BY DEF CkptTypeOK
<1>1. CASE UNCHANGED ckptVars
  BY <1>1 DEF ckptVars, CkptTypeOK
<1>2. CASE Verify
  BY <1>2 DEF Verify, CkptTypeOK, States
<1>3. CASE LoopSaves
  BY <1>0, <1>a, <1>3, BegunType DEF LoopSaves, CkptTypeOK, Savers
<1>4. ASSUME NEW s \in Savers, OpensFile(s) PROVE CkptTypeOK'
  <2> DEFINE k == save[s].kind
             beside == {t \in threads : t.kind = k /\ t.linked}
             new == [owner |-> s, kind |-> k, state |-> save[s].state,
                     mixed |-> beside # {}, linked |-> TRUE]
  <2>1. k \in Kinds /\ new \in CkptThreads
    BY <1>0 DEF Saves, CkptThreads
  <2>2. {[t EXCEPT !.mixed = TRUE] : t \in beside} \subseteq CkptThreads
    BY <1>0 DEF CkptThreads
  <2>3. threads' \subseteq CkptThreads
    BY <1>0, <1>4, <2>1, <2>2 DEF OpensFile
  <2>4. save' \in [Savers -> Saves]
    BY <1>0, <1>4 DEF OpensFile, Saves
  <2>5. file' \in [Kinds -> States \cup {NoFile, Torn}] /\ harmed' \subseteq Kinds
    BY <1>0, <1>4, <2>1 DEF OpensFile, CkptTypeOK
  <2>6. QED
    BY <1>4, <1>a, <2>3, <2>4, <2>5 DEF OpensFile, CkptTypeOK
<1>5. ASSUME NEW t \in threads, WritesFile(t) PROVE CkptTypeOK'
  <2>1. t \in CkptThreads
    BY <1>0
  <2>2. Contents(t) \subseteq States \cup {NoFile, Torn}
    BY <1>0, <2>1 DEF Contents, CkptThreads
  <2>3. file' \in [Kinds -> States \cup {NoFile, Torn}]
    BY <1>0, <1>5, <2>1, <2>2 DEF WritesFile, CkptThreads
  <2>4. save' \in [Savers -> Saves] /\ kept' \in States /\ intact' \in BOOLEAN
    <3>1. CASE t.owner = "nobody"
      BY <1>0, <1>5, <3>1 DEF WritesFile, CkptTypeOK
    <3>2. CASE t.owner # "nobody"
      <4>1. t.owner \in Savers
        BY <2>1, <3>2 DEF CkptThreads
      <4>2. save[t.owner].alone \in BOOLEAN
        BY <1>0, <4>1 DEF Saves
      <4>3. t.state \in States /\ [save[t.owner] EXCEPT !.at = "begun", !.kind = "bin"] \in Saves
        BY <1>0, <2>1, <4>1 DEF CkptThreads, Saves, Kinds
      <4>4. CASE t.kind = "json"
        BY <1>0, <1>5, <3>2, <4>3, <4>4 DEF WritesFile, CkptTypeOK, Saves, Kinds
      <4>5. CASE t.kind # "json"
        BY <1>0, <1>5, <3>2, <4>2, <4>3, <4>5 DEF WritesFile, CkptTypeOK
      <4>6. QED
        BY <4>4, <4>5
    <3>3. QED
      BY <3>1, <3>2
  <2>5. QED
    BY <1>0, <1>5, <1>a, <2>3, <2>4 DEF WritesFile, CkptTypeOK
<1>6. CASE SessionPaused
  BY <1>0, <1>6, <1>a, CancelType DEF SessionPaused, CkptTypeOK
<1>7. CASE SessionStopped
  BY <1>7 DEF SessionStopped, CkptTypeOK
<1>8. ASSUME NEW s \in Savers, OpenFails(s) PROVE CkptTypeOK'
  BY <1>0, <1>8, <1>a DEF OpenFails, CkptTypeOK
<1>9. ASSUME NEW t \in threads, WriteFails(t) PROVE CkptTypeOK'
  <2>1. t.kind \in Kinds
    BY <1>0 DEF CkptThreads
  <2>2. save' \in [Savers -> Saves]
    BY <1>0, <1>9 DEF WriteFails
  <2>3. QED
    BY <1>0, <1>9, <1>a, <2>1, <2>2 DEF WriteFails, CkptTypeOK
<1>10. CASE PauseSession
  BY <1>0, <1>10, <1>a, <1>b, BegunType DEF PauseSession, CkptTypeOK, Savers
<1>11. CASE StopSession
  <2>1. LoopCancelled(save) \in [Savers -> Saves] /\ Abandoned \subseteq CkptThreads
    BY CancelType
  <2>2. Begun("call", LoopCancelled(save)) \in [Savers -> Saves]
    BY <2>1, BegunType DEF Savers
  <2>3. threads' \subseteq CkptThreads
    BY <1>11, <2>1 DEF StopSession
  <2>4. save' \in [Savers -> Saves] /\ intact' \in BOOLEAN
    BY <1>11, <2>1, <2>2 DEF StopSession, CkptTypeOK
  <2>5. QED
    BY <1>0, <1>11, <1>a, <1>b, <2>3, <2>4 DEF StopSession, CkptTypeOK
<1>12. CASE ResumeSession
  BY <1>12 DEF ResumeSession, CkptTypeOK, States
<1>13. CASE StartSession
  BY <1>13 DEF StartSession, CkptTypeOK, States
<1>14. CASE Crash
  <2>1. harmed' \subseteq Kinds
    BY <1>0, <1>14 DEF Crash, CkptTypeOK, CkptThreads
  <2>2. QED
    BY <1>0, <1>14, <1>a, <1>b, <2>1 DEF Crash, CkptTypeOK
<1>15. CASE Delete
  <2>1. threads' \subseteq CkptThreads
    BY <1>0, <1>15 DEF Delete, CkptThreads
  <2>2. save' \in [Savers -> Saves]
    BY <1>0, <1>15 DEF Delete, Saves
  <2>3. QED
    BY <1>0, <1>15, <1>a, <2>1, <2>2 DEF Delete, CkptTypeOK
<1>16. QED
  BY <1>1, <1>2, <1>3, <1>4, <1>5, <1>6, <1>7, <1>8, <1>9, <1>10, <1>11, <1>12, <1>13,
     <1>14, <1>15
  DEF CkptNext, SaveStep

\* Every reachable state of the checkpoint files is well typed.
THEOREM CkptTypeCorrect == CkptSpec => []CkptTypeOK
BY CkptTypeInit, CkptTypeStep, PTL DEF CkptSpec

\* Two threads in one file have harmed it from the moment the second one came.
MixedIsHarmed == \A t \in threads : t.linked /\ t.mixed => t.kind \in harmed
TornInv == MixedIsHarmed /\ TornIsExplained

LEMMA TornStep == CkptTypeOK /\ TornInv /\ [CkptNext]_ckptVars => TornInv'
<1> SUFFICES ASSUME CkptTypeOK, TornInv, [CkptNext]_ckptVars PROVE TornInv'
  OBVIOUS
<1> USE FileStatesDiffer DEF TornInv, MixedIsHarmed, TornIsExplained
<1>0. /\ save \in [Savers -> Saves] /\ threads \subseteq CkptThreads
      /\ file \in [Kinds -> States \cup {NoFile, Torn}] /\ States \subseteq Nat
  BY DEF CkptTypeOK, Saves, CkptThreads, Kinds, States
<1>1. CASE UNCHANGED <<file, threads, harmed>>
  BY <1>1
<1>2. ASSUME NEW s \in Savers, OpensFile(s) PROVE TornInv'
  <2> DEFINE k == save[s].kind
             beside == {t \in threads : t.kind = k /\ t.linked}
             new == [owner |-> s, kind |-> k, state |-> save[s].state,
                     mixed |-> beside # {}, linked |-> TRUE]
             mixed(t) == [t EXCEPT !.mixed = TRUE]
  <2>1. /\ k \in Kinds /\ file' = [file EXCEPT ![k] = Torn]
        /\ threads' = (threads \ beside) \cup {mixed(t) : t \in beside} \cup {new}
        /\ harmed' = (IF beside = {} THEN harmed \ {k} ELSE harmed \cup {k})
    BY <1>0, <1>2 DEF OpensFile, Saves
  <2>2. new.kind = k /\ new.linked /\ (new.mixed => beside # {})
    OBVIOUS
  <2>3. \A t \in beside : mixed(t).kind = k /\ mixed(t).linked
    BY <1>0 DEF CkptThreads
  <2>4. \A t \in threads \ beside : t.kind # k \/ ~t.linked
    OBVIOUS
  <2>b. \A t \in beside : t.kind = k /\ t.linked /\ t \in threads
    OBVIOUS
  <2> HIDE DEF new, beside, mixed, k
  <2>5. MixedIsHarmed'
    BY <2>1, <2>2, <2>3, <2>4
  <2>6. ASSUME NEW h \in Kinds, file'[h] = Torn
        PROVE  h \in harmed' \/ \E t \in threads' : t.kind = h /\ t.linked
    <3>1. CASE h = k
      BY <2>1, <2>2, <3>1
    <3>2. CASE h # k
      <4>1. file[h] = Torn
        BY <1>0, <2>1, <2>6, <3>2
      <4>2. CASE h \in harmed
        BY <2>1, <3>2, <4>2
      <4>3. CASE \E t \in threads : t.kind = h /\ t.linked
        BY <2>1, <2>b, <3>2, <4>3
      <4>4. QED
        BY <4>1, <4>2, <4>3
    <3>3. QED
      BY <3>1, <3>2
  <2>7. QED
    BY <2>5, <2>6
<1>3. ASSUME NEW t \in threads, WritesFile(t) PROVE TornInv'
  <2>1. /\ t \in CkptThreads /\ threads' = threads \ {t} /\ UNCHANGED harmed
        /\ \E c \in Contents(t) : file' = [file EXCEPT ![t.kind] = c]
    BY <1>0, <1>3 DEF WritesFile
  <2>2. t.kind \in Kinds /\ t.state \in Nat
    BY <1>0, <2>1 DEF CkptThreads
  <2>3. ASSUME NEW h \in Kinds, file'[h] = Torn
        PROVE  h \in harmed' \/ \E u \in threads' : u.kind = h /\ u.linked
    <3>1. CASE t.kind = h /\ t.linked
      <4>1. Torn \in Contents(t)
        BY <1>0, <2>1, <2>2, <2>3, <3>1
      <4>2. t.mixed
        BY <2>2, <3>1, <4>1 DEF Contents
      <4>3. QED
        BY <2>1, <3>1, <4>2
    <3>2. CASE ~(t.kind = h /\ t.linked)
      <4>1. file[h] = Torn
        BY <1>0, <2>1, <2>2, <2>3, <3>2 DEF Contents
      <4>2. QED
        BY <2>1, <3>2, <4>1
    <3>3. QED
      BY <3>1, <3>2
  <2>4. QED
    BY <2>1, <2>3
<1>4. ASSUME NEW t \in threads, WriteFails(t) PROVE TornInv'
  BY <1>4 DEF WriteFails
<1>5. CASE threads' = Abandoned /\ UNCHANGED <<file, harmed>>
  <2> DEFINE left(t) == [t EXCEPT !.owner = "nobody"]
  <2>1. \A t \in threads : left(t).kind = t.kind /\ left(t).linked = t.linked
                           /\ left(t).mixed = t.mixed
    BY <1>0 DEF CkptThreads
  <2>2. \A t \in threads : t \in Abandoned \/ left(t) \in Abandoned
    BY DEF Abandoned
  <2>3. \A t \in Abandoned : t \in threads \/ \E u \in threads : t = left(u)
    BY DEF Abandoned
  <2> HIDE DEF left
  <2>4. QED
    BY <1>5, <2>1, <2>2, <2>3
<1>6. CASE Crash
  BY <1>0, <1>6 DEF Crash
<1>7. CASE Delete
  <2> DEFINE gone(t) == [t EXCEPT !.linked = FALSE]
  <2>1. \A t \in threads' : \E u \in threads : t = gone(u)
    BY <1>7 DEF Delete
  <2>2. \A t \in threads : ~gone(t).linked
    BY <1>0 DEF CkptThreads
  <2>3. \A h \in Kinds : file'[h] = NoFile
    BY <1>7 DEF Delete
  <2> HIDE DEF gone
  <2>4. QED
    BY <2>1, <2>2, <2>3
<1>8. QED
  BY <1>1, <1>2, <1>3, <1>4, <1>5, <1>6, <1>7
  DEF CkptNext, SaveStep, ckptVars, Verify, LoopSaves, SessionPaused, SessionStopped,
      OpenFails, PauseSession, StopSession, ResumeSession, StartSession

\* A file that does not parse, with no thread in it, was left by a crash, an error
\* or two threads: never by the cancelling of a save.
THEOREM TornFilesAreExplained == CkptSpec => []TornIsExplained
<1>1. CkptInit => TornInv
  BY FileStatesDiffer DEF CkptInit, TornInv, MixedIsHarmed, TornIsExplained, Kinds
<1>2. TornInv => TornIsExplained
  BY DEF TornInv
<1>3. QED
  BY <1>1, <1>2, CkptTypeInit, CkptTypeStep, TornStep, PTL DEF CkptSpec

\* A save under way that has met no other has every thread for itself, and the
\* first file behind it; when it is over nobody has touched the files since.
Owned == \A t \in threads : t.owner \in Savers =>
           save[t.owner].at = "writing" /\ save[t.owner].kind = t.kind
           /\ save[t.owner].state = t.state
OneThreadEach == \A t, u \in threads : t.owner = u.owner /\ t.owner \in Savers => t = u
AloneIsAlone == \A s \in Savers : save[s].alone =>
                  /\ save[s].at # "idle" /\ \A r \in Savers \ {s} : save[r].at = "idle"
                  /\ \A t \in threads : t.owner = s /\ t.linked /\ ~t.mixed
                  /\ save[s].kind = "bin" => file["json"] = save[s].state
Undisturbed == intact =>
                 /\ \A s \in Savers : save[s].at = "idle"
                 /\ threads = {} /\ \A k \in Kinds : file[k] = kept
CallIsOver == session \in {"running", "paused", "down"} => save["call"].at = "idle"
LoneInv == Owned /\ OneThreadEach /\ AloneIsAlone /\ Undisturbed /\ CallIsOver

\* A save that begins has met another if there is one, and the other has met it.
LEMMA BegunAlone ==
  ASSUME CkptTypeOK, NEW s \in Savers, NEW from \in [Savers -> Saves], from[s].at = "idle",
         NEW r \in Savers
  PROVE  /\ Begun(s, from)[r].alone => r = s /\ threads = {}
                                       /\ \A q \in Savers \ {s} : from[q].at = "idle"
         /\ r # s => /\ Begun(s, from)[r].at = from[r].at
                     /\ Begun(s, from)[r].kind = from[r].kind
                     /\ Begun(s, from)[r].state = from[r].state
         /\ Begun(s, from)[s].at = "begun" /\ Begun(s, from)[s].kind = "json"
BY DEF Begun, Saves

LEMMA LoneInit == CkptInit => LoneInv
BY DEF CkptInit, LoneInv, Owned, OneThreadEach, AloneIsAlone, Undisturbed, CallIsOver, Idle,
       Savers

\* A save that begins, with the threads as they are or those of the loop abandoned.
LEMMA LoneBegins ==
  ASSUME CkptTypeOK, LoneInv, NEW s \in Savers, NEW from \in [Savers -> Saves],
         from[s].at = "idle", save' = Begun(s, from), intact' = FALSE, UNCHANGED file,
         \/ from = save /\ UNCHANGED threads
         \/ s = "call" /\ from = LoopCancelled(save) /\ threads' = Abandoned,
         save[s].at = "idle", session' \notin {"paused", "down"},
         session' = "running" => s = "loop" /\ session = "running"
  PROVE  LoneInv'
<1> USE DEF LoneInv
<1>0. threads \subseteq CkptThreads /\ save \in [Savers -> Saves]
  BY DEF CkptTypeOK, CkptThreads, Saves
<1>1. \A r \in Savers : save'[r].alone => r = s /\ threads = {}
                                         /\ \A q \in Savers \ {s} : from[q].at = "idle"
  BY BegunAlone
<1>2. /\ save'[s].at = "begun" /\ save'[s].kind = "json"
      /\ \A r \in Savers : r # s => /\ save'[r].at = from[r].at /\ save'[r].kind = from[r].kind
                                    /\ save'[r].state = from[r].state
  BY BegunAlone
<1>3. \A t \in threads : t.owner # s
  BY DEF Owned
<1>4. Owned' /\ OneThreadEach' /\ (threads = {} => threads' = {})
  <2>1. CASE from = save /\ UNCHANGED threads
    BY <1>2, <1>3, <2>1 DEF Owned, OneThreadEach
  <2>2. CASE s = "call" /\ from = LoopCancelled(save) /\ threads' = Abandoned
    <3>1. \A t \in threads : t.owner \in {"loop", "nobody"}
      BY <1>0, <1>3, <2>2 DEF CkptThreads, Savers
    <3>2. \A t \in threads : [t EXCEPT !.owner = "nobody"].owner = "nobody"
      BY <1>0 DEF CkptThreads
    <3>3. \A t \in threads' : t.owner = "nobody"
      BY <2>2, <3>1, <3>2 DEF Abandoned
    <3>4. threads = {} => threads' = {}
      BY <2>2 DEF Abandoned
    <3>5. QED
      BY <3>3, <3>4 DEF Owned, OneThreadEach, Savers
  <2>3. QED
    BY <2>1, <2>2
<1>5. AloneIsAlone'
  BY <1>1, <1>2, <1>4 DEF AloneIsAlone
<1>6. CallIsOver'
  BY <1>2 DEF CallIsOver, Savers
<1>7. QED
  BY <1>4, <1>5, <1>6 DEF Undisturbed

\* A save that is over, by an error or because its task is gone, with its thread.
LEMMA LoneEnds ==
  ASSUME CkptTypeOK, LoneInv, NEW s \in Savers, save' = [save EXCEPT ![s] = Idle],
         UNCHANGED <<file, kept, intact, session>>, intact => UNCHANGED threads,
         threads' \subseteq threads, \A t \in threads' : t.owner # s
  PROVE  LoneInv'
<1> USE DEF LoneInv
<1>0. save \in [Savers -> Saves]
  BY DEF CkptTypeOK, Saves
<1>1. save'[s].at = "idle" /\ ~save'[s].alone /\ \A r \in Savers \ {s} : save'[r] = save[r]
  BY <1>0 DEF Idle
<1>2. Owned' /\ OneThreadEach'
  BY <1>1 DEF Owned, OneThreadEach
<1>3. AloneIsAlone' /\ CallIsOver' /\ Undisturbed'
  BY <1>1 DEF AloneIsAlone, CallIsOver, Undisturbed, Savers
<1>4. QED
  BY <1>2, <1>3

LEMMA LoneStep == CkptTypeOK /\ LoneInv /\ [CkptNext]_ckptVars => LoneInv'
<1> SUFFICES ASSUME CkptTypeOK, LoneInv, [CkptNext]_ckptVars PROVE LoneInv'
  OBVIOUS
<1> USE FileStatesDiffer DEF LoneInv
<1>0. /\ save \in [Savers -> Saves] /\ threads \subseteq CkptThreads
      /\ file \in [Kinds -> States \cup {NoFile, Torn}]
  BY DEF CkptTypeOK, Saves, CkptThreads
<1>1. CASE /\ UNCHANGED <<file, save, threads, intact, kept>>
           /\ session' \in {"running", "paused", "down"} =>
                session \in {"running", "paused", "down"} \/ save["call"].at = "idle"
  BY <1>1 DEF Owned, OneThreadEach, AloneIsAlone, Undisturbed, CallIsOver
<1>2. CASE LoopSaves
  BY <1>0, <1>2, LoneBegins DEF LoopSaves, Savers
<1>3. CASE PauseSession
  BY <1>0, <1>3, LoneBegins DEF PauseSession, CallIsOver, Savers
<1>c. LoopCancelled(save) \in [Savers -> Saves] /\ LoopCancelled(save)["call"] = save["call"]
      /\ LoopCancelled(save)["loop"].at = "idle" /\ ~LoopCancelled(save)["loop"].alone
  BY <1>0, CancelType DEF LoopCancelled, Savers, Idle
<1>4. CASE save["call"].at = "idle" /\ save' = LoopCancelled(save) /\ threads' = Abandoned
           /\ UNCHANGED <<file, intact, kept>>
  <2>1. \A t \in threads : t.owner \in {"loop", "nobody"}
    BY <1>0, <1>4 DEF Owned, CkptThreads, Savers
  <2>2. \A t \in threads : [t EXCEPT !.owner = "nobody"].owner = "nobody"
    BY <1>0 DEF CkptThreads
  <2>3. \A t \in threads' : t.owner = "nobody"
    BY <1>4, <2>1, <2>2 DEF Abandoned
  <2>4. threads = {} => threads' = {}
    BY <1>4 DEF Abandoned
  <2>5. \A s \in Savers : save'[s].at = "idle" /\ ~save'[s].alone
    BY <1>4, <1>c DEF Savers, AloneIsAlone
  <2>6. QED
    BY <1>4, <2>3, <2>4, <2>5
    DEF Owned, OneThreadEach, AloneIsAlone, Undisturbed, CallIsOver, Savers
<1>5. CASE StopSession
  <2>1. save["call"].at = "idle"
    BY <1>5 DEF StopSession, CallIsOver
  <2>2. QED
    BY <1>0, <1>5, <1>c, <2>1, LoneBegins DEF StopSession, Savers
<1>6. CASE SessionPaused
  BY <1>4, <1>6 DEF SessionPaused
<1>7. ASSUME NEW s \in Savers, OpensFile(s) PROVE LoneInv'
  <2> DEFINE k == save[s].kind
             beside == {t \in threads : t.kind = k /\ t.linked}
             new == [owner |-> s, kind |-> k, state |-> save[s].state,
                     mixed |-> beside # {}, linked |-> TRUE]
             mixed(t) == [t EXCEPT !.mixed = TRUE]
  <2>1. /\ k \in Kinds /\ save[s].at = "begun" /\ file' = [file EXCEPT ![k] = Torn]
        /\ threads' = (threads \ beside) \cup {mixed(t) : t \in beside} \cup {new}
        /\ save' = [save EXCEPT ![s].at = "writing"]
        /\ UNCHANGED <<session, intact, kept>>
    BY <1>0, <1>7 DEF OpensFile, Saves
  <2>2. /\ new.kind = k /\ new.linked /\ (new.mixed => beside # {}) /\ new.owner = s
        /\ new.state = save[s].state
    OBVIOUS
  <2>3. \A t \in beside : mixed(t).kind = t.kind /\ mixed(t).owner = t.owner
                          /\ mixed(t).state = t.state
    BY <1>0 DEF CkptThreads
  <2>4. \A r \in Savers : /\ save'[r].kind = save[r].kind /\ save'[r].state = save[r].state
                          /\ save'[r].alone = save[r].alone
                          /\ save'[r].at = IF r = s THEN "writing" ELSE save[r].at
    BY <1>0, <2>1 DEF Saves
  <2>5. \A t \in threads : t.owner # s
    BY <2>1 DEF Owned
  <2>6. \A t \in threads' : \/ t = new \/ t \in threads \ beside
                             \/ \E u \in beside : t = mixed(u)
    BY <2>1
  <2>b. beside \subseteq threads
    OBVIOUS
  <2> HIDE DEF new, beside, mixed, k
  <2>7. Owned'
    <3>1. SUFFICES ASSUME NEW t \in threads', t.owner \in Savers
                   PROVE  /\ save'[t.owner].at = "writing" /\ save'[t.owner].kind = t.kind
                          /\ save'[t.owner].state = t.state
      BY DEF Owned
    <3>2. CASE t = new
      BY <2>2, <2>4, <3>2 DEF k
    <3>3. CASE t # new
      <4>1. PICK a \in threads : a.owner = t.owner /\ a.kind = t.kind /\ a.state = t.state
        BY <2>3, <2>6, <2>b, <3>3
      <4>2. QED
        BY <2>4, <2>5, <3>1, <4>1 DEF Owned
    <3>4. QED
      BY <3>2, <3>3
  <2>8. OneThreadEach'
    <3>1. SUFFICES ASSUME NEW t \in threads', NEW u \in threads', t.owner = u.owner,
                          t.owner \in Savers
                   PROVE  t = u
      BY DEF OneThreadEach
    <3>2. CASE t = new \/ u = new
      BY <2>2, <2>3, <2>5, <2>6, <2>b, <3>1, <3>2
    <3>3. CASE t # new /\ u # new
      <4>0. ASSUME NEW v \in threads', v # new
            PROVE  \E a \in threads : (v = a /\ a \notin beside) \/ (a \in beside /\ v = mixed(a))
        <5>1. CASE v \in threads \ beside
          BY <5>1
        <5>2. CASE \E a \in beside : v = mixed(a)
          BY <2>b, <5>2
        <5>3. QED
          BY <2>6, <4>0, <5>1, <5>2
      <4>1. PICK a \in threads : (t = a /\ a \notin beside) \/ (a \in beside /\ t = mixed(a))
        BY <3>3, <4>0
      <4>2. PICK b \in threads : (u = b /\ b \notin beside) \/ (b \in beside /\ u = mixed(b))
        BY <3>3, <4>0
      <4>3. a.owner = t.owner /\ b.owner = u.owner
        BY <2>3, <4>1, <4>2
      <4>4. a = b
        BY <3>1, <4>3 DEF OneThreadEach
      <4>5. QED
        BY <4>1, <4>2, <4>4
    <3>4. QED
      BY <3>2, <3>3
  <2>9. ASSUME NEW r \in Savers, save'[r].alone PROVE r = s /\ threads = {}
    <3>1. save[r].alone
      BY <2>4, <2>9
    <3>2. r = s
      BY <2>1, <3>1 DEF AloneIsAlone
    <3>3. QED
      BY <2>5, <3>1, <3>2 DEF AloneIsAlone
  <2>10. AloneIsAlone'
    <3>1. SUFFICES ASSUME save'[s].alone
                   PROVE  /\ \A r \in Savers \ {s} : save'[r].at = "idle"
                          /\ \A t \in threads' : t = new /\ ~new.mixed
                          /\ save'[s].kind = "bin" => file'["json"] = save'[s].state
      BY <2>2, <2>4, <2>9 DEF AloneIsAlone
    <3>2. threads = {} /\ save[s].alone
      BY <2>4, <2>9, <3>1
    <3>3. \A t \in threads' : t = new /\ ~new.mixed
      BY <2>2, <2>6, <2>b, <3>2
    <3>4. k = save[s].kind
      BY DEF k
    <3>5. save[s].kind = "bin" => file'["json"] = file["json"]
      BY <1>0, <2>1, <3>4 DEF Kinds
    <3>6. QED
      BY <2>4, <3>2, <3>3, <3>5 DEF AloneIsAlone
  <2>11. CallIsOver'
    BY <2>1, <2>4 DEF CallIsOver, Savers
  <2>12. ~intact'
    BY <2>1 DEF Undisturbed
  <2>13. QED
    BY <2>7, <2>8, <2>10, <2>11, <2>12 DEF Undisturbed
<1>8. ASSUME NEW t \in threads, WritesFile(t) PROVE LoneInv'
  <2>0. t \in CkptThreads /\ threads' = threads \ {t} /\ UNCHANGED session /\ ~intact
    BY <1>0, <1>8 DEF WritesFile, Undisturbed
  <2>1. CASE t.owner = "nobody"
    <3>1. UNCHANGED <<save, kept, intact>>
      BY <1>8, <2>1 DEF WritesFile
    <3>2. \A s \in Savers : ~save[s].alone
      BY <2>1 DEF AloneIsAlone, Savers
    <3>3. QED
      BY <2>0, <3>1, <3>2 DEF Owned, OneThreadEach, AloneIsAlone, Undisturbed, CallIsOver
  <2>2. ASSUME NEW s \in Savers, t.owner = s PROVE LoneInv'
    <3>1. save[s].at = "writing" /\ save[s].kind = t.kind /\ save[s].state = t.state
      BY <2>2 DEF Owned
    <3>2. \A u \in threads' : u.owner # s
      BY <2>0, <2>2 DEF OneThreadEach
    <3>3. save[s].alone => /\ \A r \in Savers \ {s} : save[r].at = "idle"
                           /\ threads' = {} /\ file' = [file EXCEPT ![t.kind] = t.state]
                           /\ save[s].kind = "bin" => file["json"] = save[s].state
      BY <1>8, <2>0, <3>2 DEF AloneIsAlone, WritesFile, Contents
    <3>4. \A r \in Savers : save[r].alone => r = s
      BY <2>2 DEF AloneIsAlone
    <3>5. t.kind \in Kinds /\ t.owner # "nobody"
      BY <2>0, <2>2 DEF CkptThreads, Savers
    <3>6. CASE t.kind = "json"
      <4>1. /\ save' = [save EXCEPT ![s].at = "begun", ![s].kind = "bin"]
            /\ UNCHANGED <<kept, intact>>
        BY <1>8, <2>2, <3>5, <3>6 DEF WritesFile
      <4>2. /\ save'[s].at = "begun" /\ save'[s].kind = "bin"
            /\ save'[s].state = save[s].state /\ save'[s].alone = save[s].alone
            /\ \A r \in Savers \ {s} : save'[r] = save[r]
        BY <1>0, <4>1 DEF Saves
      <4>3. save[s].alone => file'["json"] = save[s].state
        BY <1>0, <3>1, <3>3, <3>6 DEF Kinds
      <4>4. Owned' /\ OneThreadEach'
        BY <2>0, <3>2, <4>2 DEF Owned, OneThreadEach
      <4>5. AloneIsAlone'
        BY <3>3, <3>4, <4>2, <4>3 DEF AloneIsAlone
      <4>6. CallIsOver'
        BY <2>0, <3>1, <4>2 DEF CallIsOver, Savers
      <4>7. QED
        BY <2>0, <4>1, <4>4, <4>5, <4>6 DEF Undisturbed
    <3>7. CASE t.kind = "bin"
      <4>1. /\ save' = [save EXCEPT ![s] = Idle]
            /\ kept' = (IF save[s].alone THEN t.state ELSE kept)
            /\ intact' = (save[s].alone \/ intact)
        BY <1>8, <2>2, <3>5, <3>7 DEF WritesFile
      <4>2. /\ save'[s].at = "idle" /\ ~save'[s].alone
            /\ \A r \in Savers \ {s} : save'[r] = save[r]
        BY <1>0, <4>1 DEF Idle
      <4>3. Owned' /\ OneThreadEach'
        BY <2>0, <3>2, <4>2 DEF Owned, OneThreadEach
      <4>4. AloneIsAlone'
        BY <3>4, <4>2 DEF AloneIsAlone
      <4>5. CallIsOver'
        BY <2>0, <4>2 DEF CallIsOver, Savers
      <4>6. Undisturbed'
        <5>1. SUFFICES ASSUME save[s].alone
                       PROVE  /\ \A r \in Savers : save'[r].at = "idle"
                              /\ threads' = {} /\ \A h \in Kinds : file'[h] = kept'
          BY <2>0, <4>1 DEF Undisturbed
        <5>2. file'["json"] = t.state /\ file'["bin"] = t.state /\ kept' = t.state
          BY <1>0, <3>1, <3>3, <3>7, <4>1, <5>1 DEF Kinds
        <5>3. QED
          BY <3>3, <4>2, <5>1, <5>2 DEF Kinds
      <4>7. QED
        BY <4>3, <4>4, <4>5, <4>6
    <3>8. QED
      BY <3>5, <3>6, <3>7 DEF Kinds
  <2>3. QED
    BY <2>0, <2>1, <2>2 DEF CkptThreads
<1>9. ASSUME NEW s \in Savers, OpenFails(s) PROVE LoneInv'
  <2>1. \A t \in threads : t.owner # s
    BY <1>9 DEF OpenFails, Owned
  <2>2. QED
    BY <1>9, <2>1, LoneEnds DEF OpenFails
<1>10. ASSUME NEW t \in threads, WriteFails(t) PROVE LoneInv'
  <2>0. /\ t \in CkptThreads /\ threads' = threads \ {t} /\ ~intact
        /\ UNCHANGED <<file, kept, intact, session>>
    BY <1>0, <1>10 DEF WriteFails, Undisturbed
  <2>1. CASE t.owner = "nobody"
    <3>1. UNCHANGED save
      BY <1>10, <2>1 DEF WriteFails
    <3>2. QED
      BY <2>0, <3>1 DEF Owned, OneThreadEach, AloneIsAlone, Undisturbed, CallIsOver
  <2>2. ASSUME NEW s \in Savers, t.owner = s PROVE LoneInv'
    <3>1. save' = [save EXCEPT ![s] = Idle]
      BY <1>10, <2>2 DEF WriteFails, Savers
    <3>2. \A u \in threads' : u.owner # s
      BY <2>0, <2>2 DEF OneThreadEach
    <3>3. QED
      BY <2>0, <3>1, <3>2, LoneEnds
  <2>3. QED
    BY <2>0, <2>1, <2>2 DEF CkptThreads
<1>11. CASE Crash
  BY <1>11 DEF Crash, Owned, OneThreadEach, AloneIsAlone, Undisturbed, CallIsOver, Idle, Savers
<1>12. CASE Delete
  <2> DEFINE gone(t) == [t EXCEPT !.linked = FALSE]
  <2>1. /\ threads' = {gone(t) : t \in threads} /\ ~intact' /\ UNCHANGED session
        /\ \A s \in Savers : save'[s] = [save[s] EXCEPT !.alone = FALSE]
    BY <1>12 DEF Delete
  <2>2. \A t \in threads : gone(t).owner = t.owner /\ gone(t).kind = t.kind
                           /\ gone(t).state = t.state
    BY <1>0 DEF CkptThreads
  <2>3. \A s \in Savers : /\ save'[s].at = save[s].at /\ save'[s].kind = save[s].kind
                          /\ save'[s].state = save[s].state /\ ~save'[s].alone
    BY <1>0, <2>1 DEF Saves
  <2> HIDE DEF gone
  <2>4. Owned'
    BY <2>1, <2>2, <2>3 DEF Owned
  <2>5. OneThreadEach'
    BY <2>1, <2>2 DEF OneThreadEach
  <2>6. AloneIsAlone'
    BY <2>3 DEF AloneIsAlone
  <2>7. Undisturbed'
    BY <2>1 DEF Undisturbed
  <2>8. CallIsOver'
    BY <2>1, <2>3 DEF CallIsOver, Savers
  <2>9. QED
    BY <2>4, <2>5, <2>6, <2>7, <2>8
<1>13. QED
  BY <1>1, <1>2, <1>3, <1>5, <1>6, <1>7, <1>8, <1>9, <1>10, <1>11, <1>12
  DEF CkptNext, SaveStep, ckptVars, Verify, SessionStopped, ResumeSession, StartSession,
      CallIsOver

\* A save that met no other is in both files until somebody touches them.
THEOREM LoneSavesAreKept == CkptSpec => []LoneSaveIsKept
<1>1. LoneInv => LoneSaveIsKept
  BY DEF LoneInv, Undisturbed, LoneSaveIsKept
<1>2. QED
  BY <1>1, CkptTypeInit, CkptTypeStep, LoneInit, LoneStep, PTL DEF CkptSpec

\* The request of every open future is queued, held, in a flush somebody waits
\* for or in one that was cut, and in one of these at a time; no two threads are in one file; and stop()
\* leaves open only what was cut or asked for too late.
THEOREM SoundWrites == DiskSpec => []WritesAreSound
BY DiskTypeCorrect, OpenWritesAreInHand, EachRequestOnce, ThreadsStayApart, StopLeavesLittle, PTL DEF WritesAreSound

\* A save that met no other is in both files until somebody touches them, and a
\* file that does not parse was left by a crash, an error or two threads at
\* once.
THEOREM SoundCheckpoints == CkptSpec => []CheckpointsAreSound
BY CkptTypeCorrect, LoneSavesAreKept, TornFilesAreExplained, PTL DEF CheckpointsAreSound
=============================================================================
