--------------------------- MODULE CheckpointFiles ---------------------------
(***************************************************************************)
(* The checkpoint of one torrent on disk: CheckpointManager                   *)
(* (src/ccbt/storage/checkpoint.py) with its default format BOTH, and the     *)
(* calls AsyncTorrentSession (src/ccbt/session/session.py) makes of it: its    *)
(* periodic loop, pause, resume, stop and start.                              *)
(*                                                                           *)
(* The state a checkpoint holds is the number of verified pieces.  A save     *)
(* takes that state, then a thread opens the JSON file in place and writes    *)
(* it, then one the binary file.  Nothing keeps two saves apart.              *)
(***************************************************************************)
EXTENDS Integers, FiniteSets

CONSTANTS NumPieces,
          MaxLeaves,    \* bound on crashes, pauses and stops
          NoFile, Torn  \* what a file may be instead of the state it holds

ASSUME FileStatesDiffer ==
  NumPieces \in Nat /\ MaxLeaves \in Nat /\ NoFile \notin Nat /\ Torn \notin Nat /\ NoFile # Torn

Kinds == {"json", "bin"}
Savers == {"loop", "call"}   \* _checkpoint_loop; pause() or stop()

VARIABLES verified,  \* pieces verified by the piece manager
          file,      \* [Kinds -> NoFile, Torn or the state saved]
          save,      \* [Savers -> how far its _save_checkpoint is]
          threads,   \* the writes in progress
          session,   \* the session's life
          looping,   \* the stop event is not set
          leaves,    \* bound: calls of pause and stop, and crashes
          kept,      \* history: the state of the last save that met no other
          intact,    \* history: ... and nothing has touched the files since
          harmed     \* history: kinds whose file was left by a crash or an error,
                     \* or was written by two threads at once

ckptVars == <<verified, file, save, threads, session, looping, leaves, kept, intact, harmed>>

States == 0 .. NumPieces
Idle == [at |-> "idle", kind |-> "json", state |-> 0, alone |-> FALSE]

CkptInit ==
  /\ verified = 0 /\ file = [k \in Kinds |-> NoFile]
  /\ save = [s \in Savers |-> Idle] /\ threads = {}
  /\ session = "down" /\ looping = FALSE /\ leaves = 0
  /\ kept = 0 /\ intact = FALSE /\ harmed = {}

-----------------------------------------------------------------------------
Verify ==
  /\ session # "down" /\ verified < NumPieces /\ verified' = verified + 1
  /\ UNCHANGED <<file, save, threads, session, looping, leaves, kept, intact, harmed>>

\* _save_checkpoint has the state from get_checkpoint_state and goes on its way.
Begun(s, from) ==
  LET others == \E r \in Savers \ {s} : from[r].at # "idle"
  IN [r \in Savers |->
        IF r = s THEN [at |-> "begun", kind |-> "json", state |-> verified,
                       alone |-> ~others /\ threads = {}]
        ELSE [from[r] EXCEPT !.alone = FALSE]]

LoopSaves ==
  /\ session = "running" /\ looping /\ save["loop"].at = "idle"
  /\ save' = Begun("loop", save) /\ intact' = FALSE
  /\ UNCHANGED <<verified, file, threads, session, looping, leaves, kept, harmed>>

\* open(path, "w") empties the file; two threads in one file spoil each other's text.
OpensFile(s) ==
  LET k == save[s].kind
      beside == {t \in threads : t.kind = k /\ t.linked}
  IN /\ save[s].at = "begun"
     /\ save' = [save EXCEPT ![s].at = "writing"]
     /\ file' = [file EXCEPT ![k] = Torn]
     /\ threads' = (threads \ beside) \cup {[t EXCEPT !.mixed = TRUE] : t \in beside}
                   \cup {[owner |-> s, kind |-> k, state |-> save[s].state,
                          mixed |-> beside # {}, linked |-> TRUE]}
     /\ harmed' = (IF beside = {} THEN harmed \ {k} ELSE harmed \cup {k})
     /\ UNCHANGED <<verified, session, looping, leaves, kept, intact>>

\* What the thread leaves in the file; a text with the tail of another does not parse.
Contents(t) ==
  IF ~t.linked THEN {file[t.kind]} ELSE IF t.mixed THEN {t.state, Torn} ELSE {t.state}

\* Mutant: the save is over with the JSON file.
WritesFileOnce(t) ==
  /\ t \in threads /\ threads' = threads \ {t}
  /\ \E c \in Contents(t) : file' = [file EXCEPT ![t.kind] = c]
  /\ IF t.owner = "nobody" THEN UNCHANGED <<save, kept, intact>>
     ELSE /\ save' = [save EXCEPT ![t.owner] = Idle]
          /\ kept' = (IF save[t.owner].alone THEN t.state ELSE kept)
          /\ intact' = (save[t.owner].alone \/ intact)
  /\ UNCHANGED <<verified, session, looping, leaves, harmed>>
\* flush and fsync; the saver goes on to the binary file, or is done.
WritesFile(t) ==
  /\ t \in threads /\ threads' = threads \ {t}
  /\ \E c \in Contents(t) : file' = [file EXCEPT ![t.kind] = c]
  /\ LET s == t.owner
     IN IF s = "nobody" THEN UNCHANGED <<save, kept, intact>>
        ELSE IF t.kind = "json"
        THEN /\ save' = [save EXCEPT ![s].at = "begun", ![s].kind = "bin"]
             /\ UNCHANGED <<kept, intact>>
        ELSE /\ save' = [save EXCEPT ![s] = Idle]
             /\ kept' = (IF save[s].alone THEN t.state ELSE kept)
             /\ intact' = (save[s].alone \/ intact)
  /\ UNCHANGED <<verified, session, looping, leaves, harmed>>

\* The open, or the write, raises: the save ends with a CheckpointError, which
\* every caller logs, and leaves the file as it is by then.
OpenFails(s) ==
  /\ save[s].at = "begun" /\ save' = [save EXCEPT ![s] = Idle]
  /\ UNCHANGED <<verified, file, threads, session, looping, leaves, kept, intact, harmed>>
\* Mutant: the saver never hears of the error.
WriteFailsUnheard(t) ==
  /\ t \in threads /\ threads' = threads \ {t} /\ harmed' = harmed \cup {t.kind}
  /\ UNCHANGED <<verified, file, save, session, looping, leaves, kept, intact>>
WriteFails(t) ==
  /\ t \in threads /\ threads' = threads \ {t}
  /\ save' = IF t.owner = "nobody" THEN save ELSE [save EXCEPT ![t.owner] = Idle]
  /\ harmed' = harmed \cup {t.kind}
  /\ UNCHANGED <<verified, file, session, looping, leaves, kept, intact>>

-----------------------------------------------------------------------------
\* Cancelling the loop's task: a thread that writes for it writes on.
LoopCancelled(from) == [from EXCEPT !["loop"] = Idle]
Abandoned == {IF t.owner = "loop" THEN [t EXCEPT !.owner = "nobody"] ELSE t : t \in threads}

\* pause() saves first and cancels the loop afterwards, stop() the other way round.
PauseSession ==
  /\ session = "running" /\ leaves < MaxLeaves /\ leaves' = leaves + 1
  /\ session' = "pausing" /\ save' = Begun("call", save) /\ intact' = FALSE
  /\ UNCHANGED <<verified, file, threads, looping, kept, harmed>>
SessionPaused ==
  /\ session = "pausing" /\ save["call"].at = "idle" /\ session' = "paused"
  /\ looping' = FALSE /\ save' = LoopCancelled(save) /\ threads' = Abandoned
  /\ UNCHANGED <<verified, file, leaves, kept, intact, harmed>>

\* stop() saves unless the download manager says the download is complete, which the
\* one of a session, without a file assembler, never says.
StopSession ==
  /\ session \in {"running", "paused"} /\ leaves < MaxLeaves /\ leaves' = leaves + 1
  /\ session' = "stopping" /\ looping' = FALSE /\ threads' = Abandoned
  /\ save' = Begun("call", LoopCancelled(save)) /\ intact' = FALSE
  /\ UNCHANGED <<verified, file, kept, harmed>>
SessionStopped ==
  /\ session = "stopping" /\ save["call"].at = "idle" /\ session' = "down"
  /\ UNCHANGED <<verified, file, save, threads, looping, leaves, kept, intact, harmed>>

\* resume() loads the JSON file and puts the piece manager back to what it holds,
\* as far as the blocks are there; without a file, or with one that does not parse,
\* it goes on as it is.  The stop event stays set.
ResumeSession ==
  /\ session = "paused" /\ session' = "running"
  /\ verified' = IF file["json"] \in 0 .. verified THEN file["json"] ELSE verified
  /\ UNCHANGED <<file, save, threads, looping, leaves, kept, intact, harmed>>

\* A new session: its piece manager has no blocks, and the restored states are
\* set back for want of them.
StartSession ==
  /\ session = "down" /\ session' = "running" /\ looping' = TRUE /\ verified' = 0
  /\ UNCHANGED <<file, save, threads, leaves, kept, intact, harmed>>

Crash ==
  /\ leaves < MaxLeaves /\ leaves' = leaves + 1
  /\ session' = "down" /\ looping' = FALSE
  /\ save' = [s \in Savers |-> Idle] /\ threads' = {}
  /\ harmed' = harmed \cup {t.kind : t \in {t \in threads : t.linked}}
  /\ UNCHANGED <<verified, file, kept, intact>>

\* delete_checkpoint unlinks both files; a thread writes on in a file without a name.
Delete ==
  /\ file' = [k \in Kinds |-> NoFile]
  /\ threads' = {[t EXCEPT !.linked = FALSE] : t \in threads}
  /\ save' = [s \in Savers |-> [save[s] EXCEPT !.alone = FALSE]]
  /\ intact' = FALSE /\ harmed' = {}
  /\ UNCHANGED <<verified, session, looping, leaves, kept>>

SaveStep ==
  \/ \E s \in Savers : OpensFile(s)
  \/ \E t \in threads : WritesFile(t)
  \/ SessionPaused \/ SessionStopped
CkptNext ==
  \/ Verify \/ LoopSaves \/ SaveStep
  \/ \E s \in Savers : OpenFails(s)
  \/ \E t \in threads : WriteFails(t)
  \/ PauseSession \/ StopSession \/ ResumeSession \/ StartSession \/ Crash \/ Delete

\* Tasks that are ready run, threads end their writes, the loop comes round.
CkptFairness == WF_ckptVars(SaveStep) /\ WF_ckptVars(LoopSaves)
CkptSpec == CkptInit /\ [][CkptNext]_ckptVars /\ CkptFairness

-----------------------------------------------------------------------------
\* Types.
CkptTypeOK ==
  /\ verified \in States /\ kept \in States /\ leaves \in 0 .. MaxLeaves
  /\ file \in [Kinds -> States \cup {NoFile, Torn}]
  /\ save \in [Savers -> [at : {"idle", "begun", "writing"}, kind : Kinds,
                          state : States, alone : BOOLEAN]]
  /\ threads \subseteq [owner : Savers \cup {"nobody"}, kind : Kinds, state : States,
                        mixed : BOOLEAN, linked : BOOLEAN]
  /\ session \in {"running", "pausing", "paused", "stopping", "down"}
  /\ looping \in BOOLEAN /\ intact \in BOOLEAN /\ harmed \subseteq Kinds

\* A save that met no other - no save of the loop beside one of pause() or stop(),
\* no thread of a cancelled save - leaves its state in both files, and a crash,
\* a restart, a pause or a late thread does not change it before the next save.
LoneSaveIsKept == intact => \A k \in Kinds : file[k] = kept

\* A file that nobody is writing does not parse only when a crash or an error left
\* it so, or two threads wrote it at once.  Cancelling a save never does it.
TornIsExplained ==
  \A k \in Kinds : file[k] = Torn =>
     k \in harmed \/ \E t \in threads : t.kind = k /\ t.linked

\* stop() and pause() come to their end, whatever the loop's thread is doing.
LeavingEnds == session \in {"pausing", "stopping"} ~> session \in {"paused", "down"}

\* What the two files of a checkpoint hold is explained by the saves, crashes
\* and errors that touched them (save_checkpoint, the periodic loop, pause, stop).
CheckpointsAreSound == CkptTypeOK /\ LoneSaveIsKept /\ TornIsExplained
=============================================================================
