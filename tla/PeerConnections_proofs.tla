----------------------- MODULE PeerConnections_proofs -----------------------
(***************************************************************************)
(* What holds of the connection table for any number of attempts, accepted  *)
(* sockets and peers.  The typing of the lock's queue is not among it: the  *)
(* queue is filtered with SelectSeq, which is recursive.                    *)
(***************************************************************************)
EXTENDS PeerConnections, TLAPS

\* Before the entry is made, and in an attempt that failed, nothing but the
\* attempt itself runs for the connection.
Alone(c) == loop[c] = "none" /\ closer[c] = "idle" /\ ann[c] = "none"
Phases ==
  \A c \in Conns :
    /\ att[c] \notin Entered \cup {"insert", "adrift"} => Alone(c)
    /\ att[c] = "adrift" => closer[c] = "idle" /\ ann[c] # "connected"
    /\ att[c] = "insert" =>
         /\ closer[c] = "idle" /\ ann[c] = "none" /\ loop[c] \in {"none", "reading", "drop"}
         /\ c \in Incoming => loop[c] = "none"
    /\ att[c] \in {"greet", "undo"} => loop[c] = "none"
    /\ att[c] = "greet" /\ ann[c] = "gone" => sock[c] = "lost"
    /\ att[c] \in {"acquire", "dial", "handshake"} => c \in Outgoing
    /\ closer[c] = "join" => loop[c] # "none"

\* LostOnlyToRival, and the same of an accepted socket that is being greeted.
Rivals ==
  \A c \in Conns :
    /\ Established(c) \/ (att[c] = "greet" /\ Unclosed(c))
    /\ table[HostOf[c]] # c
    => \E d \in Conns \ {c} : HostOf[d] = HostOf[c] /\ Meddled(d)

TableInv == EntriesTypeOK /\ Phases /\ EntryIsInUse /\ Rivals

-----------------------------------------------------------------------------
\* The steps of the lock's queue change nothing else.
LEMMA QueueOnly ==
  ASSUME NEW t, LinesUp(t)
  PROVE  UNCHANGED <<table, holder, att, loop, closer, sock, ann, retried, stop, cast, casts, choke>>
BY DEF LinesUp

\* Every step keeps the types of everything but the queue.
LEMMA EntriesTypeStep ==
  ASSUME EntriesTypeOK, [Next]_vars
  PROVE  EntriesTypeOK'
<1> USE TableAssumption DEF EntriesTypeOK, Conns, AttStates, Att, rest, Goto, Enters, Leaves, Turn, Refuse, Shut, Unclosed
<1>1. CASE UNCHANGED vars
  BY <1>1 DEF vars
<1>2. ASSUME NEW c \in Outgoing, StartAttempt(c) PROVE EntriesTypeOK'
  BY <1>2 DEF StartAttempt, Retries
<1>3. ASSUME NEW c \in Conns, Arrive(c) PROVE EntriesTypeOK'
  BY <1>3 DEF Arrive
<1>4. ASSUME NEW c \in Conns, AcquirePooled(c) PROVE EntriesTypeOK'
  BY <1>4 DEF AcquirePooled
<1>5. ASSUME NEW c \in Conns, Dial(c) PROVE EntriesTypeOK'
  BY <1>5 DEF Dial
<1>6. ASSUME NEW c \in Conns, Shake(c) PROVE EntriesTypeOK'
  BY <1>6 DEF Shake
<1>7. ASSUME NEW c \in Conns, InsertOutgoing(c) PROVE EntriesTypeOK'
  BY <1>7 DEF InsertOutgoing
<1>8. ASSUME NEW c \in Conns, Recheck(c) PROVE EntriesTypeOK'
  BY <1>8 DEF Recheck
<1>9. ASSUME NEW c \in Conns, DropAttempt(c) PROVE EntriesTypeOK'
  BY <1>9 DEF DropAttempt
<1>10. ASSUME NEW c \in Conns, FinishAttempt(c) PROVE EntriesTypeOK'
  BY <1>10 DEF FinishAttempt
<1>11. ASSUME NEW c \in Conns, CheckLimit(c) PROVE EntriesTypeOK'
  BY <1>11 DEF CheckLimit
<1>12. ASSUME NEW c \in Conns, CheckPresent(c) PROVE EntriesTypeOK'
  BY <1>12 DEF CheckPresent
<1>13. ASSUME NEW c \in Conns, Refused(c) PROVE EntriesTypeOK'
  BY <1>13 DEF Refused
<1>14. ASSUME NEW c \in Conns, InsertIncoming(c) PROVE EntriesTypeOK'
  BY <1>14 DEF InsertIncoming
<1>15. ASSUME NEW c \in Conns, Greet(c) PROVE EntriesTypeOK'
  BY <1>15 DEF Greet
<1>16. ASSUME NEW c \in Conns, UndoIncoming(c) PROVE EntriesTypeOK'
  BY <1>16 DEF UndoIncoming
<1>17. ASSUME NEW c \in Conns, LoopEnds(c) PROVE EntriesTypeOK'
  BY <1>17 DEF LoopEnds
<1>18. ASSUME NEW c \in Conns, LoopDrop(c) PROVE EntriesTypeOK'
  BY <1>18 DEF LoopDrop
<1>19. ASSUME NEW c \in Conns, LoopClose(c) PROVE EntriesTypeOK'
  BY <1>19 DEF LoopClose
<1>20. ASSUME NEW c \in Conns, Lost(c) PROVE EntriesTypeOK'
  BY <1>20 DEF Lost
<1>21. ASSUME NEW c \in Conns, LoopFinish(c) PROVE EntriesTypeOK'
  BY <1>21 DEF LoopFinish
<1>22. ASSUME NEW c \in Conns, CloserDrop(c) PROVE EntriesTypeOK'
  BY <1>22 DEF CloserDrop
<1>23. ASSUME NEW c \in Conns, CloserGoesOn(c) PROVE EntriesTypeOK'
  BY <1>23 DEF CloserGoesOn
<1>24. ASSUME NEW c \in Conns, CloserFinish(c) PROVE EntriesTypeOK'
  BY <1>24 DEF CloserFinish
<1>25. CASE StopAsked
  BY <1>25 DEF StopAsked, CutShort
<1>26. CASE Snapshot
  BY <1>26 DEF Snapshot
<1>27. CASE StopTimeout
  BY <1>27 DEF StopTimeout
<1>28. CASE Stopped
  BY <1>28 DEF Stopped
<1>29. CASE CastAsks
  BY <1>29 DEF CastAsks
<1>30. CASE CastEnters
  BY <1>30 DEF CastEnters
<1>31. CASE CastEnds
  BY <1>31 DEF CastEnds
<1>32. CASE ChokeTick
  BY <1>32 DEF ChokeTick
<1>33. CASE ChokeEnters
  BY <1>33 DEF ChokeEnters
<1>34. ASSUME NEW t, LinesUp(t) PROVE EntriesTypeOK'
  BY <1>34, QueueOnly
<1>35. QED
  BY <1>1, <1>2, <1>3, <1>4, <1>5, <1>6, <1>7, <1>8, <1>9, <1>10, <1>11, <1>12, <1>13, <1>14, <1>15, <1>16, <1>17, <1>18, <1>19, <1>20, <1>21, <1>22, <1>23, <1>24, <1>25, <1>26, <1>27, <1>28, <1>29, <1>30, <1>31, <1>32, <1>33, <1>34 DEF Next, AttemptStep, LoopStep, CloserStep, StopStep, CastStep, ChokeStep

\* Every step keeps a connection without an entry alone.
LEMMA PhasesStep ==
  ASSUME EntriesTypeOK, Phases, EntryIsInUse, [Next]_vars
  PROVE  Phases'
<1> USE TableAssumption DEF EntriesTypeOK, Phases, Alone, Entered, EntryIsInUse, Torn, Conns, LoopWaits, rest, Goto, Enters, Leaves, Turn, Refuse, Shut, Unclosed
<1>1. CASE UNCHANGED vars
  BY <1>1 DEF vars
<1>2. ASSUME NEW c \in Outgoing, StartAttempt(c) PROVE Phases'
  BY <1>2 DEF StartAttempt, Retries
<1>3. ASSUME NEW c \in Conns, Arrive(c) PROVE Phases'
  BY <1>3 DEF Arrive
<1>4. ASSUME NEW c \in Conns, AcquirePooled(c) PROVE Phases'
  BY <1>4 DEF AcquirePooled
<1>5. ASSUME NEW c \in Conns, Dial(c) PROVE Phases'
  BY <1>5 DEF Dial
<1>6. ASSUME NEW c \in Conns, Shake(c) PROVE Phases'
  BY <1>6 DEF Shake
<1>7. ASSUME NEW c \in Conns, InsertOutgoing(c) PROVE Phases'
  BY <1>7 DEF InsertOutgoing
<1>8. ASSUME NEW c \in Conns, Recheck(c) PROVE Phases'
  BY <1>8 DEF Recheck
<1>9. ASSUME NEW c \in Conns, DropAttempt(c) PROVE Phases'
  BY <1>9 DEF DropAttempt
<1>10. ASSUME NEW c \in Conns, FinishAttempt(c) PROVE Phases'
  BY <1>10 DEF FinishAttempt
<1>11. ASSUME NEW c \in Conns, CheckLimit(c) PROVE Phases'
  BY <1>11 DEF CheckLimit
<1>12. ASSUME NEW c \in Conns, CheckPresent(c) PROVE Phases'
  BY <1>12 DEF CheckPresent
<1>13. ASSUME NEW c \in Conns, Refused(c) PROVE Phases'
  BY <1>13 DEF Refused
<1>14. ASSUME NEW c \in Conns, InsertIncoming(c) PROVE Phases'
  BY <1>14 DEF InsertIncoming
<1>15. ASSUME NEW c \in Conns, Greet(c) PROVE Phases'
  BY <1>15 DEF Greet
<1>16. ASSUME NEW c \in Conns, UndoIncoming(c) PROVE Phases'
  BY <1>16 DEF UndoIncoming
<1>17. ASSUME NEW c \in Conns, LoopEnds(c) PROVE Phases'
  BY <1>17 DEF LoopEnds
<1>18. ASSUME NEW c \in Conns, LoopDrop(c) PROVE Phases'
  BY <1>18 DEF LoopDrop
<1>19. ASSUME NEW c \in Conns, LoopClose(c) PROVE Phases'
  BY <1>19 DEF LoopClose
<1>20. ASSUME NEW c \in Conns, Lost(c) PROVE Phases'
  BY <1>20 DEF Lost
<1>21. ASSUME NEW c \in Conns, LoopFinish(c) PROVE Phases'
  BY <1>21 DEF LoopFinish
<1>22. ASSUME NEW c \in Conns, CloserDrop(c) PROVE Phases'
  BY <1>22 DEF CloserDrop
<1>23. ASSUME NEW c \in Conns, CloserGoesOn(c) PROVE Phases'
  BY <1>23 DEF CloserGoesOn
<1>24. ASSUME NEW c \in Conns, CloserFinish(c) PROVE Phases'
  BY <1>24 DEF CloserFinish
<1>25. CASE StopAsked
  BY <1>25 DEF StopAsked, CutShort
<1>26. CASE Snapshot
  BY <1>26 DEF Snapshot
<1>27. CASE StopTimeout
  BY <1>27 DEF StopTimeout
<1>28. CASE Stopped
  BY <1>28 DEF Stopped
<1>29. CASE CastAsks
  BY <1>29 DEF CastAsks
<1>30. CASE CastEnters
  BY <1>30 DEF CastEnters
<1>31. CASE CastEnds
  BY <1>31 DEF CastEnds
<1>32. CASE ChokeTick
  BY <1>32 DEF ChokeTick
<1>33. CASE ChokeEnters
  BY <1>33 DEF ChokeEnters
<1>34. ASSUME NEW t, LinesUp(t) PROVE Phases'
  BY <1>34, QueueOnly
<1>35. QED
  BY <1>1, <1>2, <1>3, <1>4, <1>5, <1>6, <1>7, <1>8, <1>9, <1>10, <1>11, <1>12, <1>13, <1>14, <1>15, <1>16, <1>17, <1>18, <1>19, <1>20, <1>21, <1>22, <1>23, <1>24, <1>25, <1>26, <1>27, <1>28, <1>29, <1>30, <1>31, <1>32, <1>33, <1>34 DEF Next, AttemptStep, LoopStep, CloserStep, StopStep, CastStep, ChokeStep

\* Every step keeps connections that are torn down out of the table.
LEMMA EntryStep ==
  ASSUME EntriesTypeOK, Phases, EntryIsInUse, [Next]_vars
  PROVE  EntryIsInUse'
<1> USE TableAssumption DEF EntriesTypeOK, Phases, Alone, Entered, EntryIsInUse, Torn, Conns, LoopWaits, rest, Goto, Enters, Leaves, Turn, Refuse, Shut, Unclosed
<1>1. CASE UNCHANGED vars
  BY <1>1 DEF vars
<1>2. ASSUME NEW c \in Outgoing, StartAttempt(c) PROVE EntryIsInUse'
  BY <1>2 DEF StartAttempt, Retries
<1>3. ASSUME NEW c \in Conns, Arrive(c) PROVE EntryIsInUse'
  BY <1>3 DEF Arrive
<1>4. ASSUME NEW c \in Conns, AcquirePooled(c) PROVE EntryIsInUse'
  BY <1>4 DEF AcquirePooled
<1>5. ASSUME NEW c \in Conns, Dial(c) PROVE EntryIsInUse'
  BY <1>5 DEF Dial
<1>6. ASSUME NEW c \in Conns, Shake(c) PROVE EntryIsInUse'
  BY <1>6 DEF Shake
<1>7. ASSUME NEW c \in Conns, InsertOutgoing(c) PROVE EntryIsInUse'
  BY <1>7 DEF InsertOutgoing
<1>8. ASSUME NEW c \in Conns, Recheck(c) PROVE EntryIsInUse'
  BY <1>8 DEF Recheck
<1>9. ASSUME NEW c \in Conns, DropAttempt(c) PROVE EntryIsInUse'
  BY <1>9 DEF DropAttempt
<1>10. ASSUME NEW c \in Conns, FinishAttempt(c) PROVE EntryIsInUse'
  BY <1>10 DEF FinishAttempt
<1>11. ASSUME NEW c \in Conns, CheckLimit(c) PROVE EntryIsInUse'
  BY <1>11 DEF CheckLimit
<1>12. ASSUME NEW c \in Conns, CheckPresent(c) PROVE EntryIsInUse'
  BY <1>12 DEF CheckPresent
<1>13. ASSUME NEW c \in Conns, Refused(c) PROVE EntryIsInUse'
  BY <1>13 DEF Refused
<1>14. ASSUME NEW c \in Conns, InsertIncoming(c) PROVE EntryIsInUse'
  BY <1>14 DEF InsertIncoming
<1>15. ASSUME NEW c \in Conns, Greet(c) PROVE EntryIsInUse'
  BY <1>15 DEF Greet
<1>16. ASSUME NEW c \in Conns, UndoIncoming(c) PROVE EntryIsInUse'
  BY <1>16 DEF UndoIncoming
<1>17. ASSUME NEW c \in Conns, LoopEnds(c) PROVE EntryIsInUse'
  BY <1>17 DEF LoopEnds
<1>18. ASSUME NEW c \in Conns, LoopDrop(c) PROVE EntryIsInUse'
  BY <1>18 DEF LoopDrop
<1>19. ASSUME NEW c \in Conns, LoopClose(c) PROVE EntryIsInUse'
  BY <1>19 DEF LoopClose
<1>20. ASSUME NEW c \in Conns, Lost(c) PROVE EntryIsInUse'
  BY <1>20 DEF Lost
<1>21. ASSUME NEW c \in Conns, LoopFinish(c) PROVE EntryIsInUse'
  BY <1>21 DEF LoopFinish
<1>22. ASSUME NEW c \in Conns, CloserDrop(c) PROVE EntryIsInUse'
  BY <1>22 DEF CloserDrop
<1>23. ASSUME NEW c \in Conns, CloserGoesOn(c) PROVE EntryIsInUse'
  BY <1>23 DEF CloserGoesOn
<1>24. ASSUME NEW c \in Conns, CloserFinish(c) PROVE EntryIsInUse'
  BY <1>24 DEF CloserFinish
<1>25. CASE StopAsked
  BY <1>25 DEF StopAsked, CutShort
<1>26. CASE Snapshot
  BY <1>26 DEF Snapshot
<1>27. CASE StopTimeout
  BY <1>27 DEF StopTimeout
<1>28. CASE Stopped
  BY <1>28 DEF Stopped
<1>29. CASE CastAsks
  BY <1>29 DEF CastAsks
<1>30. CASE CastEnters
  BY <1>30 DEF CastEnters
<1>31. CASE CastEnds
  BY <1>31 DEF CastEnds
<1>32. CASE ChokeTick
  BY <1>32 DEF ChokeTick
<1>33. CASE ChokeEnters
  BY <1>33 DEF ChokeEnters
<1>34. ASSUME NEW t, LinesUp(t) PROVE EntryIsInUse'
  BY <1>34, QueueOnly
<1> HIDE DEF EntriesTypeOK, Phases, Alone, Entered, EntryIsInUse, Torn, Conns, LoopWaits, rest, Goto, Enters, Leaves, Turn, Refuse, Shut, Unclosed
<1>35. QED
  BY <1>1, <1>2, <1>3, <1>4, <1>5, <1>6, <1>7, <1>8, <1>9, <1>10, <1>11, <1>12, <1>13, <1>14, <1>15, <1>16, <1>17, <1>18, <1>19, <1>20, <1>21, <1>22, <1>23, <1>24, <1>25, <1>26, <1>27, <1>28, <1>29, <1>30, <1>31, <1>32, <1>33, <1>34 DEF Next, AttemptStep, LoopStep, CloserStep, StopStep, CastStep, ChokeStep

\* Every step that puts a connection out of the table leaves a culprit.
LEMMA RivalsStep ==
  ASSUME EntriesTypeOK, Phases, EntryIsInUse, Rivals, [Next]_vars
  PROVE  Rivals'
<1> USE TableAssumption DEF EntriesTypeOK, Phases, Alone, Entered, EntryIsInUse, Torn, Rivals, Established, Meddled, Conns, LoopWaits, rest, Goto, Enters, Leaves, Turn, Refuse, Shut, Unclosed
<1>1. CASE UNCHANGED vars
  BY <1>1 DEF vars
<1>2. ASSUME NEW c \in Outgoing, StartAttempt(c) PROVE Rivals'
  BY <1>2 DEF StartAttempt, Retries
<1>3. ASSUME NEW c \in Conns, Arrive(c) PROVE Rivals'
  BY <1>3 DEF Arrive
<1>4. ASSUME NEW c \in Conns, AcquirePooled(c) PROVE Rivals'
  BY <1>4 DEF AcquirePooled
<1>5. ASSUME NEW c \in Conns, Dial(c) PROVE Rivals'
  BY <1>5 DEF Dial
<1>6. ASSUME NEW c \in Conns, Shake(c) PROVE Rivals'
  BY <1>6 DEF Shake
<1>7. ASSUME NEW c \in Conns, InsertOutgoing(c) PROVE Rivals'
  BY <1>7 DEF InsertOutgoing
<1>8. ASSUME NEW c \in Conns, Recheck(c) PROVE Rivals'
  BY <1>8 DEF Recheck
<1>9. ASSUME NEW c \in Conns, DropAttempt(c) PROVE Rivals'
  BY <1>9 DEF DropAttempt
<1>10. ASSUME NEW c \in Conns, FinishAttempt(c) PROVE Rivals'
  BY <1>10 DEF FinishAttempt
<1>11. ASSUME NEW c \in Conns, CheckLimit(c) PROVE Rivals'
  BY <1>11 DEF CheckLimit
<1>12. ASSUME NEW c \in Conns, CheckPresent(c) PROVE Rivals'
  BY <1>12 DEF CheckPresent
<1>13. ASSUME NEW c \in Conns, Refused(c) PROVE Rivals'
  BY <1>13 DEF Refused
<1>14. ASSUME NEW c \in Conns, InsertIncoming(c) PROVE Rivals'
  BY <1>14 DEF InsertIncoming
<1>15. ASSUME NEW c \in Conns, Greet(c) PROVE Rivals'
  BY <1>15 DEF Greet
<1>16. ASSUME NEW c \in Conns, UndoIncoming(c) PROVE Rivals'
  BY <1>16 DEF UndoIncoming
<1>17. ASSUME NEW c \in Conns, LoopEnds(c) PROVE Rivals'
  BY <1>17 DEF LoopEnds
<1>18. ASSUME NEW c \in Conns, LoopDrop(c) PROVE Rivals'
  BY <1>18 DEF LoopDrop
<1>19. ASSUME NEW c \in Conns, LoopClose(c) PROVE Rivals'
  BY <1>19 DEF LoopClose
<1>20. ASSUME NEW c \in Conns, Lost(c) PROVE Rivals'
  BY <1>20 DEF Lost
<1>21. ASSUME NEW c \in Conns, LoopFinish(c) PROVE Rivals'
  BY <1>21 DEF LoopFinish
<1>22. ASSUME NEW c \in Conns, CloserDrop(c) PROVE Rivals'
  BY <1>22 DEF CloserDrop
<1>23. ASSUME NEW c \in Conns, CloserGoesOn(c) PROVE Rivals'
  BY <1>23 DEF CloserGoesOn
<1>24. ASSUME NEW c \in Conns, CloserFinish(c) PROVE Rivals'
  BY <1>24 DEF CloserFinish
<1>25. CASE StopAsked
  BY <1>25 DEF StopAsked, CutShort
<1>26. CASE Snapshot
  BY <1>26 DEF Snapshot
<1>27. CASE StopTimeout
  BY <1>27 DEF StopTimeout
<1>28. CASE Stopped
  BY <1>28 DEF Stopped
<1>29. CASE CastAsks
  BY <1>29 DEF CastAsks
<1>30. CASE CastEnters
  BY <1>30 DEF CastEnters
<1>31. CASE CastEnds
  BY <1>31 DEF CastEnds
<1>32. CASE ChokeTick
  BY <1>32 DEF ChokeTick
<1>33. CASE ChokeEnters
  BY <1>33 DEF ChokeEnters
<1>34. ASSUME NEW t, LinesUp(t) PROVE Rivals'
  BY <1>34, QueueOnly
<1>35. QED
  BY <1>1, <1>2, <1>3, <1>4, <1>5, <1>6, <1>7, <1>8, <1>9, <1>10, <1>11, <1>12, <1>13, <1>14, <1>15, <1>16, <1>17, <1>18, <1>19, <1>20, <1>21, <1>22, <1>23, <1>24, <1>25, <1>26, <1>27, <1>28, <1>29, <1>30, <1>31, <1>32, <1>33, <1>34 DEF Next, AttemptStep, LoopStep, CloserStep, StopStep, CastStep, ChokeStep

-----------------------------------------------------------------------------
LEMMA TableInvInit == Init => TableInv
BY TableAssumption DEF Init, TableInv, EntriesTypeOK, AttStates, Phases, Alone, Entered, EntryIsInUse, Rivals, Established, Conns, Nobody

LEMMA TableInvStep == TableInv /\ [Next]_vars => TableInv'
BY EntriesTypeStep, PhasesStep, EntryStep, RivalsStep DEF TableInv

THEOREM TableInvariant == Spec => []TableInv
BY TableInvInit, TableInvStep, PTL DEF Spec

\* Types, but for the lock's queue.
THEOREM EntriesTypeCorrect == Spec => []EntriesTypeOK
<1>1. TableInv => EntriesTypeOK
  BY DEF TableInv
<1>2. QED
  BY <1>1, TableInvariant, PTL

\* No connection in the table is torn down, for any number of coroutines.
THEOREM NoTornEntry == Spec => []EntryIsInUse
<1>1. TableInv => EntryIsInUse
  BY DEF TableInv
<1>2. QED
  BY <1>1, TableInvariant, PTL

\* A connection that reads and is not in the table lost its place to another
\* connection of its peer.
THEOREM OnlyRivalsEvict == Spec => []LostOnlyToRival
<1>1. TableInv => LostOnlyToRival
  BY DEF TableInv, Rivals, LostOnlyToRival
<1>2. QED
  BY <1>1, TableInvariant, PTL

-----------------------------------------------------------------------------
\* No step changes the table while a task is suspended inside the lock.
LEMMA TableStands == [Next]_vars /\ holder # Nobody => table' = table
<1> SUFFICES ASSUME [Next]_vars, holder # Nobody PROVE table' = table
  OBVIOUS
<1>1. CASE UNCHANGED vars
  BY <1>1 DEF vars
<1>2. ASSUME NEW c \in Conns, AttemptStep(c) PROVE table' = table
  BY <1>2 DEF AttemptStep, AcquirePooled, Dial, Shake, InsertOutgoing, Recheck, DropAttempt, FinishAttempt, CheckLimit, CheckPresent, Refused, InsertIncoming, Greet, UndoIncoming, LinesUp, Turn
<1>3. ASSUME NEW c \in Conns, LoopStep(c) \/ CloserStep(c) PROVE table' = table
  BY <1>3 DEF LoopStep, LoopDrop, LoopClose, LoopFinish, CloserStep, CloserDrop, CloserGoesOn, CloserFinish, LinesUp, Turn
<1>4. ASSUME NEW c \in Conns, StartAttempt(c) \/ Arrive(c) \/ LoopEnds(c) \/ Lost(c) PROVE table' = table
  BY <1>4 DEF StartAttempt, Arrive, LoopEnds, Lost
<1>5. CASE StopAsked \/ StopStep
  BY <1>5 DEF StopAsked, StopStep, Snapshot, StopTimeout, Stopped, LinesUp
<1>6. CASE CastAsks \/ CastStep \/ ChokeTick \/ ChokeStep
  BY <1>6 DEF CastAsks, CastStep, CastEnters, CastEnds, ChokeTick, ChokeStep, ChokeEnters, LinesUp
<1>7. QED
  BY <1>1, <1>2, <1>3, <1>4, <1>5, <1>6 DEF Next, Conns

\* While a task is suspended inside the lock the table stands still.
THEOREM LockGuardsTable == Spec => TableStableWhileHeld
BY TableStands, PTL DEF Spec, TableStableWhileHeld

\* The end of a connection is never followed by its announcement.
THEOREM NeverConnectedAgain == Spec => AnnouncedInOrder
<1>1. TableInv /\ [Next]_vars => [\A c \in Conns : ann[c] = "gone" => ann'[c] = "gone"]_ann
  <2> SUFFICES ASSUME TableInv, [Next]_vars, NEW d \in Conns, ann[d] = "gone"
               PROVE  ann'[d] = "gone"
    OBVIOUS
  <2> USE DEF TableInv, EntriesTypeOK, Phases, Alone, Entered
  <2>1. ASSUME UNCHANGED ann PROVE ann'[d] = "gone"
    BY <2>1
  <2>2. ASSUME NEW c \in Conns, InsertOutgoing(c) \/ FinishAttempt(c) PROVE ann'[d] = "gone"
    BY <2>2 DEF InsertOutgoing, FinishAttempt
  <2>3. ASSUME NEW c \in Conns, Greet(c) PROVE ann'[d] = "gone"
    BY <2>3 DEF Greet
  <2>4. ASSUME NEW c \in Conns, LoopFinish(c) \/ CloserFinish(c) PROVE ann'[d] = "gone"
    BY <2>4 DEF LoopFinish, CloserFinish
  <2>5. ASSUME NEW c \in Conns, AttemptStep(c) PROVE ann'[d] = "gone"
    BY <2>1, <2>2, <2>3, <2>5 DEF AttemptStep, AcquirePooled, Dial, Shake, Recheck, DropAttempt, CheckLimit, CheckPresent, Refused, InsertIncoming, UndoIncoming, LinesUp
  <2>6. ASSUME NEW c \in Conns, LoopStep(c) \/ CloserStep(c) PROVE ann'[d] = "gone"
    BY <2>1, <2>4, <2>6 DEF LoopStep, LoopDrop, LoopClose, CloserStep, CloserDrop, CloserGoesOn, LinesUp
  <2>7. ASSUME NEW c \in Conns, StartAttempt(c) \/ Arrive(c) \/ LoopEnds(c) \/ Lost(c) PROVE ann'[d] = "gone"
    BY <2>1, <2>7 DEF StartAttempt, Arrive, LoopEnds, Lost
  <2>8. CASE StopAsked \/ StopStep
    BY <2>1, <2>8 DEF StopAsked, StopStep, Snapshot, StopTimeout, Stopped, LinesUp, rest
  <2>9. CASE CastAsks \/ CastStep \/ ChokeTick \/ ChokeStep
    BY <2>1, <2>9 DEF CastAsks, CastStep, CastEnters, CastEnds, ChokeTick, ChokeStep, ChokeEnters, LinesUp
  <2>10. QED
    BY <2>1, <2>5, <2>6, <2>7, <2>8, <2>9 DEF Next, Conns, vars
<1>2. QED
  BY <1>1, TableInvariant, PTL DEF Spec, AnnouncedInOrder

-----------------------------------------------------------------------------
\* What becomes of the attempts of the reconnection loop.
Over == {"finish", "done", "refused", "adrift"}
Tried == Over \cup {"acquire", "dial", "handshake", "insert", "recheck", "nested", "drop"}
RetriesEnded ==
  /\ retried \subseteq Outgoing
  /\ \A c \in retried : att[c] \in Tried
  /\ stop # "no" => \A c \in retried : att[c] \in Over

LEMMA RetriesStep ==
  ASSUME EntriesTypeOK, RetriesEnded, [Next]_vars
  PROVE  RetriesEnded'
<1> USE TableAssumption DEF RetriesEnded, rest, EntriesTypeOK, Conns, Over, Tried
<1> DEFINE Kept == /\ UNCHANGED <<att, retried>>
                   /\ stop' = stop \/ stop # "no"
<1>0. Kept => RetriesEnded'
  OBVIOUS
<1>1. CASE StopAsked
  BY <1>1 DEF StopAsked, CutShort
<1>2. ASSUME NEW d \in Conns, AttemptStep(d), ~LinesUp(Att(d)) PROVE RetriesEnded'
  <2>1. UNCHANGED <<retried, stop>>
    BY <1>2 DEF AttemptStep, AcquirePooled, Dial, Shake, InsertOutgoing, Recheck, DropAttempt,
                FinishAttempt, CheckLimit, CheckPresent, Refused, InsertIncoming, Greet, UndoIncoming
  <2>2. PICK s : Goto(d, s)
    BY <1>2 DEF AttemptStep, AcquirePooled, Dial, Shake, InsertOutgoing, Recheck, DropAttempt, Refuse,
                FinishAttempt, CheckLimit, CheckPresent, Refused, InsertIncoming, Greet, UndoIncoming
  <2>3. CASE d \notin retried
    BY <2>1, <2>2, <2>3 DEF Goto
  <2>4. CASE d \in retried
    <3>1. att[d] \in Tried /\ d \in Outgoing /\ d \notin Incoming /\ att[d] \notin {"limit", "dup", "reject", "greet", "undo"}
      BY <2>4
    <3>2. s = att'[d]
      BY <2>2 DEF Goto
    <3>3. CASE FinishAttempt(d)
      <4>1. att'[d] = "done"
        BY <3>3 DEF FinishAttempt, Goto
      <4>2. QED
        BY <2>1, <2>2, <3>2, <4>1 DEF Goto
    <3>4. CASE ~FinishAttempt(d)
      <4>1. att[d] \notin Over /\ att'[d] \in Tried
        BY <1>2, <3>1, <3>4 DEF AttemptStep, AcquirePooled, Dial, Shake, InsertOutgoing, Recheck, DropAttempt,
                           CheckLimit, CheckPresent, Refused, InsertIncoming, Greet, UndoIncoming, Goto
      <4>2. stop = "no"
        BY <2>4, <4>1
      <4>3. QED
        BY <2>1, <2>2, <3>2, <4>1, <4>2 DEF Goto
    <3>5. QED
      BY <3>3, <3>4
  <2>5. QED
    BY <2>3, <2>4
<1>3. ASSUME NEW d \in Outgoing, StartAttempt(d) PROVE RetriesEnded'
  BY <1>3 DEF StartAttempt, Retries, Goto
<1>4. ASSUME NEW d \in Conns, Arrive(d) PROVE RetriesEnded'
  BY <1>4 DEF Arrive, Goto
<1>5. ASSUME NEW d \in Conns, LoopEnds(d) \/ LoopStep(d) \/ Lost(d) \/ CloserStep(d) PROVE Kept
  BY <1>5 DEF LoopEnds, LoopStep, LoopDrop, LoopClose, LoopFinish, Lost, CloserStep, CloserDrop, CloserGoesOn,
              CloserFinish, LinesUp
<1>6. ASSUME StopStep \/ CastAsks \/ CastStep \/ ChokeTick \/ ChokeStep PROVE Kept
  BY <1>6 DEF StopStep, Snapshot, StopTimeout, Stopped, CastAsks, CastStep, CastEnters, CastEnds, ChokeTick,
              ChokeStep, ChokeEnters, LinesUp
<1>7. ASSUME NEW t, LinesUp(t) PROVE Kept
  BY <1>7, QueueOnly
<1>8. ASSUME UNCHANGED vars PROVE Kept
  BY <1>8 DEF vars
<1>9. QED
  BY <1>0, <1>1, <1>2, <1>3, <1>4, <1>5, <1>6, <1>7, <1>8 DEF Next

THEOREM RetriesInvariant == Spec => []RetriesEnded
<1>1. Init => RetriesEnded
  BY DEF Init, RetriesEnded
<1>2. QED
  BY <1>1, RetriesStep, EntriesTypeCorrect, PTL DEF Spec

\* stop() frees the lock of an attempt of the reconnection loop: from when it has
\* cancelled the loop (async_peer_connection.py:937) none of them waits for the
\* lock it holds, or makes an entry any more.
THEOREM StopEndsRetries ==
  Spec => [](stop # "no" => \A c \in retried : att[c] \notin {"insert", "nested"})
<1>1. RetriesEnded => (stop # "no" => \A c \in retried : att[c] \notin {"insert", "nested"})
  BY DEF RetriesEnded, Over
<1>2. QED
  BY <1>1, RetriesInvariant, PTL

-----------------------------------------------------------------------------
(* The lock *)

\* The tasks are told apart.
LEMMA TasksDiffer ==
  /\ \A c, d : Att(c) = Att(d) => c = d
  /\ \A c : Att(c) # Cast /\ Att(c) # Choke /\ Att(c) # Nobody
  /\ Cast # Choke /\ Cast # Nobody /\ Choke # Nobody
BY DEF Att, Cast, Choke, Nobody

\* A step that leaves the lock and those who are inside it alone.
LEMMA HolderKept ==
  ASSUME HolderIsInside, UNCHANGED <<holder, cast, choke>>,
         \A c \in Conns : att'[c] \in Inside <=> att[c] \in Inside
  PROVE  HolderIsInside'
BY DEF HolderIsInside

\* A step of one attempt that is inside neither before nor after it.
LEMMA OutsideStep ==
  ASSUME EntriesTypeOK, HolderIsInside, NEW c \in Conns, NEW s, Goto(c, s),
         att[c] \notin Inside, s \notin Inside, UNCHANGED <<holder, cast, choke>>
  PROVE  HolderIsInside'
BY HolderKept DEF Goto, EntriesTypeOK

\* An attempt gets inside a lock that nobody holds.
LEMMA AttEntersLock ==
  ASSUME EntriesTypeOK, HolderIsInside, NEW c \in Conns, NEW s \in Inside, Goto(c, s),
         holder = Nobody, holder' = Att(c), UNCHANGED <<cast, choke>>
  PROVE  HolderIsInside'
<1>1. \A d \in Conns : att[d] \notin Inside
  BY TasksDiffer DEF HolderIsInside
<1>2. cast # "sending" /\ choke # "stuck"
  BY TasksDiffer DEF HolderIsInside
<1>3. \A d \in Conns : att'[d] \in Inside <=> d = c
  BY <1>1 DEF Goto, EntriesTypeOK
<1>4. \A d \in Conns : holder' = Att(d) <=> d = c
  BY TasksDiffer
<1>5. holder' # Cast /\ holder' # Choke
  BY TasksDiffer
<1>6. QED
  BY <1>2, <1>3, <1>4, <1>5 DEF HolderIsInside

LEMMA HolderStep ==
  ASSUME EntriesTypeOK, RetriesEnded, HolderIsInside, [Next]_vars
  PROVE  HolderIsInside'
<1> USE DEF rest
<1>1. CASE UNCHANGED <<holder, cast, choke, att>>
  BY <1>1, HolderKept
<1>2. ASSUME NEW c \in Conns, AttemptStep(c) PROVE HolderIsInside'
  <2>1. CASE AcquirePooled(c)
    BY <2>1, OutsideStep DEF AcquirePooled, Inside
  <2>2. CASE Dial(c)
    BY <2>2, OutsideStep DEF Dial, Inside
  <2>3. CASE Shake(c)
    BY <2>3, OutsideStep DEF Shake, Inside
  <2>4. CASE InsertOutgoing(c)
    BY <2>4, OutsideStep DEF InsertOutgoing, Inside
  <2>5. CASE Recheck(c)
    <3>1. CASE table[HostOf[c]] # NoConn
      BY <2>5, <3>1, OutsideStep DEF Recheck, Inside
    <3>2. CASE table[HostOf[c]] = NoConn
      BY <2>5, <3>2, AttEntersLock DEF Recheck, Turn, Inside
    <3>3. QED
      BY <3>1, <3>2
  <2>6. CASE DropAttempt(c) \/ FinishAttempt(c)
    BY <2>6, OutsideStep DEF DropAttempt, FinishAttempt, Inside
  <2>7. CASE CheckLimit(c)
    <3>1. CASE Refuse(c)
      BY <2>7, <3>1, AttEntersLock DEF CheckLimit, Refuse, Turn, Inside
    <3>2. CASE ~Refuse(c)
      BY <2>7, <3>2, OutsideStep DEF CheckLimit, Inside
    <3>3. QED
      BY <3>1, <3>2
  <2>8. CASE CheckPresent(c)
    <3>1. CASE Refuse(c)
      BY <2>8, <3>1, AttEntersLock DEF CheckPresent, Refuse, Turn, Inside
    <3>2. CASE ~Refuse(c)
      BY <2>8, <3>2, OutsideStep DEF CheckPresent, Inside
    <3>3. QED
      BY <3>1, <3>2
  <2>9. CASE Refused(c)
    <3>1. holder = Att(c)
      BY <2>9 DEF Refused, HolderIsInside, Inside
    <3>2. \A d \in Conns : att'[d] \notin Inside
      BY <2>9, <3>1, TasksDiffer DEF Refused, Goto, HolderIsInside, EntriesTypeOK, Inside
    <3>3. cast # "sending" /\ choke # "stuck"
      BY <3>1, TasksDiffer DEF HolderIsInside
    <3>4. holder' = Nobody /\ UNCHANGED <<cast, choke>>
      BY <2>9 DEF Refused
    <3>5. QED
      BY <3>2, <3>3, <3>4, TasksDiffer DEF HolderIsInside
  <2>10. CASE InsertIncoming(c) \/ UndoIncoming(c)
    BY <2>10, OutsideStep DEF InsertIncoming, UndoIncoming, Inside
  <2>11. CASE Greet(c)
    BY <2>11, OutsideStep DEF Greet, Inside
  <2>12. CASE LinesUp(Att(c))
    BY <1>1, <2>12 DEF LinesUp
  <2>13. QED
    BY <1>2, <2>1, <2>2, <2>3, <2>4, <2>5, <2>6, <2>7, <2>8, <2>9, <2>10, <2>11, <2>12 DEF AttemptStep
<1>3. ASSUME NEW c \in Conns, StartAttempt(c) \/ Arrive(c) PROVE HolderIsInside'
  BY <1>3, OutsideStep DEF StartAttempt, Arrive, Inside
<1>4. ASSUME NEW c \in Conns, LoopEnds(c) \/ LoopStep(c) \/ Lost(c) PROVE HolderIsInside'
  BY <1>1, <1>4 DEF LoopEnds, LoopStep, LoopDrop, LoopClose, LoopFinish, Lost, LinesUp
<1>5. ASSUME NEW c \in Conns, CloserStep(c) PROVE HolderIsInside'
  BY <1>1, <1>5 DEF CloserStep, CloserDrop, CloserGoesOn, CloserFinish, LinesUp
<1>6. CASE StopAsked
  <2> USE TasksDiffer DEF HolderIsInside
  <2>1. cast' = cast /\ choke' # "stuck"
    BY <1>6 DEF StopAsked
  <2>2. \A c \in Conns : att'[c] \in Inside <=> att[c] \in Inside /\ c \notin retried
    BY <1>6 DEF StopAsked, CutShort, Inside, EntriesTypeOK, Conns, RetriesEnded, Tried, Over
  <2>3. CASE holder = Choke \/ \E c \in retried : holder = Att(c)
    <3>1. holder' = Nobody
      BY <1>6, <2>3 DEF StopAsked
    <3>2. cast # "sending" /\ \A c \in Conns : c \notin retried => att[c] \notin Inside
      BY <2>3
    <3>3. QED
      BY <2>1, <2>2, <3>1, <3>2
  <2>4. CASE ~(holder = Choke \/ \E c \in retried : holder = Att(c))
    <3>1. holder' = holder
      BY <1>6, <2>4 DEF StopAsked
    <3>2. QED
      BY <2>1, <2>2, <2>4, <3>1
  <2>5. QED
    BY <2>3, <2>4
<1>7. CASE StopStep
  BY <1>1, <1>7 DEF StopStep, Snapshot, StopTimeout, Stopped, LinesUp
<1>8. CASE CastAsks
  BY <1>8 DEF CastAsks, HolderIsInside
<1>9. CASE CastStep
  <2>1. CASE CastEnters
    <3>1. CASE cast' = "sending"
      <4>1. holder = Nobody /\ holder' = Cast /\ UNCHANGED <<att, choke>>
        BY <2>1, <3>1 DEF CastEnters, Turn
      <4>2. choke # "stuck" /\ \A c \in Conns : att[c] \notin Inside
        BY <4>1, TasksDiffer DEF HolderIsInside
      <4>3. QED
        BY <3>1, <4>1, <4>2, TasksDiffer DEF HolderIsInside
    <3>2. CASE cast' # "sending"
      BY <2>1, <3>2 DEF CastEnters, HolderIsInside
    <3>3. QED
      BY <3>1, <3>2
  <2>2. CASE CastEnds
    <3>1. holder = Cast /\ holder' = Nobody /\ cast' # "sending" /\ UNCHANGED <<att, choke>>
      BY <2>2 DEF CastEnds, HolderIsInside
    <3>2. choke # "stuck" /\ \A c \in Conns : att[c] \notin Inside
      BY <3>1, TasksDiffer DEF HolderIsInside
    <3>3. QED
      BY <3>1, <3>2, TasksDiffer DEF HolderIsInside
  <2>3. CASE LinesUp(Cast)
    BY <1>1, <2>3 DEF LinesUp
  <2>4. QED
    BY <1>9, <2>1, <2>2, <2>3 DEF CastStep
<1>10. CASE ChokeTick
  BY <1>10 DEF ChokeTick, HolderIsInside
<1>11. CASE ChokeStep
  <2>1. CASE ChokeEnters
    <3>1. CASE choke' = "stuck"
      <4>1. holder = Nobody /\ holder' = Choke /\ UNCHANGED <<att, cast>>
        BY <2>1, <3>1 DEF ChokeEnters, Turn
      <4>2. cast # "sending" /\ \A c \in Conns : att[c] \notin Inside
        BY <4>1, TasksDiffer DEF HolderIsInside
      <4>3. QED
        BY <3>1, <4>1, <4>2, TasksDiffer DEF HolderIsInside
    <3>2. CASE choke' # "stuck"
      BY <2>1, <3>2 DEF ChokeEnters, HolderIsInside
    <3>3. QED
      BY <3>1, <3>2
  <2>2. CASE LinesUp(Choke)
    BY <1>1, <2>2 DEF LinesUp
  <2>3. QED
    BY <1>11, <2>1, <2>2 DEF ChokeStep
<1>12. CASE UNCHANGED vars
  BY <1>1, <1>12 DEF vars
<1>13. QED
  BY <1>2, <1>3, <1>4, <1>5, <1>6, <1>7, <1>8, <1>9, <1>10, <1>11, <1>12 DEF Next, Conns

\* The lock is held by the task that is suspended inside it and by no other, for
\* any number of attempts, accepted sockets and peers.
THEOREM LockIsOfOne == Spec => []HolderIsInside
<1>1. Init => HolderIsInside
  BY TasksDiffer DEF Init, HolderIsInside, Inside
<1>2. QED
  BY <1>1, HolderStep, EntriesTypeCorrect, RetriesInvariant, PTL DEF Spec

\* Before stop() has taken its snapshot there is no teardown of its own.
ClosersIdle == stop \in {"no", "snapshot"} => \A c \in Conns : closer[c] = "idle"

LEMMA ClosersStep ==
  ASSUME ClosersIdle, [Next]_vars
  PROVE  ClosersIdle'
<1> SUFFICES ASSUME stop' \in {"no", "snapshot"} PROVE \A d \in Conns : closer'[d] = "idle"
  BY DEF ClosersIdle
<1> USE DEF rest
<1>1. ~Snapshot /\ ~StopTimeout /\ ~Stopped
  BY DEF Snapshot, StopTimeout, Stopped
<1>2. ASSUME NEW c \in Conns, StartAttempt(c) \/ Arrive(c) \/ LoopEnds(c) \/ Lost(c)
      PROVE  UNCHANGED <<stop, closer>>
  BY <1>2 DEF StartAttempt, Arrive, LoopEnds, Lost
<1>3. ASSUME NEW c \in Conns, AttemptStep(c) PROVE UNCHANGED <<stop, closer>>
  BY <1>3 DEF AttemptStep, AcquirePooled, Dial, Shake, InsertOutgoing, Recheck, DropAttempt, FinishAttempt,
              CheckLimit, CheckPresent, Refused, InsertIncoming, Greet, UndoIncoming, LinesUp
<1>4. ASSUME NEW c \in Conns, LoopStep(c) PROVE UNCHANGED <<stop, closer>>
  BY <1>4 DEF LoopStep, LoopDrop, LoopClose, LoopFinish, LinesUp
<1>5. ASSUME NEW c \in Conns, CloserStep(c) PROVE UNCHANGED <<stop, closer>>
  <2>1. stop' = stop
    BY <1>5 DEF CloserStep, CloserDrop, CloserGoesOn, CloserFinish, LinesUp
  <2>2. closer[c] = "idle"
    BY <2>1 DEF ClosersIdle
  <2>3. QED
    BY <1>5, <2>2 DEF CloserStep, CloserDrop, CloserGoesOn, CloserFinish
<1>6. CASE StopAsked
  BY <1>6 DEF StopAsked, ClosersIdle
<1>7. ASSUME StopStep \/ CastAsks \/ CastStep \/ ChokeTick \/ ChokeStep PROVE UNCHANGED <<stop, closer>>
  BY <1>1, <1>7 DEF StopStep, CastAsks, CastStep, CastEnters, CastEnds, ChokeTick, ChokeStep, ChokeEnters, LinesUp
<1>8. CASE UNCHANGED <<stop, closer>>
  BY <1>8 DEF ClosersIdle
<1>9. CASE UNCHANGED vars
  BY <1>8, <1>9 DEF vars
<1>10. QED
  BY <1>2, <1>3, <1>4, <1>5, <1>6, <1>7, <1>8, <1>9 DEF Next, Conns

\* An attempt of another task than the reconnection loop waits for the lock it
\* holds, and stop() has not got the lock yet.
Stuck == Wedged /\ stop \in {"no", "snapshot"}

\* A connection whose end waits for the lock, in such a state.
LEMMA EndWaits ==
  ASSUME TableInv, HolderIsInside, ClosersIdle, holder # Nobody, stop \in {"no", "snapshot"},
         NEW d \in Conns, loop[d] = "drop", [Next]_vars
  PROVE  loop'[d] = "drop" /\ ann'[d] = ann[d]
<1> USE DEF rest
<1>1. UNCHANGED <<loop, ann>> => loop'[d] = "drop" /\ ann'[d] = ann[d]
  OBVIOUS
<1>2. /\ att[d] \notin {"dial", "handshake", "greet", "finish"}
      /\ loop \in [Conns -> {"none", "reading", "drop", "close", "finish", "over"}]
      /\ ann \in [Conns -> {"none", "connected", "gone"}]
  BY DEF TableInv, EntriesTypeOK, Phases, Alone, Entered
<1>3. ASSUME NEW c \in Conns, AttemptStep(c) PROVE loop'[d] = "drop" /\ ann'[d] = ann[d]
  <2>1. CASE Shake(c) \/ FinishAttempt(c) \/ Greet(c)
    <3>1. c # d
      BY <1>2, <2>1 DEF Shake, FinishAttempt, Greet
    <3>2. QED
      BY <1>2, <2>1, <3>1 DEF Shake, FinishAttempt, Greet
  <2>2. ~InsertOutgoing(c)
    BY DEF InsertOutgoing, Turn
  <2>3. QED
    BY <1>1, <1>3, <2>1, <2>2
    DEF AttemptStep, AcquirePooled, Dial, Recheck, DropAttempt, CheckLimit, CheckPresent, Refused,
        InsertIncoming, UndoIncoming, LinesUp
<1>4. ASSUME NEW c \in Conns, LoopEnds(c) PROVE loop'[d] = "drop" /\ ann'[d] = ann[d]
  BY <1>2, <1>4 DEF LoopEnds
<1>5. ASSUME NEW c \in Conns, LoopStep(c) PROVE loop'[d] = "drop" /\ ann'[d] = ann[d]
  <2>1. CASE LoopClose(c) \/ LoopFinish(c)
    BY <1>2, <2>1 DEF LoopClose, LoopFinish
  <2>2. ~LoopDrop(c)
    BY DEF LoopDrop, Turn
  <2>3. QED
    BY <1>1, <1>5, <2>1, <2>2 DEF LoopStep, LinesUp
<1>6. ASSUME NEW c \in Conns, CloserStep(c) PROVE UNCHANGED <<loop, ann>>
  <2>1. closer[c] = "idle"
    BY DEF ClosersIdle
  <2>2. QED
    BY <1>6, <2>1 DEF CloserStep, CloserDrop, CloserGoesOn, CloserFinish
<1>7. ASSUME NEW c \in Conns, StartAttempt(c) \/ Arrive(c) \/ Lost(c) PROVE UNCHANGED <<loop, ann>>
  BY <1>7 DEF StartAttempt, Arrive, Lost
<1>8. ASSUME StopAsked \/ StopStep PROVE UNCHANGED <<loop, ann>>
  BY <1>8 DEF StopAsked, StopStep, Snapshot, StopTimeout, Stopped, LinesUp
<1>9. ASSUME CastAsks \/ CastStep \/ ChokeTick \/ ChokeStep PROVE UNCHANGED <<loop, ann>>
  BY <1>9 DEF CastAsks, CastStep, CastEnters, CastEnds, ChokeTick, ChokeStep, ChokeEnters, LinesUp
<1>10. CASE UNCHANGED vars
  BY <1>1, <1>10 DEF vars
<1>11. QED
  BY <1>1, <1>3, <1>4, <1>5, <1>6, <1>7, <1>8, <1>9, <1>10 DEF Next, Conns

\* An attempt that has come there stays there, and stop() behind it.
LEMMA StuckStays ==
  ASSUME EntriesTypeOK, HolderIsInside, Stuck, [Next]_vars
  PROVE  Stuck' /\ holder # Nobody
<1> USE DEF rest
<1>1. PICK c \in Conns \ retried : att[c] = "nested"
  BY DEF Stuck, Wedged, Nested
<1>2. holder # Nobody
  BY <1>1, TasksDiffer DEF HolderIsInside, Inside
<1>3. ~Snapshot /\ ~StopTimeout /\ ~Stopped
  BY <1>2 DEF Stuck, Snapshot, StopTimeout, Stopped, Turn
<1>4. ASSUME NEW d \in Conns, AttemptStep(d) PROVE att'[c] = "nested" /\ UNCHANGED <<retried, stop>>
  <2>1. CASE LinesUp(Att(d))
    BY <1>1, <2>1 DEF LinesUp
  <2>2. CASE ~LinesUp(Att(d))
    <3>1. UNCHANGED <<retried, stop>>
      BY <1>4, <2>2 DEF AttemptStep, AcquirePooled, Dial, Shake, InsertOutgoing, Recheck, DropAttempt,
                        FinishAttempt, CheckLimit, CheckPresent, Refused, InsertIncoming, Greet, UndoIncoming
    <3>2. att[d] # "nested" /\ \E s : Goto(d, s)
      BY <1>4, <2>2 DEF AttemptStep, AcquirePooled, Dial, Shake, InsertOutgoing, Recheck, DropAttempt, Refuse,
                        FinishAttempt, CheckLimit, CheckPresent, Refused, InsertIncoming, Greet, UndoIncoming
    <3>3. QED
      BY <1>1, <3>1, <3>2 DEF Goto, EntriesTypeOK
  <2>3. QED
    BY <2>1, <2>2
<1>5. ASSUME NEW d \in Conns, StartAttempt(d) \/ Arrive(d)
      PROVE  att'[c] = "nested" /\ c \notin retried' /\ stop' = stop
  BY <1>1, <1>5 DEF StartAttempt, Retries, Arrive, Goto, EntriesTypeOK
<1>6. ASSUME NEW d \in Conns, LoopEnds(d) \/ LoopStep(d) \/ Lost(d) \/ CloserStep(d)
      PROVE  UNCHANGED <<att, retried, stop>>
  BY <1>6 DEF LoopEnds, LoopStep, LoopDrop, LoopClose, LoopFinish, Lost, CloserStep, CloserDrop, CloserGoesOn,
              CloserFinish, LinesUp
<1>7. ASSUME StopAsked PROVE att'[c] = "nested" /\ retried' = retried /\ stop' = "snapshot"
  BY <1>1, <1>7 DEF StopAsked
<1>8. ASSUME StopStep \/ CastAsks \/ CastStep \/ ChokeTick \/ ChokeStep PROVE UNCHANGED <<att, retried, stop>>
  BY <1>3, <1>8 DEF StopStep, CastAsks, CastStep, CastEnters, CastEnds, ChokeTick, ChokeStep, ChokeEnters, LinesUp
<1>9. att'[c] = "nested" /\ c \notin retried' /\ stop' \in {stop, "snapshot"}
  BY <1>1, <1>4, <1>5, <1>6, <1>7, <1>8 DEF Next, Conns, vars
<1>10. QED
  BY <1>1, <1>2, <1>9 DEF Stuck, Wedged, Nested

\* Once an attempt that stop() does not cancel waits for the lock it holds, before
\* stop() has had the lock: it waits for good, no entry is made or deleted any more, and no connection
\* whose message loop has ended gets any further or is announced as gone
\* (connect_to_peers, async_peer_connection.py:1457 and :1496).
THEOREM WedgedForGood ==
  Spec => [][Stuck => /\ Stuck' /\ table' = table
                      /\ \A c \in Conns : loop[c] = "drop" => loop'[c] = "drop" /\ ann'[c] = ann[c]]_vars
<1>1. Init => ClosersIdle
  BY DEF Init, ClosersIdle
<1>2. Spec => []ClosersIdle
  BY <1>1, ClosersStep, PTL DEF Spec
<1>3. ASSUME TableInv, HolderIsInside, ClosersIdle, Stuck, [Next]_vars
      PROVE  /\ Stuck' /\ table' = table
             /\ \A c \in Conns : loop[c] = "drop" => loop'[c] = "drop" /\ ann'[c] = ann[c]
  <2>1. Stuck' /\ holder # Nobody
    BY <1>3, StuckStays DEF TableInv
  <2>2. table' = table
    BY <1>3, <2>1, TableStands
  <2>3. QED
    BY <1>3, <2>1, <2>2, EndWaits DEF Stuck
<1>4. QED
  BY <1>2, <1>3, TableInvariant, LockIsOfOne, PTL DEF Spec

\* stop() of a manager with such an attempt never ends, whether it was asked before
\* or after.
THEOREM WedgedStopNeverEnds == Spec => [](Stuck => [](stop # "stopped"))
<1>1. EntriesTypeOK /\ HolderIsInside /\ Stuck /\ [Next]_vars => Stuck'
  BY StuckStays
<1>2. Stuck => stop # "stopped"
  BY DEF Stuck
<1>3. QED
  BY <1>1, <1>2, EntriesTypeCorrect, LockIsOfOne, PTL DEF Spec

\* No connection whose teardown has passed the lock is in the table, one that
\* still reads leaves the table only through another connection of the same
\* peer, and the lock is held by whoever is suspended inside it.
THEOREM SoundConnections == Spec => []ConnectionsAreSound
BY EntriesTypeCorrect, NoTornEntry, OnlyRivalsEvict, LockIsOfOne, PTL DEF ConnectionsAreSound
=============================================================================
