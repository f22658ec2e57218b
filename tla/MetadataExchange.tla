--------------------------- MODULE MetadataExchange ---------------------------
(***************************************************************************)
(* Fetching the metadata of a magnet link (ccbt/piece/                      *)
(* async_metadata_exchange.py, fetch_metadata_from_peers): one task per     *)
(* peer connects, shakes hands and asks for every piece in turn; all write  *)
(* into one table of pieces, which the size of the first peer lays out.     *)
(* The caller polls for completion, or gives up after its timeout, and      *)
(* stop() closes the sessions.  Steps between two awaits are atomic.        *)
(* What a peer says is arbitrary: its size, and data that is the true piece *)
(* or not.  The clean-up loop is left out: with the timeouts of both        *)
(* callers (30 and 60 s) no session is 60 s old before stop() comes.        *)
(***************************************************************************)
EXTENDS Naturals, FiniteSets

CONSTANTS
  Servers,    \* the peers asked
  TruePieces, \* pieces of the true metadata
  MaxPieces   \* bound: the largest number of pieces a peer claims

ASSUME MetaAssumption ==
  TruePieces \in Nat \ {0} /\ MaxPieces \in Nat /\ TruePieces <= MaxPieces

VARIABLES
  task,      \* of each peer: where _connect_and_fetch is
  link,      \* its socket
  sessions,  \* the peers that have an entry in self.sessions
  claim,     \* session.num_pieces, 0 before the extended handshake
  asking,    \* the piece its loop is at
  received,  \* session.pieces_received
  pieces,    \* metadata_pieces: what each piece of the table holds
  metadata,  \* metadata_dict
  fetch,     \* where the caller is
  closing,   \* sessions stop() still has to close
  late,      \* history: sessions that had no writer when stop() closed them
  result     \* what fetch_metadata returned

metaVars == <<task, link, sessions, claim, asking, received, pieces, metadata,
              fetch, closing, late, result>>
taskVars == <<task, link, claim, asking, received>>
callVars == <<sessions, fetch, closing, late, result>>

TaskStates == {"none", "connecting", "handshake", "negotiating", "requesting", "waiting", "ended"}
Truth == 0 .. TruePieces - 1

\* A table of some number of pieces.
IsTable(t) == \E n \in 0 .. MaxPieces : t \in [0 .. n - 1 -> {"missing", "true", "false"}]

MetaTypeOK ==
  /\ task \in [Servers -> TaskStates]
  /\ link \in [Servers -> {"none", "open", "closed"}]
  /\ sessions \in SUBSET Servers
  /\ claim \in [Servers -> 0 .. MaxPieces]
  /\ asking \in [Servers -> 0 .. MaxPieces]
  /\ received \in [Servers -> SUBSET (0 .. MaxPieces)]
  /\ IsTable(pieces)
  /\ metadata \in {"none", "true", "false"}
  /\ fetch \in {"idle", "polling", "stopping", "stopped"}
  /\ closing \in SUBSET Servers /\ late \in SUBSET Servers
  /\ result \in {"pending", "none", "metadata", "timed out"}

Blank(n) == [i \in 0 .. n - 1 |-> "missing"]

MetaInit ==
  /\ task = [p \in Servers |-> "none"] /\ link = [p \in Servers |-> "none"]
  /\ sessions = {} /\ closing = {} /\ late = {}
  /\ claim = [p \in Servers |-> 0] /\ asking = [p \in Servers |-> 0]
  /\ received = [p \in Servers |-> {}]
  /\ pieces = Blank(0) /\ metadata = "none"
  /\ fetch = "idle" /\ result = "pending"

-----------------------------------------------------------------------------
(* The task of one peer *)

Advances(p, from, to) == task[p] = from /\ task' = [task EXCEPT ![p] = to]

Connects(p) ==
  /\ Advances(p, "connecting", "handshake")
  /\ link' = [link EXCEPT ![p] = "open"]
  /\ UNCHANGED <<claim, asking, received, pieces, metadata, callVars>>

\* Nothing is written on a socket that is closed: drain() raises.
Handshaken(p) ==
  /\ link[p] = "open"
  /\ Advances(p, "handshake", "negotiating")
  /\ UNCHANGED <<link, claim, asking, received, pieces, metadata, callVars>>

\* No connection, a wrong handshake, a peer without ut_metadata, a timeout:
\* the one failure is counted, and the socket stays as it is.
TaskFails(p) ==
  /\ task[p] \in {"connecting", "handshake", "negotiating"}
  /\ task' = [task EXCEPT ![p] = "ended"]
  /\ UNCHANGED <<link, claim, asking, received, pieces, metadata, callVars>>

\* The table that the first session needs is laid out once.
LayOut(n) == pieces' = IF pieces = Blank(0) THEN Blank(n) ELSE pieces

Negotiated(p, n) ==
  /\ Advances(p, "negotiating", "requesting")
  /\ claim' = [claim EXCEPT ![p] = n]
  /\ LayOut(n)
  /\ UNCHANGED <<link, asking, received, metadata, callVars>>

Asks(p) ==
  /\ asking[p] < claim[p] /\ link[p] = "open"
  /\ Advances(p, "requesting", "waiting")
  /\ UNCHANGED <<link, claim, asking, received, pieces, metadata, callVars>>

\* A request on a closed socket raises: the piece is given up.
AskFails(p) ==
  /\ task[p] = "requesting" /\ asking[p] < claim[p] /\ link[p] # "open"
  /\ asking' = [asking EXCEPT ![p] = @ + 1]
  /\ UNCHANGED <<task, link, claim, received, pieces, metadata, callVars>>

AskedAll(p) ==
  /\ asking[p] = claim[p]
  /\ Advances(p, "requesting", "ended")
  /\ UNCHANGED <<link, claim, asking, received, pieces, metadata, callVars>>

\* The decoded dictionary is hashed; bytes behind it are not looked at, so a
\* table with more pieces than the metadata has is accepted too.
Content(t) == IF \A i \in Truth : i \in DOMAIN t /\ t[i] = "true" THEN "true" ELSE "false"
Full(t) == DOMAIN t # {} /\ \A i \in DOMAIN t : t[i] # "missing"

\* Mutant: the hash of the whole is not compared.
HashNotChecked(t) == TRUE

HashMatches(t) == Content(t) = "true"

\* _assemble_metadata runs whenever no piece is missing, also when it has
\* failed before; a hash that does not match leaves everything as it is.
Assemble(t) == metadata' = IF Full(t) /\ HashMatches(t) THEN Content(t) ELSE metadata

\* The data is compared with nothing; the table keeps what came last.
Receives(p, d) ==
  /\ Advances(p, "waiting", "requesting")
  /\ received' = [received EXCEPT ![p] = @ \cup {asking[p]}]
  /\ asking' = [asking EXCEPT ![p] = @ + 1]
  /\ pieces' = [i \in DOMAIN pieces |-> IF i = asking[p] THEN d ELSE pieces[i]]
  /\ Assemble(pieces')
  /\ UNCHANGED <<link, claim, callVars>>

\* A reject, ten seconds without an answer, a lost connection.  So is every
\* answer labelled with our id of ut_metadata unless it is the peer's as well:
\* the label is compared with the wrong one of the two.
NoAnswer(p) ==
  /\ Advances(p, "waiting", "requesting")
  /\ asking' = [asking EXCEPT ![p] = @ + 1]
  /\ UNCHANGED <<link, claim, received, pieces, metadata, callVars>>

TaskStep(p) ==
  \/ Connects(p) \/ Handshaken(p) \/ TaskFails(p)
  \/ \E n \in 1 .. MaxPieces : Negotiated(p, n)
  \/ Asks(p) \/ AskFails(p) \/ AskedAll(p)
  \/ \E d \in {"true", "false"} : Receives(p, d)
  \/ NoAnswer(p)

-----------------------------------------------------------------------------
(* The caller *)

FetchStarts ==
  /\ fetch = "idle" /\ fetch' = "polling"
  /\ task' = [p \in Servers |-> "connecting"]
  /\ sessions' = Servers
  /\ UNCHANGED <<link, claim, asking, received, pieces, metadata, closing, late, result>>

StopBegins == fetch' = "stopping" /\ closing' = sessions

\* The poll sees that the metadata is complete; the tasks are cancelled.  The
\* result is checked once more: the dictionary must have a key "info", and
\* what is inside it the hash.  The dictionary that was fetched is the info
\* dictionary itself and has no such key.
HasInfoKey(d) == FALSE

FetchDone ==
  /\ fetch = "polling" /\ metadata # "none"
  /\ task' = [p \in Servers |-> "ended"]
  /\ result' = IF HasInfoKey(metadata) THEN "metadata" ELSE "none"
  /\ StopBegins
  /\ UNCHANGED <<link, sessions, claim, asking, received, pieces, metadata, late>>

\* Mutant: the caller waits for its tasks instead.
FetchTimeoutAfterTasks ==
  /\ fetch = "polling" /\ \A p \in Servers : task[p] = "ended"
  /\ result' = "timed out" /\ StopBegins
  /\ UNCHANGED <<taskVars, sessions, pieces, metadata, late>>

\* The tasks go on.
FetchTimeout ==
  /\ fetch = "polling"
  /\ result' = "timed out" /\ StopBegins
  /\ UNCHANGED <<taskVars, sessions, pieces, metadata, late>>

CloseSession(p) ==
  /\ fetch = "stopping" /\ p \in closing
  /\ closing' = closing \ {p}
  /\ link' = [link EXCEPT ![p] = IF @ = "open" THEN "closed" ELSE @]
  /\ late' = IF link[p] = "none" THEN late \cup {p} ELSE late
  /\ UNCHANGED <<task, claim, asking, received, pieces, metadata, sessions, fetch, result>>

FetchStopped ==
  /\ fetch = "stopping" /\ closing = {}
  /\ fetch' = "stopped" /\ sessions' = {} /\ pieces' = Blank(0)
  /\ UNCHANGED <<taskVars, metadata, closing, late, result>>

FetchStep ==
  \/ FetchStarts \/ FetchDone \/ FetchTimeout
  \/ \E p \in Servers : CloseSession(p)
  \/ FetchStopped

MetaNext == FetchStep \/ \E p \in Servers : TaskStep(p)
MetaSpec == MetaInit /\ [][MetaNext]_metaVars

\* A timer of the caller, and the sockets that stop() waits for to close.
MetaFairness ==
  /\ WF_metaVars(FetchTimeout) /\ WF_metaVars(FetchStopped)
  /\ WF_metaVars(\E p \in Servers : CloseSession(p))

-----------------------------------------------------------------------------
\* What is kept as the metadata is the true one, whatever peers answer and
\* however their pieces mix in the table (_assemble_metadata).
MetadataIsTrue == metadata # "false"

\* A peer that has answered every request is enough when the table has the
\* right size and no false piece stands in it: neither another session nor a
\* failed assembly before takes anything away.
WholeAnswerCompletes ==
  (/\ fetch = "polling" /\ DOMAIN pieces = Truth
   /\ \E p \in Servers : Truth \subseteq received[p]
   /\ \A i \in Truth : pieces[i] # "false")
  => metadata = "true"

\* The only sockets that stop() leaves open are those of tasks that were still
\* connecting when it closed their session.
OnlyLateSocketsAreLeft ==
  fetch = "stopped" => \A p \in Servers : link[p] = "open" => p \in late

\* fetch_metadata_from_peers always returns.
FetchReturns == (fetch = "polling") ~> (fetch = "stopped")

\* What fetch_metadata_from_peers assembles, keeps and leaves open, whatever
\* the peers claim and answer.
MetadataIsSound == MetaTypeOK /\ MetadataIsTrue /\ WholeAnswerCompletes /\ OnlyLateSocketsAreLeft
=============================================================================
