--------------------------- MODULE RequestPipeline ---------------------------
(***************************************************************************)
(* The block requests of one peer connection                               *)
(* (ccbt/peer/async_peer_connection.py), from the start of its message      *)
(* loop to its end: the interest and choke flags, the table of outstanding  *)
(* requests, the coroutines inside request_piece, and the peer at the other *)
(* end of the socket.  A coroutine can be overtaken while it drains the     *)
(* Interested message or a Request.  The priority of a request is read      *)
(* under the piece manager's lock, which no coroutine holds while it is      *)
(* suspended: a request is queued, taken off the queue and registered in    *)
(* one step, so the queue never holds two that could be coalesced.          *)
(***************************************************************************)
EXTENDS Naturals, FiniteSets, Sequences, SequencesExt

CONSTANTS
  Tasks,         \* coroutines of the piece manager that call request_piece
  Blocks,        \* keys (piece, begin, length) of the blocks asked for
  NoBlock,       \* stands where a message or a call has no block
  InitialDepth,  \* max_pipeline_depth of an incoming connection
  AdaptedDepth,  \* what _calculate_pipeline_depth returns
  MaxChokes      \* bound: how often the peer chokes us again

ASSUME PipelineAssumption ==
  /\ IsFiniteSet(Blocks)
  /\ NoBlock \notin Blocks
  /\ InitialDepth \in Nat \ {0}
  /\ AdaptedDepth \in Nat \ {0}
  /\ MaxChokes \in Nat

VARIABLES
  conn,         \* ConnectionState: "sent" (BITFIELD_SENT), "received", "active", "choked", "error"
  loop,         \* the message loop: "reading", or "interest" while its Interested drains
  peerChoking, amInterested,
  depth,        \* max_pipeline_depth
  outstanding,  \* keys of outstanding_requests
  pc, want,     \* of each coroutine: where in request_piece it is, and for which block
  toPeer,       \* requests on their way to the peer
  fromPeer,     \* messages on their way to us
  granted,      \* the peer has unchoked us, as the peer sees it
  held,         \* requests the peer will answer
  bitfieldDue,  \* the peer has not sent its bitfield
  chokes,       \* how often the peer has choked us again
  linkUp,       \* the socket still carries data
  dropped       \* history: requests that no answer can follow any more

ours == <<conn, loop, peerChoking, amInterested, depth, outstanding, pc, want>>
peer == <<granted, held, bitfieldDue, chokes>>
vars == <<ours, peer, toPeer, fromPeer, linkUp, dropped>>

States == {"sent", "received", "active", "choked", "error"}
Message == [type : {"bitfield", "choke", "unchoke", "piece"}, block : Blocks \cup {NoBlock}]
Msg(type, block) == [type |-> type, block |-> block]
Arrives(type) == fromPeer # <<>> /\ Head(fromPeer).type = type
Unanswered == {b \in Blocks : Contains(fromPeer, Msg("piece", b))}
Unread == {b \in Blocks : Contains(toPeer, b)}
OnTheWay == Unread \cup held \cup Unanswered

IsActive ==
  \/ conn = "received" /\ ~peerChoking
  \/ conn \in {"active", "choked"}

CanRequest ==
  /\ IsActive
  /\ ~peerChoking
  /\ Cardinality(outstanding) < depth

-----------------------------------------------------------------------------
(* The coroutines inside request_piece.                                     *)

(* A request is registered, then written; on a broken link it goes nowhere. *)
Write(b) ==
  /\ outstanding' = outstanding \cup {b}
  /\ toPeer' = IF linkUp THEN Append(toPeer, b) ELSE toPeer
  /\ dropped' = IF linkUp THEN dropped ELSE dropped \cup {b}

\* Mutant: the second test looks at the choke flag and not at the slots.
SubmitUnlessChoked(t, b) ==
  /\ want' = [want EXCEPT ![t] = NoBlock]
  /\ \/ /\ IsActive /\ ~peerChoking /\ b \notin outstanding
        /\ Write(b)
        /\ pc' = [pc EXCEPT ![t] = "sending"]
     \/ /\ ~IsActive \/ peerChoking \/ b \in outstanding
        /\ pc' = [pc EXCEPT ![t] = "idle"]
        /\ UNCHANGED <<outstanding, toPeer, dropped>>

(* The second test of can_request and what follows it up to the drain: a    *)
(* key that is outstanding already is skipped.                              *)
Submit(t, b) ==
  /\ want' = [want EXCEPT ![t] = NoBlock]
  /\ \/ /\ CanRequest /\ b \notin outstanding
        /\ Write(b)
        /\ pc' = [pc EXCEPT ![t] = "sending"]
     \/ /\ ~CanRequest \/ b \in outstanding
        /\ pc' = [pc EXCEPT ![t] = "idle"]
        /\ UNCHANGED <<outstanding, toPeer, dropped>>

RequestPiece(t, b) ==
  /\ pc[t] = "idle" /\ CanRequest /\ amInterested
  /\ Submit(t, b)
  /\ UNCHANGED <<conn, loop, peerChoking, amInterested, depth, peer, fromPeer, linkUp>>

RequestUninterested(t, b) ==
  /\ pc[t] = "idle" /\ CanRequest /\ ~amInterested
  /\ pc' = [pc EXCEPT ![t] = "interest"]
  /\ want' = [want EXCEPT ![t] = b]
  /\ UNCHANGED <<conn, loop, peerChoking, amInterested, depth, outstanding,
                 peer, toPeer, fromPeer, linkUp, dropped>>

(* The Interested message was drained; over a broken link it may fail, and  *)
(* the request goes on all the same.                                        *)
InterestSent(t) ==
  /\ pc[t] = "interest"
  /\ \/ amInterested' = TRUE
     \/ ~linkUp /\ UNCHANGED amInterested
  /\ Submit(t, want[t])
  /\ UNCHANGED <<conn, loop, peerChoking, depth, peer, fromPeer, linkUp>>

(* The Request was drained, or the drain raised: the entry stays in both.   *)
RequestSent(t) ==
  /\ pc[t] = "sending"
  /\ pc' = [pc EXCEPT ![t] = "idle"]
  /\ UNCHANGED <<conn, loop, peerChoking, amInterested, depth, outstanding, want,
                 peer, toPeer, fromPeer, linkUp, dropped>>

-----------------------------------------------------------------------------
(* The message loop, one message at a time, and the statistics loop.        *)

Read(type) ==
  /\ loop = "reading" /\ conn # "error" /\ Arrives(type)
  /\ fromPeer' = Tail(fromPeer)
  /\ UNCHANGED <<depth, pc, want, peer, toPeer, linkUp, dropped>>

\* Mutant: the choke empties the table at once.
ReceiveChokeClears ==
  /\ Read("choke")
  /\ peerChoking' = TRUE
  /\ conn' = "choked"
  /\ outstanding' = {}
  /\ UNCHANGED <<loop, amInterested>>

ReceiveChoke ==
  /\ Read("choke")
  /\ peerChoking' = TRUE
  /\ conn' = "choked"
  /\ UNCHANGED <<loop, amInterested, outstanding>>

ReceiveUnchoke ==
  /\ Read("unchoke")
  /\ peerChoking' = FALSE
  /\ conn' = "active"
  /\ UNCHANGED <<loop, amInterested, outstanding>>

\* Mutant: the key of the answer is not the key of the request.
ReceivePieceOtherKey ==
  /\ Read("piece")
  /\ UNCHANGED <<conn, loop, peerChoking, amInterested, outstanding>>

ReceivePiece ==
  /\ Read("piece")
  /\ outstanding' = outstanding \ {Head(fromPeer).block}
  /\ UNCHANGED <<conn, loop, peerChoking, amInterested>>

AfterBitfield == IF peerChoking THEN "received" ELSE "active"

ReceiveBitfield ==
  /\ Read("bitfield")
  /\ \/ ~amInterested /\ loop' = "interest" /\ conn' = "received"
     \/ amInterested /\ conn' = AfterBitfield /\ UNCHANGED loop
  /\ UNCHANGED <<peerChoking, amInterested, outstanding>>

BitfieldInterestSent ==
  /\ loop = "interest"
  /\ \/ amInterested' = TRUE
     \/ ~linkUp /\ UNCHANGED amInterested
  /\ conn' = AfterBitfield
  /\ loop' = "reading"
  /\ UNCHANGED <<peerChoking, depth, outstanding, pc, want,
                 peer, toPeer, fromPeer, linkUp, dropped>>

(* The loop reads an end of file or an error and disconnects.               *)
Disconnect ==
  /\ loop = "reading" /\ conn # "error" /\ ~linkUp
  /\ conn' = "error"
  /\ UNCHANGED <<loop, peerChoking, amInterested, depth, outstanding, pc, want,
                 peer, toPeer, fromPeer, linkUp, dropped>>

(* The round-trip time is never measured, so the depth is the one for 100 ms. *)
UpdatePeerStats ==
  /\ conn # "error" /\ depth # AdaptedDepth
  /\ depth' = AdaptedDepth
  /\ UNCHANGED <<conn, loop, peerChoking, amInterested, outstanding, pc, want,
                 peer, toPeer, fromPeer, linkUp, dropped>>

-----------------------------------------------------------------------------
(* The peer and the socket.  A peer that chokes us drops what it holds, and *)
(* what reaches it while it does.                                           *)

PeerSends(message) ==
  /\ linkUp
  /\ fromPeer' = Append(fromPeer, message)
  /\ UNCHANGED <<ours, toPeer, linkUp>>

PeerBitfield ==
  /\ bitfieldDue
  /\ bitfieldDue' = FALSE
  /\ PeerSends(Msg("bitfield", NoBlock))
  /\ UNCHANGED <<granted, held, chokes, dropped>>

PeerUnchokes ==
  /\ ~granted
  /\ granted' = TRUE
  /\ PeerSends(Msg("unchoke", NoBlock))
  /\ UNCHANGED <<held, bitfieldDue, chokes, dropped>>

PeerChokes ==
  /\ granted /\ chokes < MaxChokes
  /\ granted' = FALSE
  /\ chokes' = chokes + 1
  /\ dropped' = dropped \cup held
  /\ held' = {}
  /\ PeerSends(Msg("choke", NoBlock))
  /\ UNCHANGED bitfieldDue

PeerReads ==
  /\ linkUp /\ toPeer # <<>>
  /\ toPeer' = Tail(toPeer)
  /\ \/ granted /\ held' = held \cup {Head(toPeer)} /\ UNCHANGED dropped
     \/ ~granted /\ dropped' = dropped \cup {Head(toPeer)} /\ UNCHANGED held
  /\ UNCHANGED <<ours, granted, bitfieldDue, chokes, fromPeer, linkUp>>

PeerAnswers(b) ==
  /\ b \in held
  /\ held' = held \ {b}
  /\ PeerSends(Msg("piece", b))
  /\ UNCHANGED <<granted, bitfieldDue, chokes, dropped>>

LinkBreaks ==
  /\ linkUp
  /\ linkUp' = FALSE
  /\ dropped' = dropped \cup held \cup Unread
  /\ held' = {}
  /\ toPeer' = <<>>
  /\ UNCHANGED <<ours, granted, bitfieldDue, chokes, fromPeer>>

-----------------------------------------------------------------------------

Init ==
  /\ conn = "sent" /\ loop = "reading"
  /\ peerChoking = TRUE /\ amInterested = FALSE
  /\ depth \in {InitialDepth, AdaptedDepth}
  /\ outstanding = {} /\ held = {} /\ dropped = {}
  /\ pc = [t \in Tasks |-> "idle"]
  /\ want = [t \in Tasks |-> NoBlock]
  /\ toPeer = <<>> /\ fromPeer = <<>>
  /\ granted = FALSE /\ bitfieldDue = TRUE /\ chokes = 0 /\ linkUp = TRUE

SomeRequest == \E t \in Tasks, b \in Blocks : RequestPiece(t, b) \/ RequestUninterested(t, b)
Receive == ReceiveChoke \/ ReceiveUnchoke \/ ReceivePiece \/ ReceiveBitfield
LoopStep == Receive \/ BitfieldInterestSent \/ Disconnect

Next ==
  \/ SomeRequest
  \/ \E t \in Tasks : InterestSent(t) \/ RequestSent(t)
  \/ LoopStep
  \/ UpdatePeerStats
  \/ PeerBitfield \/ PeerUnchokes \/ PeerChokes \/ PeerReads
  \/ \E b \in Blocks : PeerAnswers(b)
  \/ LinkBreaks

Spec == Init /\ [][Next]_vars

(* The event loop serves the message loop and every coroutine whose drain    *)
(* has ended, and the selector, which wakes each second, asks for what is    *)
(* missing.  A peer that does not choke us reads its socket and answers.     *)
Fairness ==
  /\ WF_vars(LoopStep)
  /\ WF_vars(SomeRequest)
  /\ \A t \in Tasks : WF_vars(InterestSent(t) \/ RequestSent(t))
  /\ WF_vars(PeerReads)
  /\ \A b \in Blocks : WF_vars(PeerAnswers(b))

FairSpec == Spec /\ Fairness

-----------------------------------------------------------------------------

TypeOK ==
  /\ conn \in States
  /\ loop \in {"reading", "interest"}
  /\ peerChoking \in BOOLEAN /\ amInterested \in BOOLEAN
  /\ depth \in {InitialDepth, AdaptedDepth}
  /\ outstanding \in SUBSET Blocks
  /\ pc \in [Tasks -> {"idle", "interest", "sending"}]
  /\ want \in [Tasks -> Blocks \cup {NoBlock}]
  /\ \A t \in Tasks : pc[t] = "interest" <=> want[t] # NoBlock
  /\ toPeer \in Seq(Blocks)
  /\ fromPeer \in Seq(Message)
  /\ granted \in BOOLEAN /\ bitfieldDue \in BOOLEAN /\ linkUp \in BOOLEAN
  /\ held \in SUBSET Blocks /\ dropped \in SUBSET Blocks
  /\ chokes \in 0 .. MaxChokes

(* No order of Unchoke and Bitfield leaves a connection that the peer has   *)
(* unchoked in a state from which nothing may be requested                   *)
(* (is_active, _handle_bitfield, _handle_message).                          *)
UnchokedIsActive == ~peerChoking /\ conn # "error" => IsActive

OnceEach(s, T) == \A i, j \in DOMAIN s : s[i] = s[j] /\ s[i] \in T => i = j

(* Every request that the peer may still answer has its entry, every other   *)
(* entry is of a request that was dropped, and no request is in two places:  *)
(* an answer always finds the entry it frees (_process_request_queue,        *)
(* _handle_piece).                                                          *)
EntriesMatchTheWire ==
  /\ outstanding = OnTheWay \cup dropped
  /\ OnTheWay \cap dropped = {}
  /\ Unread \cap held = {} /\ Unread \cap Unanswered = {} /\ held \cap Unanswered = {}
  /\ OnceEach(toPeer, Blocks)
  /\ OnceEach(fromPeer, {Msg("piece", b) : b \in Blocks})

(* No request is registered while the peer is known to choke us or after     *)
(* the connection has ended, although both may happen while the coroutine    *)
(* drains its Interested message (request_piece tests can_request twice).    *)
NeverAsksWhileChoked ==
  [][outstanding \subseteq outstanding' /\ outstanding # outstanding'
     => ~peerChoking /\ conn # "error"]_vars

(* However many coroutines share a connection, and although the depth may     *)
(* shrink below what is outstanding, the table grows only below the depth.   *)
GrowsWithinDepth ==
  [][outstanding' \subseteq outstanding \/ Cardinality(outstanding') <= depth]_vars

(* A request that nobody dropped is answered and its slot freed, unless the  *)
(* connection ends: no interleaving of the message loop, the coroutines and   *)
(* the peer loses it.                                                        *)
EveryAnswerFreesItsSlot ==
  \A b \in Blocks :
    b \in outstanding ~> b \notin outstanding \/ b \in dropped \/ conn = "error"

\* outstanding_requests and the wire tell the same story, and the state goes
\* with the flags (_handle_peer_messages, _handle_bitfield, _handle_piece).
PipelineIsSound == TypeOK /\ UnchokedIsActive /\ EntriesMatchTheWire

\* The room that can_request leaves, and the window of requests that the table
\* is: coroutines that share it, a depth that shrinks and chokes between the two
\* tests of can_request never make one request too many, and an answer frees the
\* slot of its own request only (request_piece, _process_request_queue,
\* _handle_piece).
Room == IF IsActive /\ ~peerChoking THEN depth ELSE 0

Window == INSTANCE RequestWindow
  WITH asked <- outstanding, lost <- dropped, room <- Room, over <- (conn = "error")
ImplementsWindow == Window!Spec
=============================================================================
