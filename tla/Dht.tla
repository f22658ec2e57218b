--------------------------------- MODULE Dht ---------------------------------
(***************************************************************************)
(* The DHT client (ccbt/discovery/dht.py): the routing table, and the       *)
(* lookups, announcements and refreshes that share it, one socket and the   *)
(* tokens.  What has been sent may be answered at any time, any number of   *)
(* times, or never.  A node stands for its address too; an answer lists     *)
(* one node at most.  Hashes of private torrents are never asked for and    *)
(* left out.                                                                *)
(***************************************************************************)
EXTENDS Naturals, FiniteSets

CONSTANTS
  Bits,       \* length of an id (160)
  NodeIds,    \* the ids of the other nodes
  OwnId,
  InfoHashes, \* info hashes, ids too
  Drawn,      \* the targets a refresh may draw (any id)
  NoId,       \* stands where there is no id
  Seekers,    \* coroutines that call get_peers or announce_peer, once each
  Starter, Refresher, \* start() with its bootstrap; the refresh loop
  HashOf,       \* the info hash each of them asks for
  NoSeeker,   \* stands where there is no coroutine
  K,          \* size of a bucket (8)
  Width,      \* nodes that are asked for one target (8)
  Enough,     \* nodes with which the bootstrap is content (8)
  BadAfter,   \* failed queries after which a bad node is removed (3)
  Hosts,      \* bootstrap hosts (4)
  Rounds,     \* targets of one refresh (8)
  IdSpace,    \* number of transaction ids (65536)
  Says,       \* what a node may answer
  MaxTasks,   \* calls and refreshes (a bound)
  MaxClashes  \* times an id is drawn that is in use (a bound)

QueryIds == 0 .. IdSpace - 1
Id == [1 .. Bits -> {0, 1}]
Runners == Seekers \cup {Starter, Refresher}
Contents == [lists : NodeIds \cup {OwnId, NoId}, token : BOOLEAN, sound : BOOLEAN]

ASSUME DhtAssumption ==
  /\ Bits \in Nat \ {0, 1} /\ NodeIds \subseteq Id /\ OwnId \in Id \ NodeIds
  /\ InfoHashes \subseteq Id /\ Drawn \subseteq Id /\ NoId \notin Id /\ IsFiniteSet(NodeIds) /\ IsFiniteSet(Seekers)
  /\ HashOf \in [Seekers -> InfoHashes] /\ IdSpace \in Nat \ {0}
  /\ Starter # Refresher /\ Seekers \cap {Starter, Refresher} = {} /\ NoSeeker \notin Runners
  /\ K \in Nat \ {0} /\ Width \in Nat \ {0} /\ Enough \in Nat /\ BadAfter \in Nat \ {0}
  /\ Hosts \in Nat \ {0} /\ Rounds \in Nat \ {0}
  /\ Says \subseteq Contents /\ MaxTasks \in Nat /\ MaxClashes \in Nat

VARIABLES
  dht,       \* the client: "new", "starting", "on", "stopping", "closed"
  routing,   \* the nodes that are known, have a place in a bucket, are good; their failed queries
  tokens,    \* of each hash: the hash its token was issued for, and whether it expired
  awaited,   \* pending_queries: who waits for the answer
  doing,     \* of each coroutine: its place, and its local variables
  queries,   \* the queries that have been sent
  clashes,   \* history: how often an id was drawn that a query or a wait had already
  wakes      \* refreshes so far

dhtVars == <<dht, routing, tokens, awaited, doing, queries, clashes, wakes>>

NoToken == [of |-> NoId, old |-> FALSE]
Topics == InfoHashes \cup Drawn \cup {OwnId}
Tables == [known : SUBSET NodeIds, placed : SUBSET NodeIds, good : SUBSET NodeIds,
           failed : [NodeIds -> 0 .. BadAfter]]
TokenTables == [InfoHashes -> [of : InfoHashes \cup {NoId}, old : BOOLEAN]]
Queries ==
  {q \in [tid : QueryIds, kind : {"find", "peers", "announce"}, topic : Topics, ticket : InfoHashes \cup {NoId}] :
     q.kind = "find" \/ q.topic \in InfoHashes}
Answers == {a \in [to : Queries, says : Contents] : a.says.token => a.to.kind = "peers"}
Waiting == {"booting", "walking", "peers", "announcing"}
\* Where a coroutine is: the topic, the nodes still to ask for it, the node it waits
\* for, with which id, the answer its future holds, the token it announces with.
Places ==
  [at : Waiting \cup {"idle", "done"}, inner : BOOLEAN, topic : Topics, todo : SUBSET NodeIds,
   node : NodeIds \cup {NoId}, tid : QueryIds, answer : SUBSET Answers,
   ticket : InfoHashes \cup {NoId}, rounds : Nat]
Frames == {r \in Places : r.at \in {"peers", "announcing"} => r.topic \in InfoHashes}
Resting == [at |-> "idle", inner |-> FALSE, topic |-> OwnId, todo |-> {}, node |-> NoId, tid |-> 0,
            answer |-> {}, ticket |-> NoId, rounds |-> 0]
Awaits(c) == doing[c].at \in Waiting

DhtTypeOK ==
  /\ dht \in {"new", "starting", "on", "stopping", "closed"}
  /\ routing \in Tables
  /\ tokens \in TokenTables
  /\ awaited \in [QueryIds -> Runners \cup {NoSeeker}]
  /\ doing \in [Runners -> Frames]
  /\ queries \subseteq Queries
  /\ clashes \in 0 .. MaxClashes /\ wakes \in 0 .. MaxTasks

DhtInit ==
  /\ dht = "new"
  /\ routing = [known |-> {}, placed |-> {}, good |-> {}, failed |-> [n \in NodeIds |-> 0]]
  /\ tokens = [h \in InfoHashes |-> NoToken]
  /\ awaited = [i \in QueryIds |-> NoSeeker]
  /\ doing = [c \in Runners |-> Resting]
  /\ queries = {} /\ clashes = 0 /\ wakes = 0

-----------------------------------------------------------------------------
(* The routing table *)

\* One more than the bits two ids have in common at their front.
Distance(a, b) ==
  LET differ == {i \in 1 .. Bits : a[i] # b[i]}
  IN  IF differ = {} THEN Bits ELSE CHOOSE i \in differ : \A j \in differ : i <= j

BucketIndex(n) == IF Distance(OwnId, n) < Bits THEN Distance(OwnId, n) ELSE Bits - 1
Bucket(t, n) == {m \in t.placed : BucketIndex(m) = BucketIndex(n)}

\* Mutants: a full bucket takes one more; any node gives up its place.
FreePlacesInclusive(t, n) == IF Cardinality(Bucket(t, n)) <= K THEN {{}} ELSE {{b} : b \in Bucket(t, n) \ t.good}
FreePlacesOfAny(t, n) == IF Cardinality(Bucket(t, n)) < K THEN {{}} ELSE {{b} : b \in Bucket(t, n)}

\* What may be moved out for node n.
FreePlaces(t, n) == IF Cardinality(Bucket(t, n)) < K THEN {{}} ELSE {{b} : b \in Bucket(t, n) \ t.good}

IsOther(n) == n \in NodeIds

\* The tables that hearing of node n may lead to: a new node takes a free place, or
\* that of a bad one (the first, here any), which is still known afterwards.
AddNode(t, n) ==
  CASE ~IsOther(n) -> {t}
    [] IsOther(n) /\ n \in t.known -> {[t EXCEPT !.good = @ \cup {n}]}
    [] IsOther(n) /\ n \notin t.known /\ FreePlaces(t, n) = {} -> {t}
    [] OTHER -> {[known |-> t.known \cup {n}, placed |-> (t.placed \ out) \cup {n},
                  good |-> t.good \cup {n}, failed |-> [t.failed EXCEPT ![n] = 0]] : out \in FreePlaces(t, n)}

MarkGood(t, n) == IF n \in t.known THEN [t EXCEPT !.good = @ \cup {n}] ELSE t
MarkBad(t, n) ==
  IF n \in t.known
    THEN [t EXCEPT !.good = @ \ {n}, !.failed[n] = IF @ < BadAfter THEN @ + 1 ELSE @]
    ELSE t

\* The first Width nodes by distance: those with the fewest bits in common, and
\* any of equal ones (dictionary order decides).
ClosestNodes(t, target) ==
  {s \in SUBSET t.known :
     /\ Cardinality(s) = Width \/ (s = t.known /\ Cardinality(s) < Width)
     /\ \A n \in s, m \in t.known \ s : Distance(n, target) <= Distance(m, target)}

-----------------------------------------------------------------------------
(* Parts of a step of coroutine c; r is its record, t the routing table, k the *)
(* tokens after what came before in the same step.                             *)

\* The table of waits after the one of c has ended.
Released(c) == IF Awaits(c) THEN [awaited EXCEPT ![doing[c].tid] = NoSeeker] ELSE awaited

KindOf(r) == CASE r.at \in {"booting", "walking"} -> "find" [] r.at = "peers" -> "peers" [] OTHER -> "announce"

\* os.urandom(2): an id in use, or a new one, and it does not matter which.
InUse(c) == {q.tid : q \in queries} \cup {i \in QueryIds : Released(c)[i] # NoSeeker}
DrawId(c) == {i \in QueryIds : i \in InUse(c) \/ \A j \in QueryIds \ InUse(c) : i <= j}

\* Sends a query to node n and waits for the answer; a closed socket sends nothing.
SendQuery(c, r, n) ==
  \E i \in DrawId(c) :
    /\ awaited' = [Released(c) EXCEPT ![i] = c]
    /\ IF i \in InUse(c) THEN clashes < MaxClashes /\ clashes' = clashes + 1 ELSE UNCHANGED clashes
    /\ queries' = IF dht = "closed" THEN queries
                  ELSE queries \cup {[tid |-> i, kind |-> KindOf(r), topic |-> r.topic, ticket |-> r.ticket]}
    /\ doing' = [doing EXCEPT ![c] = [r EXCEPT !.node = n, !.tid = i, !.answer = {}, !.todo = @ \ {n}]]
    /\ dht' = IF c = Starter THEN "starting" ELSE dht

EndCall(c) ==
  /\ awaited' = Released(c)
  /\ doing' = [doing EXCEPT ![c] = [Resting EXCEPT !.at = IF c = Refresher THEN "idle" ELSE "done"]]
  /\ dht' = IF c = Starter THEN "on" ELSE dht
  /\ UNCHANGED <<queries, clashes>>

AskNext(c, r) ==
  \E n \in r.todo :
    /\ \A m \in r.todo : Distance(n, r.topic) <= Distance(m, r.topic)
    /\ SendQuery(c, r, n)

\* _refresh_routing_table: the next target.
NextTarget(c, r, t) ==
  IF r.rounds = 0 \/ t.known = {} THEN EndCall(c)
  ELSE \E x \in Drawn : \E s \in ClosestNodes(t, x) :
         AskNext(c, [r EXCEPT !.topic = x, !.todo = s, !.rounds = @ - 1])

\* _bootstrap: the next host whose name resolves, or the end.
NextHost(c, r, t) ==
  \/ \E j \in 0 .. r.rounds - 1 : SendQuery(c, [r EXCEPT !.rounds = j], NoId)
  \/ IF Cardinality(t.known) < Enough
       THEN NextTarget(c, [r EXCEPT !.at = "walking", !.rounds = Rounds], t)
       ELSE EndCall(c)

\* announce_peer from its test for a token on.
Announce(c, r, t, k) ==
  IF k[r.topic].of # NoId /\ ~k[r.topic].old
    THEN /\ tokens' = k
         /\ \E s \in ClosestNodes(t, r.topic) :
              IF s = {} THEN EndCall(c)
              ELSE AskNext(c, [r EXCEPT !.at = "announcing", !.todo = s, !.ticket = k[r.topic].of])
    ELSE tokens' = [k EXCEPT ![r.topic] = NoToken] /\ EndCall(c)

Proceed(c, r, t, k) ==
  \/ r.todo # {} /\ AskNext(c, r) /\ tokens' = k
  \/ /\ r.todo = {}
     /\ \/ r.at = "booting" /\ NextHost(c, r, t) /\ tokens' = k
        \/ r.at = "walking" /\ NextTarget(c, r, t) /\ tokens' = k
        \/ r.at = "peers" /\ r.inner /\ Announce(c, r, t, k)
        \/ ~(r.at = "peers" /\ r.inner) /\ r.at \in {"peers", "announcing"} /\ EndCall(c) /\ tokens' = k

-----------------------------------------------------------------------------
(* The calls *)

MayBegin == Cardinality({c \in Seekers : doing[c].at # "idle"}) + wakes < MaxTasks

GetPeers(c) ==
  LET h == HashOf[c] IN
  /\ doing[c].at = "idle" /\ dht = "on" /\ MayBegin
  /\ \E s \in ClosestNodes(routing, h) :
       Proceed(c, [Resting EXCEPT !.at = "peers", !.topic = h, !.todo = s], routing, tokens)
  /\ UNCHANGED <<routing, wakes>>

AnnouncePeer(c) ==
  LET h == HashOf[c] IN
  /\ doing[c].at = "idle" /\ dht = "on" /\ MayBegin
  /\ IF tokens[h].of # NoId
       THEN Announce(c, [Resting EXCEPT !.topic = h], routing, tokens)
       ELSE \E s \in ClosestNodes(routing, h) :
              Proceed(c, [Resting EXCEPT !.at = "peers", !.inner = TRUE, !.topic = h, !.todo = s], routing, tokens)
  /\ UNCHANGED <<routing, wakes>>

\* start(): the socket is open, the loops run, the bootstrap begins.
Start ==
  /\ dht = "new"
  /\ NextHost(Starter, [Resting EXCEPT !.at = "booting", !.rounds = Hosts], routing)
  /\ UNCHANGED <<routing, tokens, wakes>>

\* _refresh_loop after its sleep.
Refresh ==
  /\ dht \in {"starting", "on"} /\ doing[Refresher].at = "idle" /\ MayBegin
  /\ wakes' = wakes + 1
  /\ NextTarget(Refresher, [Resting EXCEPT !.at = "walking", !.rounds = Rounds], routing)
  /\ UNCHANGED <<routing, tokens>>

\* _find_nodes, and the turns of the loops of get_peers and announce_peer, after an answer.
\* One that cannot be parsed raises.
TakesAnswer(c) ==
  \E a \in doing[c].answer :
    LET r == doing[c]
        hash == r.topic
        heard == IF a.says.sound THEN AddNode(routing, a.says.lists) ELSE {routing}
    IN  \/ /\ r.at \in {"booting", "walking"}
           /\ routing' \in heard
           /\ Proceed(c, r, routing', tokens)
        \/ /\ r.at = "peers"
           /\ routing' \in {IF a.says.sound THEN MarkGood(t, r.node) ELSE MarkBad(t, r.node) : t \in heard}
           /\ Proceed(c, r, routing',
                      IF a.says.sound /\ a.says.token THEN [tokens EXCEPT ![hash] = [of |-> a.to.topic, old |-> FALSE]]
                                                     ELSE tokens)
        \/ /\ r.at = "announcing"
           /\ routing' = MarkGood(routing, r.node)
           /\ Proceed(c, r, routing', tokens)

\* Mutant: the timer looks for the query in pending_queries.
TimesOutRegistered(c) ==
  /\ Awaits(c) /\ doing[c].answer = {} /\ awaited[doing[c].tid] = c
  /\ routing' = IF doing[c].at = "announcing" THEN MarkBad(routing, doing[c].node) ELSE routing
  /\ Proceed(c, doing[c], routing', tokens)

\* query_timeout: only announce_peer holds it against the node.
TimesOutAsking(c) ==
  /\ Awaits(c) /\ doing[c].answer = {}
  /\ routing' = IF doing[c].at = "announcing" THEN MarkBad(routing, doing[c].node) ELSE routing
  /\ Proceed(c, doing[c], routing', tokens)

SeekerStep(c) == (TakesAnswer(c) \/ TimesOutAsking(c)) /\ UNCHANGED wakes

\* The caller's own timeout, 30 seconds and more, ends the call with what it had found.
CancelSeeker(c) == c \in Seekers /\ Awaits(c) /\ EndCall(c) /\ UNCHANGED <<routing, tokens, wakes>>

\* stop(): the refresh is cancelled and waited for, then the socket is closed.
BeginDhtStop == dht = "on" /\ dht' = "stopping" /\ UNCHANGED <<routing, tokens, awaited, doing, queries, clashes, wakes>>
RefreshCancelled ==
  /\ dht = "stopping" /\ Awaits(Refresher)
  /\ EndCall(Refresher) /\ UNCHANGED <<routing, tokens, wakes>>
EndDhtStop ==
  /\ dht = "stopping" /\ ~Awaits(Refresher)
  /\ dht' = "closed" /\ UNCHANGED <<routing, tokens, awaited, doing, queries, clashes, wakes>>

\* Mutant: an answer goes to whoever waits.
AnyWaiter(q) == IF \E c \in Runners : Awaits(c) THEN CHOOSE c \in Runners : Awaits(c) ELSE NoSeeker
WaiterFor(q) == awaited[q.tid]

\* handle_response: a datagram of some node, for the future of its transaction id.
\* Only answers to get_peers bring tokens.
HandleDhtResponse(q, says) ==
  LET c == WaiterFor(q)
  IN  /\ dht # "closed" /\ c # NoSeeker
      /\ doing[c].answer = {}
      /\ doing' = [doing EXCEPT ![c].answer = {[to |-> q, says |-> [says EXCEPT !.token = @ /\ q.kind = "peers"]]}]
      /\ UNCHANGED <<dht, routing, tokens, awaited, queries, clashes, wakes>>

TokenExpires(h) ==
  /\ tokens[h].of # NoId /\ ~tokens[h].old
  /\ tokens' = [tokens EXCEPT ![h].old = TRUE]
  /\ UNCHANGED <<dht, routing, awaited, doing, queries, clashes, wakes>>

\* _cleanup_old_data, every five minutes.
CleanUpDht ==
  /\ dht \in {"starting", "on"}
  /\ tokens' = [h \in InfoHashes |-> IF tokens[h].old THEN NoToken ELSE tokens[h]]
  /\ LET gone == {n \in routing.known \ routing.good : routing.failed[n] = BadAfter}
     IN  routing' = [routing EXCEPT !.known = @ \ gone, !.placed = @ \ gone]
  /\ UNCHANGED <<dht, awaited, doing, queries, clashes, wakes>>

DhtNext ==
  \/ Start \/ Refresh \/ BeginDhtStop \/ RefreshCancelled \/ EndDhtStop \/ CleanUpDht
  \/ \E c \in Seekers : GetPeers(c) \/ AnnouncePeer(c)
  \/ \E c \in Runners : SeekerStep(c) \/ CancelSeeker(c)
  \/ \E q \in queries, says \in Says : HandleDhtResponse(q, says)
  \/ \E h \in InfoHashes : TokenExpires(h)

\* The event loop goes on: a wait ends by an answer or its timeout.
DhtFairness == \A c \in Runners : WF_dhtVars(SeekerStep(c))

DhtSpec == DhtInit /\ [][DhtNext]_dhtVars /\ DhtFairness

-----------------------------------------------------------------------------
(* Properties *)

\* Only nodes that are known have a place, and no bucket has more than K.
BucketsHold ==
  /\ routing.placed \subseteq routing.known
  /\ \A n \in NodeIds : Cardinality(Bucket(routing, n)) <= K

\* A node that is good does not lose its place (add_node and the clean-up take bad ones only).
GoodKeepsItsPlace == [][routing.placed \cap routing.good \subseteq routing'.placed]_dhtVars

\* What is registered is waited for; what is waited for is registered, unless two
\* queries drew one id: then the end of the first wait takes out the entry of the second.
WaitsAreRegistered ==
  /\ \A i \in QueryIds : awaited[i] # NoSeeker => Awaits(awaited[i]) /\ doing[awaited[i]].tid = i
  /\ \A c \in Runners : Awaits(c) => clashes > 0 \/ awaited[doing[c].tid] = c

\* The token kept for a hash, and the one it is announced with, was issued for it,
\* however late and mixed the answers came, unless two queries drew one id.
KeptTokensFit(k) == \A h \in InfoHashes : k[h].of \in {h, NoId}
TokensFit ==
  clashes > 0 \/ (/\ KeptTokensFit(tokens)
                  /\ \A q \in queries : q.kind = "announce" => q.ticket = q.topic)

\* Every call of get_peers and announce_peer comes to an end, stopped or not.
DhtCallsEnd == \A c \in Seekers : Awaits(c) ~> doing[c].at = "done"

\* The buckets of the routing table keep their bound, through every lookup,
\* refresh, answer and clean-up.
RoutesAreSound == DhtTypeOK /\ BucketsHold

\* Answers go to the query they belong to, and tokens to the torrent they were
\* given for, whatever happens to the datagrams.
QueriesAreSound == WaitsAreRegistered /\ TokensFit
=============================================================================
