----------------------------- MODULE TrackerCalls -----------------------------
(***************************************************************************)
(* What the UDP tracker client promises the coroutines that call it: every  *)
(* attempt is a request of its own, what is delivered to a call answers the *)
(* request it waits on at that moment, a call that ends as answered had its *)
(* last request answered, and it ends once.  After stop() has begun nothing *)
(* is delivered, after stop() nothing is asked.                              *)
(***************************************************************************)
CONSTANTS
  Callers,
  Requests,
  Finals,   \* those whose answer is what the caller asked for
  None      \* stands where there is no request

VARIABLES
  client,   \* "up", "stopping" or "down"
  made,     \* requests made so far
  current,  \* the request each call waits on
  heard,    \* the request whose answer has been delivered to the wait
  result,   \* whether that was "ok" or an "error", or "none"
  outcome   \* how each call has ended, or "none"

vars == <<client, made, current, heard, result, outcome>>

Init ==
  /\ client = "up" /\ made = {}
  /\ current = [c \in Callers |-> None]
  /\ heard = [c \in Callers |-> None]
  /\ result = [c \in Callers |-> "none"]
  /\ outcome = [c \in Callers |-> "none"]

\* Nothing has been heard of what is waited on next.
WaitsOn(c, r) ==
  /\ current' = [current EXCEPT ![c] = r]
  /\ heard' = [heard EXCEPT ![c] = None]
  /\ result' = [result EXCEPT ![c] = "none"]

Ask(c) ==
  /\ client # "down" /\ outcome[c] = "none"
  /\ \E r \in Requests \ made : made' = made \cup {r} /\ WaitsOn(c, r)
  /\ UNCHANGED <<client, outcome>>

Hear(c) ==
  /\ client = "up" /\ current[c] # None /\ heard[c] = None
  /\ heard' = [heard EXCEPT ![c] = current[c]]
  /\ \E r \in {"ok", "error"} : result' = [result EXCEPT ![c] = r]
  /\ UNCHANGED <<client, made, current, outcome>>

\* Between two attempts.
Rest(c) ==
  /\ outcome[c] = "none"
  /\ WaitsOn(c, None)
  /\ UNCHANGED <<client, made, outcome>>

End(c, how) ==
  /\ outcome[c] = "none"
  /\ how = "answered" => heard[c] = current[c] /\ heard[c] \in Finals /\ result[c] = "ok"
  /\ outcome' = [outcome EXCEPT ![c] = how]
  /\ WaitsOn(c, None)
  /\ UNCHANGED <<client, made>>

Stop ==
  /\ <<client, client'>> \in {<<"up", "stopping">>, <<"stopping", "down">>}
  /\ UNCHANGED <<made, current, heard, result, outcome>>

Next ==
  \/ \E c \in Callers : Ask(c) \/ Hear(c) \/ Rest(c)
  \/ \E c \in Callers, how \in {"answered", "failed", "cancelled"} : End(c, how)
  \/ Stop

Spec == Init /\ [][Next]_vars
=============================================================================
