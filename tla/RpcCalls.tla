-------------------------------- MODULE RpcCalls -------------------------------
(***************************************************************************)
(* What the client promises to the goroutines that call it, without pools, *)
(* channels and read cycles: a call is refused, fails to send its request, *)
(* gives up because its own ctx is done or the client is closed, or        *)
(* returns a response.  A response is returned at most once and only after *)
(* its request was sent, and it is the caller's own until the first ctx is *)
(* done, the client is closed or a write is cut half way.  After such a    *)
(* cut the peer may answer the call whose write failed, and not answer a   *)
(* call whose write succeeded.                                             *)
(***************************************************************************)
CONSTANTS Calls, None

VARIABLES
    status,     \* "new", "open", "sent", "returned" or "over"
    answer,     \* the request whose response the call returned
    requests,   \* requests sent and not yet answered
    cut,        \* a write was cut half way
    pieces,     \* calls whose bytes the peer may yet take for a request
    responses,  \* responses that have arrived and were not returned
    cancelled,  \* calls whose ctx is done
    closed      \* the client is closed

sending == <<requests, cut, pieces>>
rpcVars == <<status, answer, sending, responses, cancelled, closed>>

Init ==
    /\ status = [c \in Calls |-> "new"]
    /\ answer = [c \in Calls |-> None]
    /\ requests = {}
    /\ cut = FALSE
    /\ pieces = {}
    /\ responses = {}
    /\ cancelled = {}
    /\ closed = FALSE

Moves(c, from, to) ==
    /\ status[c] = from
    /\ status' = [status EXCEPT ![c] = to]

\* Bytes for the given calls, behind a cut or up to one: the peer takes any of the
\* pieces for requests.
Garbled(calls) ==
    /\ cut' = TRUE
    /\ \E taken \in SUBSET (pieces \cup calls) :
          /\ requests' = requests \cup taken
          /\ pieces' = (pieces \cup calls) \ taken

\* A call begins, but not on a closed client.
Start(c) ==
    /\ ~closed
    /\ Moves(c, "new", "open")
    /\ UNCHANGED <<answer, sending, responses, cancelled, closed>>

\* A call is refused, is dropped, or was an event.
Refuse(c) ==
    /\ Moves(c, "new", "over")
    /\ UNCHANGED sending \/ Garbled({})
    /\ UNCHANGED <<answer, responses, cancelled, closed>>

\* The request is sent ...
Send(c) ==
    /\ Moves(c, "open", "sent")
    /\ \/ requests' = requests \cup {c} /\ UNCHANGED <<cut, pieces>>
       \/ cut /\ Garbled({c})
    /\ UNCHANGED <<answer, responses, cancelled, closed>>

\* ... or the sending fails.
Fail(c) ==
    /\ Moves(c, "open", "over")
    /\ UNCHANGED sending \/ Garbled({c})
    /\ UNCHANGED <<answer, responses, cancelled, closed>>

\* A response arrives, or is thrown away on arrival.
Arrive(i) ==
    /\ i \in requests
    /\ requests' = requests \ {i}
    /\ responses' \in {responses, responses \cup {i}}
    /\ UNCHANGED <<status, answer, cut, pieces, cancelled, closed>>

\* A response is thrown away later.
Lose(i) ==
    /\ i \in responses
    /\ responses' = responses \ {i}
    /\ UNCHANGED <<status, answer, sending, cancelled, closed>>

\* The call returns response i, its own unless somebody may have given up or a
\* write was cut.
Return(c, i) ==
    /\ i \in responses
    /\ i = c \/ closed \/ cancelled # {} \/ cut
    /\ Moves(c, "sent", "returned")
    /\ answer' = [answer EXCEPT ![c] = i]
    /\ responses' = responses \ {i}
    /\ UNCHANGED <<sending, cancelled, closed>>

\* The call gives up, on account of its own ctx or of Close.
GiveUp(c) ==
    /\ c \in cancelled \/ closed
    /\ Moves(c, "sent", "over")
    /\ UNCHANGED <<answer, sending, responses, cancelled, closed>>

Cancel(c) ==
    /\ cancelled' = cancelled \cup {c}
    /\ UNCHANGED <<status, answer, sending, responses, closed>>

Close ==
    /\ closed' = TRUE
    /\ UNCHANGED <<status, answer, sending, responses, cancelled>>

Next ==
    \/ \E c \in Calls :
          \/ Start(c) \/ Refuse(c) \/ Send(c) \/ Fail(c) \/ GiveUp(c) \/ Cancel(c)
          \/ Arrive(c) \/ Lose(c)
          \/ \E i \in Calls : Return(c, i)
    \/ Close

Spec == Init /\ [][Next]_rpcVars
================================================================================
