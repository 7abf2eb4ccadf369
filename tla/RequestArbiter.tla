-------------------------- MODULE RequestArbiter --------------------------
(***************************************************************************)
(* What a shared client port promises its clients: requests are served one *)
(* at a time, each from start to end, and a result is the result of the    *)
(* request that was served.                                                *)
(***************************************************************************)
CONSTANTS Client, Request, None

VARIABLES
  asked,     \* per client, the request it waits for or None
  served,    \* [client, req] being served, or None
  result     \* the request whose success was just reported, or None

vars == <<asked, served, result>>

Issue == [client : Client, req : Request]

TypeOK ==
  /\ asked \in [Client -> Request \union {None}]
  /\ served \in Issue \union {None}
  /\ result \in Issue \union {None}

Init ==
  /\ asked = [c \in Client |-> None]
  /\ served = None
  /\ result = None

Ask(c, q) ==
  /\ asked[c] = None
  /\ asked' = [asked EXCEPT ![c] = q]
  /\ result' = None
  /\ UNCHANGED served

(* A free port takes up a request, at once or one that was waiting.        *)
Serve(c, q) ==
  /\ served = None
  /\ asked[c] \in {None, q}
  /\ asked' = [asked EXCEPT ![c] = q]
  /\ served' = [client |-> c, req |-> q]
  /\ result' = None

(* ... or refuses it.                                                      *)
Refuse(c) ==
  /\ served = None
  /\ asked' = [asked EXCEPT ![c] = None]
  /\ result' = None
  /\ UNCHANGED served

Finish ==
  /\ served # None
  /\ asked' = [asked EXCEPT ![served.client] = None]
  /\ served' = None
  /\ result' \in {served, None}

Forget == result' = None /\ UNCHANGED <<asked, served>>

Next ==
  \/ \E c \in Client, q \in Request : Ask(c, q) \/ Serve(c, q)
  \/ \E c \in Client : Refuse(c)
  \/ Finish
  \/ Forget

Spec == Init /\ [][Next]_vars
=============================================================================
