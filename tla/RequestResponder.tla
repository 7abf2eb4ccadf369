------------------------- MODULE RequestResponder -------------------------
(***************************************************************************)
(* What a server owes the other side: requests are taken up one at a time, *)
(* each is executed or refused once and answered at most once, and an      *)
(* answer reports what became of the request it answers.                   *)
(***************************************************************************)
CONSTANTS Request, Outcome, None

VARIABLES
  request,   \* the request taken up, or None
  outcome,   \* what became of it, None until it is known
  answer     \* [req, st] just sent, or None

vars == <<request, outcome, answer>>

TypeOK ==
  /\ request \in Request \union {None}
  /\ outcome \in Outcome \union {None}
  /\ answer \in [req : Request, st : Outcome] \union {None}

Init ==
  /\ request = None
  /\ outcome = None
  /\ answer = None

TakeUp(q) ==
  /\ request = None
  /\ request' = q
  /\ outcome' \in Outcome \union {None}   \* refused at once, or to be executed
  /\ answer' = None

Execute(st) ==
  /\ request # None
  /\ outcome = None
  /\ outcome' = st
  /\ UNCHANGED <<request, answer>>

Done == request # None /\ request' = None /\ outcome' = None

Respond ==
  /\ Done
  /\ outcome # None
  /\ answer' = [req |-> request, st |-> outcome]

(* No response: a broadcast, or the connection broke.                      *)
Drop == Done /\ UNCHANGED answer

Forget == answer' = None /\ UNCHANGED <<request, outcome>>

Next ==
  \/ \E q \in Request : TakeUp(q)
  \/ \E st \in Outcome : Execute(st)
  \/ Respond
  \/ Drop
  \/ Forget

Spec == Init /\ [][Next]_vars
=============================================================================
