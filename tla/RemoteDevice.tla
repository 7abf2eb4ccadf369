---------------------------- MODULE RemoteDevice ----------------------------
(***************************************************************************)
(* What the memory functions of a client port promise: a caller works on   *)
(* the memory of a remote device as if it were there.  The memory is the   *)
(* set of its bits that are one.  An operation is                          *)
(*   touch       the bits that must exist,                                 *)
(*   set, clear  the bits it makes one and zero,                           *)
(*   reads       the bits it reads (after it has written),                 *)
(*   blind       whether it is a broadcast, which nobody answers.          *)
(* It is done once and whole, or the caller is told of a failure.          *)
(***************************************************************************)
EXTENDS Integers

CONSTANT None

VARIABLES address, \* the bits there are, for ever
          ones,    \* the memory
          op,      \* the operation under way, or None
          done,    \* the device's answer, or None
          result   \* what the caller was told last

vars == <<op, done, result, ones, address>>

Failure == [good |-> FALSE, of |-> {}, read |-> {}]
Answer(bits, m) == [good |-> TRUE, of |-> bits, read |-> bits \intersect m]
Written(o, m) == (m \ o.clear) \union o.set

Init ==
  /\ ones \subseteq address
  /\ op = None
  /\ done = None
  /\ result = Failure

Request ==
  /\ op = None
  /\ op' # None
  /\ result' = Failure
  /\ UNCHANGED <<ones, done>>

Refuse ==
  /\ op = None
  /\ result' = Failure
  /\ UNCHANGED <<ones, op, done>>

Perform ==
  /\ op # None
  /\ done = None
  /\ op.touch \subseteq address
  /\ ones' = Written(op, ones)
  /\ done' = Answer(op.reads, ones')
  /\ UNCHANGED <<op, result>>

Fail ==
  /\ op # None
  /\ done = None
  /\ done' = Failure
  /\ UNCHANGED <<ones, op, result>>

(* A device that writes before it reads may find that it cannot read.      *)
FailHalfway ==
  /\ op # None
  /\ done = None
  /\ op.reads # {}
  /\ op.set \union op.clear \subseteq address
  /\ ~ op.touch \subseteq address
  /\ ones' = Written(op, ones)
  /\ done' = Failure
  /\ UNCHANGED <<op, result>>

Return ==
  /\ op # None
  /\ \/ result' = Failure
     \/ done # None /\ result' = done
     \/ op.blind /\ result' = Answer({}, ones)
  /\ op' = None
  /\ done' = None
  /\ UNCHANGED ones

Next ==
  /\ Request \/ Refuse \/ Perform \/ Fail \/ FailHalfway \/ Return
  /\ UNCHANGED address

Spec == Init /\ [][Next]_vars
=============================================================================
