---------------------------- MODULE ModbusObject ----------------------------
(***************************************************************************)
(* Signals and slots.  A slot is a method of an object or a function (its  *)
(* object is None then).  An object keeps the slots of a signal in a list; *)
(* emitting a signal calls them one after another, looking each up by its  *)
(* position at the time.  A slot may connect, disconnect and emit in turn, *)
(* so emissions nest; all of it happens in one thread.                     *)
(***************************************************************************)
EXTENDS Integers, SequencesExt

CONSTANTS
  Object,      \* objects that have signals
  Signal,
  Slot,        \* records: object, method
  None,
  MaxSlots,    \* bound: how long a list of slots gets
  MaxDepth,    \* bound: how deep emissions nest
  MaxCalls     \* bound: how many slots an emission calls before they keep quiet

ASSUME BoundsAssumption == {MaxSlots, MaxDepth, MaxCalls} \subseteq Nat

VARIABLES
  signalHash,  \* the lists of slots
  thl_senders, \* objects whose signals are being emitted, the last one first
  emissions    \* the calls of emitSignal under way, the innermost last

vars == <<signalHash, thl_senders, emissions>>

(* An emission: the object and signal, the position to be looked up next   *)
(* (from 0), the slot that is running, if one is.  To judge it by: what is *)
(* left for it to call, and whether a slot at a position it had passed was *)
(* disconnected.                                                           *)

(* Application code runs between emissions or in the slot of the innermost.*)
Running ==
  /\ emissions # <<>> => Last(emissions).slot # None
  /\ \A n \in DOMAIN emissions : emissions[n].i <= MaxCalls

sender == IF thl_senders = <<>> THEN None ELSE Head(thl_senders)

-----------------------------------------------------------------------------
Init ==
  /\ signalHash = [o \in Object |-> [s \in Signal |-> <<>>]]
  /\ thl_senders = <<>>
  /\ emissions = <<>>

Concerns(e, o, s) == e.object = o /\ e.signal = s

connect(o, s, slot) ==
  /\ Running
  /\ Len(signalHash[o][s]) < MaxSlots
  /\ signalHash' = [signalHash EXCEPT ![o][s] = Append(@, slot)]
  /\ emissions' = [n \in DOMAIN emissions |->
                     IF Concerns(emissions[n], o, s)
                     THEN [emissions[n] EXCEPT !.left = Append(@, slot)]
                     ELSE emissions[n]]
  /\ UNCHANGED thl_senders

Matches(slot, object, method) ==
  IF object # None
  THEN slot.object = object /\ (method = None \/ slot.method = method)
  ELSE slot.method = method

(* What the loop over a list of slots leaves of its first n.               *)
Staying(list, object, method) ==
  LET stay[n \in 0..Len(list)] ==
        IF n = 0 THEN <<>>
        ELSE IF Matches(list[n], object, method) THEN stay[n - 1]
             ELSE Append(stay[n - 1], list[n])
  IN  stay

Without(list, object, method) == Staying(list, object, method)[Len(list)]

(* From all signals of the object.                                         *)
disconnect(o, object, method) ==
  LET Gone(e) == {p \in 1..Len(signalHash[o][e.signal]) :
                    Matches(signalHash[o][e.signal][p], object, method)}
  IN /\ Running
     /\ signalHash' = [signalHash EXCEPT ![o] =
                         [s \in Signal |-> Without(@[s], object, method)]]
     /\ emissions' = [n \in DOMAIN emissions |->
                        LET e == emissions[n]
                        IN IF e.object # o THEN e
                           ELSE [e EXCEPT !.left = Without(@, object, method),
                                          !.disturbed = @ \/ \E p \in Gone(e) : p <= e.i]]
     /\ UNCHANGED thl_senders

-----------------------------------------------------------------------------
(* emitSignal, in steps: it begins, calls the slot it finds, the slot      *)
(* returns, it ends when it finds none.                                    *)

emitSignal(o, s) ==
  /\ Running
  /\ Len(emissions) < MaxDepth
  /\ thl_senders' = <<o>> \o thl_senders
  /\ emissions' = Append(emissions,
       [object |-> o, signal |-> s, i |-> 0, slot |-> None,
        left |-> signalHash[o][s], disturbed |-> FALSE])
  /\ UNCHANGED signalHash

\* mutant: the lookup starts at the second slot.
slotNext(o, s, i) ==
  LET list == signalHash[o][s] IN IF i + 1 >= Len(list) THEN <<>> ELSE <<list[i + 2]>>

(* The list is a ring through its end: advancing past the end goes on at   *)
(* the beginning.  (What a list does then is undefined; the lists that     *)
(* compilers come with do this.)  An empty list is removed altogether.     *)
slot(o, s, i) ==
  LET list == signalHash[o][s]
      at == i % (Len(list) + 1)
  IN IF at = Len(list) THEN <<>> ELSE <<list[at + 1]>>

InEmission == emissions # <<>> /\ Last(emissions).slot = None
Found == slot(Last(emissions).object, Last(emissions).signal, Last(emissions).i)

exec ==
  LET e == Last(emissions)
  IN /\ InEmission
     /\ Found # <<>>
     /\ emissions' = [emissions EXCEPT ![Len(emissions)] =
          [e EXCEPT !.i = e.i + 1,
                    !.slot = Found[1],
                    !.left = IF e.left = <<>> THEN <<>> ELSE Tail(e.left)]]
     /\ UNCHANGED <<signalHash, thl_senders>>

slotReturns ==
  /\ emissions # <<>>
  /\ Last(emissions).slot # None
  /\ emissions' = [emissions EXCEPT ![Len(emissions)].slot = None]
  /\ UNCHANGED <<signalHash, thl_senders>>

\* mutant: the sender that came first is taken off.
emitEndsBack ==
  /\ InEmission
  /\ Found = <<>>
  /\ emissions' = Front(emissions)
  /\ thl_senders' = Front(thl_senders)
  /\ UNCHANGED signalHash

\* mutant: an emission ends when it has come to the number of slots.
emitEndsCounted ==
  LET e == Last(emissions)
  IN /\ InEmission
     /\ e.i = Len(signalHash[e.object][e.signal])
     /\ emissions' = Front(emissions)
     /\ thl_senders' = Tail(thl_senders)
     /\ UNCHANGED signalHash

emitEnds ==
  /\ InEmission
  /\ Found = <<>>
  /\ emissions' = Front(emissions)
  /\ thl_senders' = Tail(thl_senders)
  /\ UNCHANGED signalHash

Next ==
  \/ \E o \in Object :
       \/ \E s \in Signal : emitSignal(o, s)
       \/ \E s \in Signal, t \in Slot : connect(o, s, t)
       \/ \E t \in Slot : disconnect(o, t.object, t.method)
       \/ \E t \in Slot : t.object # None /\ disconnect(o, t.object, None)
  \/ exec \/ slotReturns \/ emitEnds

Spec == Init /\ [][Next]_vars

(* The thread goes on.                                                     *)
Unwind == exec \/ slotReturns \/ emitEnds
FairSpec == Spec /\ WF_vars(Unwind)

-----------------------------------------------------------------------------
(* sender(), called in a slot, is the object whose signal the slot serves, *)
(* also when the slot has emitted signals of other objects before; and it  *)
(* is nobody outside of slots.                                             *)
SenderServed ==
  sender = IF emissions = <<>> THEN None ELSE Last(emissions).object

(* The slots of a signal are called in the order in which they were        *)
(* connected, each once, those connected meanwhile included; and the       *)
(* emission ends when none is left.  Slots that were disconnected before   *)
(* their turn are not called.                                              *)
KeepsOrder ==
  LET left == Last(emissions).left
  IN /\ exec => left # <<>> /\ Last(emissions').slot = Head(left)
     /\ emitEnds => left = <<>>

(* That is so for emissions during which no slot that had had its turn     *)
(* (the running one included) was disconnected from the signal.            *)
UndisturbedInOrder ==
  [][exec \/ emitEnds => Last(emissions).disturbed \/ KeepsOrder]_vars

(* Without exception, as the documentation of ModbusObject has it.         *)
AlwaysInOrder == [][exec \/ emitEnds => KeepsOrder]_vars

(* Once the slots keep quiet, every emission ends, a disturbed one too.    *)
EmissionsEnd == <>[][Unwind]_vars => []<>(emissions = <<>>)
=============================================================================
