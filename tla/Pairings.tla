------------------------------ MODULE Pairings ------------------------------
(***************************************************************************)
(* What a handshake promises: the responder opens at most one session for   *)
(* it, and the initiator holds it for established only after that.          *)
(***************************************************************************)
EXTENDS Naturals

CONSTANT Handshakes

VARIABLES
  opened,      \* how many sessions the responder opened for each handshake
  established  \* handshakes the initiator takes for established

Init ==
  /\ opened = [h \in Handshakes |-> 0]
  /\ established = {}

Open(h) ==
  /\ opened[h] = 0
  /\ opened' = [opened EXCEPT ![h] = 1]
  /\ UNCHANGED established

Establish(h) ==
  /\ opened[h] = 1
  /\ h \notin established
  /\ established' = established \cup {h}
  /\ UNCHANGED opened

Next == \E h \in Handshakes : Open(h) \/ Establish(h)

Spec == Init /\ [][Next]_<<opened, established>>
=============================================================================
