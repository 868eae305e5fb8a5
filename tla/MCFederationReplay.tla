------------------------ MODULE MCFederationReplay ------------------------
(* A message and a GSN object, two requests at a time.  The message is     *)
(* stamped one second after the receiver's start, the object at the start. *)
EXTENDS FederationReplay, TLC

CONSTANTS h1, h2

MCHandlers == {h1, h2}
MCSymmetry == Permutations(MCHandlers)

MCPDUs == {[id |-> "m", created |-> 1, keyed |-> FALSE],
           [id |-> "g", created |-> 0, keyed |-> TRUE]}
=============================================================================
