------------------------------ MODULE SqlTime ------------------------------
(***************************************************************************)
(* How the repository layer stores and compares points in time.            *)
(*                                                                         *)
(* Every timestamp column is TEXT, written by formatTime with the layout   *)
(* time.RFC3339Nano, which drops trailing zeros of the fraction, and SQL   *)
(* compares the texts.  "...:05Z" therefore sorts AFTER "...:05.5Z": the   *)
(* letter Z is greater than the full stop.  Across seconds the order of    *)
(* the texts is the order of the instants; inside one second it is not.    *)
(*                                                                         *)
(* An instant is a natural number of ticks, TicksPerSecond to a second.    *)
(* When a tick is one decimal digit of a second (1, 2, 5 or 10 ticks) the  *)
(* order below is exactly the order of the texts: the tick that starts the *)
(* second has no fraction and sorts last in it.                            *)
(***************************************************************************)
EXTENDS Integers

CONSTANT TicksPerSecond

ASSUME TicksAssumption == TicksPerSecond \in Nat \ {0}

\* The second an instant belongs to.
Second(t) == t \div TicksPerSecond

\* The rank of the text formatTime writes for t among all such texts.
formatTime(t) ==
    Second(t) * TicksPerSecond + ((t + TicksPerSecond - 1) % TicksPerSecond)

\* The SQL comparisons  a <= b  and  a < b  on two stored times.
TextLeq(a, b) == formatTime(a) <= formatTime(b)
TextLess(a, b) == formatTime(a) < formatTime(b)

=============================================================================
