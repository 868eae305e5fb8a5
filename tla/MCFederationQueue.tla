------------------------ MODULE MCFederationQueue ------------------------
(* Items that differ in the calls one delivery makes: friction delay, top- *)
(* secret capability check, alternative endpoint.  In the runs for         *)
(* liveness a single call, with or without friction, fits into the         *)
(* context, and two calls that both time out do not: 30, 9 + 30 and        *)
(* 30 + 30 against 40 seconds.                                             *)
EXTENDS FederationQueue, TLC

CONSTANTS w1, w2, t1, t2, t3, t4

MCWorkers == {w1, w2}
MCOneWorker == {w1}
MCTokens == {t1, t2, t3, t4}
MCSymmetry == Permutations(MCWorkers)

Plain == [id |-> "plain", friction |-> 0, secret |-> FALSE, routes |-> 1]
Slow == [id |-> "slow", friction |-> 1, secret |-> FALSE, routes |-> 1]
Secret == [id |-> "secret", friction |-> 1, secret |-> TRUE, routes |-> 1]
Routed == [id |-> "routed", friction |-> 0, secret |-> FALSE, routes |-> 2]

MCItems == {Secret, Routed}
MCShortItems == {Plain, Slow}
MCRoutedItems == {Routed}
=============================================================================
