----------------------------- MODULE CryptoCalls -----------------------------
(***************************************************************************)
(* What the sovereign crypto providers promise to their callers            *)
(* (sovereignCrypto.js): a call is settled once, a result is given out     *)
(* only after the self-test of the primitives has passed, and a provider   *)
(* that has failed closed gives out no result any more.                    *)
(***************************************************************************)
CONSTANT Calls

VARIABLES call,    \* the promise of each call
          tested,  \* the self-test has passed
          closed   \* the provider has failed closed

vars == <<call, tested, closed>>

Status == {"new", "waiting", "done", "rejected"}

Init ==
  /\ call   = [c \in Calls |-> "new"]
  /\ tested = FALSE
  /\ closed = FALSE

Begin(c) ==
  /\ call[c] = "new"
  /\ call' = [call EXCEPT ![c] = "waiting"]
  /\ UNCHANGED <<tested, closed>>

\* A call whose arguments are refused.
Refuse(c) ==
  /\ call[c] = "new"
  /\ call' = [call EXCEPT ![c] = "rejected"]
  /\ UNCHANGED <<tested, closed>>

Test ==
  /\ ~closed
  /\ tested' = TRUE
  /\ UNCHANGED <<call, closed>>

Resolve(c) ==
  /\ call[c] = "waiting" /\ tested /\ ~closed
  /\ call' = [call EXCEPT ![c] = "done"]
  /\ UNCHANGED <<tested, closed>>

\* Calls are rejected together when what they wait for is, and when the
\* provider fails closed.
Reject ==
  /\ \E R \in SUBSET {c \in Calls : call[c] = "waiting"} :
       call' = [c \in Calls |-> IF c \in R THEN "rejected" ELSE call[c]]
  /\ UNCHANGED tested
  /\ closed => closed'

Next == (\E c \in Calls : Begin(c) \/ Refuse(c) \/ Resolve(c)) \/ Test \/ Reject

Spec == Init /\ [][Next]_vars

-----------------------------------------------------------------------------
(* A settled promise never changes (a promise of sovereignCrypto.js is     *)
(* resolved or rejected once).                                             *)
SettledOnce ==
  [][\A c \in Calls : call[c] \in {"done", "rejected"} => call'[c] = call[c]]_vars

(* After the provider has failed closed no call is resolved.               *)
ClosedResolvesNone ==
  [][closed => \A c \in Calls : call'[c] = "done" => call[c] = "done"]_vars

(* Results are given out only after the self-test has passed.              *)
TestedFirst == (\E c \in Calls : call[c] = "done") => tested
=============================================================================
