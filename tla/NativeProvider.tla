---------------------------- MODULE NativeProvider ----------------------------
(***************************************************************************)
(* The sovereign crypto provider of the desktop application                *)
(* (sovereign/nativeProvider.js).  The self-test is a chain of commands to *)
(* the native host, shared by all calls that wait for it and forgotten     *)
(* when it fails; a call then is one command.  A command may fail, and a   *)
(* self-test command may return what the test rejects.  There is no        *)
(* timeout.                                                                *)
(***************************************************************************)
EXTENDS Integers

CONSTANT Calls

VARIABLES
  call,       \* each call: new, waiting for readiness, sent, done, rejected
  readiness,  \* the memoised promise of the self-test: none, pending, ok
  step        \* the self-test's command the host is executing, 0 if none

vars == <<call, readiness, step>>

Phase == {"new", "ready", "sent", "done", "rejected"}

\* Key pair, encapsulate, decapsulate, and seal and open for two profiles.
Commands == 7

Init ==
  /\ call      = [c \in Calls |-> "new"]
  /\ readiness = "none"
  /\ step      = 0

\* assertHex or assertProfile refuses the arguments.
Refused(c) ==
  /\ call[c] = "new"
  /\ call' = [call EXCEPT ![c] = "rejected"]
  /\ UNCHANGED <<readiness, step>>

\* A call joins the self-test, or starts it; once it has passed the command
\* is invoked.
Called(c) ==
  /\ call[c] = "new"
  /\ \/ /\ readiness = "ok"
        /\ call' = [call EXCEPT ![c] = "sent"]
        /\ UNCHANGED <<readiness, step>>
     \/ /\ readiness = "pending"
        /\ call' = [call EXCEPT ![c] = "ready"]
        /\ UNCHANGED <<readiness, step>>
     \/ /\ readiness = "none"
        /\ call' = [call EXCEPT ![c] = "ready"]
        /\ readiness' = "pending" /\ step' = 1

TestGoesOn ==
  /\ step \in 1..(Commands - 1)
  /\ step' = step + 1
  /\ UNCHANGED <<call, readiness>>

TestPasses ==
  /\ step = Commands
  /\ readiness' = "ok" /\ step' = 0
  /\ call' = [c \in Calls |-> IF call[c] = "ready" THEN "sent" ELSE call[c]]

TestFails ==
  /\ step # 0
  /\ readiness' = "none" /\ step' = 0
  /\ call' = [c \in Calls |-> IF call[c] = "ready" THEN "rejected" ELSE call[c]]

Returns(c) ==
  /\ call[c] = "sent"
  /\ call' = [call EXCEPT ![c] = "done"]
  /\ UNCHANGED <<readiness, step>>

\* The command fails, or its result is refused.
Fails(c) ==
  /\ call[c] = "sent"
  /\ call' = [call EXCEPT ![c] = "rejected"]
  /\ UNCHANGED <<readiness, step>>

Next ==
  \/ \E c \in Calls : Refused(c) \/ Called(c) \/ Returns(c) \/ Fails(c)
  \/ TestGoesOn \/ TestPasses \/ TestFails

Spec == Init /\ [][Next]_vars

-----------------------------------------------------------------------------
(* What a caller sees of the phases of a call.                             *)
Seen == [c \in Calls |-> IF call[c] \in {"ready", "sent"} THEN "waiting" ELSE call[c]]

Promise == INSTANCE CryptoCalls
             WITH call <- Seen, tested <- (readiness = "ok"), closed <- FALSE

(* The variables hold what the provider's closure can hold: a self-test    *)
(* command runs exactly while the self-test is pending.                    *)
TypeOK ==
  /\ call \in [Calls -> Phase]
  /\ readiness \in {"none", "pending", "ok"}
  /\ step \in 0..Commands
  /\ step # 0 <=> readiness = "pending"

(* The provider keeps the promise of CryptoCalls: calls are settled once   *)
(* and resolved only after the whole self-test.                            *)
KeepsPromise == Promise!Spec

(* A step of the provider as its callers see it.                           *)
PromiseStep == [Promise!Next]_(Promise!vars)

(* The calls that were made and are not settled.                           *)
Unsettled == {c \in Calls : call[c] \notin {"new", "done", "rejected"}}
=================================================================================
