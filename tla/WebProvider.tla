----------------------------- MODULE WebProvider -----------------------------
(***************************************************************************)
(* The sovereign crypto provider of the browser (sovereign/webProvider.js) *)
(* and its Worker (webCrypto.worker.js).  A call waits for the one shared  *)
(* self-test, then posts a numbered request; answers are matched with      *)
(* pending requests by number; a timeout, or an error of the Worker, fails *)
(* the provider closed.  The numbers wrap around at the largest safe       *)
(* integer, so a provider is started at any number here.  The arguments    *)
(* and results that the boundary checks refuse are a choice.               *)
(***************************************************************************)
EXTENDS Integers, FiniteSets

CONSTANTS Calls,     \* the calls made
          SelfTest,  \* the owner of the requests of the self-test
          None,
          MaxId      \* Number.MAX_SAFE_INTEGER

ASSUME WebAssumption ==
  /\ SelfTest \notin Calls /\ None \notin Calls /\ SelfTest # None
  /\ MaxId \in Nat \ {0}

VARIABLES
  call,       \* each call: new, waiting for readiness, going on, sent, done, rejected
  result,     \* whose result each resolved call has been given
  pending,    \* the owner of each pending request, by its number
  sequence,   \* the number of the last request
  readiness,  \* the memoised promise of the self-test: none, pending, ok
  failed,     \* the provider has failed closed
  inbox,      \* requests the Worker is executing
  outbox,     \* answers on their way to the page
  init        \* the Worker's memoised initialization has passed

vars == <<call, result, pending, sequence, readiness, failed, inbox, outbox, init>>

Ids    == 1..MaxId
Owners == Calls \cup {SelfTest}
Phase  == {"new", "ready", "go", "sent", "done", "rejected"}

Init ==
  /\ call      = [c \in Calls |-> "new"]
  /\ result    = [c \in Calls |-> None]
  /\ pending   = [i \in Ids |-> None]
  /\ sequence  \in 0..MaxId
  /\ readiness = "none"
  /\ failed    = FALSE
  /\ inbox     = {}
  /\ outbox    = {}
  /\ init      = FALSE

-----------------------------------------------------------------------------
(* The page.                                                               *)

\* Deviant: the numbers start again too early.
NextIdEarly == IF sequence >= 2 THEN 1 ELSE sequence + 1

NextId == IF sequence >= MaxId THEN 1 ELSE sequence + 1

Request(owner) ==
  /\ sequence' = NextId
  /\ pending'  = [pending EXCEPT ![NextId] = owner]
  /\ inbox'    = inbox \cup {[id |-> NextId, for |-> owner]}

\* The calls that waited for the self-test, when it passes and when it fails.
WaitersGoOn    == [c \in Calls |-> IF call[c] = "ready" THEN "go" ELSE call[c]]
WaitersDropped == [c \in Calls |-> IF call[c] = "ready" THEN "rejected" ELSE call[c]]

\* assertHex or assertProfile refuses the arguments.
Refused(c) ==
  /\ call[c] = "new"
  /\ call' = [call EXCEPT ![c] = "rejected"]
  /\ UNCHANGED <<result, pending, sequence, readiness, failed, inbox, outbox, init>>

\* guarded: the call joins the self-test, or starts it.
Called(c) ==
  /\ call[c] = "new"
  /\ \/ /\ readiness = "ok"
        /\ call' = [call EXCEPT ![c] = "go"]
        /\ UNCHANGED <<pending, sequence, readiness, inbox>>
     \/ /\ readiness = "pending"
        /\ call' = [call EXCEPT ![c] = "ready"]
        /\ UNCHANGED <<pending, sequence, readiness, inbox>>
     \/ /\ readiness = "none" /\ ~failed
        /\ call' = [call EXCEPT ![c] = "ready"]
        /\ readiness' = "pending"
        /\ Request(SelfTest)
     \/ /\ readiness = "none" /\ failed
        /\ call' = [call EXCEPT ![c] = "rejected"]
        /\ UNCHANGED <<pending, sequence, readiness, inbox>>
  /\ UNCHANGED <<result, failed, outbox, init>>

\* The continuation after the awaited readiness.
GoesOn(c) ==
  /\ call[c] = "go"
  /\ \/ /\ failed
        /\ call' = [call EXCEPT ![c] = "rejected"]
        /\ UNCHANGED <<pending, sequence, inbox>>
     \/ /\ ~failed
        /\ Request(c)
        /\ call' = [call EXCEPT ![c] = "sent"]
  /\ UNCHANGED <<result, readiness, failed, outbox, init>>

\* Deviant: the pending requests are forgotten and not rejected.
RejectAllForgets ==
  /\ failed' = TRUE
  /\ pending' = [i \in Ids |-> None]
  /\ inbox' = {}
  /\ UNCHANGED <<call, result, sequence, readiness, outbox, init>>

\* rejectAll: every pending request is rejected and the Worker is terminated.
RejectAll ==
  LET tests == \E i \in Ids : pending[i] = SelfTest IN
  /\ failed' = TRUE
  /\ call' = [c \in Calls |-> IF \/ \E i \in Ids : pending[i] = c
                                 \/ tests /\ call[c] = "ready"
                              THEN "rejected" ELSE call[c]]
  /\ readiness' = IF tests THEN "none" ELSE readiness
  /\ pending' = [i \in Ids |-> None]
  /\ inbox' = {}
  /\ UNCHANGED <<result, sequence, outbox, init>>

\* Continuations are microtasks: they run before the next event.
Idle == \A c \in Calls : call[c] # "go"

Timeout(i) == Idle /\ pending[i] # None /\ RejectAll

WorkerError == Idle /\ ~failed /\ RejectAll

\* An answer reaches the page: one without a pending request is ignored.
Arrives(m) ==
  LET owner == pending[m.id] IN
  /\ Idle /\ m \in outbox
  /\ outbox' = outbox \ {m}
  /\ pending' = [pending EXCEPT ![m.id] = None]
  /\ \/ /\ owner = None
        /\ UNCHANGED <<call, result, readiness>>
     \/ /\ owner = SelfTest /\ m.ok
        /\ readiness' = "ok" /\ call' = WaitersGoOn
        /\ UNCHANGED result
     \/ /\ owner = SelfTest /\ ~m.ok
        /\ readiness' = "none" /\ call' = WaitersDropped
        /\ UNCHANGED result
     \/ /\ owner \in Calls /\ m.ok
        /\ call' = [call EXCEPT ![owner] = "done"]
        /\ result' = [result EXCEPT ![owner] = m.for]
        /\ UNCHANGED readiness
     \/ /\ owner \in Calls   \* the operation failed, or its result is refused
        /\ call' = [call EXCEPT ![owner] = "rejected"]
        /\ UNCHANGED <<result, readiness>>
  /\ UNCHANGED <<sequence, failed, inbox, init>>

-----------------------------------------------------------------------------
(* The Worker: a request waits for the one initialization, which tests the *)
(* cascade and the key encapsulation, and a failed one is forgotten.       *)

Initialized ==
  /\ ~failed /\ ~init /\ inbox # {}
  /\ init' = TRUE
  /\ UNCHANGED <<call, result, pending, sequence, readiness, failed, inbox, outbox>>

InitializationFails ==
  /\ ~failed /\ ~init /\ inbox # {}
  /\ outbox' = outbox \cup {[id |-> m.id, for |-> m.for, ok |-> FALSE] : m \in inbox}
  /\ inbox' = {}
  /\ UNCHANGED <<call, result, pending, sequence, readiness, failed, init>>

\* Deviant: an operation does not wait for the initialization.
ExecutesUntested(m) ==
  /\ ~failed /\ m \in inbox
  /\ inbox' = inbox \ {m}
  /\ \E ok \in BOOLEAN :
       /\ m.for = SelfTest => ok
       /\ outbox' = outbox \cup {[id |-> m.id, for |-> m.for, ok |-> ok]}
  /\ UNCHANGED <<call, result, pending, sequence, readiness, failed, init>>

\* Only the self-test has nothing left that could fail.
Executes(m) ==
  /\ ~failed /\ init /\ m \in inbox
  /\ inbox' = inbox \ {m}
  /\ \E ok \in BOOLEAN :
       /\ m.for = SelfTest => ok
       /\ outbox' = outbox \cup {[id |-> m.id, for |-> m.for, ok |-> ok]}
  /\ UNCHANGED <<call, result, pending, sequence, readiness, failed, init>>

Next ==
  \/ \E c \in Calls : Refused(c) \/ Called(c) \/ GoesOn(c)
  \/ \E i \in Ids : Timeout(i)
  \/ WorkerError
  \/ \E m \in outbox : Arrives(m)
  \/ Initialized \/ InitializationFails
  \/ \E m \in inbox : Executes(m)

Spec == Init /\ [][Next]_vars

(* The browser's timers fire and its microtasks run; nothing is asked of   *)
(* the Worker.                                                             *)
FairSpec ==
  /\ Spec
  /\ \A i \in Ids : WF_vars(Timeout(i))
  /\ \A c \in Calls : WF_vars(GoesOn(c))

-----------------------------------------------------------------------------
(* What a caller sees of the phases of a call.                             *)
Seen == [c \in Calls |-> IF call[c] \in {"ready", "go", "sent"} THEN "waiting" ELSE call[c]]

Promise == INSTANCE CryptoCalls WITH call <- Seen, tested <- init, closed <- failed

(* The variables hold what the provider's closure and the Worker can hold. *)
TypeOK ==
  /\ call \in [Calls -> Phase]
  /\ result \in [Calls -> Calls \cup {SelfTest, None}]
  /\ pending \in [Ids -> Owners \cup {None}]
  /\ sequence \in 0..MaxId
  /\ readiness \in {"none", "pending", "ok"}
  /\ failed \in BOOLEAN /\ init \in BOOLEAN
  /\ inbox \subseteq [id : Ids, for : Owners]
  /\ outbox \subseteq [id : Ids, for : Owners, ok : BOOLEAN]

(* The provider keeps the promise of CryptoCalls: calls are settled once,  *)
(* only after the self-test, and none is resolved after a failure.         *)
KeepsPromise == Promise!Spec

(* A resolved call has the result of its own request, also when the        *)
(* numbers wrap around.                                                    *)
OwnResult == \A c \in Calls : call[c] = "done" => result[c] = c

(* Every call is settled, even if the Worker never answers.                *)
Settles == \A c \in Calls : call[c] # "new" ~> call[c] \in {"done", "rejected"}

(* "Provider readiness is fail-closed": a provider that has failed closed  *)
(* does not report that it is ready (the memoised promise of ready()).     *)
ReadyFailsClosed == failed => readiness # "ok"
=============================================================================
