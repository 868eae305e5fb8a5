----------------------------- MODULE ClientProofs -----------------------------
(***************************************************************************)
(* Proofs about components of the client, for every value of their         *)
(* constants: the browser's crypto provider, which this module extends,    *)
(* the desktop's, the setup wizard, and the tour with the settings.  All   *)
(* but the first are instantiated with variables of their own names; the   *)
(* components share no state, and every theorem is about one of them.      *)
(***************************************************************************)
EXTENDS WebProvider, FiniteSetTheorems, TLAPS

CONSTANTS
  Names, Fetches, Creates, MayFail,        \* the setup wizard
  Accounts, Loads, Saves                   \* the tour

VARIABLES
  step,                                    \* the desktop's self-test
  owner, known, wiz, identities, fetches, creates, agreed,
  node, who, locked, settings, form, loads, saves, doneHere, tour

-----------------------------------------------------------------------------
(* The browser provider implements CryptoCalls for every set of calls and  *)
(* every largest request number.  The numbers may wrap around: the         *)
(* argument needs only that a call owns at most one pending request, not   *)
(* that a number is never used twice.  That a call gets the result of its  *)
(* own operation does need more: a message on its way is no older than the *)
(* numbers given out since, which are counted against the calls made       *)
(* (Young, Matched), so that no number comes round while it travels.       *)

(* A pending request of a call is the one that call waits for.             *)
PendingSent ==
  \A i \in Ids : pending[i] \in Calls =>
    /\ call[pending[i]] = "sent"
    /\ \A j \in Ids : pending[j] = pending[i] => j = i

(* A provider that has failed closed has nothing pending.                  *)
ClosedEmpty == failed => \A i \in Ids : pending[i] = None

(* The Worker answers with a result only once its initialization passed.   *)
AnswersTested == \A m \in outbox : m.ok => init

IInv == TypeOK /\ PendingSent /\ ClosedEmpty /\ AnswersTested

(* Request numbers are numbers of the pending map, also after the last.    *)
LEMMA NextIdType == ASSUME sequence \in 0..MaxId PROVE NextId \in Ids
  BY WebAssumption DEF NextId, Ids

(* The provider starts with nothing pending and nothing answered.          *)
LEMMA InitInv == Init => IInv
<1> SUFFICES ASSUME Init PROVE IInv
  BY Zenon
<1>1. TypeOK
  BY WebAssumption, Zenon DEF Init, TypeOK, Phase, Owners, Ids
<1> QED
  BY <1>1, WebAssumption, Zenon DEF Init, IInv, PendingSent, ClosedEmpty, AnswersTested, Ids

(* Posting a request keeps the types of what it changes.                   *)
LEMMA RequestType ==
  ASSUME TypeOK, NEW o \in Owners, Request(o)
  PROVE  /\ sequence' \in 0..MaxId
         /\ pending' \in [Ids -> Owners \cup {None}]
         /\ inbox' \subseteq [id : Ids, for : Owners]
<1>1. NextId \in Ids
  BY NextIdType, Zenon DEF TypeOK
<1>2. sequence' \in 0..MaxId
  BY <1>1, WebAssumption DEF Request, Ids
<1>3. pending' \in [Ids -> Owners \cup {None}]
  BY <1>1, Zenon DEF Request, TypeOK
<1>4. [id |-> NextId, for |-> o] \in [id : Ids, for : Owners]
  BY <1>1, Zenon
<1> QED
  BY <1>2, <1>3, <1>4, Zenon DEF Request, TypeOK

(* A call that joins the self-test, or starts it, keeps the invariant.     *)
LEMMA CalledInv == ASSUME IInv, NEW c \in Calls, Called(c) PROVE IInv'
<1> USE DEF IInv
<1>1. call' \in [Calls -> Phase] /\ call'[c] \in {"go", "ready", "rejected"}
        /\ \A d \in Calls : d # c => call'[d] = call[d]
  BY Zenon DEF Called, TypeOK, Phase
<1>2. /\ sequence' \in 0..MaxId
      /\ pending' \in [Ids -> Owners \cup {None}]
      /\ inbox' \subseteq [id : Ids, for : Owners]
  <2>1. CASE readiness = "none" /\ ~failed
    <3>1. Request(SelfTest)
      BY <2>1, Zenon DEF Called
    <3> QED
      BY <3>1, RequestType, Zenon DEF Owners
  <2>2. CASE ~(readiness = "none" /\ ~failed)
    BY <2>2, Zenon DEF Called, TypeOK
  <2> QED
    BY <2>1, <2>2, Zenon
<1>3. TypeOK'
  BY <1>1, <1>2, Zenon DEF Called, TypeOK
<1>4. \A i \in Ids : pending'[i] = pending[i] \/ (pending'[i] = SelfTest /\ ~failed)
  BY Zenon DEF Called, Request, TypeOK
<1>5. PendingSent'
  BY <1>1, <1>4, WebAssumption DEF PendingSent, Called
<1>6. ClosedEmpty' /\ AnswersTested'
  BY <1>4, Zenon DEF ClosedEmpty, AnswersTested, Called
<1> QED
  BY <1>3, <1>5, <1>6, Zenon

(* The continuation of a call keeps the invariant: the call owned no       *)
(* pending request before, so it owns one at most.                         *)
LEMMA GoesOnInv == ASSUME IInv, NEW c \in Calls, GoesOn(c) PROVE IInv'
<1> USE DEF IInv
<1>0. \A i \in Ids : pending[i] # c
  BY Zenon DEF PendingSent, GoesOn
<1>1. CASE failed
  <2>1. TypeOK'
    BY <1>1, Zenon DEF GoesOn, TypeOK, Phase
  <2>2. PendingSent'
    BY <1>0, <1>1 DEF GoesOn, PendingSent, TypeOK
  <2> QED
    BY <1>1, <2>1, <2>2, Zenon DEF GoesOn, ClosedEmpty, AnswersTested
<1>2. CASE ~failed
  <2>1. Request(c) /\ call' = [call EXCEPT ![c] = "sent"]
    BY <1>2, Zenon DEF GoesOn
  <2>2. NextId \in Ids
    BY NextIdType, Zenon DEF TypeOK
  <2>3. TypeOK'
    BY <2>1, RequestType, Zenon DEF GoesOn, TypeOK, Phase, Owners
  <2>4. pending'[NextId] = c /\ \A i \in Ids : i # NextId => pending'[i] = pending[i]
    BY <2>1, <2>2, Zenon DEF Request, TypeOK
  <2>5. PendingSent'
    BY <1>0, <2>1, <2>4 DEF PendingSent, TypeOK
  <2> QED
    BY <1>2, <2>3, <2>5, Zenon DEF GoesOn, ClosedEmpty, AnswersTested
<1> QED
  BY <1>1, <1>2, Zenon

(* Failing closed empties the pending requests.                            *)
LEMMA RejectAllInv == ASSUME IInv, RejectAll PROVE IInv'
<1>1. TypeOK'
  BY Zenon DEF RejectAll, IInv, TypeOK, Phase
<1>2. \A i \in Ids : pending'[i] = None
  BY Zenon DEF RejectAll
<1> QED
  BY <1>1, <1>2, WebAssumption, Zenon DEF RejectAll, IInv, PendingSent, ClosedEmpty, AnswersTested

(* An answer settles the one owner of the request it is matched with.      *)
LEMMA ArrivesInv == ASSUME IInv, NEW m \in outbox, Arrives(m) PROVE IInv'
<1> USE DEF IInv
<1>1. m.id \in Ids /\ pending[m.id] \in Calls \cup {SelfTest, None} /\ m.for \in Owners
  BY Zenon DEF TypeOK, Owners
<1>2. pending'[m.id] = None /\ \A i \in Ids : i # m.id => pending'[i] = pending[i]
  BY <1>1, Zenon DEF Arrives, TypeOK
<1>3. \A c \in Calls : call'[c] # call[c] => call[c] = "ready" \/ c = pending[m.id]
  BY <1>1, Zenon DEF Arrives, TypeOK, WaitersGoOn, WaitersDropped
<1>4. call' \in [Calls -> Phase] /\ result' \in [Calls -> Calls \cup {SelfTest, None}]
        /\ readiness' \in {"none", "pending", "ok"}
  BY <1>1, Zenon DEF Arrives, TypeOK, WaitersGoOn, WaitersDropped, Phase, Owners
<1>5. TypeOK'
  <2>1. pending' \in [Ids -> Owners \cup {None}]
    BY <1>1, Zenon DEF Arrives, TypeOK
  <2> QED
    BY <1>4, <2>1, Zenon DEF Arrives, TypeOK
<1>6. PendingSent'
  BY <1>1, <1>2, <1>3, WebAssumption DEF PendingSent, TypeOK
<1>7. ClosedEmpty' /\ AnswersTested'
  BY <1>2, Zenon DEF Arrives, ClosedEmpty, AnswersTested
<1> QED
  BY <1>5, <1>6, <1>7, Zenon
(* The steps of the Worker change no call and answer with a result only    *)
(* after the initialization.                                               *)
LEMMA WorkerInv ==
  ASSUME IInv, Initialized \/ InitializationFails \/ \E m \in inbox : Executes(m)
  PROVE  IInv'
<1> USE DEF IInv
<1>1. CASE Initialized
  BY <1>1, Zenon DEF Initialized, TypeOK, PendingSent, ClosedEmpty, AnswersTested
<1>2. CASE InitializationFails
  <2>0. ASSUME NEW m \in inbox
        PROVE  [id |-> m.id, for |-> m.for, ok |-> FALSE] \in [id : Ids, for : Owners, ok : BOOLEAN]
    BY Zenon DEF TypeOK
  <2>1. outbox' \subseteq [id : Ids, for : Owners, ok : BOOLEAN]
    BY <1>2, <2>0, Zenon DEF InitializationFails, TypeOK
  <2>2. TypeOK'
    BY <1>2, <2>1, Zenon DEF InitializationFails, TypeOK
  <2>3. AnswersTested'
    BY <1>2 DEF InitializationFails, AnswersTested
  <2> QED
    BY <1>2, <2>2, <2>3, Zenon DEF InitializationFails, PendingSent, ClosedEmpty
<1>3. ASSUME NEW m \in inbox, Executes(m) PROVE IInv'
  <2>1. PICK ok \in BOOLEAN : outbox' = outbox \cup {[id |-> m.id, for |-> m.for, ok |-> ok]}
    BY <1>3, Zenon DEF Executes
  <2>2. [id |-> m.id, for |-> m.for, ok |-> ok] \in [id : Ids, for : Owners, ok : BOOLEAN]
    BY Zenon DEF TypeOK
  <2>3. TypeOK'
    BY <1>3, <2>1, <2>2, Zenon DEF Executes, TypeOK
  <2>4. AnswersTested'
    BY <1>3, <2>1, Zenon DEF Executes, AnswersTested
  <2> QED
    BY <1>3, <2>3, <2>4, Zenon DEF Executes, PendingSent, ClosedEmpty
<1> QED
  BY <1>1, <1>2, <1>3, Zenon

(* Every step keeps the invariant.                                         *)
LEMMA NextInv == IInv /\ [Next]_vars => IInv'
<1> SUFFICES ASSUME IInv, [Next]_vars PROVE IInv'
  BY Zenon
<1>1. ASSUME NEW c \in Calls, Refused(c) PROVE IInv'
  <2>1. \A i \in Ids : pending[i] # c
    BY <1>1, Zenon DEF Refused, IInv, PendingSent
  <2> QED
    BY <1>1, <2>1, Zenon DEF Refused, IInv, TypeOK, PendingSent, ClosedEmpty, AnswersTested, Phase
<1>2. ASSUME NEW i \in Ids, Timeout(i) PROVE IInv'
  BY <1>2, RejectAllInv, Zenon DEF Timeout
<1>3. CASE WorkerError
  BY <1>3, RejectAllInv, Zenon DEF WorkerError
<1>4. CASE UNCHANGED vars
  BY <1>4, Zenon DEF vars, IInv, TypeOK, PendingSent, ClosedEmpty, AnswersTested
<1> QED
  BY <1>1, <1>2, <1>3, <1>4, CalledInv, GoesOnInv, ArrivesInv, WorkerInv, Zenon DEF Next

-----------------------------------------------------------------------------
(* The refinement.                                                         *)

(* Initial states map to initial states of CryptoCalls.                    *)
LEMMA InitPromise == Init => Promise!Init
  BY Zenon DEF Init, Promise!Init, Seen

(* Rejecting a set of waiting calls, with or without failing closed, is a  *)
(* step of CryptoCalls.                                                    *)
LEMMA RejectPromise ==
  ASSUME NEW R \in SUBSET {c \in Calls : Seen[c] = "waiting"},
         Seen' = [c \in Calls |-> IF c \in R THEN "rejected" ELSE Seen[c]],
         init' = init, failed => failed'
  PROVE  Promise!Next
<1>1. Promise!Reject
  BY Zenon DEF Promise!Reject
<1> QED
  BY <1>1, Zenon DEF Promise!Next

(* Failing closed rejects calls that were waiting.                         *)
LEMMA RejectAllPromise == ASSUME IInv, RejectAll PROVE Promise!Next
<1> DEFINE tests == \E i \in Ids : pending[i] = SelfTest
           R == {c \in Calls : (\E i \in Ids : pending[i] = c) \/ (tests /\ call[c] = "ready")}
<1>1. R \in SUBSET {c \in Calls : Seen[c] = "waiting"}
  BY Zenon DEF IInv, PendingSent, Seen
<1>2. Seen' = [c \in Calls |-> IF c \in R THEN "rejected" ELSE Seen[c]]
  BY Zenon DEF RejectAll, Seen
<1>3. init' = init /\ failed'
  BY Zenon DEF RejectAll
<1> QED
  BY <1>1, <1>2, <1>3, RejectPromise, Zenon

(* An answer resolves or rejects a waiting call, rejects those that waited *)
(* for a failed self-test, or is seen by no caller.                        *)
LEMMA ArrivesPromise ==
  ASSUME IInv, NEW m \in outbox, Arrives(m)
  PROVE  [Promise!Next]_(Promise!vars)
<1> DEFINE asker == pending[m.id]
<1>0. m.id \in Ids /\ asker \in Calls \cup {SelfTest, None} /\ call \in [Calls -> Phase]
  BY Zenon DEF IInv, TypeOK, Owners
<1>u. init' = init /\ failed' = failed
  BY Zenon DEF Arrives
<1>1. CASE call' = call
  BY <1>1, <1>u, Zenon DEF Promise!vars, Seen
<1>2. CASE call' = WaitersGoOn
  <2>1. Seen' = Seen
    BY <1>2, <1>0, Zenon DEF WaitersGoOn, Seen
  <2> QED
    BY <2>1, <1>u, Zenon DEF Promise!vars
<1>3. CASE call' = WaitersDropped
  <2> DEFINE R == {c \in Calls : call[c] = "ready"}
  <2>1. R \in SUBSET {c \in Calls : Seen[c] = "waiting"}
    BY Zenon DEF Seen
  <2>2. Seen' = [c \in Calls |-> IF c \in R THEN "rejected" ELSE Seen[c]]
    BY <1>3, <1>0, Zenon DEF WaitersDropped, Seen
  <2> QED
    BY <2>1, <2>2, <1>u, RejectPromise, Zenon
<1>4. CASE asker \in Calls /\ m.ok /\ call' = [call EXCEPT ![asker] = "done"]
  <2>1. call[asker] = "sent" /\ ~failed
    BY <1>0, <1>4, WebAssumption, Zenon DEF IInv, PendingSent, ClosedEmpty
  <2>2. init
    BY <1>4, Zenon DEF IInv, AnswersTested
  <2>3. Seen' = [Seen EXCEPT ![asker] = "done"]
    BY <1>0, <1>4, Zenon DEF Seen
  <2>4. Promise!Resolve(asker)
    BY <1>4, <1>u, <2>1, <2>2, <2>3, Zenon DEF Promise!Resolve, Seen
  <2> QED
    BY <1>4, <2>4, Zenon DEF Promise!Next
<1>5. CASE asker \in Calls /\ call' = [call EXCEPT ![asker] = "rejected"]
  <2> DEFINE R == {asker}
  <2>1. call[asker] = "sent"
    BY <1>0, <1>5, Zenon DEF IInv, PendingSent
  <2>2. R \in SUBSET {c \in Calls : Seen[c] = "waiting"}
    BY <1>5, <2>1, Zenon DEF Seen
  <2>3. Seen' = [c \in Calls |-> IF c \in R THEN "rejected" ELSE Seen[c]]
    BY <1>0, <1>5, Zenon DEF Seen
  <2> QED
    BY <2>2, <2>3, <1>u, RejectPromise, Zenon
<1> QED
  BY <1>0, <1>1, <1>2, <1>3, <1>4, <1>5, Zenon DEF Arrives

(* Every step is a step of CryptoCalls, or one no caller sees.             *)
LEMMA StepPromise == IInv /\ [Next]_vars => [Promise!Next]_(Promise!vars)
<1> SUFFICES ASSUME IInv, [Next]_vars PROVE [Promise!Next]_(Promise!vars)
  BY Zenon
<1>0. call \in [Calls -> Phase]
  BY Zenon DEF IInv, TypeOK
<1>1. ASSUME NEW c \in Calls, Refused(c) PROVE Promise!Refuse(c)
  BY <1>0, <1>1, Zenon DEF Refused, Promise!Refuse, Seen
<1>2. ASSUME NEW c \in Calls, Called(c) PROVE Promise!Begin(c) \/ Promise!Refuse(c)
  <2>1. init' = init /\ failed' = failed /\ Seen[c] = "new"
    BY <1>2, Zenon DEF Called, Seen
  <2>2. CASE call'[c] = "rejected"
    BY <1>0, <1>2, <2>1, <2>2, Zenon DEF Called, Promise!Refuse, Seen
  <2>3. CASE call'[c] # "rejected"
    BY <1>0, <1>2, <2>1, <2>3, Zenon DEF Called, Promise!Begin, Seen
  <2> QED
    BY <2>2, <2>3, Zenon
<1>3. ASSUME NEW c \in Calls, GoesOn(c) PROVE [Promise!Next]_(Promise!vars)
  <2> DEFINE R == {c}
  <2>1. CASE failed
    <3>1. R \in SUBSET {d \in Calls : Seen[d] = "waiting"}
      BY <1>3, Zenon DEF GoesOn, Seen
    <3>2. Seen' = [d \in Calls |-> IF d \in R THEN "rejected" ELSE Seen[d]]
      BY <1>0, <1>3, <2>1, Zenon DEF GoesOn, Seen
    <3>3. init' = init /\ failed' = failed
      BY <1>3, Zenon DEF GoesOn
    <3> QED
      BY <3>1, <3>2, <3>3, RejectPromise, Zenon
  <2>2. CASE ~failed
    <3>1. Seen' = Seen
      BY <1>0, <1>3, <2>2, Zenon DEF GoesOn, Seen
    <3> QED
      BY <1>3, <3>1, Zenon DEF GoesOn, Promise!vars
  <2> QED
    BY <2>1, <2>2, Zenon
<1>4. ASSUME NEW i \in Ids, Timeout(i) PROVE Promise!Next
  BY <1>4, RejectAllPromise, Zenon DEF Timeout
<1>5. CASE WorkerError
  BY <1>5, RejectAllPromise, Zenon DEF WorkerError
<1>6. CASE Initialized
  <2>1. Promise!Test
    BY <1>6, Zenon DEF Initialized, Promise!Test, Seen
  <2> QED
    BY <2>1, Zenon DEF Promise!Next
<1>7. CASE InitializationFails
  BY <1>7, Zenon DEF InitializationFails, Promise!vars, Seen
<1>8. ASSUME NEW m \in inbox, Executes(m) PROVE [Promise!Next]_(Promise!vars)
  BY <1>8, Zenon DEF Executes, Promise!vars, Seen
<1>9. CASE UNCHANGED vars
  BY <1>9, Zenon DEF vars, Promise!vars, Seen
<1> QED
  BY <1>1, <1>2, <1>3, <1>4, <1>5, <1>6, <1>7, <1>8, <1>9, ArrivesPromise, Zenon
     DEF Next, Promise!Next

-----------------------------------------------------------------------------
(* Whose result a call is given.  Request numbers start again after the    *)
(* last one, so the argument counts: a call starts at most one self-test   *)
(* and posts at most one operation, and a number comes back only after all *)
(* the others.                                                             *)

(* How many numbers were taken since a number was.                         *)
Age(i) == IF i <= sequence THEN sequence - i ELSE sequence - i + MaxId

(* The requests that the calls made so far can have caused.                *)
Made    == {c \in Calls : call[c] # "new"}
Posted  == {c \in Calls : call[c] \notin {"new", "ready", "go"}}
Spent   == Cardinality(Made) + Cardinality(Posted)

(* No number of a request or an answer under way is older than that, and   *)
(* the request that waits for the number is the one that was posted.       *)
Young   == \A m \in inbox \cup outbox : Age(m.id) < Spent
Matched == \A m \in inbox \cup outbox : pending[m.id] \in {m.for, None}

OwnInv == IInv /\ Young /\ Matched /\ OwnResult

(* There are numbers for two requests of every call; the page would need   *)
(* millions of years to run out of MAX_SAFE_INTEGER numbers.               *)
Enough == IsFiniteSet(Calls) /\ 2 * Cardinality(Calls) <= MaxId

(* Calls never come back to an earlier phase, so what they can have caused *)
(* only grows.                                                             *)
LEMMA SpentGrows ==
  ASSUME IsFiniteSet(Calls), Made \subseteq Made', Posted \subseteq Posted'
  PROVE  /\ Spent \in Nat /\ Spent' \in Nat /\ Spent <= Spent'
         /\ Cardinality(Made) \in Nat /\ Cardinality(Posted) \in Nat
         /\ Cardinality(Made) <= Cardinality(Calls)
         /\ Cardinality(Posted) <= Cardinality(Calls)
<1>1. Made \subseteq Calls /\ Posted \subseteq Calls /\ Made' \subseteq Calls /\ Posted' \subseteq Calls
  BY Zenon DEF Made, Posted
<1>2. IsFiniteSet(Made) /\ IsFiniteSet(Posted) /\ IsFiniteSet(Made') /\ IsFiniteSet(Posted')
  BY <1>1, FS_Subset, Zenon
<1>3. /\ Cardinality(Made) \in Nat /\ Cardinality(Posted) \in Nat
      /\ Cardinality(Made') \in Nat /\ Cardinality(Posted') \in Nat
  BY <1>2, FS_CardinalityType, Zenon
<1>4. Cardinality(Made) <= Cardinality(Made') /\ Cardinality(Posted) <= Cardinality(Posted')
  BY <1>2, FS_Subset, Zenon
<1>5. Cardinality(Made) <= Cardinality(Calls) /\ Cardinality(Posted) <= Cardinality(Calls)
  BY <1>1, FS_Subset, Zenon
<1> QED
  BY <1>3, <1>4, <1>5 DEF Spent

(* A call that posts for the first time of its two leaves a number free:   *)
(* what was caused before it is less than the numbers there are.           *)
LEMMA SpentLeaves ==
  ASSUME Enough, NEW c \in Calls, c \notin Made \/ c \notin Posted
  PROVE  Spent \in Nat /\ Spent < MaxId
<1>1. Made \subseteq Calls /\ Posted \subseteq Calls
  BY Zenon DEF Made, Posted
<1>2. Cardinality(Made) \in Nat /\ Cardinality(Posted) \in Nat /\ Cardinality(Calls) \in Nat
  BY <1>1, FS_Subset, FS_CardinalityType, Zenon DEF Enough
<1>3. ASSUME NEW S \in SUBSET Calls, c \notin S PROVE Cardinality(S) < Cardinality(Calls)
  <2>1. Cardinality(S) <= Cardinality(Calls) /\ (Cardinality(Calls) = Cardinality(S) => Calls = S)
    BY FS_Subset, Zenon DEF Enough
  <2>2. Cardinality(S) \in Nat
    BY FS_Subset, FS_CardinalityType, Zenon DEF Enough
  <2> QED
    BY <1>2, <1>3, <2>1, <2>2
<1>4. Cardinality(Made) <= Cardinality(Calls) /\ Cardinality(Posted) <= Cardinality(Calls)
  BY <1>1, FS_Subset, Zenon DEF Enough
<1>5. Cardinality(Made) < Cardinality(Calls) \/ Cardinality(Posted) < Cardinality(Calls)
  BY <1>1, <1>3, Zenon
<1> QED
  BY <1>2, <1>4, <1>5, WebAssumption DEF Spent, Enough

(* Adding a call to one of the two sets counts one more request.           *)
LEMMA SpentOneMore ==
  ASSUME IsFiniteSet(Calls), NEW c \in Calls,
         \/ c \notin Made /\ Made' = Made \cup {c} /\ Posted \subseteq Posted'
         \/ c \notin Posted /\ Posted' = Posted \cup {c} /\ Made \subseteq Made'
  PROVE  Spent \in Nat /\ Spent' \in Nat /\ Spent + 1 <= Spent'
<1>1. Made \subseteq Calls /\ Posted \subseteq Calls /\ Made' \subseteq Calls /\ Posted' \subseteq Calls
  BY Zenon DEF Made, Posted
<1>2. IsFiniteSet(Made) /\ IsFiniteSet(Posted) /\ IsFiniteSet(Made') /\ IsFiniteSet(Posted')
  BY <1>1, FS_Subset, Zenon
<1>3. /\ Cardinality(Made) \in Nat /\ Cardinality(Posted) \in Nat
      /\ Cardinality(Made') \in Nat /\ Cardinality(Posted') \in Nat
  BY <1>2, FS_CardinalityType, Zenon
<1>4. CASE c \notin Made /\ Made' = Made \cup {c} /\ Posted \subseteq Posted'
  <2>1. Cardinality(Made') = Cardinality(Made) + 1
    BY <1>2, <1>4, FS_AddElement, Zenon
  <2>2. Cardinality(Posted) <= Cardinality(Posted')
    BY <1>2, <1>4, FS_Subset, Zenon
  <2> QED
    BY <1>3, <2>1, <2>2 DEF Spent
<1>5. CASE c \notin Posted /\ Posted' = Posted \cup {c} /\ Made \subseteq Made'
  <2>1. Cardinality(Posted') = Cardinality(Posted) + 1
    BY <1>2, <1>5, FS_AddElement, Zenon
  <2>2. Cardinality(Made) <= Cardinality(Made')
    BY <1>2, <1>5, FS_Subset, Zenon
  <2> QED
    BY <1>3, <2>1, <2>2 DEF Spent
<1> QED
  BY <1>4, <1>5, Zenon

(* The next number is the oldest; all others get one older.                *)
LEMMA AgeSteps ==
  ASSUME sequence \in 0..MaxId, sequence' = NextId, NEW i \in Ids
  PROVE  /\ Age(i) \in Nat /\ Age(i)' \in Nat
         /\ i = NextId => Age(i) = MaxId - 1 /\ Age(i)' = 0
         /\ i # NextId => Age(i)' = Age(i) + 1
  BY WebAssumption DEF Age, NextId, Ids

(* A posted request takes a number no request or answer under way has.     *)
LEMMA RequestOwn ==
  ASSUME OwnInv, Enough, NEW o \in Owners, Request(o), outbox' = outbox,
         NEW c \in Calls, c \notin Made \/ c \notin Posted, Spent + 1 <= Spent', Spent' \in Nat
  PROVE  Young' /\ Matched'
<1> USE DEF OwnInv, IInv
<1>0. sequence \in 0..MaxId /\ NextId \in Ids /\ sequence' = NextId
  BY NextIdType, Zenon DEF TypeOK, Request
<1>1. Spent \in Nat /\ Spent < MaxId
  BY SpentLeaves, Zenon
<1>2. \A m \in inbox \cup outbox : m.id \in Ids
  BY Zenon DEF TypeOK
<1>3. \A m \in inbox \cup outbox : Age(m.id)' < Spent' /\ m.id # NextId
  <2> SUFFICES ASSUME NEW m \in inbox \cup outbox PROVE Age(m.id)' < Spent' /\ m.id # NextId
    BY Zenon
  <2>1. Age(m.id) < Spent /\ m.id \in Ids
    BY <1>2, Zenon DEF Young
  <2>2. /\ Age(m.id) \in Nat
        /\ m.id = NextId => Age(m.id) = MaxId - 1
        /\ m.id # NextId => Age(m.id)' = Age(m.id) + 1
    BY <1>0, <2>1, AgeSteps, Zenon
  <2> QED
    BY <1>1, <2>1, <2>2, WebAssumption
<1>4. PICK n \in Ids : n = NextId
  BY <1>0, Zenon
<1>5. /\ inbox' \cup outbox' = (inbox \cup outbox) \cup {[id |-> n, for |-> o]}
      /\ pending'[n] = o /\ \A i \in Ids : i # n => pending'[i] = pending[i]
  BY <1>4, Zenon DEF Request, TypeOK
<1>6. Age(n)' = 0
  BY <1>0, <1>4, AgeSteps, Zenon
<1>7. Young'
  <2> SUFFICES ASSUME NEW m \in inbox' \cup outbox' PROVE Age(m.id)' < Spent'
    BY Zenon DEF Young
  <2>1. CASE m \in inbox \cup outbox
    BY <1>3, <2>1, Zenon
  <2>2. CASE m = [id |-> n, for |-> o]
    BY <1>1, <1>6, <2>2
  <2> QED
    BY <1>5, <2>1, <2>2, Zenon
<1>8. Matched'
  <2> SUFFICES ASSUME NEW m \in inbox' \cup outbox' PROVE pending'[m.id] \in {m.for, None}
    BY Zenon DEF Matched
  <2>1. CASE m \in inbox \cup outbox
    BY <1>2, <1>3, <1>4, <1>5, <2>1, Zenon DEF Matched
  <2>2. CASE m = [id |-> n, for |-> o]
    BY <1>5, <2>2, Zenon
  <2> QED
    BY <1>5, <2>1, <2>2, Zenon
<1> QED
  BY <1>7, <1>8, Zenon

(* A step that posts nothing: what is under way was so before, and pending *)
(* requests only go away.                                                  *)
LEMMA QuietOwn ==
  ASSUME OwnInv, Enough, Made \subseteq Made', Posted \subseteq Posted', sequence' = sequence,
         \A i \in Ids : pending'[i] \in {pending[i], None},
         \A m \in inbox' \cup outbox' : \E k \in inbox \cup outbox : k.id = m.id /\ k.for = m.for
  PROVE  Young' /\ Matched'
<1> USE DEF OwnInv, IInv
<1>1. Spent \in Nat /\ Spent' \in Nat /\ Spent <= Spent'
  BY SpentGrows, Zenon DEF Enough
<1> SUFFICES ASSUME NEW m \in inbox' \cup outbox'
             PROVE  Age(m.id)' < Spent' /\ pending'[m.id] \in {m.for, None}
  BY Zenon DEF Young, Matched
<1>2. PICK k \in inbox \cup outbox : k.id = m.id /\ k.for = m.for
  BY Zenon
<1>3. m.id \in Ids
  BY <1>2, Zenon DEF TypeOK
<1>4. Age(m.id)' = Age(m.id) /\ Age(m.id) < Spent /\ Age(m.id) \in Nat
  <2>1. sequence \in 0..MaxId
    BY Zenon DEF TypeOK
  <2>2. Age(m.id) \in Nat
    BY <1>3, <2>1, WebAssumption DEF Age, Ids
  <2> QED
    BY <1>2, <2>2, Zenon DEF Young, Age
<1>5. pending[m.id] \in {m.for, None}
  BY <1>2, Zenon DEF Matched
<1> QED
  BY <1>1, <1>3, <1>4, <1>5

(* A call that joins the self-test, or starts it.                          *)
LEMMA CalledOwn == ASSUME OwnInv, Enough, NEW c \in Calls, Called(c) PROVE Young' /\ Matched' /\ OwnResult'
<1> USE DEF OwnInv, IInv
<1>1. c \notin Made /\ Made' = Made \cup {c} /\ Posted \subseteq Posted'
  BY Zenon DEF Called, Made, Posted, TypeOK
<1>2. OwnResult'
  BY Zenon DEF Called, OwnResult, TypeOK
<1>3. CASE readiness = "none" /\ ~failed
  <2>1. Request(SelfTest) /\ SelfTest \in Owners /\ outbox' = outbox
    BY <1>3, Zenon DEF Called, Owners
  <2>2. Spent' \in Nat /\ Spent + 1 <= Spent'
    BY <1>1, SpentOneMore, Zenon DEF Enough
  <2> QED
    BY <1>1, <1>2, <2>1, <2>2, RequestOwn, Zenon
<1>4. CASE ~(readiness = "none" /\ ~failed)
  <2>1. UNCHANGED <<pending, sequence, inbox, outbox>>
    BY <1>4, Zenon DEF Called
  <2> QED
    BY <1>1, <1>2, <2>1, QuietOwn, Zenon
<1> QED
  BY <1>3, <1>4, Zenon

(* A call that goes on after the self-test posts its one operation.        *)
LEMMA GoesOnOwn == ASSUME OwnInv, Enough, NEW c \in Calls, GoesOn(c) PROVE Young' /\ Matched' /\ OwnResult'
<1> USE DEF OwnInv, IInv
<1>1. c \notin Posted /\ Posted' = Posted \cup {c} /\ Made \subseteq Made'
  BY Zenon DEF GoesOn, Made, Posted, TypeOK
<1>2. OwnResult'
  BY Zenon DEF GoesOn, OwnResult, TypeOK
<1>3. CASE ~failed
  <2>1. Request(c) /\ c \in Owners /\ outbox' = outbox
    BY <1>3, Zenon DEF GoesOn, Owners
  <2>2. Spent' \in Nat /\ Spent + 1 <= Spent'
    BY <1>1, SpentOneMore, Zenon DEF Enough
  <2> QED
    BY <1>1, <1>2, <2>1, <2>2, RequestOwn, Zenon
<1>4. CASE failed
  <2>1. UNCHANGED <<pending, sequence, inbox, outbox>>
    BY <1>4, Zenon DEF GoesOn
  <2> QED
    BY <1>1, <1>2, <2>1, QuietOwn, Zenon
<1> QED
  BY <1>3, <1>4, Zenon

(* Failing closed, and an answer: only the owner of the number is given    *)
(* the result, and the number was its own.                                 *)
LEMMA RejectAllOwn == ASSUME OwnInv, Enough, RejectAll PROVE Young' /\ Matched' /\ OwnResult'
<1> USE DEF OwnInv, IInv
<1>1. Made \subseteq Made' /\ Posted \subseteq Posted'
  <2>1. \A c \in Calls : call'[c] \in {call[c], "rejected"}
    BY Zenon DEF RejectAll
  <2>2. \A c \in Calls : (c \in Made <=> call[c] # "new") /\ (c \in Made' <=> call'[c] # "new")
    BY Zenon DEF Made
  <2>3. \A c \in Calls : call[c] \notin {"new", "ready", "go"} => call'[c] \notin {"new", "ready", "go"}
    BY <2>1, Zenon
  <2> QED
    BY <2>1, <2>2, <2>3, Zenon DEF Made, Posted
<1>2. OwnResult'
  BY Zenon DEF RejectAll, OwnResult, TypeOK
<1>3. /\ sequence' = sequence /\ outbox' = outbox /\ inbox' = {}
      /\ \A i \in Ids : pending'[i] = None
  BY Zenon DEF RejectAll
<1> QED
  BY <1>1, <1>2, <1>3, QuietOwn, Zenon

(* An answer settles the call its number waits for with that call's own    *)
(* result.                                                                 *)
LEMMA ArrivesOwn == ASSUME OwnInv, Enough, NEW m \in outbox, Arrives(m) PROVE Young' /\ Matched' /\ OwnResult'
<1> USE DEF OwnInv, IInv
<1>1. m.id \in Ids /\ pending[m.id] \in Calls \cup {SelfTest, None} /\ pending[m.id] \in {m.for, None}
  BY Zenon DEF TypeOK, Owners, Matched
<1>2. \A c \in Calls : /\ call[c] # "new" => call'[c] # "new"
                       /\ call[c] \notin {"new", "ready", "go"} => call'[c] \notin {"new", "ready", "go"}
  BY <1>1, Zenon DEF Arrives, TypeOK, WaitersGoOn, WaitersDropped
<1>3. Made \subseteq Made' /\ Posted \subseteq Posted'
  BY <1>2, Zenon DEF Made, Posted
<1>4. \A c \in Calls : call'[c] = "done" =>
        \/ call[c] = "done" /\ result'[c] = result[c]
        \/ c = pending[m.id] /\ result'[c] = m.for
  BY <1>1, WebAssumption, Zenon DEF Arrives, TypeOK, WaitersGoOn, WaitersDropped
<1>5. OwnResult'
  BY <1>1, <1>4, WebAssumption, Zenon DEF OwnResult
<1>6. /\ sequence' = sequence /\ inbox' = inbox /\ outbox' \subseteq outbox
      /\ \A i \in Ids : pending'[i] \in {pending[i], None}
  BY <1>1, Zenon DEF Arrives, TypeOK
<1> QED
  BY <1>3, <1>5, <1>6, QuietOwn, Zenon

(* The Worker hands on number and owner of a request as it got them.       *)
LEMMA WorkerOwn ==
  ASSUME OwnInv, Enough, Initialized \/ InitializationFails \/ \E m \in inbox : Executes(m)
  PROVE  Young' /\ Matched' /\ OwnResult'
<1> USE DEF OwnInv, IInv
<1>1. UNCHANGED <<call, result, pending, sequence>>
  BY Zenon DEF Initialized, InitializationFails, Executes
<1>2. \A m \in inbox' \cup outbox' : \E k \in inbox \cup outbox : k.id = m.id /\ k.for = m.for
  <2>1. CASE Initialized
    BY <2>1, Zenon DEF Initialized
  <2>2. CASE InitializationFails
    BY <2>2 DEF InitializationFails
  <2>3. ASSUME NEW n \in inbox, Executes(n)
        PROVE  \A m \in inbox' \cup outbox' : \E k \in inbox \cup outbox : k.id = m.id /\ k.for = m.for
    BY <2>3 DEF Executes
  <2> QED
    BY <2>1, <2>2, <2>3, Zenon
<1>3. Made' = Made /\ Posted' = Posted
  BY <1>1, Zenon DEF Made, Posted
<1>4. OwnResult'
  BY <1>1, Zenon DEF OwnResult
<1> QED
  BY <1>1, <1>2, <1>3, <1>4, QuietOwn, Zenon

(* Every step keeps numbers apart.                                         *)
LEMMA NextOwn == Enough /\ OwnInv /\ [Next]_vars => OwnInv'
<1> SUFFICES ASSUME Enough, OwnInv, [Next]_vars PROVE OwnInv'
  BY Zenon
<1>0. IInv'
  BY NextInv, Zenon DEF OwnInv
<1>1. ASSUME NEW c \in Calls, Refused(c) PROVE Young' /\ Matched' /\ OwnResult'
  <2>1. Made \subseteq Made' /\ Posted \subseteq Posted' /\ OwnResult'
    BY <1>1, Zenon DEF Refused, Made, Posted, OwnResult, OwnInv, IInv, TypeOK
  <2> QED
    BY <1>1, <2>1, QuietOwn, Zenon DEF Refused
<1>2. ASSUME NEW i \in Ids, Timeout(i) PROVE Young' /\ Matched' /\ OwnResult'
  BY <1>2, RejectAllOwn, Zenon DEF Timeout
<1>3. CASE WorkerError
  BY <1>0, <1>3, RejectAllOwn, Zenon DEF WorkerError, OwnInv
<1>4. CASE UNCHANGED vars
  <2>1. Made' = Made /\ Posted' = Posted
    BY <1>4, Zenon DEF vars, Made, Posted
  <2>2. Young' /\ Matched' /\ OwnResult'
    BY <1>4, <2>1, QuietOwn, Zenon DEF vars, OwnInv, OwnResult
  <2> QED
    BY <1>0, <2>2, Zenon DEF OwnInv
<1> QED
  BY <1>0, <1>1, <1>2, <1>3, <1>4, CalledOwn, GoesOnOwn, ArrivesOwn, WorkerOwn, Zenon DEF Next, OwnInv

(* A resolved call has the result of its own operation, however answers,   *)
(* timeouts and new self-tests interleave and wherever the numbers start   *)
(* again (request and onmessage in webProvider.js).                        *)
THEOREM WebOwnResult == ASSUME Enough PROVE Spec => []OwnResult
<1>1. Init => OwnInv
  <2>1. Init => Young /\ Matched /\ OwnResult
    BY Zenon DEF Init, Young, Matched, OwnResult
  <2> QED
    BY <2>1, InitInv, Zenon DEF OwnInv
<1>2. OwnInv /\ [Next]_vars => OwnInv'
  BY NextOwn, Zenon
<1>3. OwnInv => OwnResult
  BY Zenon DEF OwnInv
<1> QED
  BY <1>1, <1>2, <1>3, PTL DEF Spec

-----------------------------------------------------------------------------
(* The variables keep their types.                                         *)
THEOREM WebTypes == Spec => []TypeOK
<1>1. IInv => TypeOK
  BY Zenon DEF IInv
<1> QED
  BY InitInv, NextInv, <1>1, PTL DEF Spec

(* The browser provider implements CryptoCalls: whatever the Worker does,  *)
(* however calls, answers, timeouts and errors interleave, and also when   *)
(* request numbers wrap around (webProvider.js, webCrypto.worker.js).      *)
THEOREM WebKeepsPromise == Spec => KeepsPromise
<1>1. Spec => []IInv
  BY InitInv, NextInv, PTL DEF Spec
<1> QED
  BY <1>1, InitPromise, StepPromise, PTL DEF Spec, KeepsPromise, Promise!Spec

(* So a settled call never changes, and after failing closed none is       *)
(* resolved (rejectAll in webProvider.js).                                 *)
THEOREM WebFailsClosed == Spec => Promise!SettledOnce /\ Promise!ClosedResolvesNone
<1>1. [Promise!Next]_(Promise!vars) =>
        [\A c \in Calls : Seen[c] \in {"done", "rejected"} => Seen'[c] = Seen[c]]_(Promise!vars)
  BY Zenon DEF Promise!Next, Promise!Begin, Promise!Refuse, Promise!Resolve, Promise!Test,
         Promise!Reject, Promise!vars, Seen
<1>2. [Promise!Next]_(Promise!vars) =>
        [failed => \A c \in Calls : Seen'[c] = "done" => Seen[c] = "done"]_(Promise!vars)
  BY Zenon DEF Promise!Next, Promise!Begin, Promise!Refuse, Promise!Resolve, Promise!Test,
         Promise!Reject, Promise!vars, Seen
<1> QED
  BY <1>1, <1>2, WebKeepsPromise, PTL
     DEF KeepsPromise, Promise!Spec, Promise!SettledOnce, Promise!ClosedResolvesNone

(* No call is resolved before the self-test of the primitives has passed   *)
(* (initialize in webCrypto.worker.js, guarded in webProvider.js).         *)
THEOREM WebTestedFirst == Spec => []Promise!TestedFirst
<1>1. Promise!Init => Promise!TestedFirst
  BY Zenon DEF Promise!Init, Promise!TestedFirst, Seen
<1>2. Promise!TestedFirst /\ [Promise!Next]_(Promise!vars) => Promise!TestedFirst'
  BY Zenon DEF Promise!Next, Promise!Begin, Promise!Refuse, Promise!Resolve, Promise!Test,
         Promise!Reject, Promise!vars, Promise!TestedFirst, Seen
<1> QED
  BY <1>1, <1>2, WebKeepsPromise, PTL DEF KeepsPromise, Promise!Spec

-----------------------------------------------------------------------------
(* The desktop provider implements CryptoCalls for every set of calls.     *)

Native == INSTANCE NativeProvider

(* A command of a call is with the host only after the self-test passed.   *)
SentTested == \A c \in Calls : call[c] = "sent" => readiness = "ok"

NativeInv == Native!TypeOK /\ SentTested

(* The provider starts with no call made and no self-test.                 *)
LEMMA NativeInitInv == Native!Init => NativeInv
  BY DEF Native!Init, NativeInv, Native!TypeOK, SentTested, Native!Phase, Native!Commands

(* Every step keeps the types, and sends a command only when the           *)
(* self-test has passed.                                                   *)
LEMMA NativeNextInv == NativeInv /\ [Native!Next]_(Native!vars) => NativeInv'
<1> SUFFICES ASSUME NativeInv, [Native!Next]_(Native!vars) PROVE NativeInv'
  BY Zenon
<1> USE DEF NativeInv, Native!TypeOK, SentTested, Native!Phase, Native!Commands
<1>1. ASSUME NEW c \in Calls, Native!Refused(c) PROVE NativeInv'
  BY <1>1, Zenon DEF Native!Refused
<1>2. ASSUME NEW c \in Calls, Native!Called(c) PROVE NativeInv'
  BY <1>2 DEF Native!Called
<1>3. ASSUME NEW c \in Calls, Native!Returns(c) PROVE NativeInv'
  BY <1>3, Zenon DEF Native!Returns
<1>4. ASSUME NEW c \in Calls, Native!Fails(c) PROVE NativeInv'
  BY <1>4, Zenon DEF Native!Fails
<1>5. CASE Native!TestGoesOn
  BY <1>5 DEF Native!TestGoesOn
<1>6. CASE Native!TestPasses
  BY <1>6 DEF Native!TestPasses
<1>7. CASE Native!TestFails
  BY <1>7 DEF Native!TestFails
<1>8. CASE UNCHANGED Native!vars
  BY <1>8, Zenon DEF Native!vars
<1> QED
  BY <1>1, <1>2, <1>3, <1>4, <1>5, <1>6, <1>7, <1>8, Zenon DEF Native!Next

(* Initial states map to initial states of CryptoCalls.                    *)
LEMMA NativeInitPromise == Native!Init => Native!Promise!Init
  BY Zenon DEF Native!Init, Native!Promise!Init, Native!Seen

(* Every step is a step of CryptoCalls, or one no caller sees.             *)
LEMMA NativeStepPromise ==
  NativeInv /\ [Native!Next]_(Native!vars) => [Native!Promise!Next]_(Native!Promise!vars)
<1> SUFFICES ASSUME NativeInv, [Native!Next]_(Native!vars)
             PROVE  [Native!Promise!Next]_(Native!Promise!vars)
  BY Zenon
<1> USE DEF NativeInv, Native!TypeOK, Native!Phase
<1>1. ASSUME NEW c \in Calls, Native!Refused(c) PROVE Native!Promise!Refuse(c)
  BY <1>1, Zenon DEF Native!Refused, Native!Promise!Refuse, Native!Seen
<1>2. ASSUME NEW c \in Calls, Native!Called(c) PROVE Native!Promise!Begin(c)
  BY <1>2, Zenon DEF Native!Called, Native!Promise!Begin, Native!Seen
<1>3. ASSUME NEW c \in Calls, Native!Returns(c) PROVE Native!Promise!Resolve(c)
  BY <1>3, Zenon DEF Native!Returns, Native!Promise!Resolve, Native!Seen, SentTested
<1>4. ASSUME NEW c \in Calls, Native!Fails(c) PROVE Native!Promise!Reject
  <2> DEFINE R == {c}
  <2>1. R \in SUBSET {d \in Calls : Native!Seen[d] = "waiting"}
    BY <1>4, Zenon DEF Native!Fails, Native!Seen
  <2>2. Native!Seen' = [d \in Calls |-> IF d \in R THEN "rejected" ELSE Native!Seen[d]]
    BY <1>4, Zenon DEF Native!Fails, Native!Seen
  <2>3. (readiness = "ok")' = (readiness = "ok")
    BY <1>4, Zenon DEF Native!Fails
  <2> QED
    BY <2>1, <2>2, <2>3, Zenon DEF Native!Promise!Reject
<1>5. CASE Native!TestGoesOn
  BY <1>5, Zenon DEF Native!TestGoesOn, Native!Promise!vars, Native!Seen
<1>6. CASE Native!TestPasses
  <2>1. Native!Seen' = Native!Seen
    BY <1>6, Zenon DEF Native!TestPasses, Native!Seen
  <2> QED
    BY <1>6, <2>1, Zenon DEF Native!TestPasses, Native!Promise!Next, Native!Promise!Test
<1>7. CASE Native!TestFails
  <2> DEFINE R == {c \in Calls : call[c] = "ready"}
  <2>1. R \in SUBSET {c \in Calls : Native!Seen[c] = "waiting"}
    BY Zenon DEF Native!Seen
  <2>2. Native!Seen' = [c \in Calls |-> IF c \in R THEN "rejected" ELSE Native!Seen[c]]
    BY <1>7, Zenon DEF Native!TestFails, Native!Seen
  <2>3. (readiness = "ok")' = (readiness = "ok")
    BY <1>7, Zenon DEF Native!TestFails
  <2>4. Native!Promise!Reject
    BY <2>1, <2>2, <2>3, Zenon DEF Native!Promise!Reject
  <2> QED
    BY <2>4, Zenon DEF Native!Promise!Next
<1>8. CASE UNCHANGED Native!vars
  BY <1>8, Zenon DEF Native!vars, Native!Promise!vars, Native!Seen
<1> QED
  BY <1>1, <1>2, <1>3, <1>4, <1>5, <1>6, <1>7, <1>8, Zenon DEF Native!Next, Native!Promise!Next

(* The variables keep their types; a self-test command runs exactly while  *)
(* the self-test is pending (nativeProvider.js).                           *)
THEOREM NativeTypes == Native!Spec => []Native!TypeOK
<1>1. NativeInv => Native!TypeOK
  BY Zenon DEF NativeInv
<1> QED
  BY NativeInitInv, NativeNextInv, <1>1, PTL DEF Native!Spec

(* The desktop provider implements CryptoCalls: however its calls overlap, *)
(* each is settled once and none is resolved before the self-test of all   *)
(* primitives has passed (nativeProvider.js).                              *)
THEOREM NativeKeepsPromise == Native!Spec => Native!KeepsPromise
<1>1. Native!Spec => []NativeInv
  BY NativeInitInv, NativeNextInv, PTL DEF Native!Spec
<1> QED
  BY <1>1, NativeInitPromise, NativeStepPromise, PTL
  DEF Native!Spec, Native!KeepsPromise, Native!Promise!Spec

-----------------------------------------------------------------------------
(* The setup wizard, for every set of addresses and any number of loads    *)
(* and registrations under way.  That the terms come first is claimed for  *)
(* a device that one account uses: the wizard keeps its step when somebody *)
(* else signs in, and model checking shows the claim to fail then.         *)

Setup == INSTANCE SetupWizard

OneAccount == \A a, b \in Accounts : a = b

FetchRows(k) == [st : {"idle", "sent", "served"}, for : k \cup {None}, val : SUBSET Names]
CreateRows(k) == [st : {"idle", "sent", "checked", "stored"}, for : k \cup {None},
                  name : Names \cup {None}]
Wizards == [show : BOOLEAN, step : 1..5, boxes : BOOLEAN, copied : BOOLEAN, name : Names]

(* A registration under way is complete.                                   *)
Complete ==
  \A c \in Creates : creates[c].st # "idle" =>
    creates[c].for \in known /\ creates[c].name \in Names

SetupTypes == Setup!TypeOK /\ Complete

(* Every way past the terms has seen them accepted: by the boxes that are  *)
(* checked, by the step the wizard is at, by a registration under way.     *)
TermsSeen ==
  /\ wiz.boxes => who \in agreed
  /\ wiz.step # 1 => known \subseteq agreed
  /\ \A c \in Creates : creates[c].st # "idle" => creates[c].for \in agreed
  /\ Setup!TermsFirst

(* The wizard starts at the terms; accounts with an address have agreed.   *)
LEMMA SetupInit == ASSUME Setup!NoneAssumption, Setup!Init PROVE SetupTypes /\ TermsSeen
<1>1. 1 \in 1..5
  OBVIOUS
<1>2. wiz \in Wizards /\ wiz.step = 1 /\ ~wiz.boxes
  BY <1>1, Zenon DEF Setup!Init, Wizards
<1>3. /\ fetches \in [Fetches -> FetchRows(known)]
      /\ creates \in [Creates -> CreateRows(known)]
      /\ \A c \in Creates : creates[c].st = "idle"
  BY Zenon DEF Setup!Init, Setup!NoFetch, Setup!NoCreate, FetchRows, CreateRows
<1>4. known \subseteq Accounts /\ owner \in [Names -> Accounts \cup {None}]
  BY Zenon DEF Setup!Init
<1>5. Setup!TypeOK
  BY <1>2, <1>3, <1>4, Zenon DEF Setup!Init, Setup!TypeOK, Wizards, FetchRows, CreateRows
<1>6. Setup!TermsFirst
  BY Zenon DEF Setup!Init, Setup!TermsFirst, Setup!OwnedBy
<1> QED
  BY <1>2, <1>3, <1>5, <1>6, Zenon DEF SetupTypes, Complete, TermsSeen

(* A load of the list that begins is one for an account that exists.       *)
LEMMA FetchBegins ==
  ASSUME NEW k, fetches \in [Fetches -> FetchRows(k)], NEW w \in k, NEW f \in Fetches,
         Setup!FetchIdentities(f, w)
  PROVE  fetches' \in [Fetches -> FetchRows(k)]
  BY Zenon DEF Setup!FetchIdentities, Setup!NoFetch, FetchRows

(* The session and the loads of the list.                                  *)
LEMMA SetupSession ==
  ASSUME Setup!NoneAssumption, OneAccount, SetupTypes, TermsSeen,
         \/ \E a \in Accounts, f \in Fetches : Setup!Register(a, f) \/ Setup!LogIn(a, f)
         \/ Setup!SignOut
         \/ \E f \in Fetches : Setup!LockUnlock(f) \/ Setup!GetMyIdentities(f)
                               \/ Setup!IdentitiesListed(f) \/ Setup!FetchFails(f)
  PROVE  SetupTypes' /\ TermsSeen'
<1> USE DEF SetupTypes
<1>0. /\ fetches \in [Fetches -> FetchRows(known)] /\ wiz \in Wizards
      /\ creates \in [Creates -> CreateRows(known)]
      /\ owner \in [Names -> Accounts \cup {None}]
      /\ known \subseteq Accounts /\ who \in known \cup {None} /\ agreed \subseteq known
  BY Zenon DEF Setup!TypeOK, FetchRows, CreateRows, Wizards
<1>a. Setup!NoFetch \in FetchRows(known)
  BY Zenon DEF Setup!NoFetch, FetchRows
<1>1. ASSUME NEW a \in Accounts, NEW f \in Fetches, Setup!Register(a, f)
      PROVE  SetupTypes' /\ TermsSeen'
  <2>1. known' = known \cup {a} /\ known' \subseteq Accounts /\ who' \in known'
    BY <1>0, <1>1, Zenon DEF Setup!Register
  <2>2. fetches \in [Fetches -> FetchRows(known')]
    BY <1>0, <2>1, Zenon DEF FetchRows
  <2>3. fetches' \in [Fetches -> FetchRows(known')]
    BY <1>1, <2>1, <2>2, FetchBegins, Zenon DEF Setup!Register
  <2>4. creates' \in [Creates -> CreateRows(known')]
    BY <1>0, <1>1, <2>1, Zenon DEF Setup!Register, CreateRows
  <2>5. wiz' \in Wizards /\ wiz'.step = 1 /\ ~wiz'.boxes
    <3>1. 1 \in 1..5
      OBVIOUS
    <3> QED
      BY <1>1, <3>1 DEF Setup!Register, Wizards
  <2>6. Setup!TypeOK'
    BY <1>0, <1>1, <2>1, <2>3, <2>4, <2>5, Zenon
    DEF Setup!Register, Setup!TypeOK, Wizards, FetchRows, CreateRows
  <2>7. Complete' /\ TermsSeen'
    BY <1>1, <2>1, <2>5, ZenonT(30) DEF Setup!Register, Complete, TermsSeen, Setup!TermsFirst
  <2> QED
    BY <2>6, <2>7, Zenon
<1>2. ASSUME NEW a \in Accounts, NEW f \in Fetches, Setup!LogIn(a, f)
      PROVE  SetupTypes' /\ TermsSeen'
  <2>1. fetches' \in [Fetches -> FetchRows(known)]
    BY <1>0, <1>2, FetchBegins, Zenon DEF Setup!LogIn
  <2>2. Setup!TypeOK'
    BY <1>2, <2>1, Zenon DEF Setup!LogIn, Setup!TypeOK, FetchRows
  <2>3. ~wiz.boxes
    BY <1>0, <1>2, Zenon DEF Setup!LogIn, TermsSeen, Setup!NoneAssumption
  <2> QED
    BY <1>2, <2>2, <2>3, ZenonT(30) DEF Setup!LogIn, Complete, TermsSeen, Setup!TermsFirst
<1>3. CASE Setup!SignOut
  <2>1. wiz' \in Wizards /\ wiz'.step = wiz.step /\ ~wiz'.boxes
    BY <1>0, <1>3, Zenon DEF Setup!SignOut, Wizards
  <2>2. Setup!TypeOK'
    BY <1>3, <2>1, Zenon DEF Setup!SignOut, Setup!TypeOK, Wizards
  <2> QED
    BY <1>3, <2>1, <2>2, Zenon DEF Setup!SignOut, Complete, TermsSeen, Setup!TermsFirst
<1>4. ASSUME NEW f \in Fetches, Setup!LockUnlock(f) PROVE SetupTypes' /\ TermsSeen'
  <2>1. fetches' \in [Fetches -> FetchRows(known)]
    BY <1>0, <1>4, FetchBegins, Zenon DEF Setup!LockUnlock
  <2>2. wiz' \in Wizards /\ wiz'.step = wiz.step /\ ~wiz'.boxes
    BY <1>0, <1>4, Zenon DEF Setup!LockUnlock, Wizards
  <2>3. Setup!TypeOK'
    BY <1>4, <2>1, <2>2, Zenon DEF Setup!LockUnlock, Setup!TypeOK, Wizards, FetchRows
  <2> QED
    BY <1>4, <2>2, <2>3, Zenon DEF Setup!LockUnlock, Complete, TermsSeen, Setup!TermsFirst
<1>5. ASSUME NEW f \in Fetches, Setup!GetMyIdentities(f) PROVE SetupTypes' /\ TermsSeen'
  <2>1. Setup!OwnedBy(fetches[f].for) \in SUBSET Names
    BY Zenon DEF Setup!OwnedBy
  <2>2. fetches' \in [Fetches -> FetchRows(known)]
    BY <1>0, <1>5, <2>1 DEF Setup!GetMyIdentities, FetchRows
  <2>3. Setup!TypeOK'
    BY <1>5, <2>2, Zenon DEF Setup!GetMyIdentities, Setup!TypeOK, FetchRows
  <2> QED
    BY <1>5, <2>3, Zenon DEF Setup!GetMyIdentities, Complete, TermsSeen, Setup!TermsFirst
<1>6. ASSUME NEW f \in Fetches, Setup!IdentitiesListed(f) PROVE SetupTypes' /\ TermsSeen'
  <2>1. fetches' \in [Fetches -> FetchRows(known)] /\ identities' \subseteq Names
    BY <1>0, <1>a, <1>6, Zenon DEF Setup!IdentitiesListed, FetchRows
  <2>2. wiz' \in Wizards /\ wiz'.step = wiz.step /\ wiz'.boxes = wiz.boxes
    BY <1>0, <1>6, Zenon DEF Setup!IdentitiesListed, Wizards
  <2>3. Setup!TypeOK'
    BY <1>6, <2>1, <2>2, Zenon DEF Setup!IdentitiesListed, Setup!TypeOK, Wizards, FetchRows
  <2> QED
    BY <1>6, <2>2, <2>3, Zenon DEF Setup!IdentitiesListed, Complete, TermsSeen, Setup!TermsFirst
<1>7. ASSUME NEW f \in Fetches, Setup!FetchFails(f) PROVE SetupTypes' /\ TermsSeen'
  <2>1. fetches' \in [Fetches -> FetchRows(known)]
    BY <1>0, <1>a, <1>7, Zenon DEF Setup!FetchFails
  <2>2. Setup!TypeOK'
    BY <1>7, <2>1, Zenon DEF Setup!FetchFails, Setup!TypeOK, FetchRows
  <2> QED
    BY <1>7, <2>2, Zenon DEF Setup!FetchFails, Complete, TermsSeen, Setup!TermsFirst
<1> QED
  BY <1>1, <1>2, <1>3, <1>4, <1>5, <1>6, <1>7, Zenon

(* The pages of the wizard.                                                *)
LEMMA SetupPages ==
  ASSUME Setup!NoneAssumption, OneAccount, SetupTypes, TermsSeen,
         \/ Setup!CheckBoxes
         \/ \E to \in 1..5 : Setup!OnStepChange(to)
         \/ Setup!OnCopied \/ \E n \in Names : Setup!OnGaiaUsername(n)
         \/ Setup!OnFinish \/ Setup!OpenAssistant
  PROVE  SetupTypes' /\ TermsSeen'
<1> USE DEF SetupTypes
<1>0. wiz \in Wizards /\ known \subseteq Accounts /\ who \in known \cup {None}
  BY Zenon DEF Setup!TypeOK, Wizards
<1>1. CASE Setup!CheckBoxes
  <2>1. who \in known
    BY <1>0, <1>1, Zenon DEF Setup!CheckBoxes, Setup!InWizard
  <2>2. PICK all \in BOOLEAN :
          /\ wiz' = [wiz EXCEPT !.boxes = all]
          /\ agreed' = IF all THEN agreed \cup {who} ELSE agreed
    BY <1>1, Zenon DEF Setup!CheckBoxes
  <2>3. /\ wiz' \in Wizards /\ wiz'.step = wiz.step /\ wiz'.boxes = all
        /\ agreed \subseteq agreed' /\ agreed' \subseteq known
    BY <1>0, <2>1, <2>2, Zenon DEF Wizards, Setup!TypeOK
  <2>4. Setup!TypeOK'
    BY <1>1, <2>3, Zenon DEF Setup!CheckBoxes, Setup!TypeOK, Wizards
  <2> QED
    BY <1>1, <2>2, <2>3, <2>4, Zenon DEF Setup!CheckBoxes, Complete, TermsSeen, Setup!TermsFirst
<1>2. ASSUME NEW to \in 1..5, Setup!OnStepChange(to) PROVE SetupTypes' /\ TermsSeen'
  <2>1. wiz' \in Wizards /\ wiz'.step = to /\ wiz'.boxes = wiz.boxes
    BY <1>0, <1>2, Zenon DEF Setup!OnStepChange, Wizards
  <2>2. wiz.step # 1 \/ wiz.boxes
    <3>1. wiz.step \in 1..5
      BY <1>0, Zenon DEF Wizards
    <3>2. Setup!Offered(wiz.step, to)
      BY <1>2, Zenon DEF Setup!OnStepChange
    <3> QED
      BY <3>1, <3>2 DEF Setup!Offered
  <2>3. wiz.boxes => known \subseteq agreed
    <3>1. who \in known
      BY <1>0, <1>2, Zenon DEF Setup!OnStepChange, Setup!InWizard
    <3> QED
      BY <1>0, <3>1, Zenon DEF TermsSeen, OneAccount
  <2>4. known \subseteq agreed
    BY <2>2, <2>3, Zenon DEF TermsSeen
  <2>5. Setup!TypeOK'
    BY <1>2, <2>1, Zenon DEF Setup!OnStepChange, Setup!TypeOK, Wizards
  <2> QED
    BY <1>2, <2>1, <2>4, <2>5, Zenon DEF Setup!OnStepChange, Complete, TermsSeen, Setup!TermsFirst
<1>3. ASSUME wiz' \in Wizards, wiz'.step = wiz.step, wiz'.boxes = wiz.boxes,
             UNCHANGED <<owner, known, who, identities, fetches, creates, agreed>>
      PROVE  SetupTypes' /\ TermsSeen'
  <2>1. Setup!TypeOK'
    BY <1>3, Zenon DEF Setup!TypeOK, Wizards
  <2> QED
    BY <1>3, <2>1, Zenon DEF Complete, TermsSeen, Setup!TermsFirst
<1>4. CASE Setup!OnCopied
  <2>1. wiz' \in Wizards /\ wiz'.step = wiz.step /\ wiz'.boxes = wiz.boxes
    BY <1>0, <1>4, Zenon DEF Setup!OnCopied, Wizards
  <2> QED
    BY <1>3, <1>4, <2>1, Zenon DEF Setup!OnCopied
<1>5. ASSUME NEW n \in Names, Setup!OnGaiaUsername(n) PROVE SetupTypes' /\ TermsSeen'
  <2>1. wiz' \in Wizards /\ wiz'.step = wiz.step /\ wiz'.boxes = wiz.boxes
    BY <1>0, <1>5, Zenon DEF Setup!OnGaiaUsername, Wizards
  <2> QED
    BY <1>3, <1>5, <2>1, Zenon DEF Setup!OnGaiaUsername
<1>6. CASE Setup!OnFinish
  <2>1. wiz' \in Wizards /\ wiz'.step = wiz.step /\ wiz'.boxes = wiz.boxes
    BY <1>0, <1>6, Zenon DEF Setup!OnFinish, Wizards
  <2> QED
    BY <1>3, <1>6, <2>1, Zenon DEF Setup!OnFinish
<1>7. CASE Setup!OpenAssistant
  <2>1. wiz' \in Wizards /\ wiz'.step = wiz.step /\ wiz'.boxes = wiz.boxes
    BY <1>0, <1>7, ZenonT(30) DEF Setup!OpenAssistant, Wizards
  <2> QED
    BY <1>3, <1>7, <2>1, Zenon DEF Setup!OpenAssistant
<1> QED
  BY <1>1, <1>2, <1>4, <1>5, <1>6, <1>7

(* A registration is sent, checked, inserted, answered or lost.            *)
LEMMA SetupCreates ==
  ASSUME Setup!NoneAssumption, OneAccount, SetupTypes, TermsSeen, NEW c \in Creates,
         \/ Setup!HandleWizardRegisterIdentity(c) \/ Setup!CheckIdentity(c)
         \/ Setup!InsertIdentity(c) \/ Setup!IdentityRegistered(c)
         \/ Setup!RegistrationFails(c)
  PROVE  SetupTypes' /\ TermsSeen'
<1> USE DEF SetupTypes
<1>0. /\ fetches \in [Fetches -> FetchRows(known)] /\ wiz \in Wizards
      /\ creates \in [Creates -> CreateRows(known)]
      /\ owner \in [Names -> Accounts \cup {None}]
      /\ known \subseteq Accounts /\ who \in known \cup {None}
  BY Zenon DEF Setup!TypeOK, FetchRows, CreateRows, Wizards
<1>a. Setup!NoCreate \in CreateRows(known) /\ Setup!NoCreate.st = "idle"
  BY Zenon DEF Setup!NoCreate, CreateRows
<1>1. CASE Setup!HandleWizardRegisterIdentity(c)
  <2>1. who \in known /\ who \in agreed /\ wiz.name \in Names
    <3>1. who \in known /\ wiz.name \in Names
      BY <1>0, <1>1, Zenon DEF Setup!HandleWizardRegisterIdentity, Setup!InWizard, Wizards
    <3>2. wiz.step # 1
      BY <1>1 DEF Setup!HandleWizardRegisterIdentity
    <3> QED
      BY <3>1, <3>2, ZenonT(30) DEF TermsSeen
  <2>2. creates' \in [Creates -> CreateRows(known)]
    BY <1>0, <1>1, <2>1, Zenon DEF Setup!HandleWizardRegisterIdentity, CreateRows
  <2>3. Setup!TypeOK'
    BY <1>1, <2>2, Zenon DEF Setup!HandleWizardRegisterIdentity, Setup!TypeOK, CreateRows
  <2> QED
    BY <1>0, <1>1, <2>1, <2>3, Zenon DEF Setup!HandleWizardRegisterIdentity, Complete, TermsSeen,
                                  Setup!TermsFirst
<1>2. CASE Setup!CheckIdentity(c)
  <2>1. creates' \in [Creates -> CreateRows(known)]
    BY <1>0, <1>2 DEF Setup!CheckIdentity, CreateRows
  <2>2. Setup!TypeOK'
    BY <1>2, <2>1, Zenon DEF Setup!CheckIdentity, Setup!TypeOK, CreateRows
  <2>3. /\ \A d \in Creates : creates'[d].for = creates[d].for /\ creates'[d].name = creates[d].name
        /\ \A d \in Creates : creates'[d].st # "idle" => creates[d].st # "idle"
    BY <1>0, <1>2, Zenon DEF Setup!CheckIdentity, CreateRows
  <2> QED
    BY <1>2, <2>2, <2>3 DEF Setup!CheckIdentity, Complete, TermsSeen, Setup!TermsFirst
<1>3. CASE Setup!InsertIdentity(c)
  <2>1. /\ creates[c].for \in known /\ creates[c].for \in agreed
        /\ creates[c].name \in Names
    BY <1>3, Zenon DEF Setup!InsertIdentity, Complete, TermsSeen
  <2>2. /\ creates' \in [Creates -> CreateRows(known)]
        /\ owner' \in [Names -> Accounts \cup {None}]
    BY <1>0, <1>3, <2>1 DEF Setup!InsertIdentity, CreateRows
  <2>3. Setup!TypeOK'
    BY <1>3, <2>2, Zenon DEF Setup!InsertIdentity, Setup!TypeOK, CreateRows
  <2>4. /\ \A d \in Creates : creates'[d].for = creates[d].for /\ creates'[d].name = creates[d].name
        /\ \A d \in Creates : creates'[d].st # "idle" => creates[d].st # "idle"
    BY <1>0, <1>3, Zenon DEF Setup!InsertIdentity, CreateRows
  <2>5. Setup!TermsFirst'
    BY <1>0, <1>3, <2>1, Zenon DEF Setup!InsertIdentity, TermsSeen, Setup!TermsFirst
  <2> QED
    BY <1>3, <2>3, <2>4, <2>5 DEF Setup!InsertIdentity, Complete, TermsSeen
<1>4. CASE Setup!IdentityRegistered(c)
  <2>1. known \subseteq agreed
    BY <1>0, <1>4, Zenon DEF Setup!IdentityRegistered, Complete, TermsSeen, OneAccount
  <2>2. creates' \in [Creates -> CreateRows(known)]
    BY <1>0, <1>a, <1>4, Zenon DEF Setup!IdentityRegistered
  <2>3. wiz' \in Wizards /\ wiz'.boxes = wiz.boxes
    <3>1. 4 \in 1..5
      OBVIOUS
    <3> QED
      BY <1>0, <1>4, <3>1, Zenon DEF Setup!IdentityRegistered, Wizards
  <2>4. fetches' \in [Fetches -> FetchRows(known)]
    BY <1>0, <1>4, FetchBegins, Zenon DEF Setup!IdentityRegistered
  <2>5. Setup!TypeOK'
    BY <1>4, <2>2, <2>3, <2>4, Zenon
    DEF Setup!IdentityRegistered, Setup!TypeOK, Wizards, FetchRows, CreateRows
  <2> QED
    BY <1>0, <1>a, <1>4, <2>1, <2>3, <2>5, Zenon DEF Setup!IdentityRegistered, Complete, TermsSeen,
                                              Setup!TermsFirst
<1>5. CASE Setup!RegistrationFails(c)
  <2>1. creates' \in [Creates -> CreateRows(known)]
    BY <1>0, <1>a, <1>5, Zenon DEF Setup!RegistrationFails
  <2>2. Setup!TypeOK'
    BY <1>5, <2>1, Zenon DEF Setup!RegistrationFails, Setup!TypeOK, CreateRows
  <2> QED
    BY <1>0, <1>a, <1>5, <2>2, Zenon DEF Setup!RegistrationFails, Complete, TermsSeen,
                                  Setup!TermsFirst
<1> QED
  BY <1>1, <1>2, <1>3, <1>4, <1>5, Zenon

(* An address is registered only for an account whose user has checked     *)
(* every box of the terms, whatever step the wizard was left at, locked at *)
(* or opened again at, and however registrations overlap (SetupWizard.jsx, *)
(* useGaiaAuth.js), on a device that one account uses.                     *)
THEOREM SetupTermsFirst ==
  ASSUME Setup!NoneAssumption, OneAccount
  PROVE  Setup!Spec => []Setup!TermsFirst
<1>1. Setup!Init => SetupTypes /\ TermsSeen
  BY SetupInit, Zenon
<1>2. SetupTypes /\ TermsSeen /\ [Setup!Next]_(Setup!vars) => (SetupTypes /\ TermsSeen)'
  <2> SUFFICES ASSUME SetupTypes, TermsSeen, [Setup!Next]_(Setup!vars)
               PROVE  SetupTypes' /\ TermsSeen'
    BY Zenon
  <2>1. CASE UNCHANGED Setup!vars
    BY <2>1, Zenon DEF Setup!vars, SetupTypes, Setup!TypeOK, Complete, TermsSeen, Setup!TermsFirst
  <2> QED
    BY <2>1, SetupSession, SetupPages, SetupCreates, Zenon DEF Setup!Next
<1>3. SetupTypes /\ TermsSeen => Setup!TermsFirst
  BY Zenon DEF TermsSeen
<1> QED
  BY <1>1, <1>2, <1>3, PTL DEF Setup!Spec

-----------------------------------------------------------------------------
(* The tour and the mailbox settings, for every number of accounts and of  *)
(* requests under way.  The tour depends on the page's copy of the         *)
(* settings, on local storage and on the session, and each of them changes *)
(* under it; what keeps it from coming back is that the effect's ref names *)
(* the account in session whenever the timer runs or the tour is shown.    *)

Tour == INSTANCE MailSettings

Settled == Tour!NoneAssumption

TourStates ==
  [seen : Accounts \cup {None}, timer : BOOLEAN, show : BOOLEAN,
   step : Tour!Steps, confirmed : BOOLEAN]

(* Requests that are under way belong to an account.                       *)
Addressed ==
  /\ \A l \in Loads : loads[l].st # "idle" => loads[l].for \in Accounts
  /\ \A s \in Saves : saves[s].st # "idle" => saves[s].for \in Accounts

(* Without an active session nothing of the tour is left; with one, a tour *)
(* on the screen or about to come belongs to it and was not closed before. *)
TourOfSession ==
  /\ who = None => ~locked
  /\ who = None \/ locked => tour = Tour!TourOff
  /\ tour.show \/ tour.timer => tour.seen = who /\ ~doneHere[who]

TourInv == Tour!TypeOK /\ Addressed /\ TourOfSession /\ Tour!LaunchConfirmed

(* The onboarding effect (App.jsx) gives up the tour of an ended or locked *)
(* session, and starts one only for the account in session that has not    *)
(* closed it.                                                              *)
LEMMA EffectTour ==
  ASSUME Settled, tour \in TourStates, doneHere \in [Accounts -> BOOLEAN],
         Tour!LaunchConfirmed,
         NEW w \in Accounts \cup {None}, NEW s \in Tour!Settings,
         tour.seen = w /\ (tour.show \/ tour.timer) => ~doneHere[w],
         Tour!OnboardingEffect(w, s)
  PROVE  /\ tour' \in TourStates
         /\ doneHere' \in [Accounts -> BOOLEAN]
         /\ Tour!LaunchConfirmed'
         /\ w = None => tour' = Tour!TourOff
         /\ w # None => (tour'.show \/ tour'.timer => tour'.seen = w /\ ~doneHere'[w])
<1> USE DEF TourStates, Tour!LaunchConfirmed
<1>0. 0 \in Tour!Steps /\ 0 # 3
  BY DEF Tour!Steps
<1>a. Tour!TourOff \in TourStates
  BY <1>0, Zenon DEF Tour!TourOff
<1>b. /\ ~Tour!TourOff.show /\ ~Tour!TourOff.timer
  BY Zenon DEF Tour!TourOff
<1>1. CASE w = None
  BY <1>1, <1>a, <1>b, Zenon DEF Tour!OnboardingEffect
<1>2. CASE w # None /\ tour.seen = w
  BY <1>2, Zenon DEF Tour!OnboardingEffect
<1>3. CASE w # None /\ tour.seen # w /\ (doneHere[w] \/ s.done)
  <2>1. /\ tour' = [Tour!TourOff EXCEPT !.seen = w]
        /\ doneHere' = [doneHere EXCEPT ![w] = TRUE]
    BY <1>3, Zenon DEF Tour!OnboardingEffect
  <2>2. tour' \in TourStates /\ ~tour'.show /\ ~tour'.timer
    BY <2>1, <1>a, <1>b
  <2> QED
    BY <1>3, <2>1, <2>2, Zenon
<1>4. CASE w # None /\ tour.seen # w /\ ~(doneHere[w] \/ s.done)
  BY <1>4, ZenonT(30) DEF Tour!OnboardingEffect
<1> QED
  BY <1>1, <1>2, <1>3, <1>4

(* Before anybody has signed in there is no tour and no request.           *)
LEMMA TourInit == Settled /\ Tour!Init => TourInv
<1> SUFFICES ASSUME Settled, Tour!Init PROVE TourInv
  BY Zenon
<1>1. Tour!Default \in Tour!Settings
  BY Zenon DEF Tour!Default, Tour!Settings, Tour!Signatures
<1>2. 0 \in Tour!Steps
  BY DEF Tour!Steps
<1>3. tour \in TourStates
  BY <1>2, Zenon DEF Tour!Init, TourStates, Tour!TourOff
<1>4. /\ loads \in [Loads -> [st: {"idle", "sent", "served"}, for: Accounts \cup {None},
                             val: Tour!Settings]]
      /\ saves \in [Saves -> [st: {"idle", "sent", "served"}, for: Accounts \cup {None},
                             val: Tour!Settings, byForm: BOOLEAN]]
  BY <1>1, Zenon DEF Tour!Init, Tour!Idle, Tour!NoSave
<1>5. Tour!TypeOK
  BY <1>1, <1>3, <1>4, Zenon DEF Tour!Init, Tour!TypeOK, TourStates, Tour!Signatures, Tour!Closed
<1> QED
  BY <1>5, Zenon DEF TourInv, Tour!Init, Addressed, TourOfSession, Tour!LaunchConfirmed,
              Tour!Idle, Tour!NoSave, Tour!TourOff

(* Signing in and out, locking and unlocking.                              *)
LEMMA TourSession == ASSUME Settled, TourInv, Tour!Session PROVE TourInv'
<1> USE DEF TourInv
<1>0. tour \in TourStates /\ doneHere \in [Accounts -> BOOLEAN] /\ settings \in Tour!Settings
  BY Zenon DEF Tour!TypeOK, TourStates
<1>a. Tour!Idle \in [st: {"idle", "sent", "served"}, for: Accounts \cup {None},
                     val: Tour!Settings]
  BY Zenon DEF Tour!Idle, Tour!Default, Tour!Settings, Tour!Signatures
<1>1. ASSUME NEW a \in Accounts, NEW l \in Loads, Tour!SignIn(a, l) PROVE TourInv'
  <2>1. ~tour.show /\ ~tour.timer /\ a # None
    BY <1>1 DEF Tour!SignIn, TourOfSession, Tour!TourOff, Settled, Tour!NoneAssumption
  <2>2. /\ tour' \in TourStates /\ doneHere' \in [Accounts -> BOOLEAN]
        /\ Tour!LaunchConfirmed'
        /\ tour'.show \/ tour'.timer => tour'.seen = a /\ ~doneHere'[a]
    BY <1>0, <1>1, <2>1, EffectTour DEF Tour!SignIn
  <2>3. loads' \in [Loads -> [st: {"idle", "sent", "served"}, for: Accounts \cup {None},
                              val: Tour!Settings]]
    BY <1>1, <1>a, Zenon DEF Tour!SignIn, Tour!TypeOK
  <2>4. Tour!TypeOK'
    BY <1>1, <2>2, <2>3, Zenon DEF Tour!SignIn, Tour!TypeOK, TourStates
  <2>5. Addressed'
    BY <1>1, Zenon DEF Tour!SignIn, Addressed, Tour!TypeOK, Tour!Idle
  <2> QED
    BY <1>1, <2>1, <2>2, <2>4, <2>5 DEF Tour!SignIn, TourOfSession
<1>2. CASE Tour!SignOut
  <2>1. /\ tour' = Tour!TourOff /\ tour' \in TourStates
        /\ doneHere' \in [Accounts -> BOOLEAN] /\ Tour!LaunchConfirmed'
    BY <1>0, <1>2, EffectTour, Zenon DEF Tour!SignOut, TourOfSession
  <2>2. Tour!TypeOK'
    BY <1>2, <2>1, Zenon DEF Tour!SignOut, Tour!TypeOK, TourStates, Tour!Closed, Tour!Signatures
  <2> QED
    BY <1>2, <2>1, <2>2, Zenon DEF Tour!SignOut, TourOfSession, Addressed, Tour!TourOff
<1>3. CASE Tour!HandleLock
  <2>1. /\ tour' = Tour!TourOff /\ tour' \in TourStates
        /\ doneHere' \in [Accounts -> BOOLEAN] /\ Tour!LaunchConfirmed'
    BY <1>0, <1>3, EffectTour, Zenon DEF Tour!HandleLock, TourOfSession, Tour!Active
  <2>2. Tour!TypeOK'
    BY <1>3, <2>1, Zenon DEF Tour!HandleLock, Tour!TypeOK, TourStates, Tour!Closed, Tour!Signatures
  <2> QED
    BY <1>3, <2>1, <2>2, Zenon DEF Tour!HandleLock, Tour!Active, TourOfSession, Addressed, Tour!TourOff
<1>4. CASE Tour!HandleUnlock
  <2>1. ~tour.show /\ ~tour.timer /\ who # None /\ who \in Accounts
    <3>1. locked
      BY <1>4, Zenon DEF Tour!HandleUnlock
    <3>2. who # None /\ tour = Tour!TourOff
      BY <3>1, Zenon DEF TourOfSession
    <3>3. who \in Accounts
      BY <3>2, Zenon DEF Tour!TypeOK
    <3> QED
      BY <3>2, <3>3, Zenon DEF Tour!TourOff
  <2>2. /\ tour' \in TourStates /\ doneHere' \in [Accounts -> BOOLEAN]
        /\ Tour!LaunchConfirmed'
        /\ tour'.show \/ tour'.timer => tour'.seen = who /\ ~doneHere'[who]
    BY <1>0, <1>4, <2>1, EffectTour, Zenon DEF Tour!HandleUnlock
  <2>3. Tour!TypeOK'
    BY <1>4, <2>2, Zenon DEF Tour!HandleUnlock, Tour!TypeOK, TourStates
  <2> QED
    BY <1>4, <2>1, <2>2, <2>3, ZenonT(30) DEF Tour!HandleUnlock, TourOfSession, Addressed
<1> QED
  BY <1>1, <1>2, <1>3, <1>4, Zenon DEF Tour!Session

(* New settings on the page, by a load or a save, whoever is in session.   *)
LEMMA SetTour ==
  ASSUME Settled, TourInv, NEW s \in Tour!Settings, Tour!SetMailSettings(s),
         UNCHANGED <<who, locked>>
  PROVE  /\ settings' \in Tour!Settings
         /\ form' \in [open: BOOLEAN, sig: Tour!Signatures]
         /\ tour' \in TourStates /\ doneHere' \in [Accounts -> BOOLEAN]
         /\ TourOfSession' /\ Tour!LaunchConfirmed'
<1> DEFINE w == IF locked THEN None ELSE who
<1> USE DEF TourInv
<1>0. /\ tour \in TourStates /\ doneHere \in [Accounts -> BOOLEAN]
      /\ w \in Accounts \cup {None}
  BY Zenon DEF Tour!TypeOK, TourStates
<1>1. tour.seen = w /\ (tour.show \/ tour.timer) => ~doneHere[w]
  BY Zenon DEF TourOfSession, Tour!TourOff
<1>2. /\ tour' \in TourStates /\ doneHere' \in [Accounts -> BOOLEAN]
      /\ Tour!LaunchConfirmed'
      /\ w = None => tour' = Tour!TourOff
      /\ w # None => (tour'.show \/ tour'.timer => tour'.seen = w /\ ~doneHere'[w])
  <2> HIDE DEF w
  <2>1. Tour!OnboardingEffect(w, s)
    BY Zenon DEF Tour!SetMailSettings, w
  <2> QED
    BY <1>0, <1>1, <2>1, EffectTour, Zenon
<1>3. TourOfSession'
  BY <1>2 DEF TourOfSession, Tour!TourOff
<1>4. form' \in [open: BOOLEAN, sig: Tour!Signatures]
  BY Zenon DEF Tour!SetMailSettings, Tour!TakeInputs, Tour!TypeOK, Tour!Settings
<1> QED
  BY <1>2, <1>3, <1>4, Zenon DEF Tour!SetMailSettings

(* Loads and saves are sent, served, answered or lost.                     *)
LEMMA TourRequests == ASSUME Settled, TourInv, Tour!Requests PROVE TourInv'
<1> DEFINE LoadRow == [st: {"idle", "sent", "served"}, for: Accounts \cup {None},
                       val: Tour!Settings]
<1> DEFINE SaveRow == [st: {"idle", "sent", "served"}, for: Accounts \cup {None},
                       val: Tour!Settings, byForm: BOOLEAN]
<1> USE DEF TourInv
<1>0. /\ loads \in [Loads -> LoadRow] /\ saves \in [Saves -> SaveRow]
      /\ node \in [Accounts -> Tour!Settings] /\ who \in Accounts \cup {None}
  BY Zenon DEF Tour!TypeOK
<1>a. Tour!Idle \in LoadRow /\ Tour!NoSave \in SaveRow
  BY Zenon DEF Tour!Idle, Tour!NoSave, Tour!Default, Tour!Settings, Tour!Signatures
<1>1. ASSUME NEW l \in Loads, Tour!FetchMailboxMetadata(l) PROVE TourInv'
  <2>1. loads' \in [Loads -> LoadRow]
    BY <1>0, <1>a, <1>1, Zenon DEF Tour!FetchMailboxMetadata
  <2>2. Addressed'
    BY <1>0, <1>1, Zenon DEF Tour!FetchMailboxMetadata, Tour!Active, Addressed, Tour!Idle
  <2> QED
    BY <1>1, <2>1, <2>2, Zenon DEF Tour!FetchMailboxMetadata, Tour!TypeOK, TourOfSession,
                            Tour!LaunchConfirmed
<1>2. ASSUME NEW l \in Loads, Tour!GetMailSettings(l) PROVE TourInv'
  <2>1. loads[l].for \in Accounts
    BY <1>2, Zenon DEF Tour!GetMailSettings, Addressed
  <2>2. loads' \in [Loads -> LoadRow]
    BY <1>0, <1>2, <2>1, ZenonT(30) DEF Tour!GetMailSettings
  <2>3. Addressed'
    BY <1>0, <1>2, <2>1 DEF Tour!GetMailSettings, Addressed
  <2> QED
    BY <1>2, <2>2, <2>3, Zenon DEF Tour!GetMailSettings, Tour!TypeOK, TourOfSession,
                            Tour!LaunchConfirmed
<1>3. ASSUME NEW l \in Loads, Tour!LoadReturns(l) PROVE TourInv'
  <2>1. /\ settings' \in Tour!Settings
        /\ form' \in [open: BOOLEAN, sig: Tour!Signatures]
        /\ tour' \in TourStates /\ doneHere' \in [Accounts -> BOOLEAN]
        /\ TourOfSession' /\ Tour!LaunchConfirmed'
    <3>1. loads[l].val \in Tour!Settings
      BY <1>0, Zenon
    <3> QED
      BY <1>3, <3>1, SetTour, Zenon DEF Tour!LoadReturns
  <2>2. loads' \in [Loads -> LoadRow]
    BY <1>0, <1>a, <1>3, Zenon DEF Tour!LoadReturns
  <2>3. Addressed'
    BY <1>0, <1>3, Zenon DEF Tour!LoadReturns, Addressed, Tour!Idle
  <2> QED
    BY <1>3, <2>1, <2>2, <2>3, Zenon DEF Tour!LoadReturns, Tour!TypeOK, TourStates
<1>4. ASSUME NEW l \in Loads, Tour!LoadFails(l) PROVE TourInv'
  <2>1. loads' \in [Loads -> LoadRow]
    BY <1>0, <1>a, <1>4, Zenon DEF Tour!LoadFails
  <2>2. Addressed'
    BY <1>0, <1>4, Zenon DEF Tour!LoadFails, Addressed, Tour!Idle
  <2> QED
    BY <1>4, <2>1, <2>2, Zenon DEF Tour!LoadFails, Tour!TypeOK, TourOfSession, Tour!LaunchConfirmed
<1>5. ASSUME NEW s \in Saves, Tour!SaveMailSettings(s) PROVE TourInv'
  <2>1. saves' \in [Saves -> SaveRow] /\ node' \in [Accounts -> Tour!Settings]
    BY <1>0, <1>5, ZenonT(30) DEF Tour!SaveMailSettings
  <2>2. Addressed'
    BY <1>0, <1>5 DEF Tour!SaveMailSettings, Addressed
  <2> QED
    BY <1>5, <2>1, <2>2, Zenon DEF Tour!SaveMailSettings, Tour!TypeOK, TourOfSession,
                            Tour!LaunchConfirmed
<1>6. ASSUME NEW s \in Saves, Tour!SaveReturns(s) PROVE TourInv'
  <2>1. /\ settings' \in Tour!Settings
        /\ form' \in [open: BOOLEAN, sig: Tour!Signatures]
        /\ tour' \in TourStates /\ doneHere' \in [Accounts -> BOOLEAN]
        /\ TourOfSession' /\ Tour!LaunchConfirmed'
    <3>1. saves[s].val \in Tour!Settings
      BY <1>0, Zenon
    <3> QED
      BY <1>6, <3>1, SetTour, Zenon DEF Tour!SaveReturns
  <2>2. saves' \in [Saves -> SaveRow]
    BY <1>0, <1>a, <1>6, Zenon DEF Tour!SaveReturns
  <2>3. Addressed'
    BY <1>0, <1>6, ZenonT(30) DEF Tour!SaveReturns, Addressed, Tour!NoSave
  <2> QED
    BY <1>6, <2>1, <2>2, <2>3, ZenonT(30) DEF Tour!SaveReturns, Tour!TypeOK, TourStates
<1>7. ASSUME NEW s \in Saves, Tour!SaveFails(s) PROVE TourInv'
  <2>1. saves' \in [Saves -> SaveRow]
    BY <1>0, <1>a, <1>7 DEF Tour!SaveFails
  <2>2. Addressed'
    <3>1. loads' = loads /\ saves' = [saves EXCEPT ![s] = Tour!NoSave]
      BY <1>7, Zenon DEF Tour!SaveFails
    <3>2. \A r \in Saves : saves'[r] = saves[r] \/ saves'[r] = Tour!NoSave
      BY <1>0, <3>1, Zenon
    <3>3. Tour!NoSave.st = "idle"
      BY Zenon DEF Tour!NoSave
    <3> QED
      BY <3>1, <3>2, <3>3, Zenon DEF Addressed
  <2> QED
    BY <1>7, <2>1, <2>2 DEF Tour!SaveFails, Tour!TypeOK, TourOfSession, Tour!LaunchConfirmed
<1> QED
  BY <1>1, <1>2, <1>3, <1>4, <1>5, <1>6, <1>7, ZenonT(30) DEF Tour!Requests

(* A save that begins belongs to the account in session.                   *)
LEMMA SaveBegins ==
  ASSUME TourInv, who \in Accounts, NEW s \in Saves, NEW v \in Tour!Settings,
         NEW b \in BOOLEAN, Tour!SaveSettings(s, v, b), UNCHANGED loads
  PROVE  /\ saves' \in [Saves -> [st: {"idle", "sent", "served"}, for: Accounts \cup {None},
                                  val: Tour!Settings, byForm: BOOLEAN]]
         /\ Addressed'
  BY Zenon DEF TourInv, Tour!TypeOK, Addressed, Tour!SaveSettings

(* The settings form, the timer and the buttons of the tour.               *)
LEMMA TourScreen == ASSUME Settled, TourInv, Tour!Screen PROVE TourInv'
<1> USE DEF TourInv
<1>0. /\ tour \in TourStates /\ doneHere \in [Accounts -> BOOLEAN]
      /\ settings \in Tour!Settings /\ form \in [open: BOOLEAN, sig: Tour!Signatures]
      /\ who \in Accounts \cup {None}
  BY Zenon DEF Tour!TypeOK, TourStates
<1>a. ASSUME form' \in [open: BOOLEAN, sig: Tour!Signatures],
             UNCHANGED <<node, who, locked, settings, loads, saves, doneHere, tour>>
      PROVE  TourInv'
  <2>1. Tour!TypeOK'
    BY <1>a, Zenon DEF Tour!TypeOK
  <2>2. Addressed' /\ TourOfSession'
    BY <1>a, Zenon DEF Addressed, TourOfSession, Tour!TourOff
  <2>3. Tour!LaunchConfirmed'
    BY <1>a, Zenon DEF Tour!LaunchConfirmed
  <2> QED
    BY <2>1, <2>2, <2>3, Zenon
<1>1. CASE Tour!OpenSection
  <2>1. form' \in [open: BOOLEAN, sig: Tour!Signatures]
    BY <1>0, <1>1, Zenon DEF Tour!OpenSection, Tour!Settings
  <2> QED
    BY <1>1, <1>a, <2>1, ZenonT(30) DEF Tour!OpenSection
<1>2. CASE Tour!LeaveSection
  <2>1. form' \in [open: BOOLEAN, sig: Tour!Signatures]
    BY <1>2, Zenon DEF Tour!LeaveSection, Tour!Closed, Tour!Signatures
  <2> QED
    BY <1>2, <1>a, <2>1, Zenon DEF Tour!LeaveSection
<1>3. CASE Tour!TypeSignature
  <2>1. form' \in [open: BOOLEAN, sig: Tour!Signatures]
    BY <1>0, <1>3 DEF Tour!TypeSignature, Tour!Signatures
  <2> QED
    BY <1>3, <1>a, <2>1, Zenon DEF Tour!TypeSignature
<1>4. CASE Tour!TimerFires
  <2>0. 0 \in Tour!Steps /\ 0 # 3
    BY DEF Tour!Steps
  <2>1. /\ tour' \in TourStates /\ tour'.seen = tour.seen /\ ~tour'.timer
        /\ tour'.show /\ tour'.step = 0
    BY <1>0, <1>4, <2>0, ZenonT(30) DEF Tour!TimerFires, TourStates
  <2>2. who # None /\ ~locked /\ tour.timer
    BY <1>4 DEF Tour!TimerFires, TourOfSession, Tour!TourOff
  <2>3. TourOfSession' /\ Tour!LaunchConfirmed'
    BY <1>4, <2>0, <2>1, <2>2 DEF Tour!TimerFires, TourOfSession, Tour!LaunchConfirmed
  <2> QED
    BY <1>4, <2>1, <2>3, Zenon DEF Tour!TimerFires, Tour!TypeOK, TourStates, Addressed
<1>5. ASSUME NEW t \in TourStates, Tour!InTour(t), t.show => t.seen = tour.seen,
             t.timer = tour.timer, t.show, t.step = 3 => t.confirmed
      PROVE  TourInv'
  <2>1. tour' \in TourStates /\ TourOfSession' /\ Tour!LaunchConfirmed'
    BY <1>0, <1>5 DEF Tour!InTour, TourOfSession, Tour!TourOff, Tour!LaunchConfirmed
  <2> QED
    BY <1>5, <2>1, Zenon DEF Tour!InTour, Tour!TypeOK, TourStates, Addressed
<1>6. CASE Tour!ConfirmBackup
  <2>1. PICK c \in BOOLEAN : Tour!InTour([tour EXCEPT !.confirmed = c])
    BY <1>6, Zenon DEF Tour!ConfirmBackup
  <2>2. tour.step = 2 /\ tour.show
    BY <1>6, <2>1, Zenon DEF Tour!ConfirmBackup, Tour!Backup, Tour!InTour
  <2> QED
    BY <1>0, <1>5, <2>1, <2>2 DEF TourStates, Tour!Steps
<1>7. CASE Tour!GoNext
  <2> DEFINE t == [tour EXCEPT !.step = @ + 1]
  <2>1. /\ tour.show /\ tour.step < 3 /\ (tour.step = 2 => tour.confirmed)
        /\ Tour!InTour(t)
    BY <1>7, Zenon DEF Tour!GoNext, Tour!Backup, Tour!InTour
  <2>2. /\ t \in TourStates /\ t.seen = tour.seen /\ t.timer = tour.timer /\ t.show
        /\ t.step = tour.step + 1 /\ t.confirmed = tour.confirmed
    BY <1>0, <2>1 DEF TourStates, Tour!Steps
  <2>3. t.step = 3 => t.confirmed
    BY <1>0, <2>1, <2>2 DEF TourStates, Tour!Steps
  <2> QED
    BY <1>5, <2>1, <2>2, <2>3, Zenon
<1>8. CASE Tour!GoBack
  <2> DEFINE t == [tour EXCEPT !.step = @ - 1]
  <2>1. tour.show /\ tour.step > 0 /\ Tour!InTour(t)
    BY <1>8, Zenon DEF Tour!GoBack, Tour!InTour
  <2>2. /\ t \in TourStates /\ t.seen = tour.seen /\ t.timer = tour.timer /\ t.show
        /\ t.step # 3
    BY <1>0, <2>1 DEF TourStates, Tour!Steps
  <2> QED
    BY <1>5, <2>1, <2>2, Zenon
<1>9. ASSUME NEW i \in Tour!Steps, Tour!PickStep(i) PROVE TourInv'
  <2> DEFINE t == [tour EXCEPT !.step = i]
  <2>1. tour.show /\ i <= tour.step /\ Tour!InTour(t)
    BY <1>9, Zenon DEF Tour!PickStep, Tour!InTour
  <2>2. /\ t \in TourStates /\ t.seen = tour.seen /\ t.timer = tour.timer /\ t.show
        /\ t.step = i /\ t.confirmed = tour.confirmed
    BY <1>0, <2>1, Zenon DEF TourStates
  <2>3. i = 3 => tour.step = 3
    BY <1>0, <2>1 DEF TourStates, Tour!Steps
  <2>4. t.step = 3 => t.confirmed
    BY <2>1, <2>2, <2>3, Zenon DEF Tour!LaunchConfirmed
  <2> QED
    BY <1>5, <2>1, <2>2, <2>4, Zenon
<1>10. ASSUME NEW s \in Saves, Tour!HandleSaveMailboxSettings(s) PROVE TourInv'
  <2>1. who \in Accounts /\ [settings EXCEPT !.sig = form.sig] \in Tour!Settings
    BY <1>0, <1>10, Zenon DEF Tour!HandleSaveMailboxSettings, Tour!Active, Tour!Settings
  <2>2. /\ saves' \in [Saves -> [st: {"idle", "sent", "served"}, for: Accounts \cup {None},
                                 val: Tour!Settings, byForm: BOOLEAN]]
        /\ Addressed'
    BY <1>10, <2>1, SaveBegins, Zenon DEF Tour!HandleSaveMailboxSettings
  <2> QED
    BY <1>10, <2>2, Zenon DEF Tour!HandleSaveMailboxSettings, Tour!TypeOK, TourOfSession,
                       Tour!LaunchConfirmed
<1>11. ASSUME NEW s \in Saves, Tour!CloseFirstRunOnboarding(s) PROVE TourInv'
  <2>1. who \in Accounts /\ who # None /\ ~locked
    BY <1>0, <1>11 DEF Tour!CloseFirstRunOnboarding, TourOfSession, Tour!TourOff
  <2>2. [settings EXCEPT !.done = TRUE] \in Tour!Settings
    BY <1>0, Zenon DEF Tour!Settings
  <2>3. /\ saves' \in [Saves -> [st: {"idle", "sent", "served"}, for: Accounts \cup {None},
                                 val: Tour!Settings, byForm: BOOLEAN]]
        /\ Addressed'
    BY <1>11, <2>1, <2>2, SaveBegins, Zenon DEF Tour!CloseFirstRunOnboarding
  <2>4. /\ tour' \in TourStates /\ ~tour'.show /\ ~tour'.timer
        /\ doneHere' \in [Accounts -> BOOLEAN]
    <3>1. 0 \in Tour!Steps
      BY DEF Tour!Steps
    <3>2. /\ Tour!TourOff \in TourStates /\ ~Tour!TourOff.show /\ ~Tour!TourOff.timer
      BY <3>1, Zenon DEF Tour!TourOff, TourStates
    <3> QED
      BY <1>0, <1>11, <2>1, <3>2, Zenon DEF Tour!CloseFirstRunOnboarding, TourStates
  <2> QED
    BY <1>11, <2>1, <2>3, <2>4 DEF Tour!CloseFirstRunOnboarding, Tour!TypeOK, TourStates,
                                   TourOfSession, Tour!LaunchConfirmed
<1> QED
  BY <1>1, <1>2, <1>3, <1>4, <1>6, <1>7, <1>8, <1>9, <1>10, <1>11, ZenonT(30) DEF Tour!Screen

(* Every step of the settings and the tour keeps the invariant.            *)
LEMMA TourNext == Settled /\ TourInv /\ [Tour!Next]_(Tour!vars) => TourInv'
<1> SUFFICES ASSUME Settled, TourInv, [Tour!Next]_(Tour!vars) PROVE TourInv'
  BY Zenon
<1>1. CASE UNCHANGED Tour!vars
  BY <1>1, Zenon DEF Tour!vars, TourInv, Tour!TypeOK, Addressed, TourOfSession, Tour!LaunchConfirmed
<1> QED
  BY <1>1, TourSession, TourRequests, TourScreen, Zenon DEF Tour!Next

(* Once an account closed its tour on a device, the tour is neither on the *)
(* screen nor about to come for it, whatever the node answers about the    *)
(* settings and however sessions, loads and saves follow each other        *)
(* (App.jsx, FirstRunOnboarding.jsx).                                      *)
THEOREM TourComesOnce == ASSUME Settled PROVE Tour!Spec => []Tour!TourOnce
<1>1. TourInv => Tour!TourOnce
  BY DEF TourInv, TourOfSession, Tour!TourOnce, Tour!TourOff
<1>2. Settled /\ Tour!Init => TourInv
  BY TourInit, Zenon
<1>3. Tour!Init => TourInv
  BY <1>2, Zenon
<1>4. TourInv /\ [Tour!Next]_(Tour!vars) => TourInv'
  BY TourNext
<1> QED
  BY <1>1, <1>3, <1>4, PTL DEF Tour!Spec

(* The last step of the tour is reached only with the backup confirmed,    *)
(* whichever way Weiter, Zurueck and the progress bar are taken            *)
(* (FirstRunOnboarding.jsx).                                               *)
THEOREM TourBackupFirst == ASSUME Settled PROVE Tour!Spec => []Tour!LaunchConfirmed
<1>1. TourInv => Tour!LaunchConfirmed
  BY Zenon DEF TourInv
<1>3. Tour!Init => TourInv
  BY TourInit, Zenon
<1>4. TourInv /\ [Tour!Next]_(Tour!vars) => TourInv'
  BY TourNext, Zenon
<1> QED
  BY <1>1, <1>3, <1>4, PTL DEF Tour!Spec

(* Settings, requests and tour keep their types, and every request under   *)
(* way belongs to an account, also when its answer arrives in another      *)
(* session (useEmails.js, the node's mail_settings).                       *)
THEOREM TourTypes == ASSUME Settled PROVE Tour!Spec => [](Tour!TypeOK /\ Addressed)
<1>1. TourInv => Tour!TypeOK /\ Addressed
  BY DEF TourInv
<1>3. Tour!Init => TourInv
  BY TourInit, Zenon
<1>4. TourInv /\ [Tour!Next]_(Tour!vars) => TourInv'
  BY TourNext, Zenon
<1> QED
  BY <1>1, <1>3, <1>4, PTL DEF Tour!Spec
===============================================================================
