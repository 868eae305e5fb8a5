----------------------- MODULE FederationReplayProofs -----------------------
(***************************************************************************)
(* Proofs about the two replay guards, for every number of requests and    *)
(* PDUs and every choice of the time constants that leaves AmpleWindow.    *)
(***************************************************************************)
EXTENDS FederationReplay, TLAPS

\* Second(t) is the quotient: t lies in the tick range of its second.
LEMMA Division ==
    ASSUME NEW t \in Nat
    PROVE  /\ Second(t) \in Nat
           /\ Second(t) * TicksPerSecond <= t
           /\ t < Second(t) * TicksPerSecond + TicksPerSecond
BY TicksAssumption DEF Second

\* Seconds a < b are at least TicksPerSecond ticks apart.
LEMMA Scale ==
    ASSUME NEW a \in Nat, NEW b \in Nat, a < b
    PROVE  a * TicksPerSecond + TicksPerSecond <= b * TicksPerSecond
PROOF
<1>1. b - a - 1 \in Nat /\ TicksPerSecond \in Nat BY TicksAssumption
<1>2. (b - a - 1) * TicksPerSecond \in Nat BY <1>1
<1>3. (b - a - 1) * TicksPerSecond = b * TicksPerSecond - a * TicksPerSecond - TicksPerSecond
  BY <1>1
<1>4. a * TicksPerSecond \in Nat /\ b * TicksPerSecond \in Nat BY <1>1
<1> QED BY <1>1, <1>2, <1>3, <1>4

\* A later instant is not in an earlier second.
LEMMA SecondMonotone ==
    ASSUME NEW a \in Nat, NEW b \in Nat, a <= b PROVE Second(a) <= Second(b)
PROOF
<1> SUFFICES ASSUME Second(b) < Second(a) PROVE FALSE BY Division
<1>1. Second(b) * TicksPerSecond + TicksPerSecond <= Second(a) * TicksPerSecond
  BY Division, Scale, Zenon
<1>2. TicksPerSecond \in Nat /\ Second(a) \in Nat /\ Second(b) \in Nat BY Division, TicksAssumption, Zenon
<1>3. Second(a) * TicksPerSecond \in Nat /\ Second(b) * TicksPerSecond \in Nat BY <1>2
<1> HIDE DEF Second
<1> QED BY <1>1, <1>2, <1>3, Division

\* Two hours of retention cover an hour of validity, the peer's clock skew,
\* the second that created_at rounds away and the life of a request.
AmpleWindow == (Ahead + 1) * TicksPerSecond + Patience <= HourTicks

Inside == {"claiming", "known", "error", "persisting", "persisted", "failed"}
Holding == {"persisting", "persisted", "failed", "recording", "releasing"}

\* A request between the two guards has its PDU in the processing map.
InMap == \A h \in Handlers : handler[h].pc \in Inside => handler[h].pdu \in processing

\* A request started in the past, with a PDU that was fresh then.
Started ==
    \A h \in Handlers : handler[h] # Idle =>
        /\ handler[h].since <= clock
        /\ Fresh(handler[h].pdu, handler[h].since)
        /\ handler[h].pdu.created <= Second(handler[h].since) + Ahead

\* A connected request with a claim has the row, for longer than it lives,
\* and is alone with it.
HasRow ==
    \A h \in Handlers : handler[h].pc \in Holding /\ Connected(h) =>
        /\ guard[handler[h].pdu].status = "processing"
        /\ guard[handler[h].pdu].until >= handler[h].since + Lease
HasRowAlone ==
    \A g, h \in Handlers :
        /\ handler[g].pc \in Holding /\ Connected(g)
        /\ handler[h].pc \in Holding /\ Connected(h)
        /\ handler[g].pdu = handler[h].pdu
        => g = h

\* No request that started while p was fresh is still connected.
Expired(p) == \A s \in Nat : p.created >= Second(s) - Hour => s + Patience < clock

\* A recorded PDU is in the table as completed, or is out of its window; and
\* no connected request is about to store it.
Remembered ==
    \A p \in recorded :
        \/ guard[p].status = "completed" /\ p.created <= Second(guard[p].at) + Ahead
        \/ Expired(p)
NotPersisting ==
    \A p \in recorded, h \in Handlers :
        handler[h].pc = "persisting" /\ handler[h].pdu = p => ~Connected(h)

IInv ==
    TypeOK /\ InMap /\ SinglePersister /\ Started /\ HasRow /\ HasRowAlone
    /\ Remembered /\ NotPersisting

\* The constants, with the types that the steps need.
LEMMA Constants ==
    /\ Hour \in Nat \ {0} /\ Ahead \in Nat /\ Ahead <= Hour /\ Lease \in Nat \ {0}
    /\ Patience \in Nat /\ Patience < Lease /\ Horizon \in Nat
    /\ TicksPerSecond \in Nat \ {0} /\ HourTicks \in Nat
    /\ \A p \in PDUs : p.created \in Nat /\ p.keyed \in BOOLEAN
BY ReplayAssumption, TicksAssumption DEF HourTicks

\* Deleting a completed row is safe: when its two hours are over, every
\* request that could have brought the PDU has ended.
LEMMA Window ==
    ASSUME AmpleWindow, NEW p \in PDUs, NEW at \in Nat, NEW c \in Nat,
           p.created <= Second(at) + Ahead, at < c - 2 * HourTicks,
           NEW s \in Nat, p.created >= Second(s) - Hour
    PROVE  s + Patience < c
PROOF
<1> DEFINE T == TicksPerSecond
<1>1. /\ T \in Nat \ {0} /\ Hour \in Nat /\ Ahead \in Nat /\ Patience \in Nat
      /\ Second(s) \in Nat /\ Second(at) \in Nat /\ p.created \in Nat
  BY Constants, Division, Zenon
<1>2. Second(s) < Second(at) + Ahead + Hour + 1 BY <1>1
<1>3. Second(s) * T + T <= (Second(at) + Ahead + Hour + 1) * T BY <1>1, <1>2, Scale
<1>4. (Second(at) + Ahead + Hour + 1) * T = Second(at) * T + (Ahead + 1) * T + Hour * T
  BY <1>1
<1>5. s < Second(s) * T + T /\ Second(at) * T <= at BY Division, Zenon
<1>6. (Ahead + 1) * T + Patience <= Hour * T /\ at < c - 2 * (Hour * T)
  BY Zenon DEF AmpleWindow, HourTicks
<1>7. /\ Second(s) * T \in Nat /\ Second(at) * T \in Nat /\ (Ahead + 1) * T \in Nat
      /\ Hour * T \in Nat
  BY <1>1
<1> QED BY <1>1, <1>3, <1>4, <1>5, <1>6, <1>7
-----------------------------------------------------------------------------
Tasks == [pc : Busy, pdu : PDUs, since : Nat]
Rows == {NoRow} \cup [status : {"processing"}, until : Nat] \cup [status : {"completed"}, at : Nat]

USE DEF Idle, NoRow, Never, Busy, Inside, Holding

\* A request that is under way is a record of Tasks.
LEMMA BusyTask ==
    ASSUME TypeOK, NEW h \in Handlers, handler[h].pc # "idle"
    PROVE  handler[h] \in Tasks /\ handler[h].pdu \in PDUs /\ handler[h].since \in Nat
BY DEF TypeOK, Tasks

\* Goto changes the control state of a request and nothing else of it.
LEMMA GotoTask ==
    ASSUME TypeOK, NEW h \in Handlers, handler[h].pc # "idle", NEW x \in Busy, Goto(h, x)
    PROVE  \E t \in Tasks : /\ handler' = [handler EXCEPT ![h] = t]
                            /\ t.pc = x /\ t.pdu = handler[h].pdu /\ t.since = handler[h].since
PROOF
<1>1. handler[h] \in Tasks BY BusyTask, Zenon
<1> DEFINE t == [handler[h] EXCEPT !.pc = x]
<1>2. t \in Tasks /\ t.pc = x /\ t.pdu = handler[h].pdu /\ t.since = handler[h].since
  BY <1>1, Zenon DEF Tasks
<1>3. handler' = [handler EXCEPT ![h] = t] BY Zenon DEF Goto, TypeOK
<1> HIDE DEF t
<1> QED BY <1>2, <1>3, Zenon

\* t is the next local state of request h: the end, or a later place with the
\* same PDU.
Moves(h, t) ==
    /\ handler' = [handler EXCEPT ![h] = t]
    /\ handler[h].pc # "idle"
    /\ t = Idle \/ (t \in Tasks /\ t.pdu = handler[h].pdu /\ t.since = handler[h].since)

\* Moving one request keeps the facts about the start of requests.
LEMMA MoveStarted ==
    ASSUME TypeOK, Started, NEW h \in Handlers, NEW t, Moves(h, t), UNCHANGED clock
    PROVE  /\ Started'
           /\ handler' \in [Handlers -> {Idle} \cup Tasks]
           /\ handler'[h] = t
           /\ \A g \in Handlers \ {h} : handler'[g] = handler[g]
           /\ \A g \in Handlers : handler'[g] # Idle => (Connected(g)' <=> Connected(g))
PROOF
<1>1. handler \in [Handlers -> {Idle} \cup Tasks] BY Zenon DEF TypeOK, Tasks
<1>2. /\ handler'[h] = t /\ \A g \in Handlers \ {h} : handler'[g] = handler[g]
      /\ handler' \in [Handlers -> {Idle} \cup Tasks]
  BY <1>1, Zenon DEF Moves
<1>3. \A g \in Handlers : handler'[g] # Idle =>
        handler[g] # Idle /\ handler'[g].since = handler[g].since /\ handler'[g].pdu = handler[g].pdu
  BY <1>1, <1>2 DEF Moves
<1>4. \A g \in Handlers : handler'[g] # Idle => (Connected(g)' <=> Connected(g))
  BY <1>3, Zenon DEF Connected
<1>5. Started' BY <1>3, Zenon DEF Started, Fresh
<1> QED BY <1>2, <1>4, <1>5, Zenon

\* Steps that leave the table alone and enter no claim.
LEMMA QuietStep ==
    ASSUME IInv, NEW h \in Handlers, NEW t, Moves(h, t), UNCHANGED <<clock, guard, recorded>>,
           t.pc \in Holding => handler[h].pc \in Holding,
           t.pc = "persisting" => handler[h].pc = "persisting"
    PROVE  HasRow' /\ HasRowAlone' /\ Remembered' /\ NotPersisting'
PROOF
<1>1. /\ handler'[h] = t
      /\ \A g \in Handlers \ {h} : handler'[g] = handler[g]
      /\ \A g \in Handlers : handler'[g] # Idle => (Connected(g)' <=> Connected(g))
  BY MoveStarted, Zenon DEF IInv
<1>2. \A g \in Handlers : handler'[g].pc \in Holding /\ Connected(g)' =>
        /\ handler[g].pc \in Holding /\ Connected(g)
        /\ handler'[g].pdu = handler[g].pdu /\ handler'[g].since = handler[g].since
  BY <1>1 DEF Moves
<1>3. \A g \in Handlers : handler'[g].pc = "persisting" =>
        handler[g].pc = "persisting" /\ handler'[g].pdu = handler[g].pdu
        /\ (Connected(g)' <=> Connected(g))
  BY <1>1 DEF Moves
<1>4. HasRow' BY <1>2, Zenon DEF IInv, HasRow
<1>5. HasRowAlone' BY <1>2, Zenon DEF IInv, HasRowAlone
<1>6. Remembered' BY Zenon DEF IInv, Remembered, Expired
<1>7. NotPersisting' BY <1>3, Zenon DEF IInv, NotPersisting
<1> QED BY <1>4, <1>5, <1>6, <1>7, Zenon

\* Steps that leave the processing map alone and enter no guarded region.
LEMMA MapKept ==
    ASSUME IInv, NEW h \in Handlers, NEW t, Moves(h, t), UNCHANGED processing,
           t.pc \in Inside => handler[h].pc \in Inside
    PROVE  InMap' /\ SinglePersister'
PROOF
<1>1. handler'[h] = t /\ \A g \in Handlers \ {h} : handler'[g] = handler[g]
  BY Zenon DEF Moves, IInv, TypeOK
<1>2. \A g \in Handlers : handler'[g].pc \in Inside =>
        handler[g].pc \in Inside /\ handler'[g].pdu = handler[g].pdu
  BY <1>1 DEF Moves
<1> QED BY <1>2 DEF IInv, InMap, SinglePersister

\* Steps that take their PDU out of the processing map.
LEMMA MapLeft ==
    ASSUME IInv, NEW h \in Handlers, NEW t, Moves(h, t), handler[h].pc \in Inside,
           t.pc \notin Inside, processing' = processing \ {handler[h].pdu}
    PROVE  InMap' /\ SinglePersister'
PROOF
<1>1. handler'[h] = t /\ \A g \in Handlers \ {h} : handler'[g] = handler[g]
  BY Zenon DEF Moves, IInv, TypeOK
<1>2. \A g \in Handlers : handler'[g].pc \in Inside =>
        g # h /\ handler[g].pc \in Inside /\ handler'[g] = handler[g]
  BY <1>1, Zenon
<1> QED BY <1>2 DEF IInv, InMap, SinglePersister
-----------------------------------------------------------------------------
\* The empty server satisfies the invariant.
LEMMA InitIInv == Init => IInv
BY Constants DEF Init, IInv, TypeOK, InMap, SinglePersister, Started, HasRow, HasRowAlone,
   Remembered, NotPersisting

\* Nothing the invariant is about is left out of vars.
LEMMA StutterIInv == IInv /\ UNCHANGED vars => IInv'
BY DEF vars, IInv, TypeOK, InMap, SinglePersister, Started, HasRow, HasRowAlone, Connected,
   Remembered, NotPersisting, Expired, Fresh

\* A request arrives with a PDU that is fresh now.
LEMMA ArriveIInv ==
    ASSUME IInv, NEW h \in Handlers, NEW p \in PDUs, Arrive(h, p) PROVE IInv'
PROOF
<1> DEFINE t == [pc |-> "arrived", pdu |-> p, since |-> clock]
<1> USE DEF IInv
<1>1. clock \in Nat BY Constants DEF TypeOK
<1>2. t \in Tasks BY <1>1, Zenon DEF Tasks
<1>3. handler' = [handler EXCEPT ![h] = t] /\ UNCHANGED <<clock, guard, processing, recorded>>
  BY Zenon DEF Arrive
<1>4. t.pc = "arrived" /\ t.pdu = p /\ t.since = clock /\ t # Idle BY Zenon
<1>5. TypeOK' BY <1>2, Zenon DEF TypeOK, Arrive, Tasks
<1> HIDE DEF t
<1>6. handler'[h] = t /\ \A g \in Handlers \ {h} : handler'[g] = handler[g]
  BY <1>3, Zenon DEF TypeOK
<1>7. \A g \in Handlers : handler'[g].pc \in Inside \cup Holding => handler'[g] = handler[g]
  BY <1>4, <1>6, Zenon
<1>8. \A g \in Handlers : handler'[g] = handler[g] => (Connected(g)' <=> Connected(g))
  BY <1>3, Zenon DEF Connected
<1>9. InMap' /\ SinglePersister' BY <1>3, <1>7 DEF InMap, SinglePersister
<1>10. Started'
  <2>1. Fresh(p, clock) /\ p.created <= Second(clock) + Ahead BY Zenon DEF Arrive
  <2>2. t.since <= clock' /\ Fresh(t.pdu, t.since) /\ t.pdu.created <= Second(t.since) + Ahead
    BY <1>1, <1>3, <1>4, <2>1
  <2> QED BY <1>3, <1>6, <2>2, Zenon DEF Started, Fresh
<1>11. HasRow' BY <1>3, <1>7, <1>8, Zenon DEF HasRow
<1>12. HasRowAlone' BY <1>7, <1>8, Zenon DEF HasRowAlone
<1>13. Remembered' BY <1>3, Zenon DEF Remembered, Expired
<1>14. NotPersisting' BY <1>3, <1>7, <1>8, Zenon DEF NotPersisting
<1> QED BY <1>5, <1>9, <1>10, <1>11, <1>12, <1>13, <1>14, Zenon

\* Purging the cache keeps its type.
LEMMA KeptType == TypeOK => Kept \in [PDUs -> Nat \cup {Never}]
BY Zenon DEF TypeOK, Kept

\* The parts of the invariant for a step that touches neither table nor the
\* set of recorded PDUs.
LEMMA QuietIInv ==
    ASSUME IInv, NEW h \in Handlers, NEW t, Moves(h, t), UNCHANGED <<clock, guard, recorded>>,
           t.pc \in Holding => handler[h].pc \in Holding,
           t.pc = "persisting" => handler[h].pc = "persisting",
           InMap', SinglePersister',
           processed' \in [PDUs -> Nat \cup {Never}], processing' \in SUBSET PDUs,
           saved' \in [PDUs -> Nat], accepted' \in SUBSET PDUs
    PROVE  IInv'
PROOF
<1>1. Started' /\ handler' \in [Handlers -> {Idle} \cup Tasks] BY MoveStarted, Zenon DEF IInv
<1>2. TypeOK' BY <1>1, Zenon DEF IInv, TypeOK, Tasks
<1> QED BY <1>1, <1>2, QuietStep, Zenon DEF IInv

\* A duplicate, or a full cache: the request ends.
LEMMA BeginEndIInv ==
    ASSUME IInv, NEW h \in Handlers, BeginDuplicate(h) \/ BeginFull(h) PROVE IInv'
PROOF
<1>1. Moves(h, Idle) /\ handler[h].pdu \in PDUs
  BY BusyTask, Zenon DEF BeginDuplicate, BeginFull, Finish, Moves, IInv
<1>2. InMap' /\ SinglePersister' BY <1>1, MapKept, Zenon DEF BeginDuplicate, BeginFull
<1> QED BY <1>1, <1>2, QuietIInv, KeptType, Zenon DEF BeginDuplicate, BeginFull, IInv, TypeOK

\* A PDU that is not in the map enters it, so no other request is inside.
LEMMA BeginIInv ==
    ASSUME IInv, NEW h \in Handlers, Begin(h) PROVE IInv'
PROOF
<1> USE DEF IInv
<1>1. PICK t \in Tasks : /\ handler' = [handler EXCEPT ![h] = t] /\ t.pc = "claiming"
                         /\ t.pdu = handler[h].pdu /\ t.since = handler[h].since
  BY GotoTask DEF Begin
<1>2. Moves(h, t) /\ handler[h].pdu \in PDUs BY <1>1, BusyTask, Zenon DEF Moves, Begin
<1>3. handler'[h] = t /\ \A g \in Handlers \ {h} : handler'[g] = handler[g]
  BY <1>1, Zenon DEF TypeOK
<1>4. handler[h].pdu \notin processing /\ processing' = processing \cup {handler[h].pdu}
  BY Zenon DEF Begin, Known
<1>5. InMap' BY <1>1, <1>3, <1>4 DEF InMap
<1>6. SinglePersister' BY <1>1, <1>3, <1>4 DEF SinglePersister, InMap
<1>7. processed' \in [PDUs -> Nat \cup {Never}] BY KeptType, Zenon DEF Begin
<1> QED BY <1>1, <1>2, <1>4, <1>5, <1>6, <1>7, QuietIInv, Zenon DEF Begin, TypeOK

\* A failed claim statement changes nothing but the request.
LEMMA ClaimErrorIInv ==
    ASSUME IInv, NEW h \in Handlers, ClaimError(h) PROVE IInv'
PROOF
<1>1. PICK t \in Tasks : /\ handler' = [handler EXCEPT ![h] = t] /\ t.pc = "error"
                         /\ t.pdu = handler[h].pdu /\ t.since = handler[h].since
  BY GotoTask DEF ClaimError, IInv
<1>2. Moves(h, t) BY <1>1, Zenon DEF Moves, ClaimError
<1>3. InMap' /\ SinglePersister' BY <1>1, <1>2, MapKept, Zenon DEF ClaimError
<1> QED BY <1>1, <1>2, <1>3, QuietIInv, Zenon DEF ClaimError, IInv, TypeOK

\* Leaving the map after an unsuccessful claim.
LEMMA WithdrawIInv ==
    ASSUME IInv, NEW h \in Handlers, Withdraw(h) PROVE IInv'
PROOF
<1>1. Moves(h, Idle) /\ handler[h].pdu \in PDUs
  BY BusyTask, Zenon DEF Withdraw, Finish, Moves, IInv
<1>2. InMap' /\ SinglePersister' BY <1>1, MapLeft, Zenon DEF Withdraw
<1> QED BY <1>1, <1>2, QuietIInv, Zenon DEF Withdraw, IInv, TypeOK

\* Storing the PDU, or failing to.
LEMMA PersistIInv ==
    ASSUME IInv, NEW h \in Handlers, Persist(h) \/ PersistError(h) PROVE IInv'
PROOF
<1>1. PICK t \in Tasks : /\ handler' = [handler EXCEPT ![h] = t] /\ t.pc \in {"persisted", "failed"}
                         /\ t.pdu = handler[h].pdu /\ t.since = handler[h].since
  BY GotoTask DEF Persist, PersistError, IInv
<1>2. Moves(h, t) /\ handler[h].pc = "persisting" BY <1>1, Zenon DEF Moves, Persist, PersistError
<1>3. InMap' /\ SinglePersister' BY <1>1, <1>2, MapKept, Zenon DEF Persist, PersistError
<1>4. saved' \in [PDUs -> Nat] BY DEF Persist, PersistError, IInv, TypeOK
<1> QED BY <1>1, <1>2, <1>3, <1>4, QuietIInv, Zenon DEF Persist, PersistError, IInv, TypeOK

\* The memory half of finishPDUProcessing.
LEMMA SettleIInv ==
    ASSUME IInv, NEW h \in Handlers, Settle(h) PROVE IInv'
PROOF
<1>1. PICK t \in Tasks : /\ handler' = [handler EXCEPT ![h] = t] /\ t.pc \in {"recording", "releasing"}
                         /\ t.pdu = handler[h].pdu /\ t.since = handler[h].since
  BY GotoTask DEF Settle, IInv
<1>2. Moves(h, t) /\ handler[h].pc \in {"persisted", "failed"} BY <1>1, Zenon DEF Moves, Settle
<1>3. InMap' /\ SinglePersister' BY <1>1, <1>2, MapLeft, Zenon DEF Settle
<1>4. processed' \in [PDUs -> Nat \cup {Never}] BY Constants DEF Settle, IInv, TypeOK
<1> QED BY <1>1, <1>2, <1>3, <1>4, QuietIInv, Zenon DEF Settle, IInv, TypeOK

\* A failed statement of the table half.
LEMMA FinishErrorIInv ==
    ASSUME IInv, NEW h \in Handlers, RecordError(h) \/ ReleaseError(h) PROVE IInv'
PROOF
<1>1. Moves(h, Idle) BY Zenon DEF RecordError, ReleaseError, Finish, Moves
<1>2. InMap' /\ SinglePersister' BY <1>1, MapKept, Zenon DEF RecordError, ReleaseError
<1> QED BY <1>1, <1>2, QuietIInv, Zenon DEF RecordError, ReleaseError, IInv, TypeOK
-----------------------------------------------------------------------------
\* The statement that deletes old rows keeps what HasRow and Remembered say.
LEMMA RetainedKeeps ==
    ASSUME AmpleWindow, IInv
    PROVE  /\ Retained \in [PDUs -> Rows]
           /\ \A q \in PDUs : guard[q].status = "processing" => Retained[q] = guard[q]
           /\ \A q \in recorded :
                 \/ Retained[q].status = "completed" /\ q.created <= Second(Retained[q].at) + Ahead
                 \/ Expired(q)
PROOF
<1>1. guard \in [PDUs -> Rows] /\ recorded \in SUBSET PDUs /\ clock \in Nat
  BY Constants DEF IInv, TypeOK, Rows
<1>2. Retained \in [PDUs -> Rows] BY <1>1, Zenon DEF Retained, Rows
<1>3. \A q \in PDUs : guard[q].status = "processing" => Retained[q] = guard[q]
  BY Zenon DEF Retained
<1>4. ASSUME NEW q \in recorded
      PROVE  \/ Retained[q].status = "completed" /\ q.created <= Second(Retained[q].at) + Ahead
             \/ Expired(q)
  <2>1. q \in PDUs BY <1>1, Zenon
  <2>2. CASE Retained[q] = guard[q] BY <2>2, Zenon DEF IInv, Remembered
  <2>3. CASE Retained[q] # guard[q]
    <3>1. guard[q].status = "completed" /\ guard[q].at < clock - 2 * HourTicks
      BY <2>1, <2>3, Zenon DEF Retained
    <3>2. guard[q].at \in Nat BY <1>1, <2>1, <3>1 DEF Rows
    <3>3. CASE q.created <= Second(guard[q].at) + Ahead
      BY <1>1, <2>1, <3>1, <3>2, <3>3, Window, Zenon DEF Expired
    <3> QED BY <3>3, Zenon DEF IInv, Remembered
  <2> QED BY <2>2, <2>3, Zenon
<1> QED BY <1>2, <1>3, <1>4, Zenon

\* A row is free for a request only when no connected request has it.
LEMMA FreeRow ==
    ASSUME IInv, NEW p \in PDUs, Free(Retained[p]),
           NEW g \in Handlers, handler[g].pc \in Holding, Connected(g)
    PROVE  handler[g].pdu # p
PROOF
<1> SUFFICES ASSUME handler[g].pdu = p PROVE FALSE BY Zenon
<1>1. guard[p].status = "processing" /\ guard[p].until >= handler[g].since + Lease
  BY Zenon DEF IInv, HasRow
<1>2. Retained[p] = guard[p] BY <1>1, Zenon DEF Retained
<1>3. guard[p].until < clock BY <1>1, <1>2, Zenon DEF Free
<1>4. guard[p].until \in Nat BY <1>1 DEF IInv, TypeOK
<1>5. handler[g].since \in Nat /\ clock \in Nat BY BusyTask, Constants DEF IInv, TypeOK
<1> QED BY <1>1, <1>3, <1>4, <1>5, Constants DEF Connected

\* Claiming: the claim is alone with the row, and never for a recorded PDU.
LEMMA ClaimIInv ==
    ASSUME AmpleWindow, IInv, NEW h \in Handlers, ClaimFederationPDU(h) PROVE IInv'
PROOF
<1> USE DEF IInv
<1> DEFINE p == handler[h].pdu
<1>1. p \in PDUs /\ handler[h].since \in Nat /\ clock \in Nat
  BY BusyTask, Constants DEF ClaimFederationPDU, TypeOK
<1>2. UNCHANGED <<clock, processed, processing, saved, recorded, accepted>> /\ Connected(h)
      /\ handler[h].pc = "claiming"
  BY Zenon DEF ClaimFederationPDU
<1>3. PICK t \in Tasks :
         /\ handler' = [handler EXCEPT ![h] = t] /\ t.pdu = p /\ t.since = handler[h].since
         /\ \/ t.pc = "persisting" /\ Free(Retained[p]) /\ guard' = [Retained EXCEPT ![p] = Claimed]
            \/ t.pc = "known" /\ guard' = Retained
  <2>1. CASE Free(Retained[p]) BY <2>1, GotoTask DEF ClaimFederationPDU
  <2>2. CASE ~Free(Retained[p]) BY <2>2, GotoTask DEF ClaimFederationPDU
  <2> QED BY <2>1, <2>2, Zenon
<1>4. Moves(h, t) BY <1>2, <1>3, Zenon DEF Moves
<1>5. /\ Started' /\ handler' \in [Handlers -> {Idle} \cup Tasks] /\ handler'[h] = t
      /\ \A g \in Handlers \ {h} : handler'[g] = handler[g]
      /\ \A g \in Handlers : handler'[g] # Idle => (Connected(g)' <=> Connected(g))
  BY <1>2, <1>4, MoveStarted, Zenon
<1>6. InMap' /\ SinglePersister' BY <1>2, <1>3, <1>4, MapKept, Zenon
<1>7. /\ Retained \in [PDUs -> Rows]
      /\ \A q \in PDUs : guard[q].status = "processing" => Retained[q] = guard[q]
      /\ \A q \in recorded :
            \/ Retained[q].status = "completed" /\ q.created <= Second(Retained[q].at) + Ahead
            \/ Expired(q)
  BY RetainedKeeps, Zenon
<1>8. /\ Claimed \in Rows /\ Claimed.status = "processing"
      /\ Claimed.until >= handler[h].since + Lease
  BY <1>1, <1>2, Constants DEF Claimed, Rows, Started
<1>9. TypeOK'
  <2>1. guard' \in [PDUs -> Rows] BY <1>3, <1>7, <1>8, Zenon
  <2> QED BY <1>2, <1>5, <2>1, Zenon DEF TypeOK, Tasks, Rows
<1>10. \A g \in Handlers \ {h} : handler'[g].pc \in Holding /\ Connected(g)' =>
         /\ handler[g].pc \in Holding /\ Connected(g) /\ handler'[g] = handler[g]
         /\ handler[g].pdu \in PDUs
         /\ Free(Retained[p]) => handler[g].pdu # p
  <2> SUFFICES ASSUME NEW g \in Handlers \ {h}, handler'[g].pc \in Holding, Connected(g)'
               PROVE  /\ handler[g].pc \in Holding /\ Connected(g) /\ handler'[g] = handler[g]
                      /\ handler[g].pdu \in PDUs
                      /\ Free(Retained[p]) => handler[g].pdu # p
    BY Zenon
  <2>1. handler'[g] = handler[g] /\ handler[g].pc \in Holding /\ Connected(g) BY <1>5
  <2>2. handler[g].pdu \in PDUs BY <2>1, BusyTask, Zenon
  <2> QED BY <1>1, <2>1, <2>2, FreeRow, Zenon
<1>11. HasRow'
  <2> SUFFICES ASSUME NEW g \in Handlers, handler'[g].pc \in Holding, Connected(g)'
               PROVE  /\ guard'[handler'[g].pdu].status = "processing"
                      /\ guard'[handler'[g].pdu].until >= handler'[g].since + Lease
    BY Zenon DEF HasRow
  <2>1. CASE g = h BY <2>1, <1>1, <1>3, <1>5, <1>7, <1>8
  <2>2. CASE g # h
    <3>1. /\ handler[g].pc \in Holding /\ Connected(g) /\ handler'[g] = handler[g]
          /\ handler[g].pdu \in PDUs /\ (Free(Retained[p]) => handler[g].pdu # p)
      BY <2>2, <1>10, Zenon
    <3>2. guard[handler[g].pdu].status = "processing"
          /\ guard[handler[g].pdu].until >= handler[g].since + Lease
      BY <3>1, Zenon DEF HasRow
    <3>3. guard'[handler[g].pdu] = guard[handler[g].pdu] BY <1>1, <1>3, <1>7, <3>1, <3>2, Zenon
    <3> QED BY <3>1, <3>2, <3>3, Zenon
  <2> QED BY <2>1, <2>2, Zenon
<1>12. HasRowAlone'
  <2> SUFFICES ASSUME NEW f \in Handlers, NEW g \in Handlers, handler'[f].pc \in Holding, Connected(f)',
                      handler'[g].pc \in Holding, Connected(g)', handler'[f].pdu = handler'[g].pdu,
                      f # g
               PROVE  FALSE
    BY Zenon DEF HasRowAlone
  <2>1. CASE f # h /\ g # h BY <2>1, <1>10, Zenon DEF HasRowAlone
  <2>2. CASE f = h BY <2>2, <1>3, <1>5, <1>10, Zenon
  <2>3. CASE g = h BY <2>3, <1>3, <1>5, <1>10, Zenon
  <2> QED BY <2>1, <2>2, <2>3, Zenon
<1>13. Free(Retained[p]) => p \notin recorded
  <2> SUFFICES ASSUME Free(Retained[p]), p \in recorded PROVE FALSE BY Zenon
  <2>1. Expired(p) BY <1>7, Zenon DEF Free
  <2>2. p.created >= Second(handler[h].since) - Hour BY <1>2 DEF Started, Fresh
  <2>3. handler[h].since + Patience < clock BY <1>1, <2>1, <2>2, Zenon DEF Expired
  <2> QED BY <1>1, <1>2, <2>3, Constants DEF Connected
<1>14. Remembered'
  <2>1. \A q \in recorded : guard'[q] = Retained[q]
    BY <1>3, <1>7, <1>13, Zenon DEF TypeOK
  <2>2. \A q \in recorded : Expired(q)' <=> Expired(q) BY <1>2, Zenon DEF Expired
  <2> QED BY <1>2, <1>7, <2>1, <2>2, Zenon DEF Remembered
<1>15. NotPersisting'
  <2> SUFFICES ASSUME NEW q \in recorded, NEW g \in Handlers, handler'[g].pc = "persisting",
                      handler'[g].pdu = q
               PROVE  ~Connected(g)'
    BY <1>2, Zenon DEF NotPersisting
  <2>1. CASE g = h BY <2>1, <1>3, <1>5, <1>13, Zenon
  <2>2. CASE g # h BY <2>2, <1>5 DEF NotPersisting
  <2> QED BY <2>1, <2>2, Zenon
<1> QED BY <1>5, <1>6, <1>9, <1>11, <1>12, <1>14, <1>15, Zenon

\* Complete and Release: the row changes, and no other connected request has
\* it.
LEMMA EndClaimIInv ==
    ASSUME IInv, NEW h \in Handlers, Record(h) \/ Release(h) PROVE IInv'
PROOF
<1> USE DEF IInv
<1> DEFINE p == handler[h].pdu
           completed == [status |-> "completed", at |-> clock]
<1>1. p \in PDUs /\ handler[h].since \in Nat /\ clock \in Nat
  BY BusyTask, Constants DEF Record, Release, TypeOK
<1>2. /\ handler[h].pc \in {"recording", "releasing"} /\ Connected(h)
      /\ UNCHANGED <<clock, processed, processing, saved>>
  BY Zenon DEF Record, Release
<1>3. Moves(h, Idle) BY Zenon DEF Record, Release, Finish, Moves
<1>4. /\ Started' /\ handler' \in [Handlers -> {Idle} \cup Tasks] /\ handler'[h] = Idle
      /\ \A g \in Handlers \ {h} : handler'[g] = handler[g]
      /\ \A g \in Handlers : handler'[g] # Idle => (Connected(g)' <=> Connected(g))
  BY <1>2, <1>3, MoveStarted, Zenon
<1>5. InMap' /\ SinglePersister' BY <1>2, <1>3, MapKept, Zenon
<1>6. completed \in Rows /\ completed.status = "completed" /\ completed.at = clock BY <1>1, Zenon DEF Rows
<1>7. \/ /\ guard' = [guard EXCEPT ![p] = completed] /\ recorded' = recorded \cup {p}
         /\ accepted' = accepted \cup {p}
      \/ /\ guard' = [guard EXCEPT ![p] = NoRow] /\ UNCHANGED <<recorded, accepted>>
  <2>1. guard[p].status = "processing" BY <1>2, Zenon DEF HasRow
  <2> QED BY <2>1, <1>1, Zenon DEF Record, Release, TypeOK
<1> HIDE DEF completed
<1>8. TypeOK'
  <2>1. guard' \in [PDUs -> Rows] BY <1>6, <1>7, Zenon DEF TypeOK, Rows
  <2> QED BY <1>1, <1>2, <1>4, <1>7, <2>1, Zenon DEF TypeOK, Tasks, Rows
<1>9. \A g \in Handlers : handler'[g].pc \in Holding /\ Connected(g)' =>
        /\ handler[g].pc \in Holding /\ Connected(g) /\ handler'[g] = handler[g]
        /\ handler[g].pdu # p
  BY <1>2, <1>4 DEF HasRowAlone
<1>10. HasRow' BY <1>7, <1>9 DEF HasRow, TypeOK
<1>11. HasRowAlone' BY <1>9, Zenon DEF HasRowAlone
<1>12. guard[p].status = "processing" BY <1>2, Zenon DEF HasRow
<1>13. p.created <= Second(clock) + Ahead
  <2>1. p.created <= Second(handler[h].since) + Ahead /\ handler[h].since <= clock
    BY <1>2 DEF Started
  <2>2. Second(handler[h].since) <= Second(clock) BY <1>1, <2>1, SecondMonotone, Zenon
  <2>3. Second(handler[h].since) \in Nat /\ Second(clock) \in Nat BY <1>1, Division, Zenon
  <2> QED BY <1>1, <2>1, <2>2, <2>3, Constants
<1>14. Remembered'
  <2> SUFFICES ASSUME NEW q \in recorded'
               PROVE  \/ guard'[q].status = "completed" /\ q.created <= Second(guard'[q].at) + Ahead
                      \/ Expired(q)'
    BY Zenon DEF Remembered
  <2>1. Expired(q)' <=> Expired(q) BY <1>2, Zenon DEF Expired
  <2>2. CASE q = p /\ p \notin recorded
    BY <2>2, <1>1, <1>6, <1>7, <1>13, Zenon DEF TypeOK
  <2>3. CASE q = p /\ p \in recorded BY <2>1, <2>3, <1>12, Zenon DEF Remembered
  <2>4. CASE q # p
    <3>1. q \in recorded /\ guard'[q] = guard[q] BY <2>4, <1>7, Zenon DEF TypeOK
    <3> QED BY <3>1, <2>1, Zenon DEF Remembered
  <2> QED BY <2>2, <2>3, <2>4, Zenon
<1>15. NotPersisting'
  <2> SUFFICES ASSUME NEW q \in recorded', NEW g \in Handlers, handler'[g].pc = "persisting",
                      handler'[g].pdu = q, Connected(g)'
               PROVE  FALSE
    BY Zenon DEF NotPersisting
  <2>1. handler[g].pc = "persisting" /\ Connected(g) /\ handler[g].pdu = q /\ q # p BY <1>9, Zenon
  <2> QED BY <1>7, <2>1, Zenon DEF NotPersisting
<1> QED BY <1>4, <1>5, <1>8, <1>10, <1>11, <1>14, <1>15, Zenon

\* After a crash no request is under way.
LEMMA CrashIInv == IInv /\ Crash => IInv'
PROOF
<1> SUFFICES ASSUME IInv, Crash PROVE IInv' BY Zenon
<1> USE DEF IInv
<1>1. \A h \in Handlers : handler'[h] = Idle BY Zenon DEF Crash
<1>2. TypeOK' BY Zenon DEF Crash, TypeOK
<1>3. Remembered' BY Zenon DEF Crash, Remembered, Expired
<1>4. InMap' /\ SinglePersister' /\ Started' /\ HasRow' /\ HasRowAlone' /\ NotPersisting'
  BY <1>1 DEF InMap, SinglePersister, Started, HasRow, HasRowAlone, NotPersisting
<1> QED BY <1>2, <1>3, <1>4, Zenon

\* Time only disconnects requests and expires PDUs.
LEMMA TickIInv == IInv /\ Tick => IInv'
PROOF
<1> SUFFICES ASSUME IInv, Tick PROVE IInv' BY Zenon
<1> USE DEF IInv
<1>1. clock \in Nat /\ clock' = clock + 1
      /\ UNCHANGED <<processed, processing, guard, handler, saved, recorded, accepted>>
  BY Constants DEF Tick, TypeOK
<1>2. TypeOK' BY <1>1, Constants DEF Tick, TypeOK
<1>3. \A h \in Handlers : handler[h].pc \in Holding /\ Connected(h)' => Connected(h)
  <2> SUFFICES ASSUME NEW h \in Handlers, handler[h].pc \in Holding, Connected(h)' PROVE Connected(h)
    BY Zenon
  <2>1. handler[h].since \in Nat BY BusyTask, Zenon
  <2> QED BY <1>1, <2>1, Constants DEF Connected
<1>4. InMap' /\ SinglePersister' BY <1>1, Zenon DEF InMap, SinglePersister
<1>5. Started'
  <2> SUFFICES ASSUME NEW h \in Handlers, handler[h] # Idle PROVE handler[h].since <= clock'
    BY <1>1, Zenon DEF Started, Fresh
  <2>1. handler[h].since \in Nat BY Zenon DEF TypeOK
  <2> QED BY <1>1, <2>1 DEF Started
<1>6. HasRow' BY <1>1, <1>3, Zenon DEF HasRow
<1>7. HasRowAlone' BY <1>1, <1>3, Zenon DEF HasRowAlone
<1>8. \A p \in recorded : Expired(p) => Expired(p)' BY <1>1, Constants DEF Expired
<1>9. Remembered' BY <1>1, <1>8, Zenon DEF Remembered
<1>10. NotPersisting' BY <1>1, <1>3, Zenon DEF NotPersisting
<1> QED BY <1>2, <1>4, <1>5, <1>6, <1>7, <1>9, <1>10, Zenon

\* The invariant is inductive.
LEMMA NextIInv == AmpleWindow /\ IInv /\ [Next]_vars => IInv'
BY StutterIInv, ArriveIInv, BeginEndIInv, BeginIInv, ClaimIInv, ClaimErrorIInv, WithdrawIInv,
   PersistIInv, SettleIInv, EndClaimIInv, FinishErrorIInv, CrashIInv, TickIInv, Zenon
DEF Next, Step

\* The invariant holds in every behaviour when the window is ample.
THEOREM ReplayInvariant == AmpleWindow /\ Spec => []IInv
PROOF
<1>1. ASSUME AmpleWindow PROVE Spec => []IInv
  <2>1. IInv /\ [Next]_vars => IInv' BY <1>1, NextIInv, Zenon
  <2> QED BY <2>1, InitIInv, PTL DEF Spec
<1> QED BY <1>1, Zenon

\* Handlers, the replay map, the replay table and the clock keep their types.
THEOREM ReplayTypes == AmpleWindow /\ Spec => []TypeOK
BY ReplayInvariant, PTL DEF IInv

\* Spec => []SinglePersister: two requests never process one PDU at a time.
THEOREM ReplaySinglePersister == AmpleWindow /\ Spec => []SinglePersister
BY ReplayInvariant, PTL DEF IInv

\* A PDU whose completion is recorded is known as long as it is fresh.
THEOREM ReplayKnownWhileFresh == AmpleWindow /\ Spec => []KnownWhileFresh
PROOF
<1>1. ASSUME AmpleWindow, IInv PROVE KnownWhileFresh
  <2> SUFFICES ASSUME NEW p \in recorded, Fresh(p, clock) PROVE ~Free(Retained[p])
    BY Zenon DEF KnownWhileFresh
  <2>1. p \in PDUs /\ clock \in Nat BY <1>1, Constants DEF IInv, TypeOK
  <2>2. ~Expired(p)
    <3>1. p.created >= Second(clock) - Hour BY Zenon DEF Fresh
    <3>2. ~(clock + Patience < clock) BY <2>1, Constants
    <3> QED BY <2>1, <3>1, <3>2, Zenon DEF Expired
  <2>3. Retained[p].status = "completed" BY <1>1, <2>2, RetainedKeeps, Zenon
  <2> QED BY <2>3, Zenon DEF Free
<1>2. ASSUME AmpleWindow PROVE Spec => []KnownWhileFresh
  <2>1. IInv => KnownWhileFresh BY <1>1, <1>2, Zenon
  <2>2. Spec => []IInv BY <1>2, ReplayInvariant, Zenon
  <2> QED BY <2>1, <2>2, PTL
<1> QED BY <1>2, Zenon

\* Once recorded, a PDU is never stored again.
THEOREM ReplayRecordedIsFinal == AmpleWindow /\ Spec => RecordedIsFinal
PROOF
<1> DEFINE A == \A p \in recorded : saved'[p] = saved[p]
<1>1. ASSUME IInv, Next PROVE A
  <2>1. ASSUME NEW h \in Handlers, Persist(h) PROVE A
    <3>1. handler[h].pc = "persisting" /\ Connected(h) BY <2>1, Zenon DEF Persist
    <3>2. handler[h].pdu \notin recorded BY <1>1, <3>1, Zenon DEF IInv, NotPersisting
    <3> QED BY <1>1, <2>1, <3>2, Zenon DEF Persist, IInv, TypeOK
  <2>2. CASE UNCHANGED saved BY <2>2, Zenon
  <2> QED
    BY <1>1, <2>1, <2>2 DEF Next, Step, Arrive, BeginDuplicate, BeginFull, Begin, ClaimFederationPDU,
       ClaimError, Withdraw, PersistError, Settle, Record, RecordError, Release, ReleaseError,
       Crash, Tick
<1>2. IInv /\ [Next]_vars => [A]_vars BY <1>1, Zenon
<1>3. ASSUME AmpleWindow PROVE Spec => RecordedIsFinal
  <2>1. Spec => []IInv BY <1>3, ReplayInvariant, Zenon
  <2> QED BY <1>2, <2>1, PTL DEF Spec, RecordedIsFinal
<1> QED BY <1>3, ZenonT(30)
=============================================================================
