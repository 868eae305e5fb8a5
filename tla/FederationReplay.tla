-------------------------- MODULE FederationReplay --------------------------
(***************************************************************************)
(* Receiving federation PDUs: Service.SaveIncomingPDU with its two replay  *)
(* guards, the in-memory maps of the process and the durable table         *)
(* federation_replay_guard.                                                *)
(*                                                                         *)
(* Each HTTP request is a handler.  Its database calls run under the       *)
(* request's context, which the server cancels when the peer hangs up, and *)
(* the peer hangs up after Patience: from then on every call fails, the    *)
(* release of the claim included.  Times are ticks; created_at is a whole  *)
(* second.  The guard's times are bound as time.Time, whose text sorts in  *)
(* time order, so they are compared as numbers.                            *)
(***************************************************************************)
EXTENDS SqlTime, FiniteSets

CONSTANTS
    PDUs,       \* records with id, created (seconds) and keyed: stored under
                \* an id of its own (GSN), not under a fresh envelope id
    Handlers,   \* concurrent requests
    Hour,       \* seconds: timestamp skew allowed, age limit of the cache
    Ahead,      \* seconds a peer's clock may be ahead of this server's
    Lease,      \* ticks a processing claim is valid for (5 minutes)
    Patience,   \* ticks after which a peer has given up its request
    Capacity,   \* entries the in-memory cache may hold (50000)
    Horizon     \* bound on the clock

ASSUME ReplayAssumption ==
    /\ Hour \in Nat \ {0}
    /\ Ahead \in 0..Hour
    /\ Lease \in Nat \ {0}
    /\ Patience \in Nat /\ Patience < Lease
    /\ Capacity \in Nat \ {0}
    /\ Horizon \in Nat
    /\ \A p \in PDUs : p.created \in Nat /\ p.keyed \in BOOLEAN

VARIABLES
    clock,
    processed,   \* processedPDUs: when the process completed each PDU
    processing,  \* processingPDUs
    guard,       \* table federation_replay_guard
    handler,     \* what each request is doing
    saved,       \* copies of each PDU in the message store
    recorded,    \* PDUs whose completion the table has recorded at some time
    accepted     \* PDUs answered with status "accepted"

vars == <<clock, processed, processing, guard, handler, saved, recorded, accepted>>

Never == -1
NoRow == [status |-> "none"]
Idle == [pc |-> "idle"]
HourTicks == Hour * TicksPerSecond

Init ==
    /\ clock = 0
    /\ processed = [p \in PDUs |-> Never]
    /\ processing = {}
    /\ guard = [p \in PDUs |-> NoRow]
    /\ handler = [h \in Handlers |-> Idle]
    /\ saved = [p \in PDUs |-> 0]
    /\ recorded = {}
    /\ accepted = {}
-----------------------------------------------------------------------------
Goto(h, pc) == handler' = [handler EXCEPT ![h].pc = pc]
Finish(h) == handler' = [handler EXCEPT ![h] = Idle]

\* The request context is still alive.
Connected(h) == clock - handler[h].since <= Patience

\* validateIncomingPDUShape, the part that depends on the time.
Fresh(p, now) ==
    /\ p.created >= Second(now) - Hour
    /\ p.created <= Second(now) + Hour

\* SaveIncomingPDU starts, with a PDU that passes the timestamp check.  Any
\* other PDU is refused here and nothing changes.  The peer has stamped the
\* PDU before it sent it, with a clock at most Ahead seconds fast.
Arrive(h, p) ==
    /\ handler[h].pc = "idle"
    /\ p.created <= Second(clock) + Ahead
    /\ Fresh(p, clock)
    /\ handler' = [handler EXCEPT ![h] = [pc |-> "arrived", pdu |-> p, since |-> clock]]
    /\ UNCHANGED <<clock, processed, processing, guard, saved, recorded, accepted>>

\* beginPDUProcessing, under pduMutex: entries older than an hour leave the
\* cache, and then the PDU is a duplicate, or the cache is full, or the PDU
\* is this handler's to process.
Kept == [q \in PDUs |-> IF processed[q] # Never /\ clock - processed[q] > HourTicks
                        THEN Never ELSE processed[q]]
\* Deviant: only completed PDUs count as known.
KnownCompleted(p) == Kept[p] # Never
Known(p) == Kept[p] # Never \/ p \in processing
Full == Cardinality({q \in PDUs : Kept[q] # Never}) >= Capacity

BeginDuplicate(h) ==
    /\ handler[h].pc = "arrived"
    /\ Known(handler[h].pdu)
    /\ processed' = Kept
    /\ accepted' = accepted \cup {handler[h].pdu}
    /\ Finish(h)
    /\ UNCHANGED <<clock, processing, guard, saved, recorded>>

BeginFull(h) ==
    /\ handler[h].pc = "arrived"
    /\ ~Known(handler[h].pdu) /\ Full
    /\ processed' = Kept
    /\ Finish(h)
    /\ UNCHANGED <<clock, processing, guard, saved, recorded, accepted>>

Begin(h) ==
    /\ handler[h].pc = "arrived"
    /\ ~Known(handler[h].pdu) /\ ~Full
    /\ processed' = Kept
    /\ processing' = processing \cup {handler[h].pdu}
    /\ Goto(h, "claiming")
    /\ UNCHANGED <<clock, guard, saved, recorded, accepted>>
-----------------------------------------------------------------------------
\* Deviant: the table forgets completed PDUs as early as the cache does.
RetainedOneHour == [q \in PDUs |-> IF guard[q].status = "completed" /\ guard[q].at < clock - HourTicks
                                   THEN NoRow ELSE guard[q]]
\* Deviant: a completed row may be claimed again.
FreeUnlessProcessing(row) == row.status # "processing" \/ row.until < clock
\* Deviant: the end of the lease is computed backwards.
ClaimedBackwards == [status |-> "processing", until |-> clock - Lease]

\* ClaimFederationPDU: completed rows older than two hours are deleted, then
\* the PDU's row is inserted, or taken over when its lease has passed.
Retained == [q \in PDUs |-> IF guard[q].status = "completed" /\ guard[q].at < clock - 2 * HourTicks
                            THEN NoRow ELSE guard[q]]
Free(row) == row.status = "none" \/ (row.status = "processing" /\ row.until < clock)
Claimed == [status |-> "processing", until |-> clock + Lease]

ClaimFederationPDU(h) ==
    LET p == handler[h].pdu IN
    /\ handler[h].pc = "claiming"
    /\ Connected(h)
    /\ IF Free(Retained[p])
       THEN guard' = [Retained EXCEPT ![p] = Claimed] /\ Goto(h, "persisting")
       ELSE guard' = Retained /\ Goto(h, "known")
    /\ UNCHANGED <<clock, processed, processing, saved, recorded, accepted>>

ClaimError(h) ==
    /\ handler[h].pc = "claiming"
    /\ Goto(h, "error")
    /\ UNCHANGED <<clock, processed, processing, guard, saved, recorded, accepted>>

\* beginPDUProcessing leaves the processing map again: the PDU was claimed
\* before, which is answered like success, or the claim failed.
Withdraw(h) ==
    /\ handler[h].pc \in {"known", "error"}
    /\ processing' = processing \ {handler[h].pdu}
    /\ accepted' = IF handler[h].pc = "known" THEN accepted \cup {handler[h].pdu} ELSE accepted
    /\ Finish(h)
    /\ UNCHANGED <<clock, processed, guard, saved, recorded>>
-----------------------------------------------------------------------------
\* persistIncomingPDU: one transaction.  A message is stored under a fresh
\* id; a GSN object keeps its own id, and a second insert is ignored.
Persist(h) ==
    LET p == handler[h].pdu IN
    /\ handler[h].pc = "persisting"
    /\ Connected(h)
    /\ saved' = [saved EXCEPT ![p] = IF p.keyed THEN 1 ELSE @ + 1]
    /\ Goto(h, "persisted")
    /\ UNCHANGED <<clock, processed, processing, guard, recorded, accepted>>

PersistError(h) ==
    /\ handler[h].pc = "persisting"
    /\ Goto(h, "failed")
    /\ UNCHANGED <<clock, processed, processing, guard, saved, recorded, accepted>>

\* finishPDUProcessing, first half, under pduMutex.
Settle(h) ==
    LET p == handler[h].pdu IN
    /\ handler[h].pc \in {"persisted", "failed"}
    /\ processing' = processing \ {p}
    /\ IF handler[h].pc = "persisted"
       THEN processed' = [processed EXCEPT ![p] = clock] /\ Goto(h, "recording")
       ELSE Goto(h, "releasing") /\ UNCHANGED processed
    /\ UNCHANGED <<clock, guard, saved, recorded, accepted>>

\* finishPDUProcessing, second half: CompleteFederationPDU.
Record(h) ==
    LET p == handler[h].pdu IN
    /\ handler[h].pc = "recording"
    /\ Connected(h)
    /\ guard[p].status = "processing"
    /\ guard' = [guard EXCEPT ![p] = [status |-> "completed", at |-> clock]]
    /\ recorded' = recorded \cup {p}
    /\ accepted' = accepted \cup {p}
    /\ Finish(h)
    /\ UNCHANGED <<clock, processed, processing, saved>>

\* CompleteFederationPDU fails or finds no row in processing.
RecordError(h) ==
    /\ handler[h].pc = "recording"
    /\ Finish(h)
    /\ UNCHANGED <<clock, processed, processing, guard, saved, recorded, accepted>>

\* finishPDUProcessing, second half: ReleaseFederationPDU.
Release(h) ==
    LET p == handler[h].pdu IN
    /\ handler[h].pc = "releasing"
    /\ Connected(h)
    /\ guard' = [guard EXCEPT ![p] = IF @.status = "processing" THEN NoRow ELSE @]
    /\ Finish(h)
    /\ UNCHANGED <<clock, processed, processing, saved, recorded, accepted>>

ReleaseError(h) ==
    /\ handler[h].pc = "releasing"
    /\ Finish(h)
    /\ UNCHANGED <<clock, processed, processing, guard, saved, recorded, accepted>>
-----------------------------------------------------------------------------
\* The process dies and starts again: tables survive, maps and requests do not.
Crash ==
    /\ processed' = [p \in PDUs |-> Never]
    /\ processing' = {}
    /\ handler' = [h \in Handlers |-> Idle]
    /\ UNCHANGED <<clock, guard, saved, recorded, accepted>>

Tick ==
    /\ clock < Horizon
    /\ clock' = clock + 1
    /\ UNCHANGED <<processed, processing, guard, handler, saved, recorded, accepted>>

Step(h) ==
    \/ BeginDuplicate(h) \/ BeginFull(h) \/ Begin(h)
    \/ ClaimFederationPDU(h) \/ ClaimError(h) \/ Withdraw(h)
    \/ Persist(h) \/ PersistError(h) \/ Settle(h)
    \/ Record(h) \/ RecordError(h) \/ Release(h) \/ ReleaseError(h)

Next ==
    \/ \E h \in Handlers, p \in PDUs : Arrive(h, p)
    \/ \E h \in Handlers : Step(h)
    \/ Crash
    \/ Tick

Spec == Init /\ [][Next]_vars
-----------------------------------------------------------------------------
Busy == {"arrived", "claiming", "known", "error", "persisting", "persisted",
         "failed", "recording", "releasing"}

\* Maps, rows and requests have the shapes of the code.
TypeOK ==
    /\ clock \in 0..Horizon
    /\ processed \in [PDUs -> Nat \cup {Never}]
    /\ processing \in SUBSET PDUs
    /\ guard \in [PDUs -> {NoRow} \cup [status : {"processing"}, until : Nat]
                                  \cup [status : {"completed"}, at : Nat]]
    /\ handler \in [Handlers -> {Idle} \cup [pc : Busy, pdu : PDUs, since : Nat]]
    /\ saved \in [PDUs -> Nat]
    /\ recorded \in SUBSET PDUs
    /\ accepted \in SUBSET PDUs

\* At most one request at a time is between the two guards of a PDU: no two
\* requests of one process persist the same PDU concurrently.
SinglePersister ==
    \A g, h \in Handlers :
        /\ handler[g].pc \in {"claiming", "known", "error", "persisting", "persisted", "failed"}
        /\ handler[h].pc \in {"claiming", "known", "error", "persisting", "persisted", "failed"}
        /\ handler[g].pdu = handler[h].pdu
        => g = h

\* Once the table has recorded a PDU's completion, the PDU is never stored
\* again: not by a request that was already under way, not after the cache
\* or the table has forgotten it, not after a restart.
RecordedIsFinal == [][\A p \in recorded : saved'[p] = saved[p]]_vars

\* A PDU whose completion is recorded is refused as long as it passes the
\* timestamp check: the cache or the table still knows it.
KnownWhileFresh ==
    \A p \in recorded : Fresh(p, clock) => Kept[p] # Never \/ ~Free(Retained[p])

\* No PDU is stored twice.
SavedOnce == \A p \in PDUs : saved[p] <= 1

\* A PDU that was answered "accepted" is stored, unless a request is still
\* working on it.
AcceptedIsSaved ==
    \A p \in accepted : saved[p] > 0 \/ \E h \in Handlers : handler[h] # Idle /\ handler[h].pdu = p
=============================================================================
