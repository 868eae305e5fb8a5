---------------------------- MODULE EmbeddedNode ----------------------------
(***************************************************************************)
(* The life of embedded nodes: MobileNodeRegistry, which hands out nodes   *)
(* by handle, and EmbeddedNode, which serves requests in memory, runs      *)
(* background workers and closes its database last.                        *)
(*                                                                         *)
(* A critical section that cannot block is one step.  The one that can is  *)
(* Open on a closed registry: it closes the new node while it holds the    *)
(* registry's mutex.                                                       *)
(***************************************************************************)
EXTENDS Integers, FiniteSets

CONSTANTS
    Callers,  \* goroutines that call the registry
    Nodes,    \* the nodes NewEmbeddedNode may create; a node is its handle
    Workers   \* background workers of a node (launchRouteWorker)

Nobody == "nobody"
ASSUME CallersAssumption == Nobody \notin Callers

VARIABLES
    cancelled,  \* the registry's parent context is cancelled
    closed,     \* MobileNodeRegistry.closed
    nodes,      \* MobileNodeRegistry.nodes
    holder,     \* who holds the registry's mutex across a blocking call
    node,       \* EmbeddedNode: closed, db, running workers, and whether a
                \* goroutine updating a server's last-seen time is under way
    caller      \* what each caller is doing

vars == <<cancelled, closed, nodes, holder, node, caller>>

Idle == [pc |-> "idle"]
Unmade == [closed |-> FALSE, db |-> "none", workers |-> {}, update |-> FALSE]

Init ==
    /\ cancelled = FALSE
    /\ closed = FALSE
    /\ nodes = {}
    /\ holder = Nobody
    /\ node = [n \in Nodes |-> Unmade]
    /\ caller = [c \in Callers |-> Idle]
-----------------------------------------------------------------------------
Become(c, task) == caller' = [caller EXCEPT ![c] = task]

\* Open, first half: NewEmbeddedNode, without the mutex.
NewEmbeddedNode(c, n) ==
    /\ caller[c].pc = "idle"
    /\ node[n].db = "none"
    /\ node' = [node EXCEPT ![n].db = "open", ![n].workers = Workers]
    /\ Become(c, [pc |-> "opened", node |-> n])
    /\ UNCHANGED <<cancelled, closed, nodes, holder>>

\* Deviant: a node is registered without a look at closed.
AlwaysAdmitted == TRUE
Admitted == ~closed

\* Open, second half, under the mutex: the node gets its handle, or it is
\* closed because the registry is.
Register(c) ==
    /\ caller[c].pc = "opened"
    /\ holder = Nobody
    /\ IF Admitted
       THEN /\ nodes' = nodes \cup {caller[c].node}
            /\ Become(c, Idle)
            /\ UNCHANGED holder
       ELSE /\ holder' = c
            /\ Become(c, [pc |-> "closing", todo |-> {caller[c].node}])
            /\ UNCHANGED nodes
    /\ UNCHANGED <<cancelled, closed, node>>
-----------------------------------------------------------------------------
\* Execute and the transport operations: the registry is asked for the node.
\* A handle that is not found and a closed registry end the call here.
Lookup(c, n) ==
    /\ caller[c].pc = "idle"
    /\ holder = Nobody
    /\ n \in nodes /\ ~closed
    /\ Become(c, [pc |-> "found", node |-> n])
    /\ UNCHANGED <<cancelled, closed, nodes, holder, node>>

\* Deviant: a call enters without a look at closed.
AlwaysOpen(n) == TRUE
Open(n) == ~node[n].closed

\* Execute and beginTransportOperation, under the node's mutex: the call is
\* counted, or the node is closed already.
Enter(c) ==
    /\ caller[c].pc = "found"
    /\ Become(c, IF Open(caller[c].node) THEN [pc |-> "serving", node |-> caller[c].node] ELSE Idle)
    /\ UNCHANGED <<cancelled, closed, nodes, holder, node>>

\* A federation request makes getOrFetchPublicKey start a goroutine that
\* updates the server's last-seen time.
StartUpdate(c) ==
    /\ caller[c].pc = "serving"
    /\ node' = [node EXCEPT ![caller[c].node].update = TRUE]
    /\ UNCHANGED <<cancelled, closed, nodes, holder, caller>>

\* The call is over and no longer counted.
Leave(c) ==
    /\ caller[c].pc = "serving"
    /\ Become(c, Idle)
    /\ UNCHANGED <<cancelled, closed, nodes, holder, node>>
-----------------------------------------------------------------------------
\* Close(handle): the node leaves the registry and is closed.
Close(c, n) ==
    /\ caller[c].pc = "idle"
    /\ holder = Nobody
    /\ n \in nodes
    /\ nodes' = nodes \ {n}
    /\ Become(c, [pc |-> "closing", todo |-> {n}])
    /\ UNCHANGED <<cancelled, closed, holder, node>>

\* CloseAll, the first call; a later one returns at once.
CloseAll(c) ==
    /\ caller[c].pc = "idle"
    /\ holder = Nobody
    /\ ~closed
    /\ closed' = TRUE
    /\ nodes' = {}
    /\ Become(c, [pc |-> "closing", todo |-> nodes])
    /\ UNCHANGED <<cancelled, holder, node>>

\* EmbeddedNode.Close, under the node's mutex: its context is cancelled.
\* A node that is closed already is left to its closer.
NodeClose(c, n) ==
    /\ caller[c].pc = "closing"
    /\ n \in caller[c].todo
    /\ IF node[n].closed
       THEN Become(c, [caller[c] EXCEPT !.todo = @ \ {n}]) /\ UNCHANGED node
       ELSE /\ Become(c, [pc |-> "draining", todo |-> caller[c].todo \ {n}, node |-> n])
            /\ node' = [node EXCEPT ![n].closed = TRUE]
    /\ UNCHANGED <<cancelled, closed, nodes, holder>>

\* EmbeddedNode.Close waits for the calls.
Drained(n) == \A d \in Callers : ~(caller[d].pc = "serving" /\ caller[d].node = n)

Drain(c) ==
    /\ caller[c].pc = "draining"
    /\ Drained(caller[c].node)
    /\ Become(c, [caller[c] EXCEPT !.pc = "joining"])
    /\ UNCHANGED <<cancelled, closed, nodes, holder, node>>

\* It waits for the workers and closes the database.
CloseDatabase(c) ==
    /\ caller[c].pc = "joining"
    /\ node[caller[c].node].workers = {}
    /\ node' = [node EXCEPT ![caller[c].node].db = "closed"]
    /\ Become(c, [pc |-> "closing", todo |-> caller[c].todo])
    /\ UNCHANGED <<cancelled, closed, nodes, holder>>

\* Deviant: Open returns with the mutex held.
KeptBy(c) == holder
ReleasedBy(c) == IF holder = c THEN Nobody ELSE holder

\* Open, Close or CloseAll returns, and Open gives the mutex back.
Return(c) ==
    /\ caller[c].pc = "closing"
    /\ caller[c].todo = {}
    /\ Become(c, Idle)
    /\ holder' = ReleasedBy(c)
    /\ UNCHANGED <<cancelled, closed, nodes, node>>
-----------------------------------------------------------------------------
\* mobileapi.Node.Close cancels the parent context before CloseAll.
CancelParent ==
    /\ ~cancelled
    /\ cancelled' = TRUE
    /\ UNCHANGED <<closed, nodes, holder, node, caller>>

\* Deviant: a worker does not see the node's own context.
Deaf(n) == cancelled
Told(n) == cancelled \/ node[n].closed

\* A background worker sees its context cancelled and ends.
WorkerExit(n, w) ==
    /\ w \in node[n].workers
    /\ Told(n)
    /\ node' = [node EXCEPT ![n].workers = @ \ {w}]
    /\ UNCHANGED <<cancelled, closed, nodes, holder, caller>>

\* The last-seen goroutine writes and ends.
EndUpdate(n) ==
    /\ node[n].update
    /\ node' = [node EXCEPT ![n].update = FALSE]
    /\ UNCHANGED <<cancelled, closed, nodes, holder, caller>>

\* A step of a call that is under way.
Proceed(c) ==
    \/ Register(c) \/ Enter(c) \/ Leave(c)
    \/ \E n \in Nodes : NodeClose(c, n)
    \/ Drain(c) \/ CloseDatabase(c) \/ Return(c)

Next ==
    \/ \E c \in Callers :
          \/ \E n \in Nodes : NewEmbeddedNode(c, n) \/ Lookup(c, n) \/ Close(c, n)
          \/ CloseAll(c)
          \/ StartUpdate(c)
          \/ Proceed(c)
    \/ CancelParent
    \/ \E n \in Nodes : EndUpdate(n) \/ \E w \in Workers : WorkerExit(n, w)

Spec == Init /\ [][Next]_vars

\* Every call and every worker goes on as long as it can.
FairSpec ==
    /\ Spec
    /\ \A c \in Callers : WF_vars(Proceed(c))
    /\ \A n \in Nodes, w \in Workers : WF_vars(WorkerExit(n, w))
-----------------------------------------------------------------------------
Tasks ==
    {Idle} \cup [pc : {"opened", "found", "serving"}, node : Nodes]
           \cup [pc : {"closing"}, todo : SUBSET Nodes]
           \cup [pc : {"draining", "joining"}, todo : SUBSET Nodes, node : Nodes]

\* Registry, nodes and calls have the shapes of the code, and the mutex is
\* held only by a call that is closing a node.
TypeOK ==
    /\ cancelled \in BOOLEAN
    /\ closed \in BOOLEAN
    /\ nodes \in SUBSET Nodes
    /\ holder \in Callers \cup {Nobody}
    /\ node \in [Nodes -> [closed : BOOLEAN, db : {"none", "open", "closed"},
                           workers : SUBSET Workers, update : BOOLEAN]]
    /\ caller \in [Callers -> Tasks]
    /\ holder # Nobody => caller[holder].pc \in {"closing", "draining", "joining"}

\* The database is closed last: no call is being served and no worker runs
\* on a node whose database is closed.
DatabaseOutlivesUsers ==
    \A n \in Nodes : node[n].db = "closed" =>
        /\ node[n].workers = {}
        /\ \A c \in Callers : ~(caller[c].pc = "serving" /\ caller[c].node = n)

\* When the registry is closed and every call has returned, no node is left
\* open, one included whose Open raced with CloseAll.
NothingLeaks ==
    closed /\ (\A c \in Callers : caller[c] = Idle) => \A n \in Nodes : node[n].db # "open"

\* Whoever closes nodes returns: no call waits for ever for another, and the
\* mutex held across a close is given back.
ClosingReturns ==
    \A c \in Callers : caller[c].pc \in {"closing", "draining", "joining"} ~> caller[c] = Idle

\* All background work of a node has ended when its database is closed.
AllJoined == \A n \in Nodes : node[n].db = "closed" => node[n].workers = {} /\ ~node[n].update
=============================================================================
