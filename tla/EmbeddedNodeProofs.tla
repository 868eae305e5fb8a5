------------------------- MODULE EmbeddedNodeProofs -------------------------
(***************************************************************************)
(* Proofs about the life of embedded nodes, for any number of callers,     *)
(* nodes and workers.                                                      *)
(*                                                                         *)
(* The argument is one of ownership: an open node is in the registry or in *)
(* the charge of exactly one call that will register or close it.          *)
(*                                                                         *)
(* The second part is about what the person writes in the client such a    *)
(* node serves: the mail composer with its autosave, the drafts and the    *)
(* scheduled mails the workers of a node send.  The argument there is that *)
(* the words of a draft are in the form, in a save under way or at the     *)
(* node until the mail is sent or the person throws them away.             *)
(***************************************************************************)
EXTENDS EmbeddedNode, TLAPS

\* The nodes a call has still to register or to close, and all the nodes in
\* its charge: also the one it is closing.
Pending(t) ==
    IF t.pc = "opened" THEN {t.node}
    ELSE IF t.pc \in {"closing", "draining", "joining"} THEN t.todo ELSE {}
Charge(t) == IF t.pc \in {"draining", "joining"} THEN t.todo \cup {t.node} ELSE Pending(t)

Serves(t, n) == t.pc = "serving" /\ t.node = n

\* Registered nodes are open, and a closed registry has none.
Registered ==
    /\ \A n \in nodes : node[n].db = "open" /\ ~node[n].closed
    /\ closed => nodes = {}

\* A node in the charge of a call is open, in nobody else's charge and not
\* registered; it is marked closed exactly when the call is closing it.
Charged ==
    /\ \A c \in Callers : \A n \in Charge(caller[c]) : node[n].db = "open" /\ n \notin nodes
    /\ \A c \in Callers : \A n \in Pending(caller[c]) : ~node[n].closed
    /\ \A c \in Callers : caller[c].pc \in {"draining", "joining"} => node[caller[c].node].closed
    /\ \A c, d \in Callers : c # d => Charge(caller[c]) \cap Charge(caller[d]) = {}

\* An open node is registered or in somebody's charge.
Owned ==
    \A n \in Nodes : node[n].db = "open" => n \in nodes \/ \E c \in Callers : n \in Charge(caller[c])

\* A call uses a node that exists; a node that is being joined serves nobody
\* and a database is closed on a closed node without workers and calls.
Quiet ==
    /\ \A c \in Callers : caller[c].pc \in {"found", "serving"} => node[caller[c].node].db # "none"
    /\ \A c \in Callers : caller[c].pc = "joining" =>
          \A d \in Callers : ~Serves(caller[d], caller[c].node)
    /\ \A n \in Nodes : node[n].db = "closed" =>
          /\ node[n].closed /\ node[n].workers = {}
          /\ \A d \in Callers : ~Serves(caller[d], n)
    /\ \A n \in Nodes : node[n].db = "none" => ~node[n].closed

IInv == TypeOK /\ Registered /\ Charged /\ Owned /\ Quiet
-----------------------------------------------------------------------------
Closing == {"closing", "draining", "joining"}
States == [closed : BOOLEAN, db : {"none", "open", "closed"}, workers : SUBSET Workers,
           update : BOOLEAN]

\* The mutex is held only by a call that is closing a node.
HeldWhileClosing == holder # Nobody => caller[holder].pc \in Closing

\* The fields of a call, by what it is doing.
LEMMA TaskShape ==
    ASSUME NEW t \in Tasks
    PROVE  /\ t.pc \in {"opened", "found", "serving"} => t \in [pc : {"opened", "found", "serving"}, node : Nodes]
           /\ t.pc = "closing" => t \in [pc : {"closing"}, todo : SUBSET Nodes]
           /\ t.pc \in {"draining", "joining"} =>
                 t \in [pc : {"draining", "joining"}, todo : SUBSET Nodes, node : Nodes]
           /\ t.pc = "idle" => t = Idle
           /\ Charge(t) \subseteq Nodes /\ Pending(t) \subseteq Charge(t)
BY DEF Tasks, Idle, Charge, Pending

\* A call goes on: everybody else's task is as it was.
LEMMA Others ==
    ASSUME TypeOK, NEW c \in Callers, NEW t \in Tasks, Become(c, t)
    PROVE  /\ caller' \in [Callers -> Tasks]
           /\ caller'[c] = t
           /\ \A d \in Callers \ {c} : caller'[d] = caller[d]
BY Zenon DEF TypeOK, Become

\* The initial state satisfies the invariant.
LEMMA InitIInv == Init => IInv
PROOF
<1> SUFFICES ASSUME Init PROVE IInv BY Zenon
<1>1. \A c \in Callers : caller[c] = Idle /\ caller[c].pc = "idle" BY Zenon DEF Init, Idle
<1>2. Charge(Idle) = {} /\ Pending(Idle) = {} BY Zenon DEF Charge, Pending, Idle
<1>3. \A n \in Nodes : node[n] = Unmade BY Zenon DEF Init
<1>4. TypeOK
  <2>1. node \in [Nodes -> States] BY Zenon DEF Init, Unmade, States
  <2>2. caller \in [Callers -> Tasks] BY Zenon DEF Init, Tasks
  <2> QED BY <2>1, <2>2, Zenon DEF Init, TypeOK, States
<1>5. Registered BY Zenon DEF Init, Registered
<1>6. Charged BY <1>1, <1>2, Zenon DEF Charged
<1>7. Owned BY <1>3 DEF Owned, Unmade
<1>8. Quiet BY <1>1, <1>3 DEF Quiet, Unmade, Serves
<1> QED BY <1>4, <1>5, <1>6, <1>7, <1>8, Zenon DEF IInv

\* A call goes on with the same nodes in its charge.
LEMMA MoveIInv ==
    ASSUME IInv, NEW c \in Callers, NEW t \in Tasks, Become(c, t),
           UNCHANGED <<closed, nodes, node>>, cancelled' \in BOOLEAN,
           holder' \in Callers \cup {Nobody}, HeldWhileClosing',
           Charge(t) = Charge(caller[c]), Pending(t) = Pending(caller[c]),
           t.pc \in {"draining", "joining"} => node[t.node].closed,
           t.pc \in {"found", "serving"} => node[t.node].db # "none",
           t.pc = "joining" => \A d \in Callers \ {c} : ~Serves(caller[d], t.node),
           t.pc = "serving" => ~node[t.node].closed
    PROVE  IInv'
PROOF
<1>1. /\ caller' \in [Callers -> Tasks] /\ caller'[c] = t
      /\ \A d \in Callers \ {c} : caller'[d] = caller[d]
  BY Others, Zenon DEF IInv
<1>2. \A d \in Callers : Charge(caller'[d]) = Charge(caller[d]) /\ Pending(caller'[d]) = Pending(caller[d])
  BY <1>1, Zenon
<1>3. TypeOK' BY <1>1, Zenon DEF IInv, TypeOK, HeldWhileClosing, Closing
<1>4. Registered' BY Zenon DEF IInv, Registered
<1>5. Charged'
  <2>1. \A d \in Callers : caller'[d].pc \in {"draining", "joining"} => node'[caller'[d].node].closed
    BY <1>1, Zenon DEF IInv, Charged
  <2> HIDE DEF Charge, Pending
  <2> QED BY <1>2, <2>1, Zenon DEF IInv, Charged
<1>6. Owned'
  <2> HIDE DEF Charge
  <2> QED BY <1>2, Zenon DEF IInv, Owned
<1>7. Quiet'
  <2>1. \A d \in Callers : caller'[d].pc \in {"found", "serving"} => node'[caller'[d].node].db # "none"
    BY <1>1 DEF IInv, Quiet
  <2>2. ASSUME NEW b \in Callers, NEW d \in Callers, caller'[b].pc = "joining", Serves(caller'[d], caller'[b].node)
        PROVE  FALSE
    <3>1. CASE b = c
      <4>1. d # c BY <1>1, <2>2, <3>1, Zenon DEF Serves
      <4> QED BY <1>1, <2>2, <3>1, <4>1, Zenon
    <3>2. CASE b # c /\ d = c
      <4>1. node[caller[b].node].closed BY <1>1, <2>2, <3>2, Zenon DEF IInv, Charged
      <4> QED BY <1>1, <2>2, <3>2, <4>1, Zenon DEF Serves
    <3>3. CASE b # c /\ d # c BY <1>1, <2>2, <3>3, Zenon DEF IInv, Quiet
    <3> QED BY <3>1, <3>2, <3>3, Zenon
  <2>3. ASSUME NEW n \in Nodes, node[n].db = "closed", NEW d \in Callers, Serves(caller'[d], n)
        PROVE  FALSE
    <3>1. node[n].closed BY <2>3, Zenon DEF IInv, Quiet
    <3> QED BY <1>1, <2>3, <3>1 DEF IInv, Quiet, Serves
  <2> QED BY <2>1, <2>2, <2>3, Zenon DEF IInv, Quiet
<1> QED BY <1>3, <1>4, <1>5, <1>6, <1>7, Zenon DEF IInv

\* Workers end and last-seen updates come and go: nothing else changes.
LEMMA NodeIInv ==
    ASSUME IInv, UNCHANGED <<closed, nodes, holder, caller>>, cancelled' \in BOOLEAN,
           node' \in [Nodes -> States],
           \A n \in Nodes : /\ node'[n].db = node[n].db /\ node'[n].closed = node[n].closed
                            /\ node'[n].workers \subseteq node[n].workers
    PROVE  IInv'
PROOF
<1>0. \A c \in Callers : caller[c] \in Tasks BY Zenon DEF IInv, TypeOK
<1>1. TypeOK' BY Zenon DEF IInv, TypeOK, States
<1>2. Registered' BY Zenon DEF IInv, Registered, TypeOK
<1>3. Charged'
  <2>1. \A c \in Callers : Charge(caller[c]) \subseteq Nodes /\ Pending(caller[c]) \subseteq Nodes
    BY <1>0, TaskShape, Zenon
  <2>2. \A c \in Callers : caller[c].pc \in {"draining", "joining"} => caller[c].node \in Nodes
    BY <1>0, TaskShape, Zenon
  <2> HIDE DEF Charge, Pending
  <2> QED BY <2>1, <2>2, ZenonT(30) DEF IInv, Charged
<1>4. Owned' BY Zenon DEF IInv, Owned
<1>5. Quiet'
  <2>1. \A c \in Callers : caller[c].pc \in {"found", "serving"} => caller[c].node \in Nodes
    BY <1>0, TaskShape, Zenon
  <2>2. \A n \in Nodes : node[n].workers = {} => node'[n].workers = {} BY Zenon
  <2> QED BY <2>1, <2>2 DEF IInv, Quiet
<1> QED BY <1>1, <1>2, <1>3, <1>4, <1>5, Zenon DEF IInv

\* A new node is in the charge of its creator.
LEMMA NewIInv == ASSUME IInv, NEW c \in Callers, NEW n \in Nodes, NewEmbeddedNode(c, n) PROVE IInv'
PROOF
<1> DEFINE t == [pc |-> "opened", node |-> n]
           m == [node[n] EXCEPT !.db = "open", !.workers = Workers]
<1>1. t \in Tasks /\ t.pc = "opened" /\ Charge(t) = {n} /\ Pending(t) = {n}
  BY Zenon DEF Tasks, Charge, Pending
<1>2. Become(c, t) /\ UNCHANGED <<cancelled, closed, nodes, holder>> BY Zenon DEF NewEmbeddedNode
<1>3. node[n] \in States BY Zenon DEF IInv, TypeOK, States
<1>4. node' = [node EXCEPT ![n] = m] BY Zenon DEF NewEmbeddedNode, IInv, TypeOK
<1>5. m \in States /\ m.db = "open" /\ m.closed = node[n].closed BY <1>3, Zenon DEF States
<1>6. node[n].db = "none" /\ ~node[n].closed BY Zenon DEF NewEmbeddedNode, IInv, Quiet
<1>7. caller[c] = Idle /\ Charge(caller[c]) = {}
  <2>1. caller[c].pc = "idle" /\ caller[c] \in Tasks BY Zenon DEF NewEmbeddedNode, IInv, TypeOK
  <2> QED BY <2>1, TaskShape, Zenon DEF Charge, Pending, Idle
<1> HIDE DEF t, m
<1>8. /\ caller' \in [Callers -> Tasks] /\ caller'[c] = t
      /\ \A d \in Callers \ {c} : caller'[d] = caller[d]
  BY <1>1, <1>2, Others, Zenon DEF IInv
<1>9. /\ node' \in [Nodes -> States] /\ node'[n] = m
      /\ \A k \in Nodes \ {n} : node'[k] = node[k]
  BY <1>4, <1>5, Zenon DEF IInv, TypeOK, States
<1>10. TypeOK'
  <2>1. holder # Nobody => holder # c
    BY <1>7 DEF IInv, TypeOK, Idle
  <2>2. HeldWhileClosing' BY <1>2, <1>8, <2>1, Zenon DEF IInv, TypeOK, HeldWhileClosing, Closing
  <2> QED BY <1>2, <1>8, <1>9, <2>2, Zenon DEF IInv, TypeOK, HeldWhileClosing, Closing, States
<1>11. n \notin nodes BY <1>6, Zenon DEF IInv, Registered
<1>12. Registered' BY <1>2, <1>9, <1>11, Zenon DEF IInv, Registered, TypeOK
<1>13. \A d \in Callers : n \notin Charge(caller[d]) BY <1>6, Zenon DEF IInv, Charged
<1>14. \A d \in Callers : caller[d] \in Tasks BY Zenon DEF IInv, TypeOK
<1>15. Charged'
  <2>1. \A d \in Callers \ {c} : Charge(caller[d]) \subseteq Nodes /\ Pending(caller[d]) \subseteq Charge(caller[d])
    BY <1>14, TaskShape, Zenon
  <2>2. \A d \in Callers \ {c} : caller[d].pc \in {"draining", "joining"} =>
           caller[d].node \in Nodes /\ caller[d].node \in Charge(caller[d])
    BY <1>14, TaskShape, Zenon DEF Charge
  <2>3. \A d \in Callers : \A k \in Charge(caller'[d]) : node'[k].db = "open" /\ k \notin nodes'
    BY <1>1, <1>2, <1>5, <1>8, <1>9, <1>11, <1>13, <2>1 DEF IInv, Charged
  <2>4. \A d \in Callers : \A k \in Pending(caller'[d]) : ~node'[k].closed
    BY <1>1, <1>5, <1>6, <1>8, <1>9, <1>13, <2>1 DEF IInv, Charged
  <2>5. \A d \in Callers : caller'[d].pc \in {"draining", "joining"} => node'[caller'[d].node].closed
    BY <1>1, <1>8, <1>9, <1>13, <2>2 DEF IInv, Charged
  <2>6. \A b, d \in Callers : b # d => Charge(caller'[b]) \cap Charge(caller'[d]) = {}
    BY <1>1, <1>8, <1>13 DEF IInv, Charged
  <2> QED BY <2>3, <2>4, <2>5, <2>6, Zenon DEF Charged
<1>16. Owned'
  <2> SUFFICES ASSUME NEW k \in Nodes, node'[k].db = "open"
               PROVE  k \in nodes' \/ \E d \in Callers : k \in Charge(caller'[d])
    BY Zenon DEF Owned
  <2>1. CASE k = n BY <1>1, <1>8, <2>1, Zenon
  <2>2. CASE k # n
    <3>1. k \in nodes \/ \E d \in Callers : k \in Charge(caller[d]) BY <1>9, <2>2, Zenon DEF IInv, Owned
    <3> QED BY <1>2, <1>7, <1>8, <3>1, Zenon
  <2> QED BY <2>1, <2>2, Zenon
<1>17. Quiet'
  <2>1. \A d \in Callers : caller[d].pc \in {"found", "serving"} => caller[d].node \in Nodes \ {n}
    BY <1>6, <1>14, TaskShape, Zenon DEF IInv, Quiet
  <2>2. \A d \in Callers : caller'[d].pc \in {"found", "serving"} => node'[caller'[d].node].db # "none"
    BY <1>1, <1>8, <1>9, <2>1 DEF IInv, Quiet
  <2>3. \A d \in Callers : \A k \in Nodes : Serves(caller'[d], k) => Serves(caller[d], k)
    BY <1>1, <1>8, Zenon DEF Serves
  <2>4. \A d \in Callers : caller'[d].pc = "joining" => caller[d].pc = "joining" /\ caller'[d] = caller[d] /\ caller[d].node \in Nodes
    BY <1>1, <1>8, <1>14, TaskShape
  <2> QED BY <1>5, <1>9, <2>2, <2>3, <2>4 DEF IInv, Quiet
<1> QED BY <1>10, <1>12, <1>15, <1>16, <1>17, Zenon DEF IInv

\* A node moves from its creator's charge into the registry, or stays in
\* its charge to be closed.
LEMMA RegisterIInv == ASSUME IInv, NEW c \in Callers, Register(c) PROVE IInv'
PROOF
<1> DEFINE n == caller[c].node
<1>1. caller[c] \in Tasks /\ caller[c].pc = "opened" BY Zenon DEF Register, IInv, TypeOK
<1>2. n \in Nodes /\ Charge(caller[c]) = {n} /\ Pending(caller[c]) = {n}
  BY <1>1, TaskShape, Zenon DEF Charge, Pending
<1>3. node[n].db = "open" /\ ~node[n].closed /\ n \notin nodes BY <1>2, Zenon DEF IInv, Charged
<1>4. CASE ~Admitted
  <2> DEFINE t == [pc |-> "closing", todo |-> {n}]
  <2>1. t \in Tasks /\ t.pc = "closing" /\ Charge(t) = {n} /\ Pending(t) = {n}
    BY <1>2, Zenon DEF Tasks, Charge, Pending
  <2>2. Become(c, t) /\ holder' = c /\ UNCHANGED <<nodes, cancelled, closed, node>>
    BY <1>4, Zenon DEF Register
  <2> HIDE DEF t
  <2>3. caller'[c] = t BY <2>1, <2>2, Others, Zenon DEF IInv
  <2>4. HeldWhileClosing' BY <2>1, <2>2, <2>3, Zenon DEF HeldWhileClosing, Closing
  <2>5. cancelled' \in BOOLEAN BY <2>2, Zenon DEF IInv, TypeOK
  <2> QED BY <1>2, <2>1, <2>2, <2>4, <2>5, MoveIInv, Zenon
<1>5. CASE Admitted
  <2>1. /\ Become(c, Idle) /\ nodes' = nodes \cup {n} /\ ~closed
        /\ UNCHANGED <<holder, cancelled, closed, node>>
    BY <1>5, Zenon DEF Register, Admitted
  <2>2. Idle \in Tasks /\ Idle.pc = "idle" /\ Charge(Idle) = {} /\ Pending(Idle) = {}
    BY Zenon DEF Tasks, Idle, Charge, Pending
  <2>3. /\ caller' \in [Callers -> Tasks] /\ caller'[c] = Idle
        /\ \A d \in Callers \ {c} : caller'[d] = caller[d]
    BY <2>1, <2>2, Others, Zenon DEF IInv
  <2>4. TypeOK'
    <3>1. holder = Nobody BY Zenon DEF Register
    <3> QED BY <1>2, <2>1, <2>3, <3>1, Zenon DEF IInv, TypeOK
  <2>5. Registered' BY <1>3, <2>1, Zenon DEF IInv, Registered
  <2>6. \A d \in Callers \ {c} : n \notin Charge(caller[d]) BY <1>2, Zenon DEF IInv, Charged
  <2>7. Charged'
    <3>1. \A d \in Callers : \A k \in Charge(caller'[d]) : node'[k].db = "open" /\ k \notin nodes'
      BY <2>1, <2>2, <2>3, <2>6 DEF IInv, Charged
    <3>2. \A d \in Callers : \A k \in Pending(caller'[d]) : ~node'[k].closed
      BY <2>1, <2>2, <2>3, Zenon DEF IInv, Charged
    <3>3. \A d \in Callers : caller'[d].pc \in {"draining", "joining"} => node'[caller'[d].node].closed
      BY <2>1, <2>2, <2>3, Zenon DEF IInv, Charged
    <3>4. \A b, d \in Callers : b # d => Charge(caller'[b]) \cap Charge(caller'[d]) = {}
      BY <2>2, <2>3, Zenon DEF IInv, Charged
    <3> QED BY <3>1, <3>2, <3>3, <3>4, Zenon DEF Charged
  <2>8. Owned'
    <3> SUFFICES ASSUME NEW k \in Nodes, node'[k].db = "open"
                 PROVE  k \in nodes' \/ \E d \in Callers : k \in Charge(caller'[d])
      BY Zenon DEF Owned
    <3>1. k \in nodes \/ \E d \in Callers : k \in Charge(caller[d]) BY <2>1, Zenon DEF IInv, Owned
    <3> QED BY <1>2, <2>1, <2>3, <3>1, Zenon
  <2>9. Quiet'
    <3>1. \A d \in Callers : caller'[d].pc # "idle" => caller'[d] = caller[d] BY <2>2, <2>3, Zenon
    <3>2. \A d \in Callers : \A k : Serves(caller'[d], k) => Serves(caller[d], k) BY <3>1, Zenon DEF Serves
    <3> QED BY <2>1, <3>1, <3>2, Zenon DEF IInv, Quiet
  <2> QED BY <2>4, <2>5, <2>7, <2>8, <2>9, Zenon DEF IInv
<1> QED BY <1>4, <1>5, Zenon

\* Registered nodes pass into the charge of the call that takes them out of
\* the registry to close them.
LEMMA TakeIInv ==
    ASSUME IInv, NEW c \in Callers, caller[c].pc = "idle", NEW S \in SUBSET Nodes, S \subseteq nodes,
           nodes' = nodes \ S, closed' \in BOOLEAN, closed' => nodes' = {},
           Become(c, [pc |-> "closing", todo |-> S]), UNCHANGED <<cancelled, holder, node>>,
           holder = Nobody
    PROVE  IInv'
PROOF
<1> DEFINE t == [pc |-> "closing", todo |-> S]
<1>1. t \in Tasks /\ t.pc = "closing" /\ Charge(t) = S /\ Pending(t) = S
  BY Zenon DEF Tasks, Charge, Pending
<1>2. Become(c, t) BY Zenon
<1> HIDE DEF t
<1>3. /\ caller' \in [Callers -> Tasks] /\ caller'[c] = t
      /\ \A d \in Callers \ {c} : caller'[d] = caller[d]
  BY <1>1, <1>2, Others, Zenon DEF IInv
<1>4. Charge(caller[c]) = {} BY Zenon DEF Charge, Pending
<1>5. \A k \in S : node[k].db = "open" /\ ~node[k].closed BY Zenon DEF IInv, Registered
<1>6. \A d \in Callers : Charge(caller[d]) \cap S = {} BY Zenon DEF IInv, Charged
<1>7. TypeOK' BY <1>3, Zenon DEF IInv, TypeOK
<1>8. Registered' BY Zenon DEF IInv, Registered
<1>9. Charged'
  <2>1. \A d \in Callers : \A k \in Charge(caller'[d]) : node'[k].db = "open" /\ k \notin nodes'
    BY <1>1, <1>3, <1>5 DEF IInv, Charged
  <2>2. \A d \in Callers : \A k \in Pending(caller'[d]) : ~node'[k].closed
    BY <1>1, <1>3, <1>5 DEF IInv, Charged
  <2>3. \A d \in Callers : caller'[d].pc \in {"draining", "joining"} => node'[caller'[d].node].closed
    BY <1>1, <1>3, Zenon DEF IInv, Charged
  <2>4. \A b, d \in Callers : b # d => Charge(caller'[b]) \cap Charge(caller'[d]) = {}
    BY <1>1, <1>3, <1>6 DEF IInv, Charged
  <2> QED BY <2>1, <2>2, <2>3, <2>4, Zenon DEF Charged
<1>10. Owned'
  <2> SUFFICES ASSUME NEW k \in Nodes, node'[k].db = "open"
               PROVE  k \in nodes' \/ \E d \in Callers : k \in Charge(caller'[d])
    BY Zenon DEF Owned
  <2>1. k \in nodes \/ \E d \in Callers : k \in Charge(caller[d]) BY Zenon DEF IInv, Owned
  <2> QED BY <1>1, <1>3, <1>4, <2>1, Zenon
<1>11. Quiet'
  <2>1. \A d \in Callers : caller'[d].pc # "closing" => caller'[d] = caller[d] BY <1>1, <1>3, Zenon
  <2>2. \A d \in Callers : \A k : Serves(caller'[d], k) => Serves(caller[d], k) BY <2>1, Zenon DEF Serves
  <2> QED BY <2>1, <2>2, Zenon DEF IInv, Quiet
<1> QED BY <1>7, <1>8, <1>9, <1>10, <1>11, Zenon DEF IInv

\* A node in the charge of a call is marked closed by that call; it was not
\* marked before.
LEMMA NodeCloseIInv ==
    ASSUME IInv, NEW c \in Callers, NEW n \in Nodes, NodeClose(c, n) PROVE IInv'
PROOF
<1> DEFINE t == [pc |-> "draining", todo |-> caller[c].todo \ {n}, node |-> n]
           m == [node[n] EXCEPT !.closed = TRUE]
<1>1. caller[c] \in Tasks /\ caller[c].pc = "closing" /\ n \in caller[c].todo
  BY Zenon DEF NodeClose, IInv, TypeOK
<1>2. caller[c].todo \subseteq Nodes BY <1>1, TaskShape, Zenon
<1>3. Charge(caller[c]) = caller[c].todo /\ Pending(caller[c]) = caller[c].todo
  BY <1>1, Zenon DEF Charge, Pending
<1>4. ~node[n].closed /\ node[n].db = "open" /\ n \notin nodes BY <1>1, <1>3, Zenon DEF IInv, Charged
<1>5. /\ t \in Tasks /\ t.pc = "draining" /\ t.node = n
      /\ Charge(t) = caller[c].todo /\ Pending(t) = caller[c].todo \ {n}
  BY <1>1, <1>2, Zenon DEF Tasks, Charge, Pending
<1>6. Become(c, t) /\ UNCHANGED <<cancelled, closed, nodes, holder>> BY <1>4, Zenon DEF NodeClose
<1>7. node[n] \in States BY Zenon DEF IInv, TypeOK, States
<1>8. node' = [node EXCEPT ![n] = m] BY <1>4, Zenon DEF NodeClose, IInv, TypeOK
<1>9. m \in States /\ m.closed /\ m.db = "open" BY <1>4, <1>7, Zenon DEF States
<1> HIDE DEF t, m
<1>10. /\ caller' \in [Callers -> Tasks] /\ caller'[c] = t
       /\ \A d \in Callers \ {c} : caller'[d] = caller[d]
  BY <1>5, <1>6, Others, Zenon DEF IInv
<1>11. /\ node' \in [Nodes -> States] /\ node'[n] = m
       /\ \A k \in Nodes \ {n} : node'[k] = node[k]
  BY <1>8, <1>9, Zenon DEF IInv, TypeOK, States
<1>12. \A d \in Callers : caller[d] \in Tasks BY Zenon DEF IInv, TypeOK
<1>13. \A d \in Callers \ {c} : n \notin Charge(caller[d]) BY <1>1, <1>3, Zenon DEF IInv, Charged
<1>14. \A d \in Callers : Charge(caller'[d]) = Charge(caller[d]) BY <1>3, <1>5, <1>10, Zenon
<1>15. \A k \in Nodes : node'[k].db = node[k].db BY <1>4, <1>9, <1>11, Zenon
<1>16. TypeOK'
  <2>1. HeldWhileClosing' BY <1>5, <1>6, <1>10, Zenon DEF IInv, TypeOK, HeldWhileClosing, Closing
  <2> QED BY <1>6, <1>10, <1>11, <2>1, Zenon DEF IInv, TypeOK, HeldWhileClosing, Closing, States
<1>17. Registered' BY <1>4, <1>6, <1>11, Zenon DEF IInv, Registered, TypeOK
<1>18. Charged'
  <2>1. \A d \in Callers : Charge(caller[d]) \subseteq Nodes /\ Pending(caller[d]) \subseteq Charge(caller[d])
    BY <1>12, TaskShape, Zenon
  <2>2. \A d \in Callers : \A k \in Charge(caller'[d]) : node'[k].db = "open" /\ k \notin nodes'
    BY <1>6, <1>14, <1>15, <2>1, Zenon DEF IInv, Charged
  <2>3. \A d \in Callers : \A k \in Pending(caller'[d]) : k \in Pending(caller[d]) /\ k # n
    BY <1>3, <1>5, <1>10, <1>13, <2>1
  <2>4. \A d \in Callers : \A k \in Pending(caller'[d]) : ~node'[k].closed
    BY <1>11, <2>1, <2>3 DEF IInv, Charged
  <2>5. \A d \in Callers : caller[d].pc \in {"draining", "joining"} => caller[d].node \in Nodes
    BY <1>12, TaskShape, Zenon
  <2>6. \A d \in Callers : caller'[d].pc \in {"draining", "joining"} => node'[caller'[d].node].closed
    BY <1>5, <1>9, <1>10, <1>11, <2>5 DEF IInv, Charged
  <2>7. \A b, d \in Callers : b # d => Charge(caller'[b]) \cap Charge(caller'[d]) = {}
    BY <1>14, Zenon DEF IInv, Charged
  <2> QED BY <2>2, <2>4, <2>6, <2>7, Zenon DEF Charged
<1>19. Owned' BY <1>6, <1>14, <1>15, Zenon DEF IInv, Owned
<1>20. Quiet'
  <2>1. \A d \in Callers : caller'[d].pc # "draining" => caller'[d] = caller[d] BY <1>5, <1>10, Zenon
  <2>2. \A d \in Callers : \A k : Serves(caller'[d], k) => Serves(caller[d], k) BY <2>1, Zenon DEF Serves
  <2>3. \A d \in Callers : caller[d].pc \in {"found", "serving"} => caller[d].node \in Nodes
    BY <1>12, TaskShape, Zenon
  <2>4. \A k \in Nodes : node[k].db # "open" => node'[k] = node[k] BY <1>4, <1>11, Zenon
  <2> QED BY <1>15, <2>1, <2>2, <2>3, <2>4 DEF IInv, Quiet
<1> QED BY <1>16, <1>17, <1>18, <1>19, <1>20, Zenon DEF IInv

\* The call that closes a node closes its database once nobody uses it.
LEMMA CloseDatabaseIInv == ASSUME IInv, NEW c \in Callers, CloseDatabase(c) PROVE IInv'
PROOF
<1> DEFINE n == caller[c].node
           t == [pc |-> "closing", todo |-> caller[c].todo]
           m == [node[n] EXCEPT !.db = "closed"]
<1>1. caller[c] \in Tasks /\ caller[c].pc = "joining" BY Zenon DEF CloseDatabase, IInv, TypeOK
<1>2. caller[c].todo \subseteq Nodes /\ n \in Nodes BY <1>1, TaskShape, Zenon
<1>3. Charge(caller[c]) = caller[c].todo \cup {n} /\ Pending(caller[c]) = caller[c].todo
  BY <1>1, Zenon DEF Charge, Pending
<1>4. node[n].closed /\ node[n].workers = {} /\ n \notin nodes /\ n \notin caller[c].todo
  BY <1>1, <1>3 DEF CloseDatabase, IInv, Charged
<1>5. t \in Tasks /\ t.pc = "closing" /\ Charge(t) = caller[c].todo /\ Pending(t) = caller[c].todo
  BY <1>2, Zenon DEF Tasks, Charge, Pending
<1>6. Become(c, t) /\ UNCHANGED <<cancelled, closed, nodes, holder>> BY Zenon DEF CloseDatabase
<1>7. node[n] \in States BY <1>2, Zenon DEF IInv, TypeOK, States
<1>8. node' = [node EXCEPT ![n] = m] BY <1>2, Zenon DEF CloseDatabase, IInv, TypeOK
<1>9. m \in States /\ m.closed /\ m.db = "closed" /\ m.workers = {} BY <1>4, <1>7, Zenon DEF States
<1>10. \A d \in Callers : ~Serves(caller[d], n) BY <1>1, Zenon DEF IInv, Quiet
<1> HIDE DEF t, m, n
<1>11. /\ caller' \in [Callers -> Tasks] /\ caller'[c] = t
       /\ \A d \in Callers \ {c} : caller'[d] = caller[d]
  BY <1>5, <1>6, Others, Zenon DEF IInv
<1>12. /\ node' \in [Nodes -> States] /\ node'[n] = m
       /\ \A k \in Nodes \ {n} : node'[k] = node[k]
  BY <1>2, <1>8, <1>9, Zenon DEF IInv, TypeOK, States
<1>13. \A d \in Callers : caller[d] \in Tasks BY Zenon DEF IInv, TypeOK
<1>14. \A d \in Callers : n \notin Charge(caller'[d])
  BY <1>3, <1>4, <1>5, <1>11 DEF IInv, Charged
<1>15. \A d \in Callers : Charge(caller'[d]) \subseteq Charge(caller[d])
  BY <1>3, <1>5, <1>11, Zenon
<1>16. \A d \in Callers : Pending(caller'[d]) = Pending(caller[d]) BY <1>3, <1>5, <1>11, Zenon
<1>17. \A k \in Nodes : node'[k].closed = node[k].closed BY <1>4, <1>9, <1>12, <1>7, Zenon DEF States
<1>18. TypeOK'
  <2>1. HeldWhileClosing' BY <1>5, <1>6, <1>11, Zenon DEF IInv, TypeOK, HeldWhileClosing, Closing
  <2> QED BY <1>6, <1>11, <1>12, <2>1, Zenon DEF IInv, TypeOK, HeldWhileClosing, Closing, States
<1>19. Registered' BY <1>4, <1>6, <1>12, Zenon DEF IInv, Registered, TypeOK
<1>20. \A d \in Callers : Charge(caller[d]) \subseteq Nodes /\ Pending(caller[d]) \subseteq Charge(caller[d])
  BY <1>13, TaskShape, Zenon
<1>21. Charged'
  <2>1. \A d \in Callers : \A k \in Charge(caller'[d]) : node'[k].db = "open" /\ k \notin nodes'
    BY <1>6, <1>12, <1>14, <1>15, <1>20 DEF IInv, Charged
  <2>2. \A d \in Callers : \A k \in Pending(caller'[d]) : ~node'[k].closed
    BY <1>16, <1>17, <1>20, Zenon DEF IInv, Charged
  <2>3. \A d \in Callers : caller'[d].pc \in {"draining", "joining"} => caller'[d] = caller[d] /\ caller[d].node \in Nodes
    BY <1>5, <1>11, <1>13, TaskShape
  <2>4. \A d \in Callers : caller'[d].pc \in {"draining", "joining"} => node'[caller'[d].node].closed
    BY <1>17, <2>3, Zenon DEF IInv, Charged
  <2>5. \A b, d \in Callers : b # d => Charge(caller'[b]) \cap Charge(caller'[d]) = {}
    BY <1>15, Zenon DEF IInv, Charged
  <2> QED BY <2>1, <2>2, <2>4, <2>5, Zenon DEF Charged
<1>22. Owned'
  <2> SUFFICES ASSUME NEW k \in Nodes, node'[k].db = "open"
               PROVE  k \in nodes' \/ \E d \in Callers : k \in Charge(caller'[d])
    BY Zenon DEF Owned
  <2>1. k # n BY <1>9, <1>12, Zenon
  <2>2. k \in nodes \/ \E d \in Callers : k \in Charge(caller[d]) BY <1>12, <2>1, Zenon DEF IInv, Owned
  <2> QED BY <1>3, <1>5, <1>6, <1>11, <2>1, <2>2, Zenon
<1>23. Quiet'
  <2>1. \A d \in Callers : caller'[d].pc # "closing" => caller'[d] = caller[d] BY <1>5, <1>11, Zenon
  <2>2. \A d \in Callers : \A k : Serves(caller'[d], k) => Serves(caller[d], k) BY <2>1, Zenon DEF Serves
  <2>3. \A d \in Callers : caller[d].pc \in {"found", "serving"} => caller[d].node \in Nodes
    BY <1>13, TaskShape, Zenon
  <2>4. \A k \in Nodes : k = n \/ node'[k] = node[k] BY <1>12, Zenon
  <2>5. \A d \in Callers : caller'[d].pc \in {"found", "serving"} => node'[caller'[d].node].db # "none"
    BY <1>9, <1>12, <2>1, <2>3, <2>4 DEF IInv, Quiet
  <2>6. \A b \in Callers : caller'[b].pc = "joining" =>
           \A d \in Callers : ~Serves(caller'[d], caller'[b].node)
    BY <2>1, <2>2, Zenon DEF IInv, Quiet
  <2>7. \A k \in Nodes : node'[k].db = "closed" =>
           /\ node'[k].closed /\ node'[k].workers = {}
           /\ \A d \in Callers : ~Serves(caller'[d], k)
    BY <1>9, <1>10, <1>12, <2>2, <2>4, Zenon DEF IInv, Quiet
  <2>8. \A k \in Nodes : node'[k].db = "none" => ~node'[k].closed
    BY <1>9, <1>12, <2>4, Zenon DEF IInv, Quiet
  <2> QED BY <2>5, <2>6, <2>7, <2>8, Zenon DEF Quiet
<1> QED BY <1>18, <1>19, <1>21, <1>22, <1>23, Zenon DEF IInv

\* Every step preserves the invariant: the steps of a call that keep its
\* nodes by MoveIInv, those of workers and updates by NodeIInv.
LEMMA NextIInv == ASSUME IInv, [Next]_vars PROVE IInv'
PROOF
<1> USE DEF HeldWhileClosing, Closing
<1>0. /\ \A d \in Callers : caller[d] \in Tasks
      /\ cancelled \in BOOLEAN /\ closed \in BOOLEAN /\ nodes \subseteq Nodes
      /\ holder \in Callers \cup {Nobody} /\ HeldWhileClosing /\ node \in [Nodes -> States]
  BY Zenon DEF IInv, TypeOK, States
<1>1. Idle \in Tasks /\ Idle.pc = "idle" /\ Charge(Idle) = {} /\ Pending(Idle) = {}
  BY Zenon DEF Tasks, Idle, Charge, Pending
<1>2. ASSUME NEW c \in Callers, NEW n \in Nodes, Lookup(c, n) PROVE IInv'
  <2> DEFINE t == [pc |-> "found", node |-> n]
  <2>1. t \in Tasks /\ t.pc = "found" /\ t.node = n /\ Charge(t) = {} /\ Pending(t) = {}
    BY Zenon DEF Tasks, Charge, Pending
  <2>2. Charge(caller[c]) = {} /\ Pending(caller[c]) = {} BY <1>2, Zenon DEF Lookup, Charge, Pending
  <2>3. node[n].db # "none" BY <1>2, Zenon DEF Lookup, IInv, Registered
  <2>4. Become(c, t) /\ UNCHANGED <<cancelled, closed, nodes, holder, node>> /\ holder = Nobody
    BY <1>2, Zenon DEF Lookup
  <2> HIDE DEF t
  <2> QED BY <1>0, <2>1, <2>2, <2>3, <2>4, MoveIInv, Zenon
<1>3. ASSUME NEW c \in Callers, Enter(c) PROVE IInv'
  <2> DEFINE n == caller[c].node
             t == IF Open(n) THEN [pc |-> "serving", node |-> n] ELSE Idle
  <2>0. caller[c].pc = "found" /\ n \in Nodes BY <1>0, <1>3, TaskShape, Zenon DEF Enter
  <2>1. /\ t \in Tasks /\ Charge(t) = {} /\ Pending(t) = {}
        /\ t.pc = "idle" \/ (t.pc = "serving" /\ t.node = n /\ ~node[n].closed)
    BY <1>1, <2>0, Zenon DEF Tasks, Charge, Pending, Open
  <2>2. Charge(caller[c]) = {} /\ Pending(caller[c]) = {} BY <2>0, Zenon DEF Charge, Pending
  <2>3. node[n].db # "none" BY <2>0, Zenon DEF IInv, Quiet
  <2>4. Become(c, t) /\ UNCHANGED <<cancelled, closed, nodes, holder, node>> BY <1>3, Zenon DEF Enter
  <2> HIDE DEF t, n
  <2>5. HeldWhileClosing'
    <3>1. caller'[c] = t /\ \A d \in Callers \ {c} : caller'[d] = caller[d]
      BY <2>1, <2>4, Others, Zenon DEF IInv
    <3> QED BY <1>0, <2>0, <2>4, <3>1, Zenon
  <2> QED BY <1>0, <2>1, <2>2, <2>3, <2>4, <2>5, MoveIInv, Zenon
<1>4. ASSUME NEW c \in Callers, Leave(c) PROVE IInv'
  <2>1. Charge(caller[c]) = {} /\ Pending(caller[c]) = {} BY <1>4, Zenon DEF Leave, Charge, Pending
  <2>2. /\ Become(c, Idle) /\ UNCHANGED <<cancelled, closed, nodes, holder, node>>
        /\ caller[c].pc = "serving"
    BY <1>4, Zenon DEF Leave
  <2>3. HeldWhileClosing'
    <3>1. \A d \in Callers \ {c} : caller'[d] = caller[d] BY <1>1, <2>2, Others, Zenon DEF IInv
    <3> QED BY <1>0, <2>2, <3>1, Zenon
  <2> QED BY <1>0, <1>1, <2>1, <2>2, <2>3, MoveIInv, Zenon
<1>5. ASSUME NEW c \in Callers, Drain(c) PROVE IInv'
  <2> DEFINE t == [caller[c] EXCEPT !.pc = "joining"]
  <2>0. /\ caller[c].pc = "draining"
        /\ caller[c] \in [pc : {"draining", "joining"}, todo : SUBSET Nodes, node : Nodes]
    BY <1>0, <1>5, TaskShape, Zenon DEF Drain
  <2>1. /\ t \in Tasks /\ t.pc = "joining" /\ t.node = caller[c].node
        /\ Charge(t) = Charge(caller[c]) /\ Pending(t) = Pending(caller[c])
    BY <2>0, Zenon DEF Tasks, Charge, Pending
  <2>2. Become(c, t) /\ UNCHANGED <<cancelled, closed, nodes, holder, node>> BY <1>5, Zenon DEF Drain
  <2>3. node[caller[c].node].closed BY <2>0, Zenon DEF IInv, Charged
  <2>4. \A d \in Callers : ~Serves(caller[d], caller[c].node) BY <1>5, Zenon DEF Drain, Drained, Serves
  <2> HIDE DEF t
  <2>5. HeldWhileClosing'
    <3>1. caller'[c] = t /\ \A d \in Callers \ {c} : caller'[d] = caller[d]
      BY <2>1, <2>2, Others, Zenon DEF IInv
    <3> QED BY <1>0, <2>1, <2>2, <3>1, Zenon
  <2> QED BY <1>0, <2>1, <2>2, <2>3, <2>4, <2>5, MoveIInv, Zenon
<1>6. ASSUME NEW c \in Callers, Return(c) PROVE IInv'
  <2>1. Charge(caller[c]) = {} /\ Pending(caller[c]) = {} BY <1>6, Zenon DEF Return, Charge, Pending
  <2>2. /\ Become(c, Idle) /\ UNCHANGED <<cancelled, closed, nodes, node>>
        /\ holder' = IF holder = c THEN Nobody ELSE holder
    BY <1>6, Zenon DEF Return, ReleasedBy
  <2>3. HeldWhileClosing'
    <3>1. \A d \in Callers \ {c} : caller'[d] = caller[d] BY <1>1, <2>2, Others, Zenon DEF IInv
    <3> QED BY <1>0, <2>2, <3>1, Zenon
  <2>4. cancelled' \in BOOLEAN /\ holder' \in Callers \cup {Nobody} BY <1>0, <2>2, Zenon
  <2> QED BY <1>1, <2>1, <2>2, <2>3, <2>4, MoveIInv, Zenon
<1>7. ASSUME NEW c \in Callers, NEW n \in Nodes, Close(c, n) PROVE IInv'
  <2>1. closed => nodes' = {} BY <1>7, Zenon DEF Close, IInv, Registered
  <2> QED BY <1>0, <1>7, <2>1, TakeIInv, Zenon DEF Close
<1>8. ASSUME NEW c \in Callers, CloseAll(c) PROVE IInv'
  <2>1. nodes' = nodes \ nodes /\ nodes' = {} BY <1>8, Zenon DEF CloseAll
  <2> QED BY <1>0, <1>8, <2>1, TakeIInv, Zenon DEF CloseAll
<1>9. ASSUME NEW c \in Callers, StartUpdate(c) PROVE IInv'
  <2>1. caller[c].node \in Nodes BY <1>0, <1>9, TaskShape, Zenon DEF StartUpdate
  <2> QED BY <1>0, <1>9, <2>1, NodeIInv, ZenonT(30) DEF StartUpdate, States
<1>10. ASSUME NEW n \in Nodes, EndUpdate(n) PROVE IInv'
  BY <1>0, <1>10, NodeIInv, Zenon DEF EndUpdate, States
<1>11. ASSUME NEW n \in Nodes, NEW w \in Workers, WorkerExit(n, w) PROVE IInv'
  BY <1>0, <1>11, NodeIInv DEF WorkerExit, States
<1>12. CASE CancelParent BY <1>0, <1>12, NodeIInv, Zenon DEF CancelParent
<1>13. CASE UNCHANGED vars BY <1>0, <1>13, NodeIInv, Zenon DEF vars
<1> QED BY <1>2, <1>3, <1>4, <1>5, <1>6, <1>7, <1>8, <1>9, <1>10, <1>11, <1>12, <1>13,
            NewIInv, RegisterIInv, NodeCloseIInv, CloseDatabaseIInv, Zenon DEF Next, Proceed
-----------------------------------------------------------------------------
\* Ownership of nodes is as described in every reachable state.
THEOREM NodeInvariant == Spec => []IInv
PROOF
<1>1. IInv /\ [Next]_vars => IInv' BY NextIInv, Zenon
<1> QED BY <1>1, InitIInv, PTL DEF Spec

\* Registry, nodes and calls keep their shapes, and the registry's mutex is
\* only ever held across a close (Open on a closed registry).
THEOREM NodeTypes == Spec => []TypeOK
PROOF
<1>1. IInv => TypeOK BY Zenon DEF IInv
<1> QED BY <1>1, NodeInvariant, PTL

\* EmbeddedNode.Close closes the database after every counted call and every
\* launched worker has ended, and no call is served afterwards.
THEOREM NodeDatabaseOutlivesUsers == Spec => []DatabaseOutlivesUsers
PROOF
<1>1. IInv => DatabaseOutlivesUsers BY Zenon DEF IInv, Quiet, DatabaseOutlivesUsers, Serves
<1> QED BY <1>1, NodeInvariant, PTL

\* A node whose Open raced with CloseAll is closed by one of the two: when
\* the registry is closed and all calls have returned, no node is open.
THEOREM NodeNothingLeaks == Spec => []NothingLeaks
PROOF
<1>1. Charge(Idle) = {} BY Zenon DEF Charge, Pending, Idle
<1>2. IInv => NothingLeaks BY <1>1, Zenon DEF IInv, Registered, Owned, NothingLeaks
<1> QED BY <1>2, NodeInvariant, PTL

-----------------------------------------------------------------------------
(* The mail composer with the scheduler of drafts that the node runs.      *)

CONSTANTS Mails, Files, Form, NoMail, NoFile, MaxDrafts, MaxSaves, MaxSends
VARIABLES comp, timer, ref, pill, meta, uploads, saves, sends,
          drafts, made, job, copies, ghost

Mail == INSTANCE MailComposer


(* What the proofs need of the shape of the state.                         *)
RowShape(r) == {"mail", "sched", "env"} \subseteq DOMAIN r

SaveShape(v) ==
  {"st", "id", "row"} \subseteq DOMAIN v /\ RowShape(v.row) /\ ~v.row.env /\ (v.st = "sent" => v.row.mail \in Mails)

SendShape(v) ==
  /\ {"st", "mail", "smtp", "sched", "file"} \subseteq DOMAIN v
  /\ v.st \notin {"idle", "done"} => v.mail \in Mails

CopyShape(c) ==
  {"native", "legacy"} \subseteq DOMAIN c /\ c.native \in [Mails -> Nat] /\ c.legacy \in [Mails -> Nat]

MailShape ==
  /\ {"open", "mail", "smtp", "sched"} \subseteq DOMAIN comp /\ comp.mail \in Mails \cup {NoMail}
  /\ timer => comp.mail \in Mails
  /\ DOMAIN saves = 1..MaxSaves /\ \A n \in 1..MaxSaves : SaveShape(saves[n])
  /\ DOMAIN sends = 1..MaxSends /\ \A s \in 1..MaxSends : SendShape(sends[s])
  /\ DOMAIN drafts = Mail!Ids
  /\ \A d \in Mail!Ids :
       /\ RowShape(drafts[d]) /\ drafts[d].mail \in Mails \cup {NoMail}
       /\ drafts[d].sched => drafts[d].mail \in Mails
  /\ {"id", "row", "ok"} \subseteq DOMAIN job /\ RowShape(job.row) /\ job.row.mail \in Mails \cup {NoMail}
  /\ job.ok => job.row.mail \in Mails
  /\ CopyShape(copies)
  /\ {"used", "saved", "planned", "opened", "mixed", "bare", "late", "crashed", "hidden", "presses", "smtp"}
       \subseteq DOMAIN ghost
  /\ ghost.presses \in [Mails -> Nat]

(* Every id the composer, a save or the scheduler holds is one the node    *)
(* has given out, and the rows beyond are empty.                           *)
IdsGiven ==
  /\ made \in 0..MaxDrafts /\ ref \in 0..made
  /\ \A n \in 1..MaxSaves : saves[n].id \in 0..made
  /\ job # Mail!NoJob => job.id \in 1..made
  /\ \A d \in Mail!Ids : d > made => drafts[d] = Mail!NoRow

(* A text that is not lost: it was delivered, a draft has it, or the       *)
(* scheduler dropped it for want of envelopes.                             *)
Kept(m) == m \in ghost.bare \/ Mail!Delivered(m) \/ \E d \in Mail!Ids : drafts[d].mail = m

(* No step took the draft of another mail: every saved text is kept, and a *)
(* send that is about to delete or has planned one has somewhere left it.  *)
KeepInv ==
  ~ghost.mixed =>
    /\ \A m \in ghost.saved : m \in Mails /\ Kept(m)
    /\ \A s \in 1..MaxSends :
         /\ sends[s].st \in {"self", "clean", "delete"} => Mail!Delivered(sends[s].mail)
         /\ sends[s].st = "planned" => Kept(sends[s].mail)
    /\ job.ok => Mail!Delivered(job.row.mail)

(* Of the mails, files and drafts that the composer holds the last one     *)
(* chosen is the one that is shown: uploadedMeta is of the file of the     *)
(* pill, and a file that is still being uploaded is not attached yet.      *)
FileInv ==
  /\ {"late", "hidden"} \subseteq DOMAIN ghost
  /\ ~ghost.late => /\ meta \in {NoFile, pill} /\ ~ghost.hidden
                    /\ meta # NoFile => meta \notin uploads

(* The empty composer of a page that is loaded.                            *)
LEMMA MailInit ==
  ASSUME Mail!FormAssumption, Mail!Init PROVE MailShape /\ IdsGiven /\ KeepInv
<1>0. CopyShape(copies)
  BY Zenon DEF Mail!Init, CopyShape
<1>1. MailShape
  BY <1>0, Zenon
     DEF Mail!FormAssumption, Mail!Init, MailShape, RowShape, SaveShape, SendShape, Mail!IdleSave,
         Mail!IdleSend,
         Mail!NoRow, Mail!NoJob, Mail!Ids
<1>2. IdsGiven
  BY DEF Mail!FormAssumption, Mail!Init, IdsGiven, Mail!NoRow, Mail!NoJob, Mail!Ids, Mail!IdleSave,
     Mail!NoDraft
<1>3. KeepInv
  BY Zenon DEF Mail!Init, KeepInv, Mail!NoJob, Mail!IdleSend
<1> QED
  BY <1>1, <1>2, <1>3, Zenon

(* Copies that go out are counted for their mail only.                     *)
LEMMA CopiesMore ==
  ASSUME CopyShape(copies), NEW m, NEW k \in Nat
  PROVE  /\ CopyShape([copies EXCEPT !.native[m] = @ + k])
         /\ CopyShape([copies EXCEPT !.legacy[m] = @ + k])
<1>1. ASSUME NEW f \in [Mails -> Nat] PROVE [f EXCEPT ![m] = f[m] + k] \in [Mails -> Nat]
  <2>1. CASE m \in Mails
    <3>1. f[m] + k \in Nat
      BY <2>1
    <3> QED
      BY <3>1, Zenon
  <2>2. CASE m \notin Mails
    BY <2>2, Zenon
  <2> QED
    BY <2>1, <2>2, Zenon
<1>2. [copies.native EXCEPT ![m] = copies.native[m] + k] \in [Mails -> Nat]
  BY <1>1, Zenon DEF CopyShape
<1>3. [copies.legacy EXCEPT ![m] = copies.legacy[m] + k] \in [Mails -> Nat]
  BY <1>1, Zenon DEF CopyShape
<1> QED
  BY <1>2, <1>3, Zenon DEF CopyShape

(* The node's upsert: the row is stored under the id, or under a new one.  *)
LEMMA DraftStored ==
  ASSUME Mail!FormAssumption, MailShape, IdsGiven, NEW id \in 0..made, NEW row, Mail!CanStore(id),
         Mail!SaveMailDraft(id, row)
  PROVE  /\ made' \in made..MaxDrafts /\ Mail!Stored(id) \in 1..made' /\ Mail!Stored(id) \in Mail!Ids
         /\ DOMAIN drafts' = Mail!Ids
         /\ drafts'[Mail!Stored(id)] = row
         /\ \A d \in Mail!Ids : d # Mail!Stored(id) => drafts'[d] = drafts[d]
         /\ id = 0 => drafts[Mail!Stored(id)] = Mail!NoRow
         /\ id # 0 => Mail!Stored(id) = id
         /\ \A d \in Mail!Ids : d > made' => drafts'[d] = Mail!NoRow
<1>1. made' \in made..MaxDrafts /\ Mail!Stored(id) \in 1..made' /\ Mail!Stored(id) \in Mail!Ids
  BY DEF Mail!FormAssumption, IdsGiven, Mail!CanStore, Mail!SaveMailDraft, Mail!Stored,
     Mail!NoDraft, Mail!Ids
<1>2. drafts' = [drafts EXCEPT ![Mail!Stored(id)] = row] /\ DOMAIN drafts = Mail!Ids
  BY Zenon DEF Mail!SaveMailDraft, MailShape
<1>3. id = 0 => drafts[Mail!Stored(id)] = Mail!NoRow
  BY <1>1 DEF IdsGiven, Mail!Stored, Mail!NoDraft
<1>4. \A d \in Mail!Ids : d > made' => d > made /\ d # Mail!Stored(id)
  BY <1>1 DEF IdsGiven, Mail!Ids
<1> QED
  BY <1>1, <1>2, <1>3, <1>4, Zenon DEF IdsGiven, Mail!Stored, Mail!NoDraft

(* Every step keeps the shape of the state.                                *)
LEMMA MailShapeKept ==
  ASSUME Mail!FormAssumption, MailShape, IdsGiven, [Mail!Next]_(Mail!vars)
  PROVE  MailShape'
<1> USE DEF MailShape, RowShape, SaveShape, SendShape
<1>1. CASE Mail!StartCompose
  BY <1>1, Zenon
     DEF Mail!StartCompose, Mail!Edited, Mail!OnlyFields, Mail!Armed, Mail!node, Mail!NoDraft,
         Mail!Ids
<1>2. CASE Mail!ShortcutCompose
  BY <1>2, Zenon
     DEF Mail!ShortcutCompose, Mail!Edited, Mail!OnlyFields, Mail!Armed, Mail!node, Mail!NoDraft,
         Mail!Ids
<1>3. CASE Mail!ChooseMode
  BY <1>3, Zenon
     DEF Mail!ChooseMode, Mail!Edited, Mail!OnlyFields, Mail!Armed, Mail!node, Mail!NoDraft,
         Mail!Ids
<1>4. CASE Mail!ChooseTime
  BY <1>4, Zenon
     DEF Mail!ChooseTime, Mail!Edited, Mail!OnlyFields, Mail!Armed, Mail!node, Mail!NoDraft,
         Mail!Ids
<1>5. CASE Mail!Cancel
  BY <1>5, Zenon
     DEF Mail!Cancel, Mail!Edited, Mail!OnlyFields, Mail!Armed, Mail!node, Mail!NoDraft, Mail!Ids
<1>6. CASE Mail!FinishDueDraft
  BY <1>6, Zenon
     DEF Mail!FinishDueDraft, Mail!ui, Mail!file, Mail!NoRow, Mail!NoJob, Mail!NoDraft, Mail!Ids
<1>7. CASE Mail!SchedulerCrash
  BY <1>7, Zenon
     DEF Mail!SchedulerCrash, Mail!ui, Mail!file, Mail!NoRow, Mail!NoJob, Mail!NoDraft, Mail!Ids
<1>8. ASSUME NEW m \in Mails, Mail!HandleReplyMail(m) PROVE MailShape'
  BY <1>8, Zenon
     DEF Mail!HandleReplyMail, Mail!Edited, Mail!OnlyFields, Mail!Armed, Mail!node, Mail!NoDraft,
         Mail!Ids
<1>9. ASSUME NEW m \in Mails, Mail!TypeText(m) PROVE MailShape'
  BY <1>9, Zenon
     DEF Mail!TypeText, Mail!Edited, Mail!OnlyFields, Mail!Armed, Mail!node, Mail!NoDraft, Mail!Ids
<1>10. ASSUME NEW d \in Mail!Ids, Mail!OpenDraft(d) PROVE MailShape'
  <2>1. {"open", "mail", "smtp", "sched"} \subseteq DOMAIN comp' /\ comp'.mail = drafts[d].mail
    BY <1>10, Zenon DEF Mail!OpenDraft, Mail!Edited
  <2>2. timer' => comp'.mail \in Mails
    BY <1>10, <2>1, Zenon DEF Mail!OpenDraft, Mail!Edited, Mail!Armed
  <2>3. UNCHANGED <<saves, sends, drafts, job, copies>> /\ DOMAIN ghost' = DOMAIN ghost /\ ghost'.presses = ghost.presses
    BY <1>10, Zenon DEF Mail!OpenDraft, Mail!OnlyFields, Mail!node
  <2> QED
    BY <2>1, <2>2, <2>3, Zenon
<1>11. ASSUME NEW d \in Mail!Ids, Mail!DropDueDraft(d) PROVE MailShape'
  BY <1>11, Zenon DEF Mail!DropDueDraft, Mail!ui, Mail!file, Mail!NoRow, Mail!NoJob, Mail!NoDraft, Mail!Ids
<1>12. ASSUME NEW d \in Mail!Ids, NEW ok \in BOOLEAN, Mail!SendDueDraft(d, ok) PROVE MailShape'
  <2> DEFINE more == IF ok THEN 1 ELSE 0
  <2>1. more \in Nat
    BY Zenon
  <2>2. CopyShape(copies')
    BY <1>12, <2>1, CopiesMore, Zenon DEF Mail!SendDueDraft
  <2>3. job'.row = drafts[d] /\ {"id", "row", "ok"} \subseteq DOMAIN job' /\ drafts[d].sched
    BY <1>12, Zenon DEF Mail!SendDueDraft
  <2> QED
    BY <1>12, <2>2, <2>3, Zenon DEF Mail!SendDueDraft, Mail!ui, Mail!file
<1>13. ASSUME NEW n \in 1..MaxSaves, Mail!Autosave(n) PROVE MailShape'
  BY <1>13, Zenon DEF Mail!Autosave, Mail!node, Mail!NoDraft, Mail!Ids
<1>14. ASSUME NEW n \in 1..MaxSaves, Mail!AutosaveStored(n) PROVE MailShape'
  BY <1>14, Zenon
     DEF Mail!AutosaveStored, Mail!SaveMailDraft, Mail!Stored, Mail!CanStore, Mail!NoDraft, Mail!Ids
<1>15. ASSUME NEW n \in 1..MaxSaves, Mail!AutosaveReturns(n) PROVE MailShape'
  BY <1>15, Zenon DEF Mail!AutosaveReturns, Mail!node, Mail!IdleSave, Mail!NoRow, Mail!NoDraft, Mail!Ids
<1>16. ASSUME NEW n \in 1..MaxSaves, Mail!AutosaveFails(n) PROVE MailShape'
  BY <1>16, Zenon DEF Mail!AutosaveFails, Mail!node, Mail!IdleSave, Mail!NoRow, Mail!NoDraft, Mail!Ids
<1>17. ASSUME NEW f \in Files, Mail!HandleFileUpload(f) PROVE MailShape'
  BY <1>17, Zenon DEF Mail!HandleFileUpload, Mail!node, Mail!NoDraft, Mail!Ids
<1>18. ASSUME NEW f \in Files, Mail!UploadDone(f) PROVE MailShape'
  BY <1>18, Zenon DEF Mail!UploadDone, Mail!node, Mail!NoDraft, Mail!Ids
<1>19. ASSUME NEW f \in Files, Mail!UploadFails(f) PROVE MailShape'
  BY <1>19, Zenon DEF Mail!UploadFails, Mail!node, Mail!NoDraft, Mail!Ids
<1>20. ASSUME NEW s \in 1..MaxSends, Mail!Submit(s) PROVE MailShape'
  BY <1>20 DEF Mail!Submit, Mail!node, Mail!file, Mail!NoDraft, Mail!Ids
<1>21. ASSUME NEW s \in 1..MaxSends, Mail!Resolve(s) PROVE MailShape'
  BY <1>21, Zenon
     DEF Mail!Resolve, Mail!ToSt, Mail!node, Mail!ui, Mail!file, Mail!IdleSend, Mail!NoDraft,
         Mail!Ids
<1>22. ASSUME NEW s \in 1..MaxSends, Mail!SendFails(s) PROVE MailShape'
  BY <1>22, Zenon
     DEF Mail!SendFails, Mail!ToSt, Mail!node, Mail!ui, Mail!file, Mail!IdleSend, Mail!NoDraft,
         Mail!Ids
<1>23. ASSUME NEW s \in 1..MaxSends, Mail!Deliver(s) PROVE MailShape'
  <2>1. CopyShape(copies')
    BY <1>23, CopiesMore, Zenon DEF Mail!Deliver
  <2>2. DOMAIN sends' = 1..MaxSends /\ \A k \in 1..MaxSends : SendShape(sends'[k])
    BY <1>23, Zenon DEF Mail!Deliver, Mail!ToSt, Mail!IdleSend
  <2> QED
    BY <1>23, <2>1, <2>2, Zenon DEF Mail!Deliver, Mail!ui, Mail!file
<1>24. ASSUME NEW s \in 1..MaxSends, Mail!DeliverUnanswered(s) PROVE MailShape'
  <2>1. CopyShape(copies')
    BY <1>24, CopiesMore, Zenon DEF Mail!DeliverUnanswered
  <2>2. DOMAIN sends' = 1..MaxSends /\ \A k \in 1..MaxSends : SendShape(sends'[k])
    BY <1>24, Zenon DEF Mail!DeliverUnanswered, Mail!ToSt, Mail!IdleSend
  <2> QED
    BY <1>24, <2>1, <2>2, Zenon DEF Mail!DeliverUnanswered, Mail!ui, Mail!file
<1>25. ASSUME NEW s \in 1..MaxSends, Mail!DeliverSelf(s) PROVE MailShape'
  BY <1>25, Zenon
     DEF Mail!DeliverSelf, Mail!ToSt, Mail!node, Mail!ui, Mail!file, Mail!IdleSend, Mail!NoDraft,
         Mail!Ids
<1>26. ASSUME NEW s \in 1..MaxSends, Mail!SendSmtpMail(s) PROVE MailShape'
  <2>1. CopyShape(copies')
    BY <1>26, CopiesMore, Zenon DEF Mail!SendSmtpMail
  <2>2. DOMAIN sends' = 1..MaxSends /\ \A k \in 1..MaxSends : SendShape(sends'[k])
    BY <1>26, Zenon DEF Mail!SendSmtpMail, Mail!ToSt, Mail!IdleSend
  <2> QED
    BY <1>26, <2>1, <2>2, Zenon DEF Mail!SendSmtpMail, Mail!ui, Mail!file
<1>27. ASSUME NEW s \in 1..MaxSends, Mail!DeleteDraft(s) PROVE MailShape'
  <2>0. drafts' = [drafts EXCEPT ![ref] = Mail!NoRow] \/ drafts' = drafts
    BY <1>27, Zenon DEF Mail!DeleteDraft
  <2>1. /\ DOMAIN drafts' = Mail!Ids
        /\ \A d \in Mail!Ids : RowShape(drafts'[d]) /\ drafts'[d].mail \in Mails \cup {NoMail}
                               /\ (drafts'[d].sched => drafts'[d].mail \in Mails)
    <3>1. CASE drafts' = drafts
      BY <3>1, Zenon
    <3>2. CASE drafts' = [drafts EXCEPT ![ref] = Mail!NoRow]
      BY <3>2, Zenon DEF Mail!NoRow
    <3> QED
      BY <2>0, <3>1, <3>2, Zenon
  <2>2. DOMAIN sends' = 1..MaxSends /\ \A k \in 1..MaxSends : SendShape(sends'[k])
    BY <1>27, Zenon DEF Mail!DeleteDraft, Mail!ToSt, Mail!IdleSend
  <2> QED
    BY <1>27, <2>1, <2>2, Zenon DEF Mail!DeleteDraft, Mail!ui, Mail!file
<1>28. ASSUME NEW s \in 1..MaxSends, Mail!Finish(s) PROVE MailShape'
  BY <1>28, Zenon
     DEF Mail!Finish, Mail!Edited, Mail!Armed, Mail!ToSt, Mail!node, Mail!file, Mail!IdleSend,
         Mail!NoDraft, Mail!Ids
<1>29. ASSUME NEW s \in 1..MaxSends, Mail!PlanStored(s) PROVE MailShape'
  BY <1>29, Zenon
     DEF Mail!PlanStored, Mail!ToSt, Mail!SaveMailDraft, Mail!Stored, Mail!CanStore, Mail!ui,
         Mail!file, Mail!IdleSend, Mail!NoDraft, Mail!Ids
<1>30. ASSUME NEW s \in 1..MaxSends, Mail!Planned(s) PROVE MailShape'
  BY <1>30, Zenon
     DEF Mail!Planned, Mail!Edited, Mail!Armed, Mail!ToSt, Mail!node, Mail!file, Mail!IdleSend,
         Mail!NoDraft, Mail!Ids
<1>31. CASE UNCHANGED Mail!vars
  BY <1>31, Zenon DEF Mail!vars
<1> HIDE DEF MailShape
<1> QED
  BY <1>1, <1>2, <1>3, <1>4, <1>5, <1>6, <1>7, <1>8, <1>9, <1>10, <1>11, <1>12, <1>13, <1>14,
     <1>15, <1>16, <1>17, <1>18, <1>19, <1>20, <1>21, <1>22, <1>23, <1>24, <1>25, <1>26, <1>27,
     <1>28, <1>29, <1>30, <1>31, ZenonT(30) DEF Mail!Next, Mail!WriteToContact, Mail!InsertSignature

(* Ids come from the node.                                                 *)
LEMMA IdsKept ==
  ASSUME Mail!FormAssumption, MailShape, IdsGiven, [Mail!Next]_(Mail!vars)
  PROVE  IdsGiven'
<1> USE DEF MailShape, IdsGiven, RowShape, SaveShape, SendShape, Mail!FormAssumption
<1>1. CASE Mail!StartCompose
  BY <1>1, Zenon
     DEF Mail!StartCompose, Mail!Edited, Mail!OnlyFields, Mail!Armed, Mail!node, Mail!NoDraft,
         Mail!Ids
<1>2. CASE Mail!ShortcutCompose
  BY <1>2
     DEF Mail!ShortcutCompose, Mail!Edited, Mail!OnlyFields, Mail!Armed, Mail!node, Mail!NoDraft,
         Mail!Ids
<1>3. CASE Mail!ChooseMode
  BY <1>3, Zenon
     DEF Mail!ChooseMode, Mail!Edited, Mail!OnlyFields, Mail!Armed, Mail!node, Mail!NoDraft,
         Mail!Ids
<1>4. CASE Mail!ChooseTime
  BY <1>4, Zenon
     DEF Mail!ChooseTime, Mail!Edited, Mail!OnlyFields, Mail!Armed, Mail!node, Mail!NoDraft,
         Mail!Ids
<1>5. CASE Mail!Cancel
  BY <1>5, Zenon
     DEF Mail!Cancel, Mail!Edited, Mail!OnlyFields, Mail!Armed, Mail!node, Mail!NoDraft, Mail!Ids
<1>6. CASE Mail!FinishDueDraft
  <2>1. \A d \in Mail!Ids : d # job.id => drafts'[d] = drafts[d]
    BY <1>6, Zenon DEF Mail!FinishDueDraft
  <2>2. job' = Mail!NoJob /\ job.id \in 1..made /\ UNCHANGED <<made, ref, saves>>
    BY <1>6, Zenon DEF Mail!FinishDueDraft, Mail!ui
  <2>3. \A d \in Mail!Ids : d > made => drafts'[d] = Mail!NoRow
    BY <2>1, <2>2 DEF Mail!Ids
  <2> QED
    BY <2>2, <2>3, Zenon
<1>7. CASE Mail!SchedulerCrash
  BY <1>7, Zenon
     DEF Mail!SchedulerCrash, Mail!ui, Mail!file, Mail!NoRow, Mail!NoJob, Mail!NoDraft, Mail!Ids
<1>8. ASSUME NEW m \in Mails, Mail!HandleReplyMail(m) PROVE IdsGiven'
  BY <1>8, Zenon
     DEF Mail!HandleReplyMail, Mail!Edited, Mail!OnlyFields, Mail!Armed, Mail!node, Mail!NoDraft,
         Mail!Ids
<1>9. ASSUME NEW m \in Mails, Mail!TypeText(m) PROVE IdsGiven'
  BY <1>9, Zenon
     DEF Mail!TypeText, Mail!Edited, Mail!OnlyFields, Mail!Armed, Mail!node, Mail!NoDraft, Mail!Ids
<1>10. ASSUME NEW d \in Mail!Ids, Mail!OpenDraft(d) PROVE IdsGiven'
  BY <1>10
     DEF Mail!OpenDraft, Mail!Edited, Mail!OnlyFields, Mail!Armed, Mail!node, Mail!NoRow,
         Mail!NoDraft, Mail!Ids
<1>11. ASSUME NEW d \in Mail!Ids, Mail!DropDueDraft(d) PROVE IdsGiven'
  BY <1>11, Zenon
     DEF Mail!DropDueDraft, Mail!ui, Mail!file, Mail!NoRow, Mail!NoJob, Mail!NoDraft, Mail!Ids
<1>12. ASSUME NEW d \in Mail!Ids, NEW ok \in BOOLEAN, Mail!SendDueDraft(d, ok) PROVE IdsGiven'
  <2>0. drafts[d] # Mail!NoRow
    BY <1>12 DEF Mail!SendDueDraft, Mail!NoRow
  <2>1. d \in 1..made /\ job'.id = d
    BY <1>12, <2>0 DEF Mail!SendDueDraft, Mail!Ids
  <2> QED
    BY <1>12, <2>1, Zenon DEF Mail!SendDueDraft, Mail!ui
<1>13. ASSUME NEW n \in 1..MaxSaves, Mail!Autosave(n) PROVE IdsGiven'
  BY <1>13, Zenon DEF Mail!Autosave, Mail!node, Mail!NoDraft, Mail!Ids
<1>14. ASSUME NEW n \in 1..MaxSaves, Mail!AutosaveStored(n) PROVE IdsGiven'
  <2>1. saves[n].id \in 0..made /\ Mail!CanStore(saves[n].id) /\ Mail!SaveMailDraft(saves[n].id, saves[n].row)
    BY <1>14, Zenon DEF Mail!AutosaveStored
  <2>2. \A k \in 1..MaxSaves : saves'[k].id = saves[k].id \/ saves'[k].id = Mail!Stored(saves[n].id)
    BY <1>14, Zenon DEF Mail!AutosaveStored
  <2>3. UNCHANGED <<ref, job>>
    BY <1>14, Zenon DEF Mail!AutosaveStored
  <2>4. /\ made' \in made..MaxDrafts /\ Mail!Stored(saves[n].id) \in 1..made'
        /\ \A d \in Mail!Ids : d > made' => drafts'[d] = Mail!NoRow
    BY <2>1, DraftStored, Zenon
  <2>5. \A k \in 1..MaxSaves : saves'[k].id \in 0..made'
    <3> SUFFICES ASSUME NEW k \in 1..MaxSaves PROVE saves'[k].id \in 0..made'
      BY Zenon
    <3>1. saves[k].id \in 0..made
      BY Zenon
    <3>2. made \in Nat /\ made' \in made..MaxDrafts /\ Mail!Stored(saves[n].id) \in 1..made'
      BY <2>4
    <3> HIDE DEF IdsGiven, MailShape
    <3>3. saves'[k].id = saves[k].id \/ saves'[k].id = Mail!Stored(saves[n].id)
      BY <2>2, Zenon
    <3> QED
      BY <3>1, <3>2, <3>3
  <2>6. ref' \in 0..made' /\ made' \in 0..MaxDrafts /\ (job' # Mail!NoJob => job'.id \in 1..made')
    BY <2>3, <2>4
  <2> QED
    BY <2>4, <2>5, <2>6, Zenon
<1>15. ASSUME NEW n \in 1..MaxSaves, Mail!AutosaveReturns(n) PROVE IdsGiven'
  BY <1>15 DEF Mail!AutosaveReturns, Mail!node, Mail!IdleSave, Mail!NoRow, Mail!NoDraft, Mail!Ids
<1>16. ASSUME NEW n \in 1..MaxSaves, Mail!AutosaveFails(n) PROVE IdsGiven'
  BY <1>16 DEF Mail!AutosaveFails, Mail!node, Mail!IdleSave, Mail!NoRow, Mail!NoDraft, Mail!Ids
<1>17. ASSUME NEW f \in Files, Mail!HandleFileUpload(f) PROVE IdsGiven'
  BY <1>17, Zenon DEF Mail!HandleFileUpload, Mail!node, Mail!NoDraft, Mail!Ids
<1>18. ASSUME NEW f \in Files, Mail!UploadDone(f) PROVE IdsGiven'
  BY <1>18, Zenon DEF Mail!UploadDone, Mail!node, Mail!NoDraft, Mail!Ids
<1>19. ASSUME NEW f \in Files, Mail!UploadFails(f) PROVE IdsGiven'
  BY <1>19, Zenon DEF Mail!UploadFails, Mail!node, Mail!NoDraft, Mail!Ids
<1>20. ASSUME NEW s \in 1..MaxSends, Mail!Submit(s) PROVE IdsGiven'
  BY <1>20, Zenon DEF Mail!Submit, Mail!node, Mail!file, Mail!NoDraft, Mail!Ids
<1>21. ASSUME NEW s \in 1..MaxSends, Mail!Resolve(s) PROVE IdsGiven'
  BY <1>21, Zenon
     DEF Mail!Resolve, Mail!ToSt, Mail!node, Mail!ui, Mail!file, Mail!IdleSend, Mail!NoDraft,
         Mail!Ids
<1>22. ASSUME NEW s \in 1..MaxSends, Mail!SendFails(s) PROVE IdsGiven'
  BY <1>22, Zenon
     DEF Mail!SendFails, Mail!ToSt, Mail!node, Mail!ui, Mail!file, Mail!IdleSend, Mail!NoDraft,
         Mail!Ids
<1>23. ASSUME NEW s \in 1..MaxSends, Mail!Deliver(s) PROVE IdsGiven'
  BY <1>23, Zenon DEF Mail!Deliver, Mail!ToSt, Mail!ui, Mail!file, Mail!IdleSend, Mail!NoDraft, Mail!Ids
<1>24. ASSUME NEW s \in 1..MaxSends, Mail!DeliverUnanswered(s) PROVE IdsGiven'
  BY <1>24, Zenon
     DEF Mail!DeliverUnanswered, Mail!ToSt, Mail!ui, Mail!file, Mail!IdleSend, Mail!NoDraft,
         Mail!Ids
<1>25. ASSUME NEW s \in 1..MaxSends, Mail!DeliverSelf(s) PROVE IdsGiven'
  BY <1>25, Zenon
     DEF Mail!DeliverSelf, Mail!ToSt, Mail!node, Mail!ui, Mail!file, Mail!IdleSend, Mail!NoDraft,
         Mail!Ids
<1>26. ASSUME NEW s \in 1..MaxSends, Mail!SendSmtpMail(s) PROVE IdsGiven'
  BY <1>26, Zenon
     DEF Mail!SendSmtpMail, Mail!ToSt, Mail!ui, Mail!file, Mail!IdleSend, Mail!NoDraft, Mail!Ids
<1>27. ASSUME NEW s \in 1..MaxSends, Mail!DeleteDraft(s) PROVE IdsGiven'
  <2>0. drafts' = [drafts EXCEPT ![ref] = Mail!NoRow] \/ drafts' = drafts
    BY <1>27, Zenon DEF Mail!DeleteDraft
  <2>1. \A d \in Mail!Ids : d > made => drafts'[d] = Mail!NoRow
    BY <2>0, Zenon
  <2> QED
    BY <1>27, <2>1, Zenon DEF Mail!DeleteDraft, Mail!ui
<1>28. ASSUME NEW s \in 1..MaxSends, Mail!Finish(s) PROVE IdsGiven'
  BY <1>28
     DEF Mail!Finish, Mail!Edited, Mail!Armed, Mail!ToSt, Mail!node, Mail!file, Mail!IdleSend,
         Mail!NoDraft, Mail!Ids
<1>29. ASSUME NEW s \in 1..MaxSends, Mail!PlanStored(s) PROVE IdsGiven'
  <2>1. PICK row : Mail!CanStore(ref) /\ Mail!SaveMailDraft(ref, row)
    BY <1>29, Zenon DEF Mail!PlanStored
  <2>2. UNCHANGED <<ref, job, saves>>
    BY <1>29, Zenon DEF Mail!PlanStored, Mail!ui
  <2>3. made' \in made..MaxDrafts /\ \A d \in Mail!Ids : d > made' => drafts'[d] = Mail!NoRow
    BY <2>1, DraftStored, Zenon
  <2> QED
    BY <2>2, <2>3
<1>30. ASSUME NEW s \in 1..MaxSends, Mail!Planned(s) PROVE IdsGiven'
  BY <1>30
     DEF Mail!Planned, Mail!Edited, Mail!Armed, Mail!ToSt, Mail!node, Mail!file, Mail!IdleSend,
         Mail!NoDraft, Mail!Ids
<1>31. CASE UNCHANGED Mail!vars
  BY <1>31, ZenonT(30) DEF Mail!vars
<1> HIDE DEF MailShape, IdsGiven
<1> QED
  BY <1>1, <1>2, <1>3, <1>4, <1>5, <1>6, <1>7, <1>8, <1>9, <1>10, <1>11, <1>12, <1>13, <1>14,
     <1>15, <1>16, <1>17, <1>18, <1>19, <1>20, <1>21, <1>22, <1>23, <1>24, <1>25, <1>26, <1>27,
     <1>28, <1>29, <1>30, <1>31, ZenonT(30) DEF Mail!Next, Mail!WriteToContact, Mail!InsertSignature

(* A mail leaves with the file that is shown, or with none: every step     *)
(* keeps this.                                                             *)
LEMMA FileKept ==
  ASSUME FileInv, [Mail!Next]_(Mail!vars)
  PROVE  FileInv'
<1> USE DEF FileInv
<1>1. CASE Mail!StartCompose
  BY <1>1, Zenon
     DEF Mail!StartCompose, Mail!Edited, Mail!OnlyFields, Mail!Armed, Mail!node, Mail!NoDraft,
         Mail!Ids
<1>2. CASE Mail!ShortcutCompose
  BY <1>2, Zenon
     DEF Mail!ShortcutCompose, Mail!Edited, Mail!OnlyFields, Mail!Armed, Mail!node, Mail!NoDraft,
         Mail!Ids
<1>3. CASE Mail!ChooseMode
  BY <1>3, Zenon
     DEF Mail!ChooseMode, Mail!Edited, Mail!OnlyFields, Mail!Armed, Mail!node, Mail!NoDraft,
         Mail!Ids
<1>4. CASE Mail!ChooseTime
  BY <1>4, Zenon
     DEF Mail!ChooseTime, Mail!Edited, Mail!OnlyFields, Mail!Armed, Mail!node, Mail!NoDraft,
         Mail!Ids
<1>5. CASE Mail!Cancel
  BY <1>5, Zenon
     DEF Mail!Cancel, Mail!Edited, Mail!OnlyFields, Mail!Armed, Mail!node, Mail!NoDraft, Mail!Ids
<1>6. CASE Mail!FinishDueDraft
  BY <1>6, Zenon
     DEF Mail!FinishDueDraft, Mail!ui, Mail!file, Mail!NoRow, Mail!NoJob, Mail!NoDraft, Mail!Ids
<1>7. CASE Mail!SchedulerCrash
  BY <1>7, Zenon
     DEF Mail!SchedulerCrash, Mail!ui, Mail!file, Mail!NoRow, Mail!NoJob, Mail!NoDraft, Mail!Ids
<1>8. ASSUME NEW m \in Mails, Mail!HandleReplyMail(m) PROVE FileInv'
  BY <1>8, Zenon
     DEF Mail!HandleReplyMail, Mail!Edited, Mail!OnlyFields, Mail!Armed, Mail!node, Mail!NoDraft,
         Mail!Ids
<1>9. ASSUME NEW m \in Mails, Mail!TypeText(m) PROVE FileInv'
  BY <1>9, Zenon
     DEF Mail!TypeText, Mail!Edited, Mail!OnlyFields, Mail!Armed, Mail!node, Mail!NoDraft, Mail!Ids
<1>10. ASSUME NEW d \in Mail!Ids, Mail!OpenDraft(d) PROVE FileInv'
  BY <1>10, Zenon
     DEF Mail!OpenDraft, Mail!Edited, Mail!OnlyFields, Mail!Armed, Mail!node, Mail!NoRow,
         Mail!NoDraft, Mail!Ids
<1>11. ASSUME NEW d \in Mail!Ids, Mail!DropDueDraft(d) PROVE FileInv'
  BY <1>11, Zenon DEF Mail!DropDueDraft, Mail!ui, Mail!file, Mail!NoRow, Mail!NoJob, Mail!NoDraft, Mail!Ids
<1>12. ASSUME NEW d \in Mail!Ids, NEW ok \in BOOLEAN, Mail!SendDueDraft(d, ok) PROVE FileInv'
  BY <1>12, Zenon DEF Mail!SendDueDraft, Mail!ui, Mail!file, Mail!NoRow, Mail!NoJob, Mail!NoDraft, Mail!Ids
<1>13. ASSUME NEW n \in 1..MaxSaves, Mail!Autosave(n) PROVE FileInv'
  BY <1>13, Zenon DEF Mail!Autosave, Mail!node, Mail!NoDraft, Mail!Ids
<1>14. ASSUME NEW n \in 1..MaxSaves, Mail!AutosaveStored(n) PROVE FileInv'
  BY <1>14, Zenon
     DEF Mail!AutosaveStored, Mail!SaveMailDraft, Mail!Stored, Mail!CanStore, Mail!NoDraft, Mail!Ids
<1>15. ASSUME NEW n \in 1..MaxSaves, Mail!AutosaveReturns(n) PROVE FileInv'
  BY <1>15, Zenon DEF Mail!AutosaveReturns, Mail!node, Mail!IdleSave, Mail!NoRow, Mail!NoDraft, Mail!Ids
<1>16. ASSUME NEW n \in 1..MaxSaves, Mail!AutosaveFails(n) PROVE FileInv'
  BY <1>16, Zenon DEF Mail!AutosaveFails, Mail!node, Mail!IdleSave, Mail!NoRow, Mail!NoDraft, Mail!Ids
<1>17. ASSUME NEW f \in Files, Mail!HandleFileUpload(f) PROVE FileInv'
  BY <1>17, Zenon DEF Mail!HandleFileUpload, Mail!node, Mail!NoDraft, Mail!Ids
<1>18. ASSUME NEW f \in Files, Mail!UploadDone(f) PROVE FileInv'
  BY <1>18, Zenon DEF Mail!UploadDone, Mail!node, Mail!NoDraft, Mail!Ids
<1>19. ASSUME NEW f \in Files, Mail!UploadFails(f) PROVE FileInv'
  BY <1>19, Zenon DEF Mail!UploadFails, Mail!node, Mail!NoDraft, Mail!Ids
<1>20. ASSUME NEW s \in 1..MaxSends, Mail!Submit(s) PROVE FileInv'
  BY <1>20, Zenon DEF Mail!Submit, Mail!node, Mail!file, Mail!NoDraft, Mail!Ids
<1>21. ASSUME NEW s \in 1..MaxSends, Mail!Resolve(s) PROVE FileInv'
  BY <1>21, Zenon
     DEF Mail!Resolve, Mail!ToSt, Mail!node, Mail!ui, Mail!file, Mail!IdleSend, Mail!NoDraft,
         Mail!Ids
<1>22. ASSUME NEW s \in 1..MaxSends, Mail!SendFails(s) PROVE FileInv'
  BY <1>22, Zenon
     DEF Mail!SendFails, Mail!ToSt, Mail!node, Mail!ui, Mail!file, Mail!IdleSend, Mail!NoDraft,
         Mail!Ids
<1>23. ASSUME NEW s \in 1..MaxSends, Mail!Deliver(s) PROVE FileInv'
  BY <1>23, Zenon DEF Mail!Deliver, Mail!ToSt, Mail!ui, Mail!file, Mail!IdleSend, Mail!NoDraft, Mail!Ids
<1>24. ASSUME NEW s \in 1..MaxSends, Mail!DeliverUnanswered(s) PROVE FileInv'
  BY <1>24, Zenon
     DEF Mail!DeliverUnanswered, Mail!ToSt, Mail!ui, Mail!file, Mail!IdleSend, Mail!NoDraft,
         Mail!Ids
<1>25. ASSUME NEW s \in 1..MaxSends, Mail!DeliverSelf(s) PROVE FileInv'
  BY <1>25, Zenon
     DEF Mail!DeliverSelf, Mail!ToSt, Mail!node, Mail!ui, Mail!file, Mail!IdleSend, Mail!NoDraft,
         Mail!Ids
<1>26. ASSUME NEW s \in 1..MaxSends, Mail!SendSmtpMail(s) PROVE FileInv'
  BY <1>26, Zenon
     DEF Mail!SendSmtpMail, Mail!ToSt, Mail!ui, Mail!file, Mail!IdleSend, Mail!NoDraft, Mail!Ids
<1>27. ASSUME NEW s \in 1..MaxSends, Mail!DeleteDraft(s) PROVE FileInv'
  BY <1>27, Zenon
     DEF Mail!DeleteDraft, Mail!ToSt, Mail!ui, Mail!file, Mail!IdleSend, Mail!NoRow, Mail!NoDraft,
         Mail!Ids
<1>28. ASSUME NEW s \in 1..MaxSends, Mail!Finish(s) PROVE FileInv'
  BY <1>28, Zenon
     DEF Mail!Finish, Mail!Edited, Mail!Armed, Mail!ToSt, Mail!node, Mail!file, Mail!IdleSend,
         Mail!NoDraft, Mail!Ids
<1>29. ASSUME NEW s \in 1..MaxSends, Mail!PlanStored(s) PROVE FileInv'
  BY <1>29, Zenon
     DEF Mail!PlanStored, Mail!ToSt, Mail!SaveMailDraft, Mail!Stored, Mail!CanStore, Mail!ui,
         Mail!file, Mail!IdleSend, Mail!NoDraft, Mail!Ids
<1>30. ASSUME NEW s \in 1..MaxSends, Mail!Planned(s) PROVE FileInv'
  BY <1>30, Zenon
     DEF Mail!Planned, Mail!Edited, Mail!Armed, Mail!ToSt, Mail!node, Mail!file, Mail!IdleSend,
         Mail!NoDraft, Mail!Ids
<1>31. CASE UNCHANGED Mail!vars
  BY <1>31, Zenon DEF Mail!vars
<1> HIDE DEF FileInv
<1> QED
  BY <1>1, <1>2, <1>3, <1>4, <1>5, <1>6, <1>7, <1>8, <1>9, <1>10, <1>11, <1>12, <1>13, <1>14,
     <1>15, <1>16, <1>17, <1>18, <1>19, <1>20, <1>21, <1>22, <1>23, <1>24, <1>25, <1>26, <1>27,
     <1>28, <1>29, <1>30, <1>31, ZenonT(30) DEF Mail!Next, Mail!WriteToContact, Mail!InsertSignature

(* For any files: a mail leaves with the file the composer shows, or with  *)
(* none, unless an upload ended after the composer had moved on            *)
(* (handleFileUpload).                                                     *)
THEOREM MailSentShown ==
  Mail!Spec => []Mail!SentShown
<1>1. Mail!Init => FileInv
  BY DEF Mail!Init, FileInv
<1>2. FileInv /\ [Mail!Next]_(Mail!vars) => FileInv'
  BY FileKept, Zenon
<1>3. FileInv => Mail!SentShown
  BY Zenon DEF FileInv, Mail!SentShown
<1> QED
  BY <1>1, <1>2, <1>3, PTL DEF Mail!Spec

(* The steps of the composer's fields, its timer and its uploads.          *)
FieldSteps ==
  \/ Mail!StartCompose \/ Mail!ShortcutCompose \/ Mail!ChooseMode \/ Mail!ChooseTime \/ Mail!Cancel
  \/ \E m \in Mails : Mail!HandleReplyMail(m) \/ Mail!TypeText(m)
  \/ \E d \in Mail!Ids : Mail!OpenDraft(d)
  \/ \E n \in 1..MaxSaves : Mail!Autosave(n) \/ Mail!AutosaveReturns(n) \/ Mail!AutosaveFails(n)
  \/ \E f \in Files : Mail!HandleFileUpload(f) \/ Mail!UploadDone(f) \/ Mail!UploadFails(f)

Untouched ==
  /\ UNCHANGED <<drafts, copies, job>> /\ ghost'.presses = ghost.presses
  /\ ghost'.saved = ghost.saved /\ ghost'.bare = ghost.bare
  /\ ghost.mixed => ghost'.mixed
  /\ ghost.crashed => ghost'.crashed

(* They touch neither drafts nor sends.                                    *)
LEMMA FieldsUntouched == ASSUME MailShape, FieldSteps PROVE Untouched /\ UNCHANGED sends
<1>1. CASE Mail!StartCompose
  BY <1>1, Zenon DEF Mail!StartCompose, Mail!OnlyFields, Mail!node, Untouched
<1>2. CASE Mail!ShortcutCompose
  BY <1>2, Zenon DEF Mail!ShortcutCompose, Mail!OnlyFields, Mail!node, Untouched
<1>3. CASE Mail!ChooseMode
  BY <1>3, Zenon DEF Mail!ChooseMode, Mail!OnlyFields, Mail!node, Untouched
<1>4. CASE Mail!ChooseTime
  BY <1>4, Zenon DEF Mail!ChooseTime, Mail!OnlyFields, Mail!node, Untouched
<1>5. CASE Mail!Cancel
  BY <1>5, Zenon DEF Mail!Cancel, Mail!OnlyFields, Mail!node, Untouched
<1>6. ASSUME NEW m \in Mails, Mail!HandleReplyMail(m) PROVE Untouched /\ UNCHANGED sends
  BY <1>6, Zenon DEF Mail!HandleReplyMail, Mail!OnlyFields, Mail!node, Untouched, MailShape
<1>7. ASSUME NEW m \in Mails, Mail!TypeText(m) PROVE Untouched /\ UNCHANGED sends
  BY <1>7, Zenon DEF Mail!TypeText, Mail!OnlyFields, Mail!node, Untouched, MailShape
<1>8. ASSUME NEW d \in Mail!Ids, Mail!OpenDraft(d) PROVE Untouched /\ UNCHANGED sends
  BY <1>8, Zenon DEF Mail!OpenDraft, Mail!OnlyFields, Mail!node, Untouched, MailShape
<1>9. ASSUME NEW n \in 1..MaxSaves, Mail!Autosave(n) PROVE Untouched /\ UNCHANGED sends
  BY <1>9, Zenon DEF Mail!Autosave, Mail!node, Untouched, MailShape
<1>10. ASSUME NEW n \in 1..MaxSaves, Mail!AutosaveReturns(n) PROVE Untouched /\ UNCHANGED sends
  BY <1>10, Zenon DEF Mail!AutosaveReturns, Mail!node, Untouched
<1>11. ASSUME NEW n \in 1..MaxSaves, Mail!AutosaveFails(n) PROVE Untouched /\ UNCHANGED sends
  BY <1>11, Zenon DEF Mail!AutosaveFails, Mail!node, Untouched
<1>12. ASSUME NEW f \in Files, Mail!HandleFileUpload(f) PROVE Untouched /\ UNCHANGED sends
  BY <1>12, Zenon DEF Mail!HandleFileUpload, Mail!node, Untouched
<1>13. ASSUME NEW f \in Files, Mail!UploadDone(f) PROVE Untouched /\ UNCHANGED sends
  BY <1>13, Zenon DEF Mail!UploadDone, Mail!node, Untouched, MailShape
<1>14. ASSUME NEW f \in Files, Mail!UploadFails(f) PROVE Untouched /\ UNCHANGED sends
  BY <1>14, Zenon DEF Mail!UploadFails, Mail!node, Untouched, MailShape
<1> QED
  BY <1>1, <1>2, <1>3, <1>4, <1>5, <1>6, <1>7, <1>8, <1>9, <1>10, <1>11, <1>12, <1>13, <1>14, Zenon
     DEF FieldSteps

(* A send that goes on, ends or fails without touching a draft: where it   *)
(* stands.                                                                 *)
SendMoves(s) == Mail!Resolve(s) \/ Mail!SendFails(s) \/ Mail!DeliverSelf(s) \/ Mail!Finish(s)

LEMMA MovesUntouched ==
  ASSUME MailShape, NEW s \in 1..MaxSends, SendMoves(s)
  PROVE  /\ Untouched
         /\ \A k \in 1..MaxSends : k # s => sends'[k] = sends[k]
         /\ \/ sends'[s].st = "done"
            \/ /\ sends[s].st = "resolve" /\ sends'[s].st \in {"plan", "deliver"}
               /\ sends'[s].mail = sends[s].mail
            \/ sends[s].st = "self" /\ sends'[s].st = "clean" /\ sends'[s].mail = sends[s].mail
<1>1. CASE Mail!Resolve(s)
  BY <1>1, Zenon DEF Mail!Resolve, Mail!node, Mail!ToSt, Mail!IdleSend, Untouched, MailShape, SendShape
<1>2. CASE Mail!SendFails(s)
  BY <1>2, Zenon DEF Mail!SendFails, Mail!node, Mail!ToSt, Mail!IdleSend, Untouched, MailShape, SendShape
<1>3. CASE Mail!DeliverSelf(s)
  BY <1>3, Zenon DEF Mail!DeliverSelf, Mail!node, Mail!ToSt, Mail!IdleSend, Untouched, MailShape, SendShape
<1>4. CASE Mail!Finish(s)
  BY <1>4, Zenon DEF Mail!Finish, Mail!node, Mail!ToSt, Mail!IdleSend, Untouched, MailShape, SendShape
<1> QED
  BY <1>1, <1>2, <1>3, <1>4, Zenon DEF SendMoves

(* A step that keeps what it found delivered and kept, and may say so of   *)
(* the mails it adds.                                                      *)
LEMMA KeepFrame ==
  ASSUME MailShape, MailShape', KeepInv, ~ghost'.mixed, ~ghost.mixed,
         \A m \in Mails : Mail!Delivered(m) => Mail!Delivered(m)',
         \A m \in Mails : Kept(m) => Kept(m)',
         \A m \in ghost'.saved : m \in ghost.saved \/ (m \in Mails /\ Kept(m)'),
         \A s \in 1..MaxSends :
           /\ sends'[s].st \in {"self", "clean", "delete"} =>
                \/ Mail!Delivered(sends[s].mail)'
                \/ sends[s].st \in {"self", "clean", "delete"} /\ sends'[s].mail = sends[s].mail
           /\ sends'[s].st = "planned" => sends'[s] = sends[s] \/ Kept(sends[s].mail)',
         job'.ok => Mail!Delivered(job.row.mail)' \/ (job' = job /\ job.row.mail \in Mails)
  PROVE  KeepInv'
<1>1. \A m \in ghost'.saved : m \in Mails /\ Kept(m)'
  BY Zenon DEF KeepInv
<1>2. ASSUME NEW s \in 1..MaxSends, sends'[s].st \in {"self", "clean", "delete"}
      PROVE Mail!Delivered(sends[s].mail)'
  <2>1. CASE sends[s].st \in {"self", "clean", "delete"} /\ sends'[s].mail = sends[s].mail
    <3>1. sends[s].mail \in Mails /\ Mail!Delivered(sends[s].mail)
      BY <2>1, ZenonT(30) DEF KeepInv, MailShape, SendShape
    <3>2. PICK m \in Mails : m = sends[s].mail
      BY <3>1, Zenon
    <3>3. Mail!Delivered(m)'
      BY <3>1, <3>2, Zenon
    <3> QED
      BY <2>1, <3>2, <3>3, Zenon DEF Mail!Delivered
  <2> QED
    BY <1>2, <2>1, Zenon
<1>3. ASSUME NEW s \in 1..MaxSends, sends'[s].st = "planned" PROVE Kept(sends[s].mail)'
  <2>1. CASE sends'[s] = sends[s]
    <3>1. sends[s].mail \in Mails /\ Kept(sends[s].mail)
      BY <1>3, <2>1, Zenon DEF KeepInv, MailShape, SendShape
    <3>2. PICK m \in Mails : m = sends[s].mail
      BY <3>1, Zenon
    <3>3. Kept(m)'
      BY <3>1, <3>2, Zenon
    <3> QED
      BY <2>1, <3>2, <3>3, Zenon DEF Kept, Mail!Delivered
  <2> QED
    BY <1>3, <2>1, Zenon
<1>4. ASSUME job'.ok PROVE Mail!Delivered(job.row.mail)'
  <2>1. CASE job' = job /\ job.row.mail \in Mails
    <3>1. PICK m \in Mails : m = job.row.mail
      BY <2>1, Zenon
    <3>2. Mail!Delivered(m)'
      BY <1>4, <2>1, <3>1, Zenon DEF KeepInv
    <3> QED
      BY <2>1, <3>1, <3>2, Zenon DEF Mail!Delivered
  <2> QED
    BY <1>4, <2>1, Zenon
<1> QED
  BY <1>1, <1>2, <1>3, <1>4, Zenon DEF KeepInv

(* What more copies of a mail x change.                                    *)
LEMMA CopiesCount ==
  ASSUME MailShape, NEW m \in Mails, NEW x, NEW k \in Nat
  PROVE  /\ [copies EXCEPT !.native[x] = @ + k].native[m] = IF m = x THEN copies.native[m] + k ELSE copies.native[m]
         /\ [copies EXCEPT !.native[x] = @ + k].legacy[m] = copies.legacy[m]
         /\ [copies EXCEPT !.legacy[x] = @ + k].legacy[m] = IF m = x THEN copies.legacy[m] + k ELSE copies.legacy[m]
         /\ [copies EXCEPT !.legacy[x] = @ + k].native[m] = copies.native[m]
         /\ copies.native[m] \in Nat /\ copies.legacy[m] \in Nat
  BY Zenon DEF MailShape, CopyShape

(* Copies that a step adds: of one mail, on one of the two ways.           *)
CopiesAdded(x, k) ==
  copies' = [copies EXCEPT !.native[x] = @ + k] \/ copies' = [copies EXCEPT !.legacy[x] = @ + k]

(* What is delivered stays delivered.                                      *)
LEMMA DeliveredStays ==
  ASSUME MailShape, NEW m \in Mails, Mail!Delivered(m),
         copies' = copies \/ \E x, k : k \in Nat /\ CopiesAdded(x, k)
  PROVE  Mail!Delivered(m)'
<1>1. CASE copies' = copies
  BY <1>1, Zenon DEF Mail!Delivered
<1>2. ASSUME NEW x, NEW k \in Nat, CopiesAdded(x, k) PROVE Mail!Delivered(m)'
  <2>1. copies.native[m] \in Nat /\ copies.legacy[m] \in Nat /\ copies.native[m] + copies.legacy[m] > 0
    BY Zenon DEF MailShape, CopyShape, Mail!Delivered
  <2>2. CASE copies' = [copies EXCEPT !.native[x] = @ + k]
    <3>1. copies'.legacy[m] = copies.legacy[m] /\ copies'.native[m] = IF m = x THEN copies.native[m] + k ELSE copies.native[m]
      BY <2>2, CopiesCount
    <3> QED
      BY <2>1, <3>1 DEF Mail!Delivered
  <2>3. CASE copies' = [copies EXCEPT !.legacy[x] = @ + k]
    <3>1. copies'.native[m] = copies.native[m] /\ copies'.legacy[m] = IF m = x THEN copies.legacy[m] + k ELSE copies.legacy[m]
      BY <2>3, CopiesCount
    <3> QED
      BY <2>1, <3>1 DEF Mail!Delivered
  <2> QED
    BY <1>2, <2>2, <2>3, Zenon DEF CopiesAdded
<1> QED
  BY <1>1, <1>2, Zenon

(* What has gone out is delivered.                                         *)
LEMMA DeliveredMore ==
  ASSUME MailShape, NEW x \in Mails, NEW k \in Nat, k > 0, CopiesAdded(x, k)
        PROVE Mail!Delivered(x)'
<1>1. copies.native[x] \in Nat /\ copies.legacy[x] \in Nat
  BY Zenon DEF MailShape, CopyShape
<1>2. CASE copies' = [copies EXCEPT !.native[x] = @ + k]
  <2>1. copies'.legacy[x] = copies.legacy[x] /\ copies'.native[x] = copies.native[x] + k
    BY <1>2, CopiesCount
  <2> QED
    BY <1>1, <2>1 DEF Mail!Delivered
<1>3. CASE copies' = [copies EXCEPT !.legacy[x] = @ + k]
  <2>1. copies'.native[x] = copies.native[x] /\ copies'.legacy[x] = copies.legacy[x] + k
    BY <1>3, CopiesCount
  <2> QED
    BY <1>1, <2>1 DEF Mail!Delivered
<1> QED
  BY <1>2, <1>3, Zenon DEF CopiesAdded

(* A step that leaves the drafts, the copies and the scheduler alone, and  *)
(* moves no send on to where its mail must have gone out.                  *)
LEMMA KeepQuiet ==
  ASSUME MailShape, MailShape', KeepInv, ~ghost'.mixed, ~ghost.mixed, UNCHANGED <<drafts, copies,
        job>>,
         ghost'.saved = ghost.saved, ghost'.bare = ghost.bare,
         \A s \in 1..MaxSends :
           \/ sends'[s] = sends[s]
           \/ sends'[s].st \notin {"self", "clean", "delete", "planned"}
           \/ /\ sends'[s].st \in {"self", "clean", "delete"} /\ sends[s].st \in {"self", "clean", "delete"}
              /\ sends'[s].mail = sends[s].mail
  PROVE  KeepInv'
<1>1. \A m \in Mails : (Mail!Delivered(m) => Mail!Delivered(m)') /\ (Kept(m) => Kept(m)')
  BY Zenon DEF Mail!Delivered, Kept
<1>2. job'.ok => job' = job /\ job.row.mail \in Mails
  BY Zenon DEF MailShape
<1>3. \A s \in 1..MaxSends :
        /\ sends'[s].st \in {"self", "clean", "delete"} =>
             sends[s].st \in {"self", "clean", "delete"} /\ sends'[s].mail = sends[s].mail
        /\ sends'[s].st = "planned" => sends'[s] = sends[s]
  BY Zenon
<1> QED
  BY <1>1, <1>2, <1>3, KeepFrame, Zenon

(* The drafts after one row is written or deleted: nothing is lost if the  *)
(* row held the same mail, which is kept.                                  *)
LEMMA RowKept ==
  ASSUME MailShape, NEW d \in Mail!Ids, NEW x,
         \A e \in Mail!Ids : e # d => drafts'[e] = drafts[e],
         drafts[d].mail \in {x, NoMail}, Kept(x)' \/ drafts[d].mail = NoMail,
         ghost.bare \subseteq ghost'.bare,
         \A m \in Mails : Mail!Delivered(m) => Mail!Delivered(m)', NoMail \notin Mails,
         NEW m \in Mails, Kept(m)
  PROVE  Kept(m)'
<1>1. CASE m \in ghost.bare \/ Mail!Delivered(m)
  BY <1>1, Zenon DEF Kept
<1>2. CASE \E e \in Mail!Ids : drafts[e].mail = m
  <2>1. PICK e \in Mail!Ids : drafts[e].mail = m
    BY <1>2, Zenon
  <2>2. CASE e = d
    <3>1. m = x
      BY <2>1, <2>2, Zenon
    <3>2. Kept(x)'
      BY <2>1, <2>2, Zenon
    <3> QED
      BY <3>1, <3>2, Zenon DEF Kept, Mail!Delivered
  <2>3. CASE e # d
    BY <2>1, <2>3, Zenon DEF Kept
  <2> QED
    BY <2>2, <2>3, Zenon
<1> QED
  BY <1>1, <1>2, Zenon DEF Kept

(* The scheduler deletes a draft it has sent, or writes it back.           *)
LEMMA KeepFinishDueDraft ==
  ASSUME Mail!FormAssumption, MailShape, MailShape', IdsGiven, KeepInv, ~ghost'.mixed,
        Mail!FinishDueDraft
  PROVE  KeepInv'
<1>0. PICK x : x = job.row.mail
  BY Zenon
<1>12. PICK d : d = job.id
  BY Zenon
<1>1. /\ UNCHANGED <<copies, sends>> /\ ghost'.bare = ghost.bare /\ ghost'.saved = ghost.saved
      /\ ~job'.ok /\ \A e \in Mail!Ids : e # d => drafts'[e] = drafts[e]
  BY <1>0, <1>12, Zenon DEF Mail!FinishDueDraft, MailShape, Mail!NoJob
<1>2. ~ghost.mixed /\ ~Mail!Foreign(d, x)
  BY <1>0, <1>12, Zenon DEF Mail!FinishDueDraft, MailShape
<1>3. d \in Mail!Ids /\ d # 0
  BY <1>12 DEF Mail!FormAssumption, Mail!FinishDueDraft, IdsGiven, Mail!Ids
<1>4. ~job.ok => drafts'[d].mail = x
  BY <1>0, <1>12, <1>3, Zenon DEF Mail!FinishDueDraft, MailShape, RowShape
<1>5. drafts[d].mail \in {x, NoMail}
  BY <1>0, <1>12, <1>2, <1>3, Zenon DEF Mail!Foreign, Mail!NoDraft
<1>6. job.ok => x \in Mails /\ Mail!Delivered(x)
  BY <1>0, <1>12, <1>2, Zenon DEF KeepInv, MailShape
<1>7. \A m \in Mails : Mail!Delivered(m) => Mail!Delivered(m)'
  BY <1>0, <1>12, <1>1, Zenon DEF Mail!Delivered
<1>8. Kept(x)'
  BY <1>0, <1>12, <1>3, <1>4, <1>6, <1>7, Zenon DEF Kept
<1>9. \A m \in Mails : Kept(m) => Kept(m)'
  BY <1>1, <1>3, <1>5, <1>7, <1>8, RowKept, Zenon DEF Mail!FormAssumption
<1> QED
  BY <1>1, <1>2, <1>7, <1>9, KeepFrame, Zenon

(* The node stops with a draft under way.                                  *)
LEMMA KeepSchedulerCrash ==
  ASSUME Mail!FormAssumption, MailShape, MailShape', IdsGiven, KeepInv, ~ghost'.mixed,
        Mail!SchedulerCrash
  PROVE  KeepInv'
<1>1. UNCHANGED <<drafts, copies, sends>> /\ ~job'.ok /\ ghost'.saved = ghost.saved /\ ghost'.bare = ghost.bare /\ ~ghost.mixed
  BY Zenon DEF Mail!SchedulerCrash, MailShape, Mail!NoJob
<1>2. \A m \in Mails : (Mail!Delivered(m) => Mail!Delivered(m)') /\ (Kept(m) => Kept(m)')
  BY <1>1, Zenon DEF Mail!Delivered, Kept
<1> QED
  BY <1>1, <1>2, KeepFrame, Zenon

(* The scheduler deletes a due draft without envelopes.                    *)
LEMMA KeepDropDueDraft ==
  ASSUME Mail!FormAssumption, MailShape, MailShape', IdsGiven, KeepInv, ~ghost'.mixed,
        NEW d \in Mail!Ids, Mail!DropDueDraft(d)
  PROVE  KeepInv'
<1>0. PICK x : x = drafts[d].mail
  BY Zenon
<1>1. /\ UNCHANGED <<copies, job, sends>> /\ ghost'.bare = ghost.bare \cup {x} /\ ghost'.saved = ghost.saved
      /\ ~ghost.mixed /\ \A e \in Mail!Ids : e # d => drafts'[e] = drafts[e]
  BY <1>0, Zenon DEF Mail!DropDueDraft, MailShape
<1>5. drafts[d].mail \in {x, NoMail}
  BY <1>0, Zenon
<1>7. \A m \in Mails : Mail!Delivered(m) => Mail!Delivered(m)'
  BY <1>0, <1>1, Zenon DEF Mail!Delivered
<1>8. Kept(x)'
  BY <1>0, <1>1, Zenon DEF Kept
<1>9. \A m \in Mails : Kept(m) => Kept(m)'
  BY <1>1, <1>5, <1>7, <1>8, RowKept, Zenon DEF Mail!FormAssumption
<1>10. job'.ok => job' = job /\ job.row.mail \in Mails
  BY <1>0, <1>1, ZenonT(30) DEF MailShape
<1> QED
  BY <1>1, <1>7, <1>9, <1>10, KeepFrame, Zenon

(* The scheduler sends a due draft.                                        *)
LEMMA KeepSendDueDraft ==
  ASSUME Mail!FormAssumption, MailShape, MailShape', IdsGiven, KeepInv, ~ghost'.mixed,
        NEW d \in Mail!Ids, NEW ok \in BOOLEAN, Mail!SendDueDraft(d, ok)
  PROVE  KeepInv'
<1>0. PICK x : x = drafts[d].mail
  BY Zenon
<1>12. PICK more \in Nat : more = IF ok THEN 1 ELSE 0
  BY Zenon
<1>1. /\ UNCHANGED <<drafts, sends, ghost>> /\ x \in Mails /\ more \in Nat
      /\ CopiesAdded(x, more) /\ job'.row = drafts[d] /\ job'.ok = ok
  BY <1>0, <1>12, Zenon DEF Mail!SendDueDraft, MailShape, CopiesAdded
<1>2. ok => more > 0
  BY <1>0, <1>12
<1>7. \A m \in Mails : Mail!Delivered(m) => Mail!Delivered(m)'
  BY <1>0, <1>12, <1>1, DeliveredStays, Zenon
<1>8. ok => Mail!Delivered(x)'
  BY <1>1, <1>2, DeliveredMore, Zenon
<1>9. \A m \in Mails : Kept(m) => Kept(m)'
  BY <1>0, <1>12, <1>1, <1>7, Zenon DEF Kept
<1>10. job'.row.mail = x
  BY <1>0, <1>12, <1>1, Zenon
<1>11. job'.ok => Mail!Delivered(job.row.mail)'
  BY <1>0, <1>12, <1>1, <1>8, <1>10, Zenon DEF Mail!Delivered
<1> QED
  BY <1>1, <1>7, <1>9, <1>11, KeepFrame, Zenon

(* The node stores an autosave.                                            *)
LEMMA KeepAutosaveStored ==
  ASSUME Mail!FormAssumption, MailShape, MailShape', IdsGiven, KeepInv, ~ghost'.mixed,
        NEW n \in 1..MaxSaves, Mail!AutosaveStored(n)
  PROVE  KeepInv'
<1>0. PICK x : x = saves[n].row.mail
  BY Zenon
<1>12. PICK d : d = Mail!Stored(saves[n].id)
  BY Zenon
<1>1. /\ UNCHANGED <<copies, job, sends>> /\ ghost'.bare = ghost.bare /\ ghost'.saved = ghost.saved \cup {x}
      /\ x \in Mails
  BY <1>0, <1>12, Zenon DEF Mail!AutosaveStored, MailShape, SaveShape
<1>2. ~ghost.mixed /\ ~Mail!Foreign(saves[n].id, x)
  BY <1>0, <1>12, Zenon DEF Mail!AutosaveStored, MailShape
<1>3. saves[n].id \in 0..made /\ Mail!CanStore(saves[n].id) /\ Mail!SaveMailDraft(saves[n].id, saves[n].row)
  BY <1>0, <1>12, Zenon DEF Mail!AutosaveStored, IdsGiven
<1>4. /\ d \in Mail!Ids /\ drafts'[d] = saves[n].row /\ \A e \in Mail!Ids : e # d => drafts'[e] = drafts[e]
      /\ saves[n].id = 0 => drafts[d] = Mail!NoRow
      /\ saves[n].id # 0 => d = saves[n].id
  BY <1>0, <1>12, <1>3, DraftStored
<1>5. drafts[d].mail \in {x, NoMail}
  BY <1>0, <1>12, <1>2, <1>4 DEF Mail!Foreign, Mail!NoDraft, Mail!NoRow
<1>6. drafts'[d].mail = x
  BY <1>0, <1>12, <1>4, Zenon
<1>7. \A m \in Mails : Mail!Delivered(m) => Mail!Delivered(m)'
  BY <1>0, <1>12, <1>1, Zenon DEF Mail!Delivered
<1>8. Kept(x)'
  BY <1>0, <1>12, <1>4, <1>6, Zenon DEF Kept
<1>9. \A m \in Mails : Kept(m) => Kept(m)'
  BY <1>1, <1>4, <1>5, <1>7, <1>8, RowKept, Zenon DEF Mail!FormAssumption
<1>10. job'.ok => job' = job /\ job.row.mail \in Mails
  BY <1>0, <1>12, <1>1, Zenon DEF MailShape
<1>11. \A m \in ghost'.saved : m \in ghost.saved \/ (m \in Mails /\ Kept(m)')
  <2> SUFFICES ASSUME NEW m \in ghost'.saved, m \notin ghost.saved PROVE m \in Mails /\ Kept(m)'
    BY Zenon
  <2>1. m = x
    BY <1>0, <1>12, <1>1, Zenon
  <2> QED
    BY <1>0, <1>12, <1>1, <1>8, <2>1, Zenon DEF Kept, Mail!Delivered
<1> QED
  BY <1>1, <1>2, <1>7, <1>9, <1>10, <1>11, KeepFrame, Zenon

(* "Send" is pressed.                                                      *)
LEMMA KeepSubmit ==
  ASSUME Mail!FormAssumption, MailShape, MailShape', IdsGiven, KeepInv, ~ghost'.mixed,
        NEW s \in 1..MaxSends, Mail!Submit(s)
  PROVE  KeepInv'
<1>1. UNCHANGED <<drafts, copies, job>> /\ ghost'.saved = ghost.saved /\ ghost'.bare = ghost.bare /\ ~ghost.mixed
  BY Zenon DEF Mail!Submit, MailShape, Mail!OnlyFields, Mail!node
<1>2. \A k \in 1..MaxSends :
        \/ sends'[k] = sends[k]
        \/ sends'[k].st \notin {"self", "clean", "delete", "planned"}
        \/ /\ sends'[k].st \in {"self", "clean", "delete"} /\ sends[k].st \in {"self", "clean", "delete"}
           /\ sends'[k].mail = sends[k].mail
  BY Zenon DEF Mail!Submit, MailShape, SendShape, Mail!OnlyFields, Mail!ToSt, Mail!IdleSend
<1> QED
  BY <1>1, <1>2, KeepQuiet, Zenon

(* The recipient's copy.                                                   *)
LEMMA KeepDeliver ==
  ASSUME Mail!FormAssumption, MailShape, MailShape', IdsGiven, KeepInv, ~ghost'.mixed,
        NEW s \in 1..MaxSends, Mail!Deliver(s)
  PROVE  KeepInv'
<1>0. PICK x : x = sends[s].mail
  BY Zenon
<1>1. /\ x \in Mails /\ ~ghost.mixed /\ UNCHANGED <<ghost, drafts, job>>
      /\ copies' = [copies EXCEPT !.native[x] = @ + 1] /\ CopiesAdded(x, 1)
  BY <1>0, Zenon DEF Mail!Deliver, MailShape, SendShape, CopiesAdded
<1>2. sends'[s].st = "self" /\ sends'[s].mail = x /\ \A k \in 1..MaxSends : k # s => sends'[k] = sends[k]
  BY <1>0, Zenon DEF Mail!Deliver, MailShape, SendShape, Mail!ToSt, Mail!IdleSend
<1>3. \A m \in Mails : Mail!Delivered(m) => Mail!Delivered(m)'
  BY <1>0, <1>1, DeliveredStays, Zenon
<1>4. \A m \in Mails : Kept(m) => Kept(m)'
  BY <1>0, <1>1, <1>3, Zenon DEF Kept
<1>5. Mail!Delivered(x)'
  BY <1>1, DeliveredMore
<1>6. Mail!Delivered(sends[s].mail)'
  BY <1>0, <1>2, <1>5, Zenon DEF Mail!Delivered
<1>7. job'.ok => job' = job /\ job.row.mail \in Mails
  BY <1>0, <1>1, Zenon DEF MailShape
<1> QED
  BY <1>1, <1>2, <1>3, <1>4, <1>6, <1>7, KeepFrame, Zenon

(* The recipient's copy, whose answer is lost.                             *)
LEMMA KeepDeliverUnanswered ==
  ASSUME Mail!FormAssumption, MailShape, MailShape', IdsGiven, KeepInv, ~ghost'.mixed,
        NEW s \in 1..MaxSends, Mail!DeliverUnanswered(s)
  PROVE  KeepInv'
<1>0. PICK x : x = sends[s].mail
  BY Zenon
<1>1. /\ x \in Mails /\ ~ghost.mixed /\ UNCHANGED <<ghost, drafts, job>>
      /\ copies' = [copies EXCEPT !.native[x] = @ + 1] /\ CopiesAdded(x, 1)
  BY <1>0, Zenon DEF Mail!DeliverUnanswered, MailShape, SendShape, CopiesAdded
<1>2. sends'[s].st = "done" /\ \A k \in 1..MaxSends : k # s => sends'[k] = sends[k]
  BY <1>0 DEF Mail!DeliverUnanswered, MailShape, SendShape, Mail!ToSt, Mail!IdleSend
<1>3. \A m \in Mails : Mail!Delivered(m) => Mail!Delivered(m)'
  BY <1>0, <1>1, DeliveredStays, Zenon
<1>4. \A m \in Mails : Kept(m) => Kept(m)'
  BY <1>0, <1>1, <1>3, Zenon DEF Kept
<1>5. Mail!Delivered(x)'
  BY <1>1, DeliveredMore
<1>6. sends'[s].st \notin {"self", "clean", "delete", "planned"}
  BY <1>0, <1>2, Zenon
<1>7. job'.ok => job' = job /\ job.row.mail \in Mails
  BY <1>0, <1>1, Zenon DEF MailShape
<1> QED
  BY <1>1, <1>2, <1>3, <1>4, <1>6, <1>7, KeepFrame, Zenon

(* A mail leaves by SMTP.                                                  *)
LEMMA KeepSendSmtpMail ==
  ASSUME Mail!FormAssumption, MailShape, MailShape', IdsGiven, KeepInv, ~ghost'.mixed,
        NEW s \in 1..MaxSends, Mail!SendSmtpMail(s)
  PROVE  KeepInv'
<1>0. PICK x : x = sends[s].mail
  BY Zenon
<1>1. /\ x \in Mails /\ ~ghost.mixed /\ UNCHANGED <<ghost, drafts, job>>
      /\ copies' = [copies EXCEPT !.legacy[x] = @ + 1] /\ CopiesAdded(x, 1)
  BY <1>0, Zenon DEF Mail!SendSmtpMail, MailShape, SendShape, CopiesAdded
<1>2. sends'[s].st = "clean" /\ sends'[s].mail = x /\ \A k \in 1..MaxSends : k # s => sends'[k] = sends[k]
  BY <1>0, Zenon DEF Mail!SendSmtpMail, MailShape, SendShape, Mail!ToSt, Mail!IdleSend
<1>3. \A m \in Mails : Mail!Delivered(m) => Mail!Delivered(m)'
  BY <1>0, <1>1, DeliveredStays, Zenon
<1>4. \A m \in Mails : Kept(m) => Kept(m)'
  BY <1>0, <1>1, <1>3, Zenon DEF Kept
<1>5. Mail!Delivered(x)'
  BY <1>1, DeliveredMore
<1>6. Mail!Delivered(sends[s].mail)'
  BY <1>0, <1>2, <1>5, Zenon DEF Mail!Delivered
<1>7. job'.ok => job' = job /\ job.row.mail \in Mails
  BY <1>0, <1>1, Zenon DEF MailShape
<1> QED
  BY <1>1, <1>2, <1>3, <1>4, <1>6, <1>7, KeepFrame, Zenon

(* The draft of a mail that went out is deleted.                           *)
LEMMA KeepDeleteDraft ==
  ASSUME Mail!FormAssumption, MailShape, MailShape', IdsGiven, KeepInv, ~ghost'.mixed,
        NEW s \in 1..MaxSends, Mail!DeleteDraft(s)
  PROVE  KeepInv'
<1>0. PICK x : x = sends[s].mail
  BY Zenon
<1>1. /\ UNCHANGED <<copies, job>> /\ ghost'.bare = ghost.bare /\ ghost'.saved = ghost.saved
      /\ x \in Mails /\ sends[s].st = "clean" /\ ref # 0
  BY <1>0, Zenon DEF Mail!DeleteDraft, MailShape, SendShape, Mail!NoDraft
<1>2. ~ghost.mixed /\ ~Mail!Foreign(ref, x)
  BY <1>0, Zenon DEF Mail!DeleteDraft, MailShape
<1>3. sends'[s].st = "delete" /\ sends'[s].mail = x /\ \A k \in 1..MaxSends : k # s => sends'[k] = sends[k]
  BY <1>0, Zenon DEF Mail!DeleteDraft, MailShape, SendShape, Mail!ToSt
<1>4. ref \in Mail!Ids /\ \A e \in Mail!Ids : e # ref => drafts'[e] = drafts[e]
  <2>1. ref \in Mail!Ids
    BY <1>1 DEF Mail!FormAssumption, IdsGiven, Mail!Ids
  <2>2. drafts' = [drafts EXCEPT ![ref] = Mail!NoRow] \/ drafts' = drafts
    BY Zenon DEF Mail!DeleteDraft
  <2> QED
    BY <2>1, <2>2, Zenon DEF MailShape
<1>5. drafts[ref].mail \in {x, NoMail}
  BY <1>0, <1>1, <1>2, Zenon DEF Mail!Foreign, Mail!NoDraft
<1>6. Mail!Delivered(x)
  BY <1>0, <1>1, <1>2, Zenon DEF KeepInv
<1>7. \A m \in Mails : Mail!Delivered(m) => Mail!Delivered(m)'
  BY <1>0, <1>1, Zenon DEF Mail!Delivered
<1>8. Kept(x)'
  BY <1>0, <1>1, <1>6, <1>7, Zenon DEF Kept
<1>9. \A m \in Mails : Kept(m) => Kept(m)'
  BY <1>1, <1>4, <1>5, <1>7, <1>8, RowKept, Zenon DEF Mail!FormAssumption
<1>10. job'.ok => job' = job /\ job.row.mail \in Mails
  BY <1>0, <1>1, Zenon DEF MailShape
<1>11. \A k \in 1..MaxSends :
         /\ sends'[k].st \in {"self", "clean", "delete"} =>
              sends[k].st \in {"self", "clean", "delete"} /\ sends'[k].mail = sends[k].mail
         /\ sends'[k].st = "planned" => sends'[k] = sends[k]
  BY <1>0, <1>1, <1>3, Zenon
<1> QED
  BY <1>1, <1>2, <1>7, <1>9, <1>10, <1>11, KeepFrame, Zenon

(* The node stores a planned mail.                                         *)
LEMMA KeepPlanStored ==
  ASSUME Mail!FormAssumption, MailShape, MailShape', IdsGiven, KeepInv, ~ghost'.mixed,
        NEW s \in 1..MaxSends, Mail!PlanStored(s)
  PROVE  KeepInv'
<1>0. PICK x : x = sends[s].mail
  BY Zenon
<1>12. PICK d : d = Mail!Stored(ref)
  BY Zenon
<1>1. UNCHANGED <<copies, job>> /\ ghost'.bare = ghost.bare /\ ghost'.saved = ghost.saved /\ x \in Mails
  BY <1>0, <1>12, Zenon DEF Mail!PlanStored, MailShape, SendShape
<1>2. ~ghost.mixed /\ ~Mail!Foreign(ref, x)
  BY <1>0, <1>12, ZenonT(30) DEF Mail!PlanStored, MailShape
<1>3. PICK row : row.mail = x /\ Mail!CanStore(ref) /\ Mail!SaveMailDraft(ref, row)
  BY <1>0, <1>12, Zenon DEF Mail!PlanStored
<1>4. /\ d \in Mail!Ids /\ drafts'[d] = row /\ \A e \in Mail!Ids : e # d => drafts'[e] = drafts[e]
      /\ ref = 0 => drafts[d] = Mail!NoRow
      /\ ref # 0 => d = ref
  BY <1>0, <1>12, <1>3, DraftStored, Zenon DEF IdsGiven
<1>5. drafts[d].mail \in {x, NoMail}
  BY <1>0, <1>12, <1>2, <1>4 DEF Mail!Foreign, Mail!NoDraft, Mail!NoRow
<1>6. sends'[s].st = "planned" /\ sends'[s].mail = x /\ \A k \in 1..MaxSends : k # s => sends'[k] = sends[k]
  BY <1>0, <1>12, Zenon DEF Mail!PlanStored, MailShape, SendShape, Mail!ToSt
<1>7. \A m \in Mails : Mail!Delivered(m) => Mail!Delivered(m)'
  BY <1>0, <1>12, <1>1, Zenon DEF Mail!Delivered
<1>8. Kept(x)'
  BY <1>0, <1>12, <1>3, <1>4, Zenon DEF Kept
<1>9. \A m \in Mails : Kept(m) => Kept(m)'
  BY <1>1, <1>4, <1>5, <1>7, <1>8, RowKept, Zenon DEF Mail!FormAssumption
<1>10. job'.ok => job' = job /\ job.row.mail \in Mails
  BY <1>0, <1>12, <1>1, Zenon DEF MailShape
<1>11. Kept(sends[s].mail)'
  BY <1>0, <1>12, <1>6, <1>8, Zenon DEF Kept, Mail!Delivered
<1> QED
  BY <1>1, <1>2, <1>6, <1>7, <1>9, <1>10, <1>11, KeepFrame, Zenon

(* A planned mail is announced.                                            *)
LEMMA KeepPlanned ==
  ASSUME Mail!FormAssumption, MailShape, MailShape', IdsGiven, KeepInv, ~ghost'.mixed,
        NEW s \in 1..MaxSends, Mail!Planned(s)
  PROVE  KeepInv'
<1>0. PICK x : x = sends[s].mail
  BY Zenon
<1>1. /\ UNCHANGED <<drafts, copies, job>> /\ ghost'.bare = ghost.bare /\ ~ghost.mixed /\ x \in Mails
      /\ ghost'.saved = ghost.saved \cup {x} /\ sends[s].st = "planned"
  BY <1>0, Zenon DEF Mail!Planned, MailShape, SendShape, Mail!node
<1>2. sends'[s].st = "done" /\ \A k \in 1..MaxSends : k # s => sends'[k] = sends[k]
  BY <1>0, Zenon DEF Mail!Planned, MailShape, SendShape, Mail!ToSt, Mail!IdleSend
<1>3. Kept(x)
  BY <1>0, <1>1, Zenon DEF KeepInv
<1>4. \A m \in Mails : (Mail!Delivered(m) => Mail!Delivered(m)') /\ (Kept(m) => Kept(m)')
  BY <1>0, <1>1, Zenon DEF Mail!Delivered, Kept
<1>5. \A m \in ghost'.saved : m \in ghost.saved \/ (m \in Mails /\ Kept(m)')
  BY <1>0, <1>1, <1>3, <1>4, Zenon
<1>6. job'.ok => job' = job /\ job.row.mail \in Mails
  BY <1>0, <1>1, ZenonT(30) DEF MailShape
<1> QED
  BY <1>1, <1>2, <1>4, <1>5, <1>6, KeepFrame

(* No step loses a text.                                                   *)
LEMMA KeepKept ==
  ASSUME Mail!FormAssumption, MailShape, MailShape', IdsGiven, KeepInv, ~ghost'.mixed,
        [Mail!Next]_(Mail!vars)
  PROVE  KeepInv'
<1>1. CASE UNCHANGED Mail!vars
  BY <1>1, KeepQuiet, ZenonT(30) DEF Mail!vars
<1>2. CASE FieldSteps
  BY <1>2, FieldsUntouched, KeepQuiet, ZenonT(30) DEF Untouched
<1>3. ASSUME NEW s \in 1..MaxSends, SendMoves(s) PROVE KeepInv'
  <2>1. \A k \in 1..MaxSends :
          \/ sends'[k] = sends[k]
          \/ sends'[k].st \notin {"self", "clean", "delete", "planned"}
          \/ /\ sends'[k].st \in {"self", "clean", "delete"} /\ sends[k].st \in {"self", "clean", "delete"}
             /\ sends'[k].mail = sends[k].mail
    BY <1>3, MovesUntouched, Zenon
  <2>2. Untouched
    BY <1>3, MovesUntouched, Zenon
  <2> QED
    BY <2>1, <2>2, KeepQuiet, Zenon DEF Untouched
<1> QED
  BY <1>1, <1>2, <1>3, KeepFinishDueDraft, KeepSchedulerCrash, KeepDropDueDraft, KeepSendDueDraft,
     KeepAutosaveStored, KeepSubmit, KeepDeliver, KeepDeliverUnanswered, KeepSendSmtpMail,
     KeepDeleteDraft, KeepPlanStored, KeepPlanned, ZenonT(30)
     DEF Mail!Next, Mail!WriteToContact, Mail!InsertSignature, FieldSteps, SendMoves

(* For any number of saves, sends and scheduler runs: a text the node has  *)
(* accepted as a draft is not lost before its recipient has the mail,      *)
(* unless a save or a delete took the draft of another mail, or the        *)
(* scheduler found it without envelopes (useEmails.js, scheduler.go).      *)
THEOREM MailKeptUntilSent ==
  ASSUME Mail!FormAssumption PROVE Mail!Spec => []Mail!KeptUntilSent
<1> DEFINE Inv == MailShape /\ IdsGiven /\ KeepInv
<1>1. Mail!Init => Inv
  BY MailInit, Zenon
<1>2. Inv /\ [Mail!Next]_(Mail!vars) => Inv'
  <2> SUFFICES ASSUME Inv, [Mail!Next]_(Mail!vars) PROVE Inv'
    BY Zenon
  <2>1. MailShape' /\ IdsGiven'
    BY MailShapeKept, IdsKept, Zenon
  <2>2. CASE ghost'.mixed
    BY <2>1, <2>2, Zenon DEF KeepInv
  <2>3. CASE ~ghost'.mixed
    BY <2>1, <2>3, KeepKept, Zenon
  <2> QED
    BY <2>1, <2>2, <2>3, Zenon
<1>3. Inv => Mail!KeptUntilSent
  BY Zenon DEF KeepInv, Kept, Mail!KeptUntilSent
<1> HIDE DEF Inv
<1> QED
  BY <1>1, <1>2, <1>3, PTL DEF Mail!Spec

=============================================================================
