-------------------------- MODULE SessionRefinement --------------------------
(* A connection served one request at a time implements SessionAbstract    *)
(* under the mapping AbsCursors of module Session: every step of the        *)
(* handler is a step of the abstract cache or cursor table, or leaves both  *)
(* as they were.                                                            *)
EXTENDS SessionProofs

(* With one request slot that is not removing a cursor, the abstract table *)
(* is the table itself.                                                      *)
LEMMA AbsCursorsQuiet ==
    ASSUME NEW q0, Procs = {q0}, TypeOK, pc[q0] # "remove_cursor"
    PROVE  AbsCursors = cursors
BY DEF AbsCursors, Closing, TypeOK

(* A step of the slot that neither starts nor ends at remove_cursor and    *)
(* changes no backend cursor, table entry or cache entry is a stutter of    *)
(* the abstract specification.                                              *)
LEMMA QuietStep ==
    ASSUME NEW q0, Procs = {q0}, TypeOK, TypeOK',
           pc[q0] # "remove_cursor", pc'[q0] # "remove_cursor",
           UNCHANGED <<open, cursors, executors>>
    PROVE  UNCHANGED Abs!vars
<1>1. AbsCursors = cursors
  BY AbsCursorsQuiet
<1>2. AbsCursors' = cursors'
  BY DEF AbsCursors, Closing, TypeOK
<1>3. QED
  BY <1>1, <1>2 DEF Abs!vars

(* Every step of the only request slot refines an abstract step. *)
LEMMA ProcRefines ==
    ASSUME NEW q0, Procs = {q0}, SeqInv(q0), SeqInv(q0)', Proc(q0)
    PROVE  [Abs!Next]_Abs!vars
<1> USE DEF Goto, ReleaseCursorLockOf, Panic, env, session, procs
<1>0. TypeOK /\ TypeOK'
  BY DEF SeqInv
<1>1. ASSUME NEW s \in ClientStmts, DoQuery(q0, s) PROVE UNCHANGED Abs!vars
  <2>1. pc'[q0] \in {"resolve", "ddl_lock", "catalog", "cursor"}
    BY <1>0, <1>1 DEF DoQuery, TypeOK
  <2>2. QED
    BY <1>0, <1>1, <2>1, QuietStep DEF DoQuery
<1>2. ASSUME CreatePeerLock(q0) \/ CreatePeer(q0) \/ GetPeerExecutor(q0)
             \/ GetCatalogExecutor(q0) \/ CursorLookup(q0)
      PROVE  UNCHANGED Abs!vars
  <2>1. pc[q0] # "remove_cursor" /\ pc'[q0] # "remove_cursor"
        /\ UNCHANGED <<open, cursors, executors>>
    BY <1>0, <1>2 DEF CreatePeerLock, CreatePeer, GetPeerExecutor,
                      GetCatalogExecutor, CursorLookup, TypeOK
  <2>2. QED
    BY <1>0, <2>1, QuietStep
<1>3. ASSUME (\E s \in DescribeStmts : DoDescribe(q0, s)) \/ DescribePeer(q0)
             \/ DescribeCatalogLock(q0) \/ DescribeCatalog(q0)
      PROVE  UNCHANGED Abs!vars
  <2>1. pc[q0] # "remove_cursor" /\ pc'[q0] # "remove_cursor"
        /\ UNCHANGED <<open, cursors, executors>>
    BY <1>0, <1>3 DEF DoDescribe, DescribePeer, DescribeCatalogLock,
                      DescribeCatalog, TypeOK
  <2>2. QED
    BY <1>0, <2>1, QuietStep
<1>4. CASE NewExecutor(q0)
  <2>1. CASE Panic
    <3>1. pc[q0] = "construct" /\ pc' = pc /\ UNCHANGED <<open, cursors, executors>>
      BY <1>4, <2>1 DEF NewExecutor
    <3>2. QED
      BY <1>0, <3>1, QuietStep
  <2>2. CASE ~Panic
    <3> DEFINE p == target[q0]
    <3>1. /\ pc[q0] = "construct"
          /\ executors' = [executors EXCEPT ![p] = builds[p] + 1]
          /\ pc' = [pc EXCEPT ![q0] = "execute"]
          /\ UNCHANGED <<open, cursors>>
      BY <1>4, <2>2 DEF NewExecutor
    <3>2. p \in Peers /\ executors[p] = 0 /\ builds[p] + 1 \in Nat \ {0}
      BY <3>1, <1>0 DEF SeqInv, SlotInv, TypeOK, LocalsOK
    <3>3. AbsCursors' = AbsCursors
      <4>1. AbsCursors = cursors
        BY <3>1, <1>0, AbsCursorsQuiet
      <4>2. AbsCursors' = cursors'
        BY <3>1, <1>0 DEF AbsCursors, Closing, TypeOK
      <4>3. QED
        BY <3>1, <4>1, <4>2
    <3>4. executors' = [executors EXCEPT ![p] = executors'[p]]
          /\ executors'[p] \in Nat \ {0}
      BY <3>1, <3>2, <1>0 DEF TypeOK
    <3>5. Abs!Cache(p)
      BY <3>1, <3>2, <3>3, <3>4 DEF Abs!Cache
    <3>6. QED
      BY <3>2, <3>5 DEF Abs!Next
  <2>3. QED
    BY <2>1, <2>2
<1>5. CASE ExecuteStatement(q0)
  <2> DEFINE t == exec[q0].peer
             c == stmt[q0].cursor
  <2>1. /\ pc[q0] = "execute"
        /\ t \in Targets
        /\ stmt[q0] \in Statement
        /\ UNCHANGED <<cursors, executors, stmt>>
    BY <1>5, <1>0 DEF ExecuteStatement, TypeOK, LocalsOK, Executor
  <2>2. AbsCursors = cursors
    BY <2>1, <1>0, AbsCursorsQuiet
  <2>3. CASE stmt[q0].type = "Declare" /\ c \notin open[t]
             /\ open' = [open EXCEPT ![t] = @ \cup {c}]
             /\ pc' = [pc EXCEPT ![q0] = "add_cursor"]
    <3>1. c \in Cursors
      BY <2>1, <2>3 DEF Statement
    <3>2. AbsCursors' = cursors'
      BY <2>3, <1>0 DEF AbsCursors, Closing, TypeOK
    <3>3. Abs!Declare(t, c)
      BY <2>1, <2>2, <2>3, <3>2 DEF Abs!Declare
    <3>4. QED
      BY <2>1, <3>1, <3>3 DEF Abs!Next, Abs!Targets, Targets
  <2>4. CASE stmt[q0].type = "Close" /\ c \in open[t]
             /\ open' = [open EXCEPT ![t] = @ \ {c}]
             /\ pc' = [pc EXCEPT ![q0] = "remove_cursor"]
    <3>1. c \in Cursors
      BY <2>1, <2>4 DEF Statement
    <3>2. AbsCursors' = [AbsCursors EXCEPT ![c] = None]
      BY <2>1, <2>2, <2>4, <3>1, <1>0 DEF AbsCursors, Closing, TypeOK
    <3>3. Abs!Close(t, c)
      BY <2>1, <2>4, <3>2 DEF Abs!Close
    <3>4. QED
      BY <2>1, <3>1, <3>3 DEF Abs!Next, Abs!Targets, Targets
  <2>5. CASE UNCHANGED open /\ pc' = [pc EXCEPT ![q0] = "idle"]
    BY <2>1, <2>5, <1>0, QuietStep
  <2>6. QED
    BY <1>5, <2>3, <2>4, <2>5 DEF ExecuteStatement
<1>6. CASE AddCursor(q0)
  <2>1. CASE Panic
    <3>1. pc[q0] = "add_cursor" /\ pc' = pc /\ UNCHANGED <<open, cursors, executors>>
      BY <1>6, <2>1 DEF AddCursor
    <3>2. QED
      BY <1>0, <3>1, QuietStep
  <2>2. CASE holder[q0] # None
    <3> DEFINE c == stmt[q0].cursor
               p == holder[q0]
    <3>1. /\ pc[q0] = "add_cursor"
          /\ cursors' = [cursors EXCEPT ![c] = p]
          /\ pc' = [pc EXCEPT ![q0] = "idle"]
          /\ UNCHANGED <<open, executors, stmt, exec>>
      BY <1>6, <2>2 DEF AddCursor
    <3>2. p \in Peers /\ c \in open[p] /\ c \in Cursors
      BY <3>1, <2>2, <1>0 DEF SeqInv, SlotInv, TypeOK
    <3>3. AbsCursors = cursors /\ AbsCursors' = cursors'
      BY <3>1, <1>0, AbsCursorsQuiet DEF AbsCursors, Closing, TypeOK
    <3>4. Abs!Register(c, p)
      BY <3>1, <3>2, <3>3 DEF Abs!Register
    <3>5. QED
      BY <3>2, <3>4 DEF Abs!Next
  <2>3. QED
    BY <1>6, <2>1, <2>2 DEF AddCursor
<1>7. CASE RemoveCursor(q0)
  <2> DEFINE c == stmt[q0].cursor
  <2>1. /\ pc[q0] = "remove_cursor"
        /\ cursors' = [cursors EXCEPT ![c] = None]
        /\ pc' = [pc EXCEPT ![q0] = "idle"]
        /\ UNCHANGED <<open, executors, stmt>>
    BY <1>7 DEF RemoveCursor
  <2>2. AbsCursors' = cursors'
    BY <2>1, <1>0 DEF AbsCursors, Closing, TypeOK
  <2>3. AbsCursors = [cursors EXCEPT ![c] = None]
    BY <2>1, <1>0 DEF AbsCursors, Closing, TypeOK
  <2>4. QED
    BY <2>1, <2>2, <2>3 DEF Abs!vars
<1>8. QED
  BY <1>1, <1>2, <1>3, <1>4, <1>5, <1>6, <1>7 DEF Proc

(* Every step of the connection, reconnects included, refines an abstract *)
(* step.                                                                    *)
LEMMA NextRefines ==
    ASSUME NEW q0, Procs = {q0}, SeqInv(q0), SeqInv(q0)', [Next]_vars
    PROVE  [Abs!Next]_Abs!vars
<1>0. TypeOK /\ TypeOK'
  BY DEF SeqInv
<1>1. ASSUME NEW q \in Procs, Proc(q) PROVE [Abs!Next]_Abs!vars
  BY <1>1, ProcRefines
<1>2. CASE NewSession
  <2>1. FreshSession(executors', builds', cursors', catLock', curLock',
                     resolved', alive', pc', stmt', holder', target', exec')
        /\ open' = [t \in Targets |-> {}]
    BY <1>2 DEF NewSession
  <2>2. AbsCursors' = [c \in Cursors |-> None]
    BY <2>1 DEF FreshSession, AbsCursors, Closing
  <2>3. Abs!Reset
    BY <2>1, <2>2 DEF FreshSession, Abs!Reset, Abs!Targets, Targets
  <2>4. QED
    BY <2>3 DEF Abs!Next
<1>3. CASE UNCHANGED vars
  <2>1. UNCHANGED <<open, cursors, executors, pc, stmt>>
    BY <1>3 DEF vars, env, session, procs
  <2>2. QED
    BY <2>1 DEF Abs!vars, AbsCursors, Closing
<1>4. QED
  BY <1>1, <1>2, <1>3 DEF Next

(* With requests served one at a time, the connection's executor cache and *)
(* cursor table behave as the atomic ones of spec sections 3-4: a cache     *)
(* entry is filled at most once per connection and never replaced, the      *)
(* table registers only cursors open on their peer, and a Close removes the *)
(* name.                                                                     *)
THEOREM SequentialRefinement ==
    ASSUME NEW q0, Procs = {q0}
    PROVE  Spec => ImplementsAbstract
<1>1. Init => Abs!Init
  <2> SUFFICES ASSUME Init PROVE Abs!Init
    OBVIOUS
  <2>1. FreshSession(executors, builds, cursors, catLock, curLock, resolved,
                     alive, pc, stmt, holder, target, exec)
        /\ open = [t \in Targets |-> {}]
    BY DEF Init
  <2>2. AbsCursors = [c \in Cursors |-> None]
    BY <2>1 DEF FreshSession, AbsCursors, Closing
  <2>3. QED
    BY <2>1, <2>2 DEF FreshSession, Abs!Init, Abs!Targets, Targets
<1>2. SeqInv(q0) /\ [Next]_vars /\ SeqInv(q0)' => [Abs!Next]_Abs!vars
  BY NextRefines
<1>3. Init => SeqInv(q0)
  BY InitSeqInv
<1>4. SeqInv(q0) /\ [Next]_vars => SeqInv(q0)'
  BY NextSeqInv
<1>5. QED
  BY <1>1, <1>2, <1>3, <1>4, PTL DEF Spec, ImplementsAbstract, Abs!Spec
=============================================================================
