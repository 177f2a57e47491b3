---------------------------- MODULE SessionProofs ----------------------------
(* Proofs about the Session specification, for every value of its          *)
(* constants.                                                               *)
EXTENDS Session, TLAPS

USE ConstantsAssumption

(* The initial state is well typed. *)
(* A new build's id is positive: builds counts from 0. *)
LEMMA NextId == \A n \in Nat : n + 1 \in Nat /\ n + 1 # 0
OBVIOUS

LEMMA InitTypeOK == Init => TypeOK
BY DEF Init, FreshSession, TypeOK, LocalsOK, Targets, Labels

(* Every step of a request slot keeps the state well typed. *)
LEMMA ProcTypeOK ==
    ASSUME TypeOK, NEW q \in Procs, Proc(q)
    PROVE  TypeOK'
<1> USE DEF TypeOK, LocalsOK, Goto, ReleaseCursorLockOf, Panic,
            env, session, procs
<1>1. ASSUME NEW s \in ClientStmts, DoQuery(q, s) PROVE TypeOK'
  BY <1>1 DEF DoQuery, Labels
<1>2. CASE CreatePeerLock(q)
  BY <1>2 DEF CreatePeerLock, Labels
<1>3. CASE CreatePeer(q)
  <2>1. stmt[q].assoc \in Peers
    BY <1>3 DEF CreatePeer, Statement
  <2>2. QED
    BY <1>3, <2>1 DEF CreatePeer, Labels
<1>4. CASE GetPeerExecutor(q)
  BY <1>4 DEF GetPeerExecutor, Labels, Executor, Targets
<1>5. CASE NewExecutor(q)
  <2>1. target[q] \in Peers
    BY <1>5 DEF NewExecutor
  <2>2. CASE Panic
    BY <2>2
  <2>3. CASE ~Panic
    <3> DEFINE p == target[q]
               id == builds[p] + 1
    <3>1. /\ builds' = [builds EXCEPT ![p] = id]
          /\ executors' = [executors EXCEPT ![p] = id]
          /\ exec' = [exec EXCEPT ![q] = [peer |-> p, id |-> id]]
          /\ resolved' = resolved \cup {<<p, id>>}
          /\ ReleaseCursorLockOf(q)
          /\ Goto(q, "execute")
          /\ UNCHANGED <<env, cursors, catLock, alive, stmt, holder, target>>
      BY <1>5, <2>3 DEF NewExecutor
    <3>2. id \in Nat
      BY <2>1
    <3>3. [peer |-> p, id |-> id] \in Executor
      BY <2>1, <3>2 DEF Executor, Targets
    <3>4. /\ builds' \in [Peers -> Nat]
          /\ executors' \in [Peers -> Nat]
          /\ resolved' \subseteq Peers \X Nat
      BY <3>1, <3>2, <2>1
    <3>5. exec' \in [Procs -> Executor \cup {None}]
      BY <3>1, <3>3
    <3>6. pc' \in [Procs -> Labels] /\ curLock' \in Procs \cup {None}
      BY <3>1 DEF Labels
    <3>7. ASSUME NEW r \in Procs PROVE LocalsOK(r)'
      <4>1. CASE r = q
        <5>1. pc[q] = "construct" /\ stmt[q] \in Statement
          BY <1>5 DEF NewExecutor
        <5>2. pc'[q] = "execute" /\ exec'[q] = [peer |-> p, id |-> id]
          BY <3>1
        <5>3. QED
          BY <3>1, <3>3, <4>1, <5>1, <5>2
      <4>2. CASE r # q
        <5>1. pc'[r] = pc[r] /\ exec'[r] = exec[r]
          BY <3>1, <4>2
        <5>2. QED
          BY <3>1, <4>2, <5>1
      <4>3. QED
        BY <4>1, <4>2
    <3>8. QED
      BY <3>1, <3>4, <3>5, <3>6, <3>7
  <2>4. QED
    BY <2>2, <2>3
<1>6. CASE GetCatalogExecutor(q)
  BY <1>6 DEF GetCatalogExecutor, Labels, Executor, CatalogExecutor, Targets
<1>7. CASE CursorLookup(q)
  <2>1. CASE stmt[q].type = "CloseAll"
    BY <1>7, <2>1 DEF CursorLookup
  <2>2. CASE stmt[q].type # "CloseAll"
    <3>1. stmt[q].cursor \in Cursors
      BY <1>7, <2>2 DEF CursorLookup, Statement
    <3> DEFINE c == stmt[q].cursor
    <3>2. /\ curLock' = q
          /\ UNCHANGED <<env, executors, builds, cursors, catLock, resolved,
                         alive, stmt, holder, exec>>
          /\ \/ pc' = [pc EXCEPT ![q] = "catalog"] /\ target' = target
             \/ /\ cursors[c] # None
                /\ pc' = [pc EXCEPT ![q] = "resolve"]
                /\ target' = [target EXCEPT ![q] = cursors[c]]
      BY <1>7, <2>2 DEF CursorLookup
    <3>3. cursors[c] # None => cursors[c] \in Peers
      BY <3>1
    <3>4. QED
      BY <1>7, <3>2, <3>3 DEF CursorLookup, Labels
  <2>3. QED
    BY <2>1, <2>2
<1>8. CASE ExecuteStatement(q)
  <2>1. stmt[q].type = "Declare" => stmt[q].cursor \in Cursors
    BY <1>8 DEF ExecuteStatement, Statement
  <2>2. exec[q].peer \in Targets
    BY <1>8 DEF ExecuteStatement, Executor
  <2>3. QED
    BY <1>8, <2>1, <2>2 DEF ExecuteStatement, Labels
<1>9. CASE AddCursor(q)
  BY <1>9 DEF AddCursor, Labels
<1>10. CASE RemoveCursor(q)
  BY <1>10 DEF RemoveCursor, Labels
<1>11. ASSUME NEW s \in DescribeStmts, DoDescribe(q, s) PROVE TypeOK'
  BY <1>11 DEF DoDescribe, Labels, Statement
<1>12. CASE DescribePeer(q)
  BY <1>12 DEF DescribePeer, Labels
<1>13. CASE DescribeCatalogLock(q) \/ DescribeCatalog(q)
  BY <1>13 DEF DescribeCatalogLock, DescribeCatalog, Labels
<1>14. QED
  BY <1>1, <1>2, <1>3, <1>4, <1>5, <1>6, <1>7, <1>8, <1>9, <1>10, <1>11,
     <1>12, <1>13 DEF Proc

(* Every step keeps the state well typed. *)
LEMMA NextTypeOK == TypeOK /\ [Next]_vars => TypeOK'
<1> SUFFICES ASSUME TypeOK, [Next]_vars PROVE TypeOK'
  OBVIOUS
<1>1. ASSUME NEW q \in Procs, Proc(q) PROVE TypeOK'
  BY <1>1, ProcTypeOK
<1>2. CASE NewSession
  <2>1. FreshSession(executors', builds', cursors', catLock', curLock',
                     resolved', alive', pc', stmt', holder', target', exec')
    BY <1>2 DEF NewSession
  <2>2. open' \in [Targets -> SUBSET Cursors] /\ catalogPeers' \subseteq Peers
    BY <1>2 DEF NewSession, TypeOK
  <2>3. QED
    BY <2>1, <2>2 DEF FreshSession, TypeOK, LocalsOK, Labels
<1>3. CASE UNCHANGED vars
  BY <1>3 DEF vars, env, session, procs, TypeOK, LocalsOK
<1>4. QED
  BY <1>1, <1>2, <1>3 DEF Next

(* The type invariant: every variable keeps its type, and each request's   *)
(* statement, target peer and executor are defined at the labels that use  *)
(* them (what the field accesses of each handler step rely on).            *)
THEOREM TypeCorrect == Spec => []TypeOK
<1>1. Init => TypeOK
  BY InitTypeOK
<1>2. TypeOK /\ [Next]_vars => TypeOK'
  BY NextTypeOK
<1>3. QED
  BY <1>1, <1>2, PTL DEF Spec

-----------------------------------------------------------------------------
(* With one request slot q (pgwire's process_socket serves a connection's  *)
(* messages one at a time), what the slot's locals guarantee about the     *)
(* shared state:                                                            *)
(*  - the executor a peer query runs on is its peer_holder's;               *)
(*  - a cursor whose Created result is pending is open on that executor;    *)
(*  - a slot constructing an executor found no cached one, and nothing has  *)
(*    filled the cache since;                                               *)
(*  - every handle returned so far is the one cached now.                   *)
SlotInv(q) ==
    /\ pc[q] \in {"resolve", "construct"} /\ holder[q] # None
           => holder[q] = target[q]
    /\ pc[q] \in {"catalog", "cursor"} => holder[q] = None
    /\ pc[q] \in {"execute", "add_cursor", "remove_cursor"} /\ holder[q] # None
           => exec[q].peer = holder[q]
    /\ pc[q] = "add_cursor" => stmt[q].cursor \in open[exec[q].peer]
    /\ pc[q] = "construct" => executors[target[q]] = 0
    /\ \A r \in resolved : executors[r[1]] = r[2] /\ r[2] # 0

SeqInv(q) == TypeOK /\ CursorTableSound /\ SlotInv(q)

(* The strengthened invariant holds initially. *)
LEMMA InitSeqInv ==
    ASSUME NEW q0, Procs = {q0}
    PROVE  Init => SeqInv(q0)
BY InitTypeOK DEF Init, FreshSession, SeqInv, CursorTableSound, SlotInv

(* Every step of the only request slot preserves the strengthened          *)
(* invariant.                                                               *)
LEMMA ProcSeqInv ==
    ASSUME NEW q0, Procs = {q0}, SeqInv(q0), Proc(q0)
    PROVE  (CursorTableSound /\ SlotInv(q0))'
<1> USE DEF SeqInv, TypeOK, LocalsOK, Goto, ReleaseCursorLockOf, Panic,
            env, session, procs
<1> DEFINE Sound == CursorTableSound
<1>0. \A c \in Cursors : Closing(c) <=> pc[q0] = "remove_cursor" /\ stmt[q0].cursor = c
  BY DEF Closing
<1>1. ASSUME NEW s \in ClientStmts, DoQuery(q0, s) PROVE (Sound /\ SlotInv(q0))'
  <2>1. Sound'
    BY <1>1, <1>0 DEF DoQuery, CursorTableSound, Closing
  <2>2. SlotInv(q0)'
    BY <1>1 DEF DoQuery, SlotInv
  <2>3. QED
    BY <2>1, <2>2
<1>2. CASE CreatePeerLock(q0) \/ CreatePeer(q0)
  <2>1. Sound'
    BY <1>2, <1>0 DEF CreatePeerLock, CreatePeer, CursorTableSound, Closing
  <2>2. SlotInv(q0)'
    BY <1>2 DEF CreatePeerLock, CreatePeer, SlotInv
  <2>3. QED
    BY <2>1, <2>2
<1>3. CASE GetPeerExecutor(q0)
  <2>1. Sound'
    BY <1>3, <1>0 DEF GetPeerExecutor, CursorTableSound, Closing
  <2>2. SlotInv(q0)'
    <3>1. CASE executors[target[q0]] # 0
      <4> DEFINE p == target[q0]
      <4>1. /\ pc[q0] = "resolve"
            /\ exec' = [exec EXCEPT ![q0] = [peer |-> p, id |-> executors[p]]]
            /\ resolved' = resolved \cup {<<p, executors[p]>>}
            /\ pc' = [pc EXCEPT ![q0] = "execute"]
            /\ UNCHANGED <<open, executors, stmt, holder, target>>
        BY <1>3, <3>1 DEF GetPeerExecutor
      <4>2. holder[q0] # None => exec'[q0].peer = holder'[q0]
        BY <4>1 DEF SlotInv
      <4>3. (\A r \in resolved : executors[r[1]] = r[2] /\ r[2] # 0)'
        <5> SUFFICES ASSUME NEW r \in resolved'
                     PROVE  executors[r[1]] = r[2] /\ r[2] # 0
          BY <4>1
        <5>1. CASE r = <<p, executors[p]>>
          BY <3>1, <5>1
        <5>2. CASE r \in resolved
          BY <5>2 DEF SlotInv
        <5>3. QED
          BY <4>1, <5>1, <5>2
      <4>4. pc'[q0] = "execute" /\ holder' = holder
        BY <4>1
      <4>5. QED
        BY <4>2, <4>3, <4>4 DEF SlotInv
    <3>2. CASE executors[target[q0]] = 0
      BY <1>3, <3>2 DEF GetPeerExecutor, SlotInv
    <3>3. QED
      BY <3>1, <3>2
  <2>3. QED
    BY <2>1, <2>2
<1>4. CASE NewExecutor(q0)
  <2>1. CASE Panic
    BY <2>1 DEF CursorTableSound, Closing, SlotInv
  <2>2. CASE ~Panic
    <3> DEFINE p == target[q0]
               id == builds[p] + 1
    <3>1. /\ pc[q0] = "construct"
          /\ builds' = [builds EXCEPT ![p] = id]
          /\ executors' = [executors EXCEPT ![p] = id]
          /\ exec' = [exec EXCEPT ![q0] = [peer |-> p, id |-> id]]
          /\ resolved' = resolved \cup {<<p, id>>}
          /\ ReleaseCursorLockOf(q0)
          /\ Goto(q0, "execute")
          /\ UNCHANGED <<env, cursors, catLock, alive, stmt, holder, target>>
      BY <1>4, <2>2 DEF NewExecutor
    <3>2. p \in Peers /\ id \in Nat /\ id # 0 /\ executors[p] = 0
      <4>1. p \in Peers
        BY <3>1
      <4>2a. builds[p] \in Nat
        BY <4>1 DEF p
      <4>2. id \in Nat /\ id # 0
        BY <4>2a, NextId, Zenon DEF id
      <4>3. executors[p] = 0
        BY <3>1 DEF SlotInv
      <4>4. QED
        BY <4>1, <4>2, <4>3
    <3>3. \A r \in resolved : r[1] # p
      BY <3>2 DEF SlotInv
    <3>4. Sound'
      BY <3>1, <1>0 DEF CursorTableSound, Closing
    <3>5. (\A r \in resolved : executors[r[1]] = r[2] /\ r[2] # 0)'
      <4> SUFFICES ASSUME NEW r \in resolved'
                   PROVE  executors'[r[1]] = r[2] /\ r[2] # 0
        OBVIOUS
      <4>1. CASE r = <<p, id>>
        BY <3>1, <3>2, <4>1
      <4>2. CASE r \in resolved
        <5>1. r[1] # p /\ r[1] \in Peers /\ executors[r[1]] = r[2] /\ r[2] # 0
          BY <3>3, <4>2 DEF SlotInv
        <5>2. QED
          BY <3>1, <5>1
      <4>3. QED
        BY <3>1, <4>1, <4>2
    <3>6. QED
      BY <3>1, <3>2, <3>4, <3>5 DEF SlotInv
  <2>3. QED
    BY <2>1, <2>2
<1>5. CASE GetCatalogExecutor(q0)
  <2>1. Sound'
    BY <1>5, <1>0 DEF GetCatalogExecutor, CursorTableSound, Closing
  <2>2. SlotInv(q0)'
    BY <1>5 DEF GetCatalogExecutor, SlotInv
  <2>3. QED
    BY <2>1, <2>2
<1>6. CASE CursorLookup(q0)
  <2>1. Sound'
    BY <1>6, <1>0 DEF CursorLookup, CursorTableSound, Closing
  <2>2. SlotInv(q0)'
    BY <1>6 DEF CursorLookup, SlotInv
  <2>3. QED
    BY <2>1, <2>2
<1>7. CASE ExecuteStatement(q0)
  <2> DEFINE t == exec[q0].peer
             c == stmt[q0].cursor
  <2>1. pc[q0] = "execute" /\ t \in Targets
    BY <1>7 DEF ExecuteStatement, Executor
  <2>2. \A d \in Cursors : cursors[d] # None => d \in open[cursors[d]]
    BY <2>1, <1>0 DEF CursorTableSound
  <2>3. UNCHANGED <<cursors, stmt>> /\ open \in [Targets -> SUBSET Cursors]
    BY <1>7 DEF ExecuteStatement
  <2>4. Sound'
    <3> SUFFICES ASSUME NEW d \in Cursors, cursors'[d] # None
                 PROVE  d \in open'[cursors'[d]] \/ Closing(d)'
      BY DEF CursorTableSound
    <3>1. cursors[d] \in Peers /\ d \in open[cursors[d]]
      BY <2>2, <2>3
    <3>2. CASE stmt[q0].type = "Declare" /\ c \notin open[t]
               /\ open' = [open EXCEPT ![t] = @ \cup {c}]
      BY <3>1, <3>2, <2>1, <2>3 DEF Targets
    <3>3. CASE stmt[q0].type = "Close" /\ c \in open[t]
               /\ open' = [open EXCEPT ![t] = @ \ {c}]
               /\ pc' = [pc EXCEPT ![q0] = "remove_cursor"]
      <4>1. CASE d = c
        BY <3>3, <4>1, <2>3 DEF Closing
      <4>2. CASE d # c
        BY <3>1, <3>3, <4>2, <2>1, <2>3 DEF Targets
      <4>3. QED
        BY <4>1, <4>2
    <3>4. CASE UNCHANGED open
      BY <3>1, <3>4, <2>3
    <3>5. QED
      BY <1>7, <3>2, <3>3, <3>4 DEF ExecuteStatement
  <2>5. SlotInv(q0)'
    <3>1. CASE pc'[q0] = "add_cursor"
      <4>1. open' = [open EXCEPT ![t] = @ \cup {c}]
        BY <1>7, <3>1 DEF ExecuteStatement
      <4>2. c \in open'[t]
        BY <4>1, <2>1, <2>3
      <4>3. QED
        BY <1>7, <2>1, <3>1, <4>2 DEF ExecuteStatement, SlotInv
    <3>2. CASE pc'[q0] # "add_cursor"
      BY <1>7, <2>1, <3>2 DEF ExecuteStatement, SlotInv
    <3>3. QED
      BY <3>1, <3>2
  <2>6. QED
    BY <2>4, <2>5
<1>8. CASE AddCursor(q0)
  <2>1. CASE Panic
    BY <2>1 DEF CursorTableSound, Closing, SlotInv
  <2>2. CASE holder[q0] # None
    <3>1. /\ pc[q0] = "add_cursor"
          /\ cursors' = [cursors EXCEPT ![stmt[q0].cursor] = holder[q0]]
          /\ Goto(q0, "idle")
          /\ UNCHANGED <<env, executors, builds, catLock, curLock, resolved,
                         alive, stmt, holder, target, exec>>
      BY <1>8, <2>2 DEF AddCursor
    <3>2. stmt[q0].cursor \in open[holder[q0]]
      BY <3>1, <2>2 DEF SlotInv
    <3>3. \A d \in Cursors : cursors[d] # None => d \in open[cursors[d]]
      BY <3>1, <1>0 DEF CursorTableSound
    <3>4. Sound'
      BY <3>1, <3>2, <3>3 DEF CursorTableSound
    <3>5. SlotInv(q0)'
      BY <3>1 DEF SlotInv
    <3>6. QED
      BY <3>4, <3>5
  <2>3. QED
    BY <1>8, <2>1, <2>2 DEF AddCursor
<1>9. CASE RemoveCursor(q0)
  <2>1. /\ pc[q0] = "remove_cursor"
        /\ cursors' = [cursors EXCEPT ![stmt[q0].cursor] = None]
        /\ Goto(q0, "idle")
    BY <1>9 DEF RemoveCursor
  <2>2. \A d \in Cursors : cursors[d] # None /\ d # stmt[q0].cursor
            => d \in open[cursors[d]]
    BY <2>1, <1>0 DEF CursorTableSound
  <2>3. Sound'
    <3> SUFFICES ASSUME NEW d \in Cursors, cursors'[d] # None
                 PROVE  d \in open'[cursors'[d]] \/ Closing(d)'
      BY DEF CursorTableSound
    <3>1. stmt[q0] \in Statement
      BY <2>1
    <3>2. d # stmt[q0].cursor /\ cursors'[d] = cursors[d]
      BY <2>1, <3>1
    <3>3. QED
      BY <1>9, <2>2, <3>2 DEF RemoveCursor
  <2>4. SlotInv(q0)'
    BY <1>9 DEF RemoveCursor, SlotInv
  <2>5. QED
    BY <2>3, <2>4
<1>10. ASSUME NEW s \in DescribeStmts, DoDescribe(q0, s)
       PROVE  (Sound /\ SlotInv(q0))'
  <2>1. pc[q0] = "idle" /\ UNCHANGED <<open, executors, cursors, holder,
                                        target, exec, resolved>>
    BY <1>10 DEF DoDescribe
  <2>2. pc'[q0] \in {"describe_lock", "describe_peer"}
    BY <1>10 DEF DoDescribe
  <2>3. QED
    BY <2>1, <2>2, <1>0 DEF CursorTableSound, Closing, SlotInv
<1>11. CASE DescribePeer(q0) \/ DescribeCatalogLock(q0) \/ DescribeCatalog(q0)
  <2>1. CASE Panic
    BY <2>1 DEF CursorTableSound, Closing, SlotInv
  <2>2. CASE ~Panic
    <3>1. /\ pc[q0] \in {"describe_peer", "describe_lock", "describe_catalog"}
          /\ pc'[q0] \in {"idle", "describe_catalog"}
          /\ UNCHANGED <<open, executors, cursors, stmt, holder, target, exec,
                         resolved>>
      BY <1>11, <2>2 DEF DescribePeer, DescribeCatalogLock, DescribeCatalog
    <3>2. QED
      BY <3>1, <1>0 DEF CursorTableSound, Closing, SlotInv
  <2>3. QED
    BY <2>1, <2>2
<1>12. QED
  BY <1>1, <1>2, <1>3, <1>4, <1>5, <1>6, <1>7, <1>8, <1>9, <1>10, <1>11
  DEF Proc

(* Every step, including a reconnect, preserves the strengthened invariant. *)
LEMMA NextSeqInv ==
    ASSUME NEW q0, Procs = {q0}
    PROVE  SeqInv(q0) /\ [Next]_vars => SeqInv(q0)'
<1> SUFFICES ASSUME SeqInv(q0), [Next]_vars PROVE SeqInv(q0)'
  OBVIOUS
<1>1. TypeOK'
  BY NextTypeOK DEF SeqInv
<1>2. ASSUME NEW q \in Procs, Proc(q) PROVE (CursorTableSound /\ SlotInv(q0))'
  BY <1>2, ProcSeqInv
<1>3. ASSUME NewSession PROVE (CursorTableSound /\ SlotInv(q0))'
  <2>1. FreshSession(executors', builds', cursors', catLock', curLock',
                     resolved', alive', pc', stmt', holder', target', exec')
    BY <1>3 DEF NewSession
  <2>2. pc'[q0] = "idle" /\ resolved' = {}
        /\ \A d \in Cursors : cursors'[d] = None
    BY <2>1 DEF FreshSession
  <2>3. QED
    BY <2>2 DEF CursorTableSound, SlotInv
<1>4. ASSUME UNCHANGED vars PROVE (CursorTableSound /\ SlotInv(q0))'
  <2>1. UNCHANGED <<open, executors, cursors, pc, stmt, holder, target, exec,
                    resolved>>
    BY <1>4 DEF vars, env, session, procs
  <2>2. QED
    BY <2>1 DEF SeqInv, CursorTableSound, Closing, SlotInv
<1>5. (CursorTableSound /\ SlotInv(q0))'
  BY <1>2, <1>3, <1>4 DEF Next
<1>6. QED
  BY <1>1, <1>5 DEF SeqInv

(* With requests of a connection served one at a time (pgwire's            *)
(* process_socket), the cursor table only ever routes a Fetch or Close to  *)
(* a backend that holds the cursor open, except between a Close's          *)
(* execution and its remove_cursor: execute_statement's table updates are  *)
(* consistent with what the backends did.                                   *)
THEOREM SequentialCursorTableSound ==
    ASSUME NEW q0, Procs = {q0}
    PROVE  Spec => []CursorTableSound
<1>1. Init => SeqInv(q0)
  BY InitSeqInv
<1>2. SeqInv(q0) /\ [Next]_vars => SeqInv(q0)'
  BY NextSeqInv
<1>3. SeqInv(q0) => CursorTableSound
  BY DEF SeqInv
<1>4. QED
  BY <1>1, <1>2, <1>3, PTL DEF Spec

(* With requests served one at a time, get_peer_executor returns the same  *)
(* executor every time it is asked for a peer within a connection: the     *)
(* cache is filled only after a miss and never overwritten.                 *)
THEOREM SequentialResolvedConsistent ==
    ASSUME NEW q0, Procs = {q0}
    PROVE  Spec => []ResolvedConsistent
<1>1. Init => SeqInv(q0)
  BY InitSeqInv
<1>2. SeqInv(q0) /\ [Next]_vars => SeqInv(q0)'
  BY NextSeqInv
<1>3. SeqInv(q0) => ResolvedConsistent
  BY DEF SeqInv, SlotInv, ResolvedConsistent
<1>4. QED
  BY <1>1, <1>2, <1>3, PTL DEF Spec
=============================================================================
