--------------------------- MODULE SessionLockProofs ---------------------------
(* The lock discipline of a connection, for any number of concurrent        *)
(* request slots: who may hold the catalog and cursor mutexes, and where.   *)
EXTENDS SessionProofs

(* Every step of a request slot keeps the discipline. *)
LEMMA ProcLockDiscipline ==
    ASSUME TypeOK, LockDiscipline, NEW q \in Procs, Proc(q)
    PROVE  LockDiscipline'
<1> USE DEF TypeOK, LocalsOK, Goto, ReleaseCursorLockOf, Panic,
            env, session, procs
<1> DEFINE CatL == {"ddl_write", "describe_catalog"}
           CurL == {"resolve", "construct", "catalog"}
<1>0. LockDiscipline <=>
        /\ catLock # None => pc[catLock] \in CatL
        /\ curLock # None => pc[curLock] \in CurL
        /\ \A r \in Procs : pc[r] \in CatL => catLock = r
        /\ \A r \in Procs : pc[r] \in CurL /\ stmt[r].type \in {"Fetch", "Close"}
                                => curLock = r
  BY DEF LockDiscipline
<1>1. ASSUME NEW s \in ClientStmts, DoQuery(q, s) PROVE LockDiscipline'
  <2>1. pc[q] = "idle" /\ UNCHANGED <<catLock, curLock>>
    BY <1>1 DEF DoQuery
  <2>2. s \in Statement
    BY ConstantsAssumption
  <2>3. pc'[q] \in CurL => s.type \in {"Select", "Declare"}
    BY <1>1, <2>2 DEF DoQuery, Statement
  <2>4. pc'[q] \notin CatL
    BY <1>1, <2>2 DEF DoQuery, Statement
  <2>5. \A r \in Procs \ {q} : pc'[r] = pc[r] /\ stmt'[r] = stmt[r]
    BY <1>1 DEF DoQuery
  <2>6. stmt'[q] = s
    BY <1>1 DEF DoQuery
  <2>7. QED
    BY <1>0, <2>1, <2>3, <2>4, <2>5, <2>6 DEF LockDiscipline
<1>2. ASSUME NEW l \in {"ddl_lock", "describe_lock"}, NEW l2 \in CatL,
             pc[q] = l, catLock = None, catLock' = q,
             pc' = [pc EXCEPT ![q] = l2], UNCHANGED <<curLock, stmt>>
      PROVE  LockDiscipline'
  <2>1. \A r \in Procs : pc[r] \notin CatL
    BY <1>2, <1>0, ConstantsAssumption
  <2>2. QED
    BY <1>2, <2>1, <1>0 DEF LockDiscipline
<1>12. CASE CreatePeerLock(q)
  BY <1>12, <1>2 DEF CreatePeerLock
<1>13. CASE DescribeCatalogLock(q)
  BY <1>13, <1>2 DEF DescribeCatalogLock
<1>3. CASE CreatePeer(q) \/ DescribeCatalog(q)
  BY <1>3, <1>0 DEF CreatePeer, DescribeCatalog, LockDiscipline
<1>4. CASE GetPeerExecutor(q)
  BY <1>4, <1>0 DEF GetPeerExecutor, LockDiscipline
<1>5. CASE NewExecutor(q)
  <2>1. CASE Panic
    BY <1>5, <2>1, <1>0 DEF NewExecutor, LockDiscipline
  <2>2. CASE ~Panic
    <3>1. /\ pc[q] = "construct"
          /\ curLock' = IF curLock = q THEN None ELSE curLock
          /\ pc' = [pc EXCEPT ![q] = "execute"]
          /\ UNCHANGED <<catLock, stmt>>
      BY <1>5, <2>2 DEF NewExecutor
    <3>2. QED
      BY <3>1, <1>0 DEF LockDiscipline
  <2>3. QED
    BY <2>1, <2>2
<1>6. CASE GetCatalogExecutor(q)
  BY <1>6, <1>0 DEF GetCatalogExecutor, LockDiscipline
<1>7. CASE CursorLookup(q)
  <2>1. CASE stmt[q].type = "CloseAll"
    BY <1>7, <2>1, <1>0 DEF CursorLookup, LockDiscipline
  <2>2. CASE stmt[q].type # "CloseAll"
    <3>1. /\ pc[q] = "cursor" /\ curLock = None /\ curLock' = q
          /\ pc'[q] \in {"catalog", "resolve"}
          /\ \A r \in Procs \ {q} : pc'[r] = pc[r]
          /\ UNCHANGED <<catLock, stmt>>
      BY <1>7, <2>2 DEF CursorLookup
    <3>2. \A r \in Procs : ~(pc[r] \in CurL /\ stmt[r].type \in {"Fetch", "Close"})
      BY <3>1, <1>0, ConstantsAssumption
    <3>3. QED
      BY <3>1, <3>2, <1>0 DEF LockDiscipline
  <2>3. QED
    BY <2>1, <2>2
<1>8. CASE ExecuteStatement(q) \/ AddCursor(q) \/ RemoveCursor(q)
  BY <1>8, <1>0 DEF ExecuteStatement, AddCursor, RemoveCursor, LockDiscipline
<1>9. ASSUME NEW s \in DescribeStmts, DoDescribe(q, s) PROVE LockDiscipline'
  BY <1>9, <1>0 DEF DoDescribe, LockDiscipline
<1>10. CASE DescribePeer(q)
  BY <1>10, <1>0 DEF DescribePeer, LockDiscipline
<1>11. QED
  BY <1>1, <1>12, <1>13, <1>3, <1>4, <1>5, <1>6, <1>7, <1>8, <1>9, <1>10 DEF Proc

(* Each of the two mutexes has at most one holder, which is at a step of   *)
(* the code that holds that guard; a holder of the catalog guard is at the  *)
(* catalog write or describe, which wait on no other lock.  This holds for  *)
(* any number of concurrent requests of a connection.                       *)
(* Every step of the connection keeps the discipline. *)
LEMMA LocksStep == TypeOK /\ LockDiscipline /\ [Next]_vars => LockDiscipline'
<1> SUFFICES ASSUME TypeOK, LockDiscipline, [Next]_vars
             PROVE  LockDiscipline'
  OBVIOUS
<1>1. ASSUME NEW q \in Procs, Proc(q) PROVE LockDiscipline'
  BY <1>1, ProcLockDiscipline
<1>2. CASE NewSession
  BY <1>2 DEF NewSession, FreshSession, LockDiscipline
<1>3. CASE UNCHANGED vars
  BY <1>3 DEF vars, session, procs, LockDiscipline
<1>4. QED
  BY <1>1, <1>2, <1>3 DEF Next

THEOREM LocksDisciplined == Spec => []LockDiscipline
<1>1. Init => TypeOK /\ LockDiscipline
  BY InitTypeOK DEF Init, FreshSession, LockDiscipline
<1>2. TypeOK /\ LockDiscipline /\ [Next]_vars => LockDiscipline'
  BY LocksStep
<1>3. QED
  BY <1>1, <1>2, NextTypeOK, PTL DEF Spec
-----------------------------------------------------------------------------
(* Routes stay fresh under the cursor guard. *)

RC == {"resolve", "construct"}
FC == {"Fetch", "Close"}

(* The route of request r is fresh: the conjunct of RouteFreshUnderLock    *)
(* for one request.                                                         *)
Fresh(r) ==
    stmt[r] # None /\ stmt[r].type \in FC =>
        /\ pc[r] \in RC => cursors[stmt[r].cursor] = target[r]
        /\ pc[r] = "catalog" => cursors[stmt[r].cursor] = None

LEMMA FreshAll ==
    /\ RouteFreshUnderLock <=> \A r \in Procs : Fresh(r)
    /\ RouteFreshUnderLock' <=> \A r \in Procs : Fresh(r)'
BY DEF RouteFreshUnderLock, Fresh, RC, FC

(* A step of q that leaves the table, the statements and the targets alone *)
(* and moves q to a label outside the guarded ones keeps every route.      *)
LEMMA QuietRoute ==
    ASSUME TypeOK, RouteFreshUnderLock, NEW q \in Procs,
           NEW l \in Labels \ {"resolve", "construct", "catalog"},
           pc' = [pc EXCEPT ![q] = l],
           UNCHANGED <<cursors, stmt, target>>
    PROVE  RouteFreshUnderLock'
<1>1. \A r \in Procs : Fresh(r)
  BY FreshAll
<1>2. \A r \in Procs : Fresh(r)'
  BY <1>1 DEF Fresh, RC, TypeOK
<1>3. QED
  BY <1>2, FreshAll

(* Every step of a request slot keeps the routes of Fetch and Close fresh  *)
(* while their guard is held.                                               *)
LEMMA ProcRouteFresh ==
    ASSUME TypeOK, LockDiscipline, RouteFreshUnderLock, NEW q \in Procs, Proc(q)
    PROVE  RouteFreshUnderLock'
<1> USE DEF TypeOK, LocalsOK, Goto, ReleaseCursorLockOf, Panic,
            env, session, procs
<1>0. \A r \in Procs : Fresh(r)
  BY FreshAll
<1>1. ASSUME NEW s \in ClientStmts, DoQuery(q, s) PROVE RouteFreshUnderLock'
  <2>1. s \in Statement
    BY ConstantsAssumption
  <2>2. s.type \in FC => pc'[q] = "cursor"
    BY <1>1, <2>1 DEF DoQuery, Statement, FC
  <2>3. /\ stmt' = [stmt EXCEPT ![q] = s] /\ UNCHANGED cursors
        /\ \A r \in Procs \ {q} : pc'[r] = pc[r] /\ target'[r] = target[r]
    BY <1>1 DEF DoQuery
  <2>4. \A r \in Procs : Fresh(r)'
    BY <1>0, <2>2, <2>3 DEF Fresh, RC
  <2>5. QED
    BY <2>4, FreshAll
<1>2. CASE CursorLookup(q)
  <2>1. CASE stmt[q].type = "CloseAll"
    BY <1>2, <2>1, <1>0, FreshAll DEF CursorLookup, Fresh
  <2>2. CASE stmt[q].type # "CloseAll"
    <3> DEFINE c == stmt[q].cursor
    <3>1. /\ pc[q] = "cursor" /\ stmt[q].type \in FC
          /\ UNCHANGED <<cursors, stmt>>
          /\ \A r \in Procs \ {q} : pc'[r] = pc[r] /\ target'[r] = target[r]
      BY <1>2, <2>2 DEF CursorLookup, FC
    <3>2. \/ cursors[c] = None /\ pc'[q] = "catalog"
          \/ pc'[q] = "resolve" /\ target'[q] = cursors[c]
      BY <1>2, <2>2 DEF CursorLookup
    <3>3. Fresh(q)'
      BY <3>1, <3>2 DEF Fresh, RC
    <3>4. \A r \in Procs \ {q} : Fresh(r)'
      BY <3>1, <1>0 DEF Fresh, RC
    <3>5. QED
      BY <3>3, <3>4, FreshAll
  <2>3. QED
    BY <2>1, <2>2
<1>3. CASE GetPeerExecutor(q)
  <2>1. /\ pc[q] = "resolve" /\ pc'[q] \in {"execute", "construct"}
        /\ UNCHANGED <<cursors, stmt, target>>
        /\ \A r \in Procs \ {q} : pc'[r] = pc[r]
    BY <1>3 DEF GetPeerExecutor
  <2>2. \A r \in Procs : Fresh(r)'
    BY <2>1, <1>0 DEF Fresh, RC
  <2>3. QED
    BY <2>2, FreshAll
<1>4. CASE NewExecutor(q)
  <2>1. CASE Panic
    BY <1>4, <2>1, <1>0, FreshAll DEF NewExecutor, Fresh
  <2>2. CASE ~Panic
    BY <1>4, <2>2, QuietRoute DEF NewExecutor, Labels
  <2>3. QED
    BY <2>1, <2>2
<1>5. CASE AddCursor(q) \/ RemoveCursor(q)
  <2>2. curLock = None
    BY <1>5 DEF AddCursor, RemoveCursor
  <2>3. \A r \in Procs : stmt[r] # None /\ stmt[r].type \in FC
                            => pc[r] \notin RC \cup {"catalog"}
    BY <2>2, ConstantsAssumption DEF LockDiscipline, FC, RC
  <2>3a. pc[q] \in {"add_cursor", "remove_cursor"}
    BY <1>5 DEF AddCursor, RemoveCursor
  <2>4. /\ UNCHANGED <<stmt, target>>
        /\ \A r \in Procs \ {q} : pc'[r] = pc[r]
        /\ pc'[q] \in {"idle", pc[q]}
    BY <1>5 DEF AddCursor, RemoveCursor
  <2>5. \A r \in Procs : Fresh(r)'
    BY <2>3, <2>3a, <2>4 DEF Fresh, RC
  <2>6. QED
    BY <2>5, FreshAll
<1>6. CASE CreatePeerLock(q)
  BY <1>6, QuietRoute DEF CreatePeerLock, Labels
<1>7. CASE CreatePeer(q)
  BY <1>7, QuietRoute DEF CreatePeer, Labels
<1>8. CASE GetCatalogExecutor(q)
  BY <1>8, QuietRoute DEF GetCatalogExecutor, Labels
<1>9. CASE ExecuteStatement(q)
  <2>1. PICK l \in {"add_cursor", "remove_cursor", "idle"} : pc' = [pc EXCEPT ![q] = l]
    BY <1>9 DEF ExecuteStatement
  <2>2. QED
    BY <1>9, <2>1, QuietRoute DEF ExecuteStatement, Labels
<1>10. ASSUME NEW s \in DescribeStmts, DoDescribe(q, s) PROVE RouteFreshUnderLock'
  <2>1. /\ s.type \in {"Select", "Declare"} /\ stmt' = [stmt EXCEPT ![q] = s]
        /\ pc'[q] \in {"describe_lock", "describe_peer"}
        /\ UNCHANGED <<cursors, target>>
        /\ \A r \in Procs \ {q} : pc'[r] = pc[r]
    BY <1>10 DEF DoDescribe
  <2>2. \A r \in Procs : Fresh(r)'
    BY <2>1, <1>0 DEF Fresh, RC, FC
  <2>3. QED
    BY <2>2, FreshAll
<1>11. CASE DescribePeer(q)
  <2>1. CASE Panic
    BY <1>11, <2>1, <1>0, FreshAll DEF DescribePeer, Fresh
  <2>2. CASE ~Panic
    BY <1>11, <2>2, QuietRoute DEF DescribePeer, Labels
  <2>3. QED
    BY <2>1, <2>2
<1>12. CASE DescribeCatalogLock(q) \/ DescribeCatalog(q)
  BY <1>12, QuietRoute DEF DescribeCatalogLock, DescribeCatalog, Labels
<1>13. QED
  BY <1>1, <1>2, <1>3, <1>4, <1>5, <1>6, <1>7, <1>8, <1>9, <1>10, <1>11, <1>12
  DEF Proc

(* A Fetch or Close, for any number of concurrent requests, is resolved    *)
(* against the route the table still holds: while its cursor guard is held *)
(* no add_cursor or remove_cursor changes the entry get_peer returned.     *)
THEOREM RoutesFresh == Spec => []RouteFreshUnderLock
<1> DEFINE RInv == TypeOK /\ LockDiscipline /\ RouteFreshUnderLock
<1>1. Init => RInv
  BY InitTypeOK DEF RInv, Init, FreshSession, LockDiscipline, RouteFreshUnderLock
<1>2. RInv /\ [Next]_vars => RInv'
  <2> SUFFICES ASSUME TypeOK, LockDiscipline, RouteFreshUnderLock, [Next]_vars
               PROVE  TypeOK' /\ LockDiscipline' /\ RouteFreshUnderLock'
    BY DEF RInv
  <2>1. TypeOK' /\ LockDiscipline'
    BY NextTypeOK, LocksStep
  <2>2. ASSUME NEW q \in Procs, Proc(q) PROVE RouteFreshUnderLock'
    BY <2>2, ProcRouteFresh
  <2>3. NewSession => RouteFreshUnderLock'
    BY DEF NewSession, FreshSession, RouteFreshUnderLock
  <2>4. UNCHANGED vars => RouteFreshUnderLock'
    BY DEF vars, session, procs, RouteFreshUnderLock
  <2>5. QED
    BY <2>1, <2>2, <2>3, <2>4 DEF Next
<1>3. QED
  BY <1>1, <1>2, PTL DEF Spec, RInv
=============================================================================
