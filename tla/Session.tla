------------------------------- MODULE Session -------------------------------
(***************************************************************************)
(* One client connection of the nexus server: the NexusBackend of          *)
(* src/nexus/server/src/main.rs.  Its state is the executor cache          *)
(* (DashMap `executors`), the cursor table (`peer_cursors` behind a tokio  *)
(* Mutex) and the catalog handle (behind a tokio Mutex).  Each request     *)
(* slot in Procs runs handle_query; a step ends at every `.await` that may *)
(* suspend (lock acquisition, executor construction, catalog write,        *)
(* statement execution).  The environment is the catalog's persisted peer  *)
(* set and the server-side cursors each backend holds open.  A panic in a  *)
(* handler (unwrap, panic!, todo!) ends the connection's task; the client  *)
(* may then open a fresh connection, which gets a fresh NexusBackend.      *)
(***************************************************************************)
EXTENDS Naturals, FiniteSets

CONSTANTS
    Peers,        \* peer names the catalog may hold
    PeerConfig,   \* PeerConfig[p]: the variant of peer p's `config`
    Cursors,      \* cursor names clients use
    Procs,        \* request slots of the connection running concurrently
    Catalog,      \* the catalog's own executor (QueryAssocation::Catalog)
    None,         \* absent value (Option::None)
    ClientStmts,  \* the statements clients send
    DescribeStmts \* the prepared statements clients describe

ConfigKinds == {"BigqueryConfig", "PostgresConfig", "Other"}

(* A classified statement (NexusStatement plus its CursorEvent):           *)
(*   CreatePeer(peer)          PeerDDL::CreatePeer                         *)
(*   Select(assoc)             PeerQuery producing rows                    *)
(*   Declare(assoc, cursor)    PeerQuery declaring a cursor                *)
(*   Fetch(cursor), Close(cursor), CloseAll   PeerCursor events            *)
Statement ==
         [type : {"CreatePeer"}, assoc : Peers, cursor : {None}]
    \cup [type : {"Select"}, assoc : Peers \cup {Catalog}, cursor : {None}]
    \cup [type : {"Declare"}, assoc : Peers \cup {Catalog}, cursor : Cursors]
    \cup [type : {"Fetch", "Close"}, assoc : {None}, cursor : Cursors]
    \cup [type : {"CloseAll"}, assoc : {None}, cursor : {None}]

ASSUME ConstantsAssumption ==
    /\ PeerConfig \in [Peers -> ConfigKinds]
    /\ Catalog \notin Peers
    /\ None \notin Peers \cup {Catalog} \cup Cursors \cup Procs
    /\ ClientStmts \subseteq Statement
    /\ DescribeStmts \subseteq Statement

Targets == Peers \cup {Catalog}        \* what an executor is bound to

(* An executor handle: the target it talks to and which construction of   *)
(* that target's executor it is (the identity of the Arc).                 *)
Executor == [peer : Targets, id : Nat]

CatalogExecutor == [peer |-> Catalog, id |-> 0]

Labels == {"idle", "ddl_lock", "ddl_write", "resolve", "construct",
           "catalog", "cursor", "execute", "add_cursor", "remove_cursor",
           "describe_peer", "describe_lock", "describe_catalog"}

VARIABLES
    catalogPeers, \* peers persisted by the catalog (shared by connections)
    open,         \* open[t]: server-side cursors open on target t
    executors,    \* executors[p]: id of the cached executor of p, 0 = none
    builds,       \* builds[p]: executors of p constructed in this session
    cursors,      \* cursors[c]: owning peer of cursor c, or None
    catLock,      \* holder of the catalog Mutex, or None
    curLock,      \* holder of the peer_cursors Mutex, or None
    pc,           \* pc[q]: where request slot q is in handle_query
    stmt,         \* stmt[q]: the statement q handles
    holder,       \* holder[q]: `peer_holder`, or None
    target,       \* target[q]: the peer q resolves an executor for
    exec,         \* exec[q]: the executor q runs its statement on, or None
    resolved,     \* history: every <<peer, id>> get_peer_executor returned
    alive         \* FALSE once the connection's task has panicked

env     == <<catalogPeers, open>>
session == <<executors, builds, cursors, catLock, curLock, resolved, alive>>
procs   == <<pc, stmt, holder, target, exec>>
vars    == <<env, session, procs>>

-----------------------------------------------------------------------------
(* The locals of request q are defined where its label uses them. *)
LocalsOK(q) ==
    /\ pc[q] # "idle" => stmt[q] \in Statement
    /\ pc[q] \in {"ddl_lock", "ddl_write"} => stmt[q].type = "CreatePeer"
    /\ pc[q] \in {"resolve", "construct"} => target[q] \in Peers
    /\ pc[q] = "describe_peer" => stmt[q].assoc \in Peers
    /\ pc[q] \in {"execute", "add_cursor", "remove_cursor"} => exec[q] \in Executor

TypeOK ==
    /\ catalogPeers \subseteq Peers
    /\ open \in [Targets -> SUBSET Cursors]
    /\ executors \in [Peers -> Nat]
    /\ builds \in [Peers -> Nat]
    /\ cursors \in [Cursors -> Peers \cup {None}]
    /\ catLock \in Procs \cup {None}
    /\ curLock \in Procs \cup {None}
    /\ pc \in [Procs -> Labels]
    /\ stmt \in [Procs -> Statement \cup {None}]
    /\ holder \in [Procs -> Peers \cup {None}]
    /\ target \in [Procs -> Peers \cup {None}]
    /\ exec \in [Procs -> Executor \cup {None}]
    /\ resolved \subseteq Peers \X Nat
    /\ alive \in BOOLEAN
    /\ \A q \in Procs : LocalsOK(q)

(* NexusBackend::new: an empty cursor table and executor cache, no request *)
(* in flight.                                                               *)
FreshSession(e, b, cu, cl, ul, r, a, p, st, h, tg, ex) ==
    /\ e = [x \in Peers |-> 0]
    /\ b = [x \in Peers |-> 0]
    /\ cu = [c \in Cursors |-> None]
    /\ cl = None
    /\ ul = None
    /\ r = {}
    /\ a = TRUE
    /\ p = [q \in Procs |-> "idle"]
    /\ st = [q \in Procs |-> None]
    /\ h = [q \in Procs |-> None]
    /\ tg = [q \in Procs |-> None]
    /\ ex = [q \in Procs |-> None]

Init ==
    /\ catalogPeers \in SUBSET Peers
    /\ open = [t \in Targets |-> {}]
    /\ FreshSession(executors, builds, cursors, catLock, curLock, resolved,
                    alive, pc, stmt, holder, target, exec)

(* The task panics: the connection ends with nothing else changed. *)
Panic ==
    /\ alive' = FALSE
    /\ UNCHANGED <<env, executors, builds, cursors, catLock, curLock,
                   resolved, procs>>

(* Request slot q moves to label l, changing nothing else of procs. *)
Goto(q, l) == pc' = [pc EXCEPT ![q] = l]

ReleaseCursorLockOf(q) ==
    curLock' = IF curLock = q THEN None ELSE curLock

-----------------------------------------------------------------------------
(* do_query (simple flow) / extended do_query: the analyzer classifies the *)
(* text; a peer association names a peer the catalog knows.  handle_query *)
(* starts with `peer_holder = None` and branches on the statement.          *)
DoQuery(q, s) ==
    /\ alive
    /\ pc[q] = "idle"
    /\ s.type \in {"Select", "Declare"} => s.assoc \in catalogPeers \cup {Catalog}
    /\ stmt' = [stmt EXCEPT ![q] = s]
    /\ exec' = [exec EXCEPT ![q] = None]
    /\ \/ /\ s.type \in {"Select", "Declare"} /\ s.assoc \in Peers
          /\ holder' = [holder EXCEPT ![q] = s.assoc]
          /\ target' = [target EXCEPT ![q] = s.assoc]
          /\ Goto(q, "resolve")
       \/ /\ ~(s.type \in {"Select", "Declare"} /\ s.assoc \in Peers)
          /\ holder' = [holder EXCEPT ![q] = None]
          /\ target' = [target EXCEPT ![q] = None]
          /\ Goto(q, CASE s.type = "CreatePeer"            -> "ddl_lock"
                        [] s.type \in {"Select", "Declare"} -> "catalog"
                        [] OTHER                             -> "cursor")
    /\ UNCHANGED <<env, session>>

(* PeerDDL::CreatePeer: `self.catalog.lock().await`. *)
CreatePeerLock(q) ==
    /\ alive
    /\ pc[q] = "ddl_lock"
    /\ catLock = None
    /\ catLock' = q
    /\ Goto(q, "ddl_write")
    /\ UNCHANGED <<env, executors, builds, cursors, curLock, resolved, alive,
                   stmt, holder, target, exec>>

(* `catalog.create_peer(..).await`: the row is written, or the catalog     *)
(* reports an error (a peer of that name exists, or the write fails); the  *)
(* guard drops either way.                                                  *)
CreatePeer(q) ==
    /\ alive
    /\ pc[q] = "ddl_write"
    /\ \/ /\ stmt[q].assoc \notin catalogPeers
          /\ catalogPeers' = catalogPeers \cup {stmt[q].assoc}
       \/ UNCHANGED catalogPeers
    /\ catLock' = None
    /\ Goto(q, "idle")
    /\ UNCHANGED <<open, executors, builds, cursors, curLock, resolved, alive,
                   stmt, holder, target, exec>>

(* Mutant: a lookup that never consults the cache. *)
GetPeerExecutorNoCache(q) ==
    /\ alive
    /\ pc[q] = "resolve"
    /\ Goto(q, "construct")
    /\ UNCHANGED <<env, session, stmt, holder, target, exec>>

(* get_peer_executor, cache lookup: a hit returns the shared handle; a miss *)
(* starts constructing.  On the PeerCursor path the cursor guard is held    *)
(* and a hit drops it at the end of the block.                              *)
GetPeerExecutor(q) ==
    LET p == target[q] IN
    /\ alive
    /\ pc[q] = "resolve"
    /\ \/ /\ executors[p] # 0
          /\ exec' = [exec EXCEPT ![q] = [peer |-> p, id |-> executors[p]]]
          /\ resolved' = resolved \cup {<<p, executors[p]>>}
          /\ ReleaseCursorLockOf(q)
          /\ Goto(q, "execute")
       \/ /\ executors[p] = 0
          /\ Goto(q, "construct")
          /\ UNCHANGED <<exec, resolved, curLock>>
    /\ UNCHANGED <<env, executors, builds, cursors, catLock, alive,
                   stmt, holder, target>>

(* get_peer_executor, miss: `XQueryExecutor::new(..).await.unwrap()` then  *)
(* `executors.insert`.  A connection failure panics on unwrap; a config    *)
(* variant other than BigQuery or Postgres hits `panic!`.                   *)
NewExecutor(q) ==
    LET p == target[q]
        id == builds[p] + 1
    IN
    /\ alive
    /\ pc[q] = "construct"
    /\ \/ /\ PeerConfig[p] \in {"BigqueryConfig", "PostgresConfig"}
          /\ builds' = [builds EXCEPT ![p] = id]
          /\ executors' = [executors EXCEPT ![p] = id]
          /\ exec' = [exec EXCEPT ![q] = [peer |-> p, id |-> id]]
          /\ resolved' = resolved \cup {<<p, id>>}
          /\ ReleaseCursorLockOf(q)
          /\ Goto(q, "execute")
          /\ UNCHANGED <<env, cursors, catLock, alive, stmt, holder, target>>
       \/ Panic

(* `catalog.lock().await` then `catalog.get_executor()`; both guards drop  *)
(* at the end of the block.                                                 *)
GetCatalogExecutor(q) ==
    /\ alive
    /\ pc[q] = "catalog"
    /\ catLock = None
    /\ exec' = [exec EXCEPT ![q] = CatalogExecutor]
    /\ ReleaseCursorLockOf(q)
    /\ Goto(q, "execute")
    /\ UNCHANGED <<env, executors, builds, cursors, catLock, resolved, alive,
                   stmt, holder, target>>

(* PeerCursor: `peer_cursors.lock().await` then `get_peer`; CloseAll is    *)
(* `todo!`.  The guard stays held while the executor is resolved.           *)
CursorLookup(q) ==
    LET c == stmt[q].cursor IN
    /\ alive
    /\ pc[q] = "cursor"
    /\ curLock = None
    /\ \/ /\ stmt[q].type = "CloseAll"
          /\ Panic
       \/ /\ stmt[q].type \in {"Fetch", "Close"}
          /\ curLock' = q
          /\ \/ /\ cursors[c] = None
                /\ Goto(q, "catalog")
                /\ UNCHANGED target
             \/ /\ cursors[c] # None
                /\ target' = [target EXCEPT ![q] = cursors[c]]
                /\ Goto(q, "resolve")
          /\ UNCHANGED <<env, executors, builds, cursors, catLock, resolved,
                         alive, stmt, holder, exec>>

(* execute_statement: `executor.execute(stmt).await?`.  The backend runs   *)
(* the statement against its own cursors; any call may also fail, which    *)
(* returns the error and ends the request.  Rows (AffectedRows, Stream,    *)
(* Records) end the request; a CursorModification goes on to the table.   *)
ExecuteStatement(q) ==
    LET t == exec[q].peer
        c == stmt[q].cursor
        ty == stmt[q].type
    IN
    /\ alive
    /\ pc[q] = "execute"
    /\ \/ /\ ty = "Declare" /\ c \notin open[t]
          /\ open' = [open EXCEPT ![t] = @ \cup {c}]
          /\ Goto(q, "add_cursor")
       \/ /\ ty = "Close" /\ c \in open[t]
          /\ open' = [open EXCEPT ![t] = @ \ {c}]
          /\ Goto(q, "remove_cursor")
       \/ /\ ty = "Select" \/ (ty = "Fetch" /\ c \in open[t])
          /\ Goto(q, "idle")
          /\ UNCHANGED open
       \/ /\ Goto(q, "idle")
          /\ UNCHANGED open
    /\ UNCHANGED <<catalogPeers, session, stmt, holder, target, exec>>

(* Mutant: registers the executor's target instead of peer_holder. *)
AddCursorRegistersTarget(q) ==
    /\ alive
    /\ pc[q] = "add_cursor"
    /\ curLock = None
    /\ cursors' = [cursors EXCEPT ![stmt[q].cursor] = exec[q].peer]
    /\ Goto(q, "idle")
    /\ UNCHANGED <<env, executors, builds, catLock, curLock, resolved, alive,
                   stmt, holder, target, exec>>

(* Mutant: add_cursor writes the table without taking its lock. *)
AddCursorIgnoresLock(q) ==
    /\ alive
    /\ pc[q] = "add_cursor"
    /\ \/ /\ holder[q] # None
          /\ cursors' = [cursors EXCEPT ![stmt[q].cursor] = holder[q]]
          /\ Goto(q, "idle")
          /\ UNCHANGED <<env, executors, builds, catLock, curLock, resolved,
                         alive, stmt, holder, target, exec>>
       \/ /\ holder[q] = None
          /\ Panic

(* CursorModification::Created: lock the table and `add_cursor(name,      *)
(* peer_holder.unwrap())`; a statement with no peer association panics.    *)
AddCursor(q) ==
    /\ alive
    /\ pc[q] = "add_cursor"
    /\ curLock = None
    /\ \/ /\ holder[q] # None
          /\ cursors' = [cursors EXCEPT ![stmt[q].cursor] = holder[q]]
          /\ Goto(q, "idle")
          /\ UNCHANGED <<env, executors, builds, catLock, curLock, resolved,
                         alive, stmt, holder, target, exec>>
       \/ /\ holder[q] = None
          /\ Panic

(* Mutant: acknowledges the close without removing the names. *)
RemoveCursorKeepsEntry(q) ==
    /\ alive
    /\ pc[q] = "remove_cursor"
    /\ curLock = None
    /\ Goto(q, "idle")
    /\ UNCHANGED <<env, session, stmt, holder, target, exec>>

(* CursorModification::Closed(names): lock the table, remove each name. *)
RemoveCursor(q) ==
    /\ alive
    /\ pc[q] = "remove_cursor"
    /\ curLock = None
    /\ cursors' = [cursors EXCEPT ![stmt[q].cursor] = None]
    /\ Goto(q, "idle")
    /\ UNCHANGED <<env, executors, builds, catLock, curLock, resolved, alive,
                   stmt, holder, target, exec>>

(* do_describe of a prepared PeerQuery: a peer association goes on to the  *)
(* peer, a catalog one to the catalog lock.  Describing a PeerDDL or a     *)
(* PeerCursor statement answers no_data and changes nothing, a stutter.    *)
DoDescribe(q, s) ==
    /\ alive
    /\ pc[q] = "idle"
    /\ s.type \in {"Select", "Declare"}
    /\ s.assoc \in catalogPeers \cup {Catalog}
    /\ stmt' = [stmt EXCEPT ![q] = s]
    /\ Goto(q, IF s.assoc = Catalog THEN "describe_lock" ELSE "describe_peer")
    /\ UNCHANGED <<env, session, holder, target, exec>>

(* A peer's describe: for a BigQuery config, a new BigQueryQueryExecutor   *)
(* (not cached) and `describe(stmt).await?`, whose result or error leaves  *)
(* the session as it was; any other config variant hits `panic!`.         *)
DescribePeer(q) ==
    /\ alive
    /\ pc[q] = "describe_peer"
    /\ \/ /\ PeerConfig[stmt[q].assoc] = "BigqueryConfig"
          /\ Goto(q, "idle")
          /\ UNCHANGED <<env, session, stmt, holder, target, exec>>
       \/ /\ PeerConfig[stmt[q].assoc] # "BigqueryConfig"
          /\ Panic

(* `self.catalog.lock().await` for a catalog describe. *)
DescribeCatalogLock(q) ==
    /\ alive
    /\ pc[q] = "describe_lock"
    /\ catLock = None
    /\ catLock' = q
    /\ Goto(q, "describe_catalog")
    /\ UNCHANGED <<env, executors, builds, cursors, curLock, resolved, alive,
                   stmt, holder, target, exec>>

(* Mutant: the describe keeps the catalog guard after it returns. *)
DescribeCatalogKeepsLock(q) ==
    /\ alive
    /\ pc[q] = "describe_catalog"
    /\ Goto(q, "idle")
    /\ UNCHANGED <<env, session, stmt, holder, target, exec>>

(* `catalog.get_executor().describe(stmt).await?` with the guard held; the *)
(* guard drops when the schema or the error returns.                       *)
DescribeCatalog(q) ==
    /\ alive
    /\ pc[q] = "describe_catalog"
    /\ catLock' = None
    /\ Goto(q, "idle")
    /\ UNCHANGED <<env, executors, builds, cursors, curLock, resolved, alive,
                   stmt, holder, target, exec>>

(* Mutant: the new connection inherits the old connection's executors. *)
NewSessionKeepsCache ==
    /\ ~alive \/ (\A q \in Procs : pc[q] = "idle")
    /\ FreshSession([x \in Peers |-> 0], builds', cursors', catLock', curLock',
                    resolved', alive', pc', stmt', holder', target', exec')
    /\ executors' = executors
    /\ open' = [t \in Targets |-> {}]
    /\ UNCHANGED catalogPeers

(* The acceptor loop hands a new socket a fresh NexusBackend once the old  *)
(* connection has ended (panicked, or closed by the client between          *)
(* requests).  Dropping the old backend drops its executors and so closes  *)
(* the backend connections and their cursors; the catalog persists.        *)
NewSession ==
    /\ ~alive \/ (\A q \in Procs : pc[q] = "idle")
    /\ FreshSession(executors', builds', cursors', catLock', curLock',
                    resolved', alive', pc', stmt', holder', target', exec')
    /\ open' = [t \in Targets |-> {}]
    /\ UNCHANGED catalogPeers

Proc(q) ==
    \/ \E s \in ClientStmts : DoQuery(q, s)
    \/ CreatePeerLock(q)
    \/ CreatePeer(q)
    \/ GetPeerExecutor(q)
    \/ NewExecutor(q)
    \/ GetCatalogExecutor(q)
    \/ CursorLookup(q)
    \/ ExecuteStatement(q)
    \/ AddCursor(q)
    \/ RemoveCursor(q)
    \/ \E s \in DescribeStmts : DoDescribe(q, s)
    \/ DescribePeer(q)
    \/ DescribeCatalogLock(q)
    \/ DescribeCatalog(q)

Next == (\E q \in Procs : Proc(q)) \/ NewSession

Spec == Init /\ [][Next]_vars

-----------------------------------------------------------------------------
(* Properties *)

(* Within one connection every lookup of peer p's executor returns the    *)
(* same shared executor: get_peer_executor never constructs a second one   *)
(* for a name it already built (spec section 8, first property).           *)
ResolvedConsistent ==
    \A r1, r2 \in resolved : r1[1] = r2[1] => r1[2] = r2[2]

(* Request q has executed a Close of c and has yet to take it out of the   *)
(* table.                                                                   *)
Closing(c) == \E q \in Procs : pc[q] = "remove_cursor" /\ stmt[q].cursor = c

(* Every cursor the table routes to a peer is open on that peer, unless a  *)
(* Close of it has run and its removal from the table is still pending:    *)
(* a Fetch or Close routed through peer_cursors reaches the backend that   *)
(* holds the cursor.                                                        *)
CursorTableSound ==
    \A c \in Cursors :
        cursors[c] # None => c \in open[cursors[c]] \/ Closing(c)

(* Request q has declared c on target t and has yet to register it. *)
Declaring(c, t) ==
    \E q \in Procs : /\ pc[q] = "add_cursor" /\ stmt[q].cursor = c
                     /\ exec[q].peer = t

(* Every cursor open on a backend of a live connection is one the table    *)
(* routes to that backend (or one whose registration is pending): no       *)
(* declared cursor becomes unreachable while it stays open.                 *)
CursorReachable ==
    alive => \A t \in Targets, c \in Cursors :
                 c \in open[t] => cursors[c] = t \/ Declaring(c, t)

(* The two mutexes are held exactly where handle_query and do_describe    *)
(* hold their guards: the catalog guard only across the catalog write or    *)
(* describe, which wait on nothing else, and the cursor guard across the    *)
(* resolution of a Fetch or Close, which may wait on the catalog guard.     *)
(* So each lock has one holder, and no holder of the catalog lock waits on  *)
(* the cursor lock: the lock order cursor -> catalog has no cycle.          *)
LockDiscipline ==
    /\ catLock # None => pc[catLock] \in {"ddl_write", "describe_catalog"}
    /\ curLock # None => pc[curLock] \in {"resolve", "construct", "catalog"}
    /\ \A q \in Procs : pc[q] \in {"ddl_write", "describe_catalog"} => catLock = q
    /\ \A q \in Procs :
           pc[q] \in {"resolve", "construct", "catalog"} /\ stmt[q].type \in {"Fetch", "Close"}
               => curLock = q

(* While a Fetch or Close holds the cursor guard, from get_peer in the    *)
(* PeerCursor branch until its executor is obtained, the table still routes *)
(* its cursor where the lookup found it: to the peer whose executor is      *)
(* being resolved or built, or nowhere when it falls back to the catalog.   *)
(* Concurrent add_cursor and remove_cursor of other requests cannot         *)
(* intervene, for any number of requests; the route only goes stale after  *)
(* the guard drops, before execute.                                         *)
RouteFreshUnderLock ==
    \A q \in Procs : stmt[q] # None /\ stmt[q].type \in {"Fetch", "Close"} =>
        /\ pc[q] \in {"resolve", "construct"} => cursors[stmt[q].cursor] = target[q]
        /\ pc[q] = "catalog" => cursors[stmt[q].cursor] = None

(* The cursor table as the abstract specification sees it: a name whose    *)
(* Close has run on the backend has already left the table.                 *)
AbsCursors == [c \in Cursors |-> IF Closing(c) THEN None ELSE cursors[c]]

Abs == INSTANCE SessionAbstract WITH cursors <- AbsCursors

(* The connection implements the atomic cache and cursor table of spec     *)
(* sections 3-4: get_peer_executor fills a cache entry at most once and     *)
(* never replaces it, add_cursor registers only a cursor open on its peer,  *)
(* and a Close removes the name, with every intermediate await invisible.   *)
ImplementsAbstract == Abs!Spec

(* A request that fails ends with an error for that request only: no step  *)
(* of a live connection ends the connection (spec section 7).               *)
NoSessionAbort == [][alive => alive']_vars

=============================================================================
