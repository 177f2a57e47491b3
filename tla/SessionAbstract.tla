--------------------------- MODULE SessionAbstract ---------------------------
(***************************************************************************)
(* What a connection's shared state promises (spec sections 3 and 4), with *)
(* every change atomic: the executor cache fills an entry at most once per *)
(* connection and never replaces it; the cursor table routes a name to a   *)
(* peer only while that peer holds the cursor open, and closing a cursor   *)
(* removes its name.  A new connection starts from empty state.  Session   *)
(* with one request slot implements this specification (SessionRefinement).   *)
(***************************************************************************)
EXTENDS Naturals

CONSTANTS
    Peers,     \* peer names
    Cursors,   \* cursor names
    Catalog,   \* the catalog's own executor
    None       \* absent value

Targets == Peers \cup {Catalog}

VARIABLES
    open,       \* open[t]: cursors open on target t's backend
    cursors,    \* cursors[c]: the peer the table routes c to, or None
    executors   \* executors[p]: the cached executor of p, 0 = none

vars == <<open, cursors, executors>>

TypeOK ==
    /\ open \in [Targets -> SUBSET Cursors]
    /\ cursors \in [Cursors -> Peers \cup {None}]
    /\ executors \in [Peers -> Nat]

Init ==
    /\ open = [t \in Targets |-> {}]
    /\ cursors = [c \in Cursors |-> None]
    /\ executors = [p \in Peers |-> 0]

(* An executor for p is built and cached; only an empty entry is filled. *)
Cache(p) ==
    /\ executors[p] = 0
    /\ executors'[p] \in Nat \ {0}
    /\ executors' = [executors EXCEPT ![p] = executors'[p]]
    /\ UNCHANGED <<open, cursors>>

(* A backend opens cursor c. *)
Declare(t, c) ==
    /\ c \notin open[t]
    /\ open' = [open EXCEPT ![t] = @ \cup {c}]
    /\ UNCHANGED <<cursors, executors>>

(* The table routes c to peer p, which holds it open; an earlier entry of  *)
(* the same name is replaced.                                               *)
Register(c, p) ==
    /\ c \in open[p]
    /\ cursors' = [cursors EXCEPT ![c] = p]
    /\ UNCHANGED <<open, executors>>

(* A backend closes cursor c and the name leaves the table. *)
Close(t, c) ==
    /\ c \in open[t]
    /\ open' = [open EXCEPT ![t] = @ \ {c}]
    /\ cursors' = [cursors EXCEPT ![c] = None]
    /\ UNCHANGED executors

(* A new connection: empty cache and table; the old backends are gone. *)
Reset ==
    /\ open' = [t \in Targets |-> {}]
    /\ cursors' = [c \in Cursors |-> None]
    /\ executors' = [p \in Peers |-> 0]

Next ==
    \/ \E p \in Peers : Cache(p)
    \/ \E t \in Targets, c \in Cursors : Declare(t, c) \/ Close(t, c)
    \/ \E c \in Cursors, p \in Peers : Register(c, p)
    \/ Reset

Spec == Init /\ [][Next]_vars

=============================================================================
