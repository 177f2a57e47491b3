# Formal model of the nexus server

This directory holds TLA+ models of `src/nexus/server/src/main.rs`, the
wire-protocol gateway that routes SQL to external peers. The models are
checked with TLC and proved with TLAPS.

## 1. Inventory

### Components and their state

| Component | Code | State | Operations |
|---|---|---|---|
| Statement Dispatcher | `handle_query`, `execute_statement` (81–199) | none of its own; reads and writes the others | CreatePeer DDL, PeerQuery (peer or catalog association), PeerCursor (Fetch / Close / CloseAll) |
| Executor Cache | `NexusBackend.executors` (DashMap), `get_peer_executor` (201–226) | peer name → shared executor | lookup; construct per config variant (BigQuery, Postgres, anything else panics); insert |
| Cursor Table | `peer_cursors: Arc<Mutex<PeerCursors>>` (`cursor.rs`, not in `src/`) | cursor name → owning peer | `add_cursor`, `remove_cursor`, `get_peer` |
| Catalog handle | `catalog: Arc<Mutex<Catalog>>` | a connection to the catalog DB, whose peer table is persisted and shared by every connection | `create_peer`, `get_executor` |
| Extended Protocol Adapter | `ExtendedQueryHandler` (278–381), `parameter_to_string` (241–276) | prepared statements live in pgwire's portal store | execute with textual `$n` substitution, describe |
| Connection Acceptor | `main` (506–570), `MakeNexusBackend` (383–401) | the listener | accept, connect to the catalog (or write a fatal frame), spawn a task with a fresh `NexusBackend` |
| Auth, server parameters, CLI, tracing | 40–58, 403–504 | constants | none that change state |

### How they interact

A connection's task (spawned at 557) runs pgwire's `process_socket`, which
calls `do_query` (simple flow) or the extended handler for each client message,
**one message at a time**. `handle_query` resolves an executor (through the
executor cache, the catalog lock, or the cursor table and then the cache) and
runs the statement; a `CursorModification` result updates the cursor table
under its lock. The cursor table guard is held across the catalog lock
acquisition and across executor construction (177–194). The catalog guard is
held across `create_peer`'s await (144–151).

### What is hard

* Each `.await` is a suspension point. The handler takes `&self` and the
  state is behind `Arc<Mutex>`/`DashMap`, so spec §5 expects requests of one
  connection to run concurrently. Then cache check-then-insert (202–224) and
  cursor lookup-then-update (178–196, 105–121) are not atomic. The current
  pgwire loop serves requests one by one, so these races are latent today.
* Failure paths: `unwrap()` on construction (208, 213–215), `panic!` for
  other config variants (219) and describe (363), `todo!()` for CLOSE ALL
  (181), and `peer_holder.unwrap()` (108) all end the connection's task. The
  client loses its cursor table and executor cache.
* Cursor lifecycle over long statement sequences: re-declaring a name,
  closing, falling back to the catalog for unknown names.
* Extended flow: `replace("$1", …)` also hits `$10`…`$19` and text inserted
  by earlier substitutions. String values are not escaped.
* Acceptor: a failed `write_all(..)?` on the error path (548) returns from
  `main`, and the error frame it writes (538–546) has length 0 and no field
  codes.

### Properties that make each component correct

* Executor cache: within a connection, every resolution of a peer returns
  the same executor. A failed construction is not memoised and does not end
  the connection.
* Cursor table: every name it routes is open on the peer it names
  (soundness). Every cursor open on a backend is reachable through the table
  (no orphans).
* Dispatcher: a failing request affects only itself (spec §7), and CLOSE ALL
  closes every tracked cursor.
* Adapter: extended execute with bound values equals the simple query with
  the literals written in. Describe has no side effect.
* Acceptor: a catalog failure yields a decodable fatal frame, and the
  acceptor keeps serving.

## 2. Plan

1. **Session** (done): the dispatcher, executor cache, cursor table and
   catalog lock of one connection. `Procs` request slots model concurrency;
   `Procs = {q}` is pgwire's sequential loop. The environment is the catalog's
   peer set and the cursors each backend holds open. A panic ends the
   connection, and `NewSession` is the acceptor giving the client a fresh
   backend.
2. **SessionProofs** (done): type correctness, plus cursor-table soundness
   and executor uniqueness for one request slot. Next: the action property
   that a failing request leaves the cursor table and cache as they were.
3. **Describe** (done): actions of Session, with the panic path.
4. **ParamSubst** (done): `parameter_to_string` and the substitution loop,
   checked against a reference one-pass substitution.
5. **Acceptor** (done): the accept loop with its faults, and the error
   frame's bytes against the protocol's decoder.
6. **SessionAbstract** (done): the atomic cursor table and executor cache
   that spec §3–4 describe. Session with one slot refines it
   (`SessionRefinement`). The lock discipline is proved for any number of
   slots (`SessionLockProofs`).
7. Liveness of Session: every request completes, under fairness of the
   request slots and of peers answering. There is no timeout, so the code
   cannot justify the second fairness. Liveness of the acceptor is checked
   (`EveryClientAnswered`).

## 3. Modules and correspondence

### `Session.tla`

State (`VARIABLES`):

| Variable | Code |
|---|---|
| `executors`, `builds` | the DashMap; `executors[p]` is the number of the construction whose `Arc` is cached (0 = none) |
| `cursors` | `PeerCursors` |
| `catLock`, `curLock` | holders of the two tokio mutexes |
| `pc`, `stmt`, `holder`, `target`, `exec` | a request's position in `handle_query` and its locals (`peer_holder`, the peer being resolved, the executor handle) |
| `catalogPeers` | the catalog's persisted peer set (environment) |
| `open` | server-side cursors open on each backend (environment) |
| `resolved` | history: every executor handle `get_peer_executor` returned in this connection |
| `alive` | FALSE after the task panicked |

Actions, each ending at a suspending await:

| Action | Code |
|---|---|
| `DoQuery` | parse and branch |
| `CreatePeerLock` / `CreatePeer` | 144 / 145–155 |
| `GetPeerExecutor` | cache lookup, 202–204 |
| `NewExecutor` | construct + insert or panic, 206–225 |
| `GetCatalogExecutor` | 166–170, 185–188 |
| `CursorLookup` | 177–183, CloseAll panics |
| `ExecuteStatement` | 87–103; backend outcome: rows, Created, Closed or error |
| `AddCursor` | 105–113 |
| `RemoveCursor` | 114–122 |
| `DoDescribe` | `do_describe` 320–347: DDL and cursor statements answer no_data with no step of their own |
| `DescribePeer` | 348–365: BigQuery builds an executor that is not cached and describes; any other peer panics |
| `DescribeCatalogLock` / `DescribeCatalog` | 367–377: describe under the catalog lock |
| `NewSession` | 531–569 with `NexusBackend::new` |

Data is abstracted: a statement is its kind, its association and its cursor
name. Row contents and response wording are not modelled, because no
property distinguishes them.

Modelling choices:

* The backend's behaviour is taken as Postgres's: DECLARE of an open name
  and FETCH/CLOSE of an unknown name fail. Any call may also fail.
* A failure of `create_peer` or of `execute` is an error response with no
  state change, which is what the `?` does.
* `cursor.rs` is not in `src/`. `add_cursor` is taken as a map insert that
  overwrites, per spec §3.

### Runs (`MC_Session.tla` + cfg)

| Run | Expect | What it shows |
|---|---|---|
| `session_sequential` (`MC_Session_seq.cfg`) | pass | With one request at a time, `ResolvedConsistent` and `CursorTableSound` hold across every statement sequence, panic and reconnect, with describes of every statement interleaved. `ImplementsAbstract` checks that the connection implements `SessionAbstract` (below). 10,625 states. |
| `session_concurrent` (`MC_Session_conc.cfg`) | pass | `TypeOK` is checked in `session_sequential` and proved for any `Procs`, so this run does not repeat it. With two slots, the nested cursor→catalog locking never deadlocks (TLC's deadlock check), including catalog describes that take the catalog lock. `LockDiscipline` states why: each mutex is held only at the steps that hold it in the code, and the catalog holder waits on no lock. `RouteFreshUnderLock`: while a Fetch or Close holds the cursor guard, the table still routes its cursor where `get_peer` found it. 366k states. |
| `redeclare_orphans_cursor` | violation | `CursorReachable`: DECLARE c on p1, then DECLARE c on p2, leaves p1's c open and unreachable. |
| `concurrent_duplicate_executor` | violation | `ResolvedConsistent`: two misses both construct. |
| `concurrent_stale_cursor_route` | violation | `CursorTableSound`. The trace: q2 looks up c→p1; q1 closes c and re-declares it on p1; q2's stale Close closes the new cursor; q1 registers c→p1, which is no longer open. |
| `abort_on_construct_failure` | violation | `NoSessionAbort` (spec §7) is broken by a construction unwrap. TLC's trace fails the Postgres unwrap at 215; the BigQuery one at 208 is the same. This run's statements are CreatePeer and Select only, with no describes, so it reaches no other panic. The `todo!` at 181 (CLOSE ALL), the unwrap at 108 (DECLARE through the catalog) and the `panic!` at 363 (describe on a Postgres peer) are reachable in `session_sequential`, which does not check `NoSessionAbort`. |

`NoSessionAbort` is an action property: no step of a live connection
ends it.

Bounds: two peers (one Postgres, one BigQuery) and two cursor names (one in
the concurrent runs), with the client able to send every statement kind. Two
peers are enough for a cursor to move between peers and for two executors to
coexist. Two names are enough for the table to hold one entry while another
changes. Two slots are the smallest number for any race. Executor ids are
bounded by the slots: the cache is never cleared within a connection, so
each peer is built at most once per slot.

### `SessionAbstract.tla`: what the shared state promises

This is the abstract specification of the executor cache and the cursor
table, written from spec §3–4. Every change in it is atomic:

* `Cache(p)` fills an empty cache entry.
* `Declare(t, c)` and `Close(t, c)` open and close a cursor on a backend.
  Close also takes the name out of the table.
* `Register(c, p)` routes a name to a peer that holds it open.
* `Reset` starts a new connection.

`Session.tla` maps onto it through `Abs == INSTANCE SessionAbstract WITH
cursors <- AbsCursors`:

* `open` and `executors` map to themselves.
* `AbsCursors` maps the table to itself, except that a name whose Close
  has run and is waiting for `remove_cursor` maps to `None`.

So `ExecuteStatement`'s Declare and Close are the abstract Declare and
Close. `AddCursor` is Register, a successful `NewExecutor` is Cache,
reconnecting is Reset, and every other step is a stutter.
`ImplementsAbstract == Abs!Spec` is checked in `session_sequential`.

### `ParamSubst.tla` (TLC only)

A text is a sequence of tokens: `$`, the digits, a quote, `x` for any other
character, and the words Rust's `to_string` writes (`true`, `NaN`, `inf`,
...). A bound value is a typed record. `portal.parameter::<T>` decodes a
value when its kind is T's kind or NULL.

| Definition | Code |
|---|---|
| `ParameterToString` | `parameter_to_string` 241–276, every arm, NULL and the 22023 error |
| `ValueToString`, `Decimal` | `to_string` of bool, integers and floats |
| `Placeholder`, `StrReplace` | `format!("${}", i + 1)` and `str::replace` (left to right, non-overlapping, no rescan of the replacement within one call) |
| `Init`, `SubstituteParam`, `RejectParam`, `Finish` | `do_query` 301–312: the loop, its `?`, and the hand-off to `parse_simple_sql` |

The reference is `Substituted(q, ps, Render)`. In one pass it replaces each
`$` and its whole run of digits with the rendering of the parameter that run
numbers. `SqlLiteral` is the rendering spec §4.4 and §8 ask for: quotes
doubled, NULL as `NULL`, and special floats quoted.

| Run | Expect | What it shows |
|---|---|---|
| `param_subst_sound` (`MC_ParamSubst.cfg`) | pass | `SubstitutionSound`: the loop equals a one-pass substitution of the code's own renderings when every `$` opens a one-digit placeholder and no rendering contains `$`. An unsupported type or an undecodable value fails the request. Queries up to 4 tokens, lists of up to 2 of 8 values that cover every arm: 80k states. |
| `subst_placeholder_prefix` | violation | `ExtendedMatchesSimple`: with ten parameters, replacing `$1` takes the prefix of a two-digit placeholder. TLC's trace turns `$11` into the first value, 2, followed by `1` (`21`); `$10` becomes `20` the same way. |
| `subst_unescaped_quote` | violation | `ExtendedMatchesSimple`: a value `x'` is inserted as `'x''`. |

Two more divergences are reached by changing only the constants, and are
listed as hazards rather than runs:
* A text value `$2` bound to `$1` is rewritten again by the second
  iteration. `$$1` with value 2 forms a new `$2`.
* A NULL renders as `''` or as nothing, never as `NULL`.

### `Acceptor.tla` and `AcceptorFrame.tla`

| Definition | Code |
|---|---|
| `Accept` | 532: accept a connecting client, or the unwrap panics (`accept_error`) |
| `Connect` | 533–536: spawn the connection (status `served`), or the catalog is down |
| `ErrorFrame`, `Int32`, `Str` | 538–546, byte by byte |
| `WriteFrame`, `Shutdown` | 548–550: each `?` returns from `main` when the client has reset its socket |
| `Exit` | `main` ending: every served or pending connection is dropped with the runtime |
| `ClientReset`, `ClientLeave` | the environment: a client closes its socket early, or leaves and reconnects |

`AcceptorFrame.tla` extends `Acceptor` with `Decode`, the protocol's
ErrorResponse reader: `E`, an Int32 length that counts itself, then
code-tagged NUL-terminated fields. `FatalFrameDecodes` lives there too.
The decoder is a module of its own because its field scan is RECURSIVE.
That keeps it to TLC, while `Acceptor` itself stays open to the prover
(`AcceptorProofs`). `Faults` selects which
faults the environment may produce.

Fairness: weak fairness of each step of the loop. `main` is a single task
on the runtime, and each await completes once its socket or the catalog
answers. A failed catalog connection or a reset socket completes the await
with an error. The clients' steps have no fairness. This is an
assumption about the environment, not something the code guarantees:
`Catalog::new` and the socket calls have no timeout, so a catalog that
never answers would stall the loop forever. `EveryClientAnswered` holds
only under that assumption. It also counts a connection killed by `main`
ending as answered, so the exit at 548 is caught by `AcceptorSurvives`,
not by this property.

| Run | Expect | What it shows |
|---|---|---|
| `acceptor_answers` | pass | Under every fault, two properties hold. `EveryClientAnswered`: an accepted client is eventually served, or refused after the error frame was written to it, unless `main` has ended. `ErrorFrameOnlyToRefused`: the frame reaches every refused client whole, and never a client whose task was spawned. `CHECK_DEADLOCK FALSE`, because after `main` ends nothing can happen. Two clients, 180 states. |
| `acceptor_exit_on_reset` | violation | `AcceptorSurvives`: the catalog is down and the client resets, so `write_all(..)?` ends `main`, and with it every other connection. |
| `fatal_frame_malformed` | violation | `FatalFrameDecodes`: the length field is 0 and the strings carry no `S`/`M` codes. |

With `accept_error` in `Faults`, `AcceptorSurvives` also fails at once
through the unwrap at 532; this is listed as a hazard. The failure of
`spawn(..)?` at 568 is not modelled.

## 4. Proofs (`SessionProofs`, `SessionRefinement`, `SessionLockProofs`, `AcceptorProofs`)

All proofs hold for every value of the constants that satisfies
`ConstantsAssumption`: any peers, config variants, cursor names and
client statement sets.

* **`TypeCorrect: Spec => []TypeOK`** (any `Procs`).
  * `TypeOK` includes `LocalsOK`: at each label, a request's statement,
    target peer and executor are defined.
  * Without `LocalsOK`, the type invariant is not inductive: field
    accesses like `stmt[q].cursor` and `builds[target[q]] + 1` need those
    locals typed.
  * The proof has one step per action (lemmas `ProcTypeOK`,
    `NextTypeOK`). `NewExecutor` is split into its panic and success
    branches, and `CursorLookup` into CloseAll and the rest.
* **`SequentialCursorTableSound`** and **`SequentialResolvedConsistent`**
  prove `[]CursorTableSound` and `[]ResolvedConsistent` under the
  hypothesis `Procs = {q0}`, which is how pgwire serves a connection
  today.
  * With two slots, both properties fail (runs
    `concurrent_stale_cursor_route` and `concurrent_duplicate_executor`),
    so the hypothesis is necessary.
  * Neither property is inductive alone. Both rest on
    `SeqInv(q0) == TypeOK /\ CursorTableSound /\ SlotInv(q0)`, which TLC
    checked on the `session_sequential` instance before the proof. Its
    parts:
    * The executor a peer query runs on belongs to its `peer_holder`.
    * A cursor awaiting `add_cursor` is open on that executor's backend.
      This is what makes the table write in `AddCursor` sound.
    * A slot at `construct` saw an empty cache entry, and nothing has
      filled it since. This is what makes the insert in `NewExecutor`
      never overwrite.
    * Every handle in `resolved` is the one cached now.
  * Lemmas: `InitSeqInv`, `ProcSeqInv` (one step per action, one sub-step
    per conjunct it can disturb) and `NextSeqInv` (adds reconnect and
    stuttering).

* **`LocksDisciplined: Spec => []LockDiscipline`** (`SessionLockProofs`,
  any `Procs`). It proves that the catalog holder is at the catalog write
  or describe, and that the cursor holder is resolving, constructing or
  reaching the catalog executor.
  * It also proves that every Fetch/Close request at those steps holds the
    cursor mutex.
  * Neither step taken while holding the catalog lock waits on another
    lock, so no cycle of waits exists, for any number of concurrent
    requests. The code takes the two locks in one order only, cursor then
    catalog at 178–186, so no deadlock is listed as a hazard. The theorem
    states what keeps it that way.
  * `LockDiscipline` is inductive with `TypeOK`. The proof has one step per
    action. Taking a lock uses that it was free, so no slot was at a
    holding step before. That step needs `None \notin Procs`, which is part
    of `ConstantsAssumption`.
* **`RoutesFresh: Spec => []RouteFreshUnderLock`** (`SessionLockProofs`,
  any `Procs`).
  * The inductive invariant is `TypeOK /\ LockDiscipline /\
    RouteFreshUnderLock`. `LockDiscipline` is what makes it inductive.
  * `add_cursor` and `remove_cursor` wait for a free guard (`curLock =
    None`). By `LockDiscipline`, no Fetch or Close is then between
    `get_peer` and its executor, so a table write never changes a route in
    use.
  * `CursorLookup` sets the route it read. The steps that follow only move
    the request on.
  * The lemma `QuietRoute` covers every step that leaves the table,
    statements and targets alone and moves to an unguarded label.
  * The stale route of `concurrent_stale_cursor_route` is therefore born
    after the guard drops, between resolution and execute, and nowhere
    else.
* **`SequentialRefinement: Spec => ImplementsAbstract`** (`SessionRefinement`,
  hypothesis `Procs = {q0}`).
  * Its argument: `Init` maps to `Abs!Init`, and every step, with `SeqInv`
    before and after it, maps to an abstract step or a stutter
    (`ProcRefines`, `NextRefines`).
  * `SlotInv`'s "the entry was empty at construct" makes a `NewExecutor`
    an abstract `Cache`.
  * "A cursor awaiting add_cursor is open" makes `AddCursor` a `Register`.
  * The cursor mapped to `None` while its removal is pending is what makes
    `RemoveCursor` a stutter. `QuietStep` and `AbsCursorsQuiet` are the
    lemmas for steps that touch none of the abstract state.
  * With two slots the refinement fails (the duplicate executor of
    `concurrent_duplicate_executor` replaces a cached entry), so the
    hypothesis is needed.

* **`FrameOnlyToRefused: Spec => []ErrorFrameOnlyToRefused`** and
  **`AcceptorTypeCorrect: Spec => []TypeOK`** (`AcceptorProofs`, any
  clients and faults).
  * The strengthening `AcceptorInv` says the loop holds one socket at a
    time. While `main` runs past accept, the held client is pending, and
    no other client is.
  * Its socket is empty until the write and holds the whole frame at
    shutdown.
  * A client connecting again has an empty socket. This is what lets
    `Accept` take any connecting client without a stale frame.
  * `ExitKeepsInv` covers `main` ending from any of its three exits.
    `ErrorFrameBytes` shows the frame is a byte sequence.
  * TLC checked `AcceptorInv` on the two-client, all-faults instance
    before the proof.

The following stays with TLC, out of the prover's reach:

* liveness and ENABLED;
* the races of the concurrent violation runs, which are counterexamples and not theorems;
* ParamSubst and AcceptorFrame, whose RECURSIVE operators keep them out
  of the prover. `SubstitutionSound` is also a statement about what a recursive
  scan computes for every input, which is induction over data, and the
  installed provers cannot instantiate the library's induction theorems;
* liveness of the acceptor (`EveryClientAnswered`).

## 5. Not modelled

Authentication, server parameters, CLI parsing and tracing are constant
configuration. The start-up catalog migration (520–529) runs once before
the loop. The analyzer, the peer executors, the catalog's storage and
pgwire are external crates; they enter only as environment choices in
Session.
