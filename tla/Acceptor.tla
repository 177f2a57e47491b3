------------------------------- MODULE Acceptor -------------------------------
(***************************************************************************)
(* The accept loop of `main` in src/nexus/server/src/main.rs.  For each    *)
(* accepted socket it connects to the catalog; on success it spawns the    *)
(* connection's task with a fresh NexusBackend, on failure it writes an    *)
(* error frame, shuts the socket down and goes on.  Every `?` and unwrap   *)
(* in the loop returns from (or panics) `main`, which ends the process and *)
(* with it every connection task.  The environment is the clients, which   *)
(* may reset their socket at any time, and the faults it may produce.      *)
(* The frame is modelled byte by byte; AcceptorFrame reads it with the    *)
(* wire protocol's ErrorResponse decoder.  AcceptorProofs proves the      *)
(* safety of the loop.                                                      *)
(***************************************************************************)
EXTENDS Integers, Sequences

CONSTANTS
    Clients,   \* the clients that connect
    Faults     \* the faults the environment produces

(* accept_error: listener.accept() fails (EMFILE, ENFILE, ...);            *)
(* catalog_down: Catalog::new fails;  client_reset: a client closes its    *)
(* socket before the server has answered it.                               *)
FaultKinds == {"accept_error", "catalog_down", "client_reset"}

ASSUME AcceptorAssumption == Faults \subseteq FaultKinds

Status == {"connecting", "pending", "served", "refused", "killed"}

-----------------------------------------------------------------------------
(* Bytes, written as numbers. *)
ASCII == [c \in {"E", "F", "A", "T", "L", "S", "M", "a"} |->
            CASE c = "E" -> 69 [] c = "F" -> 70 [] c = "A" -> 65
              [] c = "T" -> 84 [] c = "L" -> 76 [] c = "S" -> 83
              [] c = "M" -> 77 [] OTHER -> 97]

Str(s) == [k \in 1..Len(s) |-> ASCII[s[k]]]

(* put_i32: four bytes, big-endian. *)
Int32(n) == <<(n \div 16777216) % 256, (n \div 65536) % 256,
              (n \div 256) % 256, n % 256>>

Int32At(b, k) == ((b[k] * 256 + b[k + 1]) * 256 + b[k + 2]) * 256 + b[k + 3]

FATAL == Str(<<"F", "A", "T", "A", "L">>)

(* format!("Failed to connect to catalog: {}", e): its first byte "F", and *)
(* "a" standing for the rest, which holds no NUL.                          *)
Message == Str(<<"F", "a">>)

(* The buffer built at the failure branch of the loop. *)
ErrorFrame ==
    Str(<<"E">>) \o Int32(0) \o FATAL \o <<0>> \o Message \o <<0>> \o <<0>>

-----------------------------------------------------------------------------
VARIABLES
    serving,   \* `main` is still running its loop
    apc,       \* where the loop is: "accept", "connect", "write", "shutdown"
    cur,       \* the client whose socket the loop holds
    status,    \* status[c]: where client c's connection is
    reset,     \* reset[c]: client c has closed its end of the socket
    sent       \* sent[c]: the bytes written to client c's socket

vars == <<serving, apc, cur, status, reset, sent>>

TypeOK ==
    /\ serving \in BOOLEAN
    /\ apc \in {"accept", "connect", "write", "shutdown"}
    /\ cur \in Clients
    /\ status \in [Clients -> Status]
    /\ reset \in [Clients -> BOOLEAN]
    /\ sent \in [Clients -> Seq(0..255)]

Init ==
    /\ serving = TRUE
    /\ apc = "accept"
    /\ cur \in Clients
    /\ status = [c \in Clients |-> "connecting"]
    /\ reset = [c \in Clients |-> FALSE]
    /\ sent = [c \in Clients |-> <<>>]

(* `main` returns an error or panics: the runtime shuts down and every    *)
(* connection task is dropped.                                             *)
Exit ==
    /\ serving' = FALSE
    /\ status' = [c \in Clients |->
                    IF status[c] \in {"served", "pending"} THEN "killed" ELSE status[c]]
    /\ UNCHANGED <<apc, cur, reset, sent>>

(* `listener.accept().await.unwrap()`: a connecting client is accepted,   *)
(* or the call fails and the unwrap panics.                                *)
Accept ==
    /\ serving
    /\ apc = "accept"
    /\ \/ \E c \in Clients :
              /\ status[c] = "connecting"
              /\ status' = [status EXCEPT ![c] = "pending"]
              /\ cur' = c
              /\ apc' = "connect"
              /\ UNCHANGED <<serving, reset, sent>>
       \/ /\ "accept_error" \in Faults
          /\ Exit

(* Mutant: the connection task is never spawned; the loop goes on.  *)
ConnectNoSpawn ==
    /\ serving
    /\ apc = "connect"
    /\ \/ apc' = "accept"
       \/ /\ "catalog_down" \in Faults
          /\ apc' = "write"
    /\ UNCHANGED <<serving, cur, status, reset, sent>>

(* `Catalog::new(&catalog_config).await`: on success the task is spawned  *)
(* with a fresh NexusBackend; on failure the loop builds the error frame. *)
Connect ==
    /\ serving
    /\ apc = "connect"
    /\ \/ /\ status' = [status EXCEPT ![cur] = "served"]
          /\ apc' = "accept"
       \/ /\ "catalog_down" \in Faults
          /\ apc' = "write"
          /\ UNCHANGED status
    /\ UNCHANGED <<serving, cur, reset, sent>>

(* Mutant: the failure branch drops the socket without writing a frame. *)
WriteFrameDropped ==
    /\ serving
    /\ apc = "write"
    /\ status' = [status EXCEPT ![cur] = "refused"]
    /\ apc' = "accept"
    /\ UNCHANGED <<serving, cur, reset, sent>>

(* `socket.write_all(&buf).await?`: the frame reaches a client that is    *)
(* still there; once the client has reset the socket the write may still  *)
(* land in the kernel's buffer, or fail and return from `main`.           *)
WriteFrame ==
    /\ serving
    /\ apc = "write"
    /\ \/ /\ sent' = [sent EXCEPT ![cur] = ErrorFrame]
          /\ apc' = "shutdown"
          /\ UNCHANGED <<serving, status>>
       \/ /\ reset[cur]
          /\ Exit
          /\ UNCHANGED sent
    /\ UNCHANGED <<cur, reset>>

(* `socket.shutdown().await?` then `continue`; shutting down a socket the *)
(* client has reset may fail and return from `main`.                      *)
Shutdown ==
    /\ serving
    /\ apc = "shutdown"
    /\ \/ /\ status' = [status EXCEPT ![cur] = "refused"]
          /\ apc' = "accept"
          /\ UNCHANGED serving
       \/ /\ reset[cur]
          /\ Exit
          /\ UNCHANGED apc
    /\ UNCHANGED <<cur, reset, sent>>

(* A client whose connection is not yet answered closes its socket. *)
ClientReset(c) ==
    /\ "client_reset" \in Faults
    /\ status[c] = "pending"
    /\ ~reset[c]
    /\ reset' = [reset EXCEPT ![c] = TRUE]
    /\ UNCHANGED <<serving, apc, cur, status, sent>>

(* A client whose connection was served or refused goes away, and may    *)
(* connect again on a new socket.                                          *)
ClientLeave(c) ==
    /\ status[c] \in {"served", "refused"}
    /\ status' = [status EXCEPT ![c] = "connecting"]
    /\ reset' = [reset EXCEPT ![c] = FALSE]
    /\ sent' = [sent EXCEPT ![c] = <<>>]
    /\ UNCHANGED <<serving, apc, cur>>

Next ==
    \/ Accept
    \/ Connect
    \/ WriteFrame
    \/ Shutdown
    \/ \E c \in Clients : ClientReset(c)
    \/ \E c \in Clients : ClientLeave(c)

(* The loop's steps are taken whenever they are enabled: `main` runs on   *)
(* the runtime and its awaits complete once the socket or the catalog     *)
(* answers.                                                                *)
Fairness == WF_vars(Accept) /\ WF_vars(Connect) /\ WF_vars(WriteFrame) /\ WF_vars(Shutdown)

Spec == Init /\ [][Next]_vars /\ Fairness

-----------------------------------------------------------------------------
(* Spec 5: a catalog failure at accept time does not crash the acceptor,  *)
(* which keeps serving new connections, and the connections already       *)
(* served keep running.                                                    *)
AcceptorSurvives == serving

(* The error frame built in the catalog-failure branch reaches exactly    *)
(* the clients the loop refuses: a refused client was written the whole   *)
(* frame before its socket was shut down, and a client whose connection   *)
(* task was spawned never had error bytes written ahead of its protocol   *)
(* stream, through any order of accepts, resets and reconnects.           *)
ErrorFrameOnlyToRefused ==
    \A c \in Clients :
        /\ status[c] = "refused" => sent[c] = ErrorFrame
        /\ status[c] = "served" => sent[c] = <<>>

(* Every client the loop accepts is answered: its connection task is      *)
(* spawned, or its socket is closed after the error frame was written to  *)
(* it, unless `main` has ended first.                                      *)
EveryClientAnswered ==
    \A c \in Clients :
        status[c] = "pending"
            ~> \/ status[c] \in {"served", "killed"}
               \/ status[c] = "refused" /\ sent[c] = ErrorFrame

=============================================================================
