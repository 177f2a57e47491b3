---------------------------- MODULE AcceptorProofs ----------------------------
(***************************************************************************)
(* Proofs about the accept loop of `main`, for any set of clients and any *)
(* set of faults: its state stays well typed, and the error frame reaches *)
(* exactly the clients the loop refuses.                                   *)
(***************************************************************************)
EXTENDS Acceptor, SequenceTheorems, TLAPS

(* The loop holds one socket at a time.  While `main` runs and the loop is *)
(* past accept, the client it holds is pending; its socket has nothing     *)
(* written to it until write_all, and the whole frame once the loop is at  *)
(* shutdown.  No other client is pending, and a client that is connecting *)
(* again starts from a fresh socket.                                        *)
AcceptorInv ==
    /\ TypeOK
    /\ \A c \in Clients : status[c] \in {"connecting", "served"} => sent[c] = <<>>
    /\ \A c \in Clients : status[c] = "refused" => sent[c] = ErrorFrame
    /\ \A c \in Clients : status[c] = "pending" => serving /\ c = cur /\ apc # "accept"
    /\ serving /\ apc # "accept" => status[cur] = "pending"
    /\ serving /\ apc \in {"connect", "write"} => sent[cur] = <<>>
    /\ serving /\ apc = "shutdown" => sent[cur] = ErrorFrame

(* The frame the failure branch builds is a sequence of bytes. *)
LEMMA ErrorFrameBytes == ErrorFrame \in Seq(0..255)
<1>1. Str(<<"E">>) = <<69>>
  BY DEF Str, ASCII
<1>2. FATAL = <<70, 65, 84, 65, 76>>
  BY DEF FATAL, Str, ASCII
<1>3. Message = <<70, 97>>
  BY DEF Message, Str, ASCII
<1>4. Int32(0) = <<0, 0, 0, 0>>
  BY DEF Int32
<1>5. \A s1, s2 \in Seq(0..255) : s1 \o s2 \in Seq(0..255)
  BY ConcatProperties
<1>6. /\ <<69>> \in Seq(0..255)
      /\ <<0, 0, 0, 0>> \in Seq(0..255)
      /\ <<70, 65, 84, 65, 76>> \in Seq(0..255)
      /\ <<70, 97>> \in Seq(0..255)
      /\ <<0>> \in Seq(0..255)
  OBVIOUS
<1> DEFINE B == Seq(0..255)
           f1 == <<69>> \o <<0, 0, 0, 0>>
           f2 == f1 \o <<70, 65, 84, 65, 76>>
           f3 == f2 \o <<0>>
           f4 == f3 \o <<70, 97>>
           f5 == f4 \o <<0>>
<1>7. ErrorFrame = f5 \o <<0>>
  BY <1>1, <1>2, <1>3, <1>4, Zenon DEF ErrorFrame
<1>8. f1 \in B
  BY <1>5, <1>6 DEF f1, B
<1>9. f2 \in B
  BY <1>5, <1>6, <1>8 DEF f2, B
<1>10. f3 \in B
  BY <1>5, <1>6, <1>9 DEF f3, B
<1>11. f4 \in B
  BY <1>5, <1>6, <1>10 DEF f4, B
<1>12. f5 \in B
  BY <1>5, <1>6, <1>11 DEF f5, B
<1>13. QED
  BY <1>5, <1>6, <1>7, <1>12 DEF B

LEMMA InitAcceptorInv == Init => AcceptorInv
BY DEF Init, AcceptorInv, TypeOK, Status

(* `main` ending keeps the invariant: it no longer serves, and the tasks  *)
(* it had spawned, and the client it held, are killed.                      *)
LEMMA ExitKeepsInv ==
    ASSUME AcceptorInv, Exit PROVE AcceptorInv'
<1> USE DEF AcceptorInv, TypeOK, Status
<1>1. serving' = FALSE /\ UNCHANGED <<apc, cur, reset, sent>>
  BY DEF Exit
<1>2. \A c \in Clients : status'[c] = IF status[c] \in {"served", "pending"}
                                      THEN "killed" ELSE status[c]
  BY DEF Exit
<1>3. TypeOK'
  BY <1>1, <1>2 DEF Exit
<1>4. \A c \in Clients : status'[c] \notin {"served", "pending"}
  BY <1>2
<1>5. \A c \in Clients : status'[c] \in {"connecting", "refused"} => status'[c] = status[c]
  BY <1>2
<1>6. QED
  BY <1>1, <1>3, <1>4, <1>5

(* Each step of the loop and of the clients keeps the invariant. *)
LEMMA NextAcceptorInv == AcceptorInv /\ [Next]_vars => AcceptorInv'
<1> SUFFICES ASSUME AcceptorInv, [Next]_vars PROVE AcceptorInv'
  OBVIOUS
<1> USE ErrorFrameBytes DEF AcceptorInv, TypeOK, Status
<1>1. CASE Accept
  <2>1. CASE \E c \in Clients : /\ status[c] = "connecting"
                                /\ status' = [status EXCEPT ![c] = "pending"]
                                /\ cur' = c
                                /\ apc' = "connect"
                                /\ UNCHANGED <<serving, reset, sent>>
    BY <1>1, <2>1 DEF Accept
  <2>2. CASE "accept_error" \in Faults /\ Exit
    BY <2>2, ExitKeepsInv
  <2>3. QED
    BY <1>1, <2>1, <2>2 DEF Accept
<1>2. CASE Connect
  BY <1>2 DEF Connect
<1>3. CASE WriteFrame
  <2>1. CASE sent' = [sent EXCEPT ![cur] = ErrorFrame] /\ apc' = "shutdown"
             /\ UNCHANGED <<serving, status, cur, reset>>
    <3>1. serving /\ apc = "write" /\ status[cur] = "pending"
      BY <1>3 DEF WriteFrame
    <3>2. TypeOK'
      BY <2>1
    <3>3. \A c \in Clients : status'[c] # "pending" => sent'[c] = sent[c]
      BY <2>1, <3>1
    <3>4. \A c \in Clients : status'[c] \in {"connecting", "served"} => sent'[c] = <<>>
      BY <2>1, <3>3
    <3>5. \A c \in Clients : status'[c] = "refused" => sent'[c] = ErrorFrame
      BY <2>1, <3>3
    <3>6. QED
      BY <2>1, <3>1, <3>2, <3>4, <3>5
  <2>2. CASE reset[cur] /\ Exit /\ UNCHANGED sent
    BY <2>2, ExitKeepsInv
  <2>3. QED
    BY <1>3, <2>1, <2>2 DEF WriteFrame
<1>4. CASE Shutdown
  <2>1. CASE status' = [status EXCEPT ![cur] = "refused"] /\ apc' = "accept"
             /\ UNCHANGED <<serving, cur, reset, sent>>
    <3>1. serving /\ apc = "shutdown" /\ status[cur] = "pending" /\ sent[cur] = ErrorFrame
      BY <1>4 DEF Shutdown
    <3>2. TypeOK'
      BY <2>1
    <3>3. \A c \in Clients : status'[c] = "pending" => FALSE
      BY <2>1, <3>1
    <3>4. \A c \in Clients : status'[c] \in {"connecting", "served"} => sent'[c] = <<>>
      BY <2>1, <3>1
    <3>5. \A c \in Clients : status'[c] = "refused" => sent'[c] = ErrorFrame
      BY <2>1, <3>1
    <3>6. QED
      BY <2>1, <3>1, <3>2, <3>3, <3>4, <3>5
  <2>2. CASE reset[cur] /\ Exit /\ UNCHANGED apc
    BY <2>2, ExitKeepsInv
  <2>3. QED
    BY <1>4, <2>1, <2>2 DEF Shutdown
<1>5. ASSUME NEW c \in Clients, ClientReset(c) PROVE AcceptorInv'
  BY <1>5 DEF ClientReset
<1>6. ASSUME NEW c \in Clients, ClientLeave(c) PROVE AcceptorInv'
  BY <1>6 DEF ClientLeave
<1>7. CASE UNCHANGED vars
  BY <1>7 DEF vars
<1>8. QED
  BY <1>1, <1>2, <1>3, <1>4, <1>5, <1>6, <1>7 DEF Next

(* Every state the loop reaches is well typed, for any clients and faults. *)
THEOREM AcceptorTypeCorrect == Spec => []TypeOK
<1>1. AcceptorInv => TypeOK
  BY DEF AcceptorInv
<1>2. QED
  BY InitAcceptorInv, NextAcceptorInv, <1>1, PTL DEF Spec

(* Whatever the clients and faults, only a refused client is written the  *)
(* error frame, always the whole of it, and a client whose connection     *)
(* task the loop spawned never receives error bytes.                       *)
THEOREM FrameOnlyToRefused == Spec => []ErrorFrameOnlyToRefused
<1>1. AcceptorInv => ErrorFrameOnlyToRefused
  BY DEF AcceptorInv, ErrorFrameOnlyToRefused
<1>2. QED
  BY InitAcceptorInv, NextAcceptorInv, <1>1, PTL DEF Spec
=============================================================================
