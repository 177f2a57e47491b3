---------------------------- MODULE AcceptorFrame ----------------------------
(***************************************************************************)
(* How a client reads the frame the accept loop of                         *)
(* src/nexus/server/src/main.rs writes when the catalog is down: the wire  *)
(* protocol's ErrorResponse decoder, applied to the bytes of ErrorFrame.   *)
(* Its recursive field scan keeps this module to TLC.                      *)
(***************************************************************************)
EXTENDS Acceptor

(* The protocol's ErrorResponse: "E", an Int32 length counting itself and *)
(* the body, then fields (a code byte and a NUL-terminated string) ended  *)
(* by a zero byte.  Decode yields the set of <<code, value>> fields, or   *)
(* Malformed when the length or the field list is not well formed.        *)
Malformed == "malformed"

(* The position of the first zero byte of b at or after k, 0 if none. *)
NulFrom(b, k) ==
    IF \E m \in k..Len(b) : b[m] = 0
    THEN CHOOSE m \in k..Len(b) : b[m] = 0 /\ \A l \in k..(m - 1) : b[l] # 0
    ELSE 0

RECURSIVE Fields(_)
Fields(body) ==
    IF body = <<>> THEN Malformed
    ELSE IF body[1] = 0 THEN {}
    ELSE LET z == NulFrom(body, 2)
             rest == IF z = 0 THEN Malformed ELSE Fields(SubSeq(body, z + 1, Len(body)))
         IN IF z = 0 \/ rest = Malformed THEN Malformed
            ELSE {<<body[1], SubSeq(body, 2, z - 1)>>} \cup rest

Decode(b) ==
    IF Len(b) < 5 \/ b[1] # ASCII["E"] THEN Malformed
    ELSE LET len == Int32At(b, 2)
         IN IF len < 4 \/ Len(b) < 1 + len THEN Malformed
            ELSE Fields(SubSeq(b, 6, 1 + len))

-----------------------------------------------------------------------------
(* Spec 6: a client refused for want of a catalog reads a fatal protocol  *)
(* error: the frame written to it decodes as an ErrorResponse with        *)
(* severity FATAL and a message field.                                    *)
FatalFrameDecodes ==
    \A c \in Clients : sent[c] # <<>> =>
        /\ Decode(sent[c]) # Malformed
        /\ <<ASCII["S"], FATAL>> \in Decode(sent[c])
        /\ \E f \in Decode(sent[c]) : f[1] = ASCII["M"]
=============================================================================
