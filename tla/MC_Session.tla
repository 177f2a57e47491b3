----------------------------- MODULE MC_Session -----------------------------
(* Model-checking instance of Session: two peers, one per supported       *)
(* config variant, two cursor names; the statement mix is chosen per run. *)
EXTENDS Session, TLC

CONSTANTS p1, p2, c1, c2, q1, q2

MCPeerConfig == (p1 :> "PostgresConfig") @@ (p2 :> "BigqueryConfig")

(* Everything a client can send except CloseAll. *)
MCStmtsNoCloseAll == {s \in Statement : s.type # "CloseAll"}

(* Everything, CloseAll included. *)
MCStmtsAll == Statement

(* Statements whose cursor declarations name a peer. *)
MCStmtsPeerDeclare ==
    {s \in MCStmtsNoCloseAll : s.type = "Declare" => s.assoc \in Peers}

(* Peer DDL and row-producing queries only. *)
MCStmtsSelect == {s \in Statement : s.type \in {"CreatePeer", "Select"}}

(* Statements that never name a peer: catalog queries and cursor events. *)
MCStmtsCatalogOnly ==
    {s \in MCStmtsNoCloseAll : s.type # "CreatePeer" /\ s.assoc \notin Peers}

(* Row-producing queries only, on a peer or on the catalog. *)
MCStmtsQuery == {s \in Statement : s.type = "Select"}

(* Catalog queries only. *)
MCStmtsCatalogQuery == {s \in MCStmtsQuery : s.assoc = Catalog}
=============================================================================
