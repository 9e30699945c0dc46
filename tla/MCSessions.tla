----------------------------- MODULE MCSessions -----------------------------
(***************************************************************************)
(* Two clients and a server with two databases.                            *)
(***************************************************************************)
EXTENDS Sessions

=============================================================================
