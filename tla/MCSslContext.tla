----------------------------- MODULE MCSslContext -----------------------------
(* A small instance of SslContext for TLC.                                 *)
EXTENDS SslContext

MCFirst ==
  [t \in {"root", "bundle", "garbage"} |->
     CASE t = "root"    -> "Root"
       [] t = "bundle"  -> "Intermediate"
       [] t = "garbage" -> None]
=============================================================================
