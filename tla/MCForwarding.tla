---------------------------- MODULE MCForwarding ----------------------------
(* Instances of Forwarding for TLC: which option types a call may pass.    *)
EXTENDS Forwarding

(* Every type that is set, moved or borrowed in a way of its own.          *)
MCPassable == {"Url", "Parameters", "Body", "RetryPolicy", "SslCert"}
=============================================================================
