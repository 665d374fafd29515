----------------------------- MODULE MCExecutor -----------------------------
(* One or two authorizations, one conversion, and a few nonces. *)
EXTENDS ExecutorProperties
=============================================================================
