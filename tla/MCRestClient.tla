---------------------------- MODULE MCRestClient -----------------------------
(* Small instances of RestClient. Its run checks liveness, so callers are not  *)
(* declared symmetric.                                                         *)
EXTENDS RestClient
=============================================================================
