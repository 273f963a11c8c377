---------------------------- MODULE MCHttpsCheck ----------------------------
(* Small instances of HttpsCheck for TLC. *)
EXTENDS HttpsCheck

Gone == -30
=============================================================================
