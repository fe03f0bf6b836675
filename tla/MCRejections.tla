---------------------------- MODULE MCRejections ----------------------------
(* A small instance of Rejections for TLC. *)
EXTENDS Rejections

CONSTANTS r1, r2, r3, noToken, invalidToken
=============================================================================
