----------------------------- MODULE MCRequest -----------------------------
(***************************************************************************)
(* Instances of Request for TLC.                                           *)
(***************************************************************************)
EXTENDS Request
MCAllClients == {"patient", "pipelining", "pushing"}
MCAllKinds == {"get", "bye", "range", "long", "post", "nolen", "huge"}
============================================================================
