----------------------------- MODULE MCFastCGI -----------------------------
(* Two locations with one connection each; the first keeps it alive.       *)
EXTENDS FastCGI

MCSlotLoc   == <<1, 2>>
MCKeepAlive == <<TRUE, FALSE>>

=============================================================================
