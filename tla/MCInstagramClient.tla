------------------------- MODULE MCInstagramClient --------------------------
(* InstagramClient for TLC. *)
EXTENDS InstagramClient
=============================================================================
