--------------------------- MODULE MCStatusPages ---------------------------
(* StatusPages with up to three rows and pages of one or two rows: a second *)
(* page, a filter that empties it and a row changed by somebody else occur. *)
EXTENDS StatusPages

=============================================================================
