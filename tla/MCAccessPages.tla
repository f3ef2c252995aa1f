--------------------------- MODULE MCAccessPages ---------------------------
(* A platform role, a default tenant role that does not exist yet, and a     *)
(* custom role of one of two tenants.                                        *)
EXTENDS AccessPages, TLC

CONSTANTS a, b, plat, def, ra

MCGroupOf == plat :> "platform" @@ def :> "any" @@ ra :> a
=============================================================================
