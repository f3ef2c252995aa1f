--------------------------- MODULE MCAdminSession ---------------------------
(* Two tabs; the first may have two requests outstanding, the second one. *)
EXTENDS AdminSession, TLC

CONSTANTS t1, t2, r1, r2, r3

MCTabOf == r1 :> t1 @@ r2 :> t1 @@ r3 :> t2
=============================================================================
