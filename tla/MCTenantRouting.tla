-------------------------- MODULE MCTenantRouting --------------------------
(* Two requests of one tenant, whose creates race for a code, and one of another; as many   *)
(* connections as two creates hold.                                                         *)
EXTENDS TenantRouting, TLC
CONSTANTS r1, r2, r3, t1, t2
MCOpsOf == r1 :> {"create"} @@ r2 :> {"create", "read"} @@ r3 :> {"update", "delete"}
MCTenantOf == r1 :> t1 @@ r2 :> t1 @@ r3 :> t2
=============================================================================
