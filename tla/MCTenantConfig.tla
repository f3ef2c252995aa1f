--------------------------- MODULE MCTenantConfig ---------------------------
(* Two tenants, one of them the tenant of the Provider Settings page; one    *)
(* channel with a provider type that has two required settings and one that  *)
(* has none.                                                                 *)
EXTENDS TenantConfig

CONSTANTS a, sa, sb, ma, mb, live, k1, k2, c

MCSlugOf == [t \in Tenants |-> IF t = a THEN sa ELSE sb]
MCTemplatesOf == [t \in Tenants |-> Templates \cap {IF t = a THEN ma ELSE mb}]
MCChannelOf == [v \in Providers |-> c]
MCFieldsOf == [v \in Providers |-> IF v = live THEN {k1, k2} ELSE {}]
MCRequiredOf == [v \in Providers |-> IF v = live THEN {k1, k2} ELSE {}]

Steps(t, d, p) == [x \in Pages |-> CASE x = "tenants" -> t [] x = "detail" -> d [] OTHER -> p]

\* Long behaviours of the provisioning form alone, short ones of all the pages.
MCOpsBounds == {Steps(5, 0, 0), Steps(1, 1, 1), Steps(2, 2, 0), Steps(2, 0, 1), Steps(0, 2, 2), Steps(0, 3, 1), Steps(0, 0, 3)}
=============================================================================
