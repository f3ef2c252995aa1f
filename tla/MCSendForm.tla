----------------------------- MODULE MCSendForm -----------------------------
(* Two tenants that share a template key, with different channels and        *)
(* variables, and a key that only the second one has.                        *)
EXTENDS SendForm, TLC

CONSTANTS a, b, email, sms, k1, k2, v

MCTemplatesOf == a :> {k1} @@ b :> {k1, k2}
MCChannelOf == a :> [k \in {k1, k2} |-> email] @@ b :> [k \in {k1, k2} |-> sms]
MCVarsOf == a :> [k \in {k1, k2} |-> {v}] @@ b :> (k1 :> {} @@ k2 :> {v})
MCEnabledOf == a :> {email, sms} @@ b :> {sms}
=============================================================================
