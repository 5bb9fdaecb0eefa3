---------------------------- MODULE TrustPolicy ----------------------------
(***************************************************************************)
(* What the documentation of TrustedProxiesBuilder promises: rules say     *)
(* which socket peers may forward a client address, and under which client *)
(* IP header.  A set of rules is accepted as it stands, or refused as a    *)
(* whole when it gives one address two policies.  There are no lists,      *)
(* orders, merges or searches here.                                        *)
(***************************************************************************)
EXTENDS TrustedProxyRules

CONSTANT Requests  \* sets of rules that may be asked for at once

VARIABLES
  grants,  \* pairs of an address and the metadata it is given
  verdict

policy == <<grants, verdict>>

OnePolicyPerAddress == \A p, q \in grants : p[1] = q[1] => p[2] = q[2]

Init == grants = {} /\ verdict = "open"

Grant(request) ==
  /\ verdict = "open"
  /\ grants' = grants \cup GrantsOf(request)
  /\ UNCHANGED verdict

\* Trusting every peer names at most one header for all of them.
GrantEveryone(header) ==
  /\ verdict = "open" /\ grants = {}
  /\ grants' = {CanonicalIp(ip) : ip \in IpAddr} \X {header}
  /\ verdict' = "accepted"

Accept ==
  /\ verdict = "open" /\ OnePolicyPerAddress
  /\ verdict' = "accepted"
  /\ UNCHANGED grants

Refuse ==
  /\ verdict = "open" /\ ~OnePolicyPerAddress
  /\ verdict' = "refused"
  /\ UNCHANGED grants

Next ==
  \/ \E request \in Requests : Grant(request)
  \/ \E header \in Metadata : GrantEveryone(header)
  \/ Accept
  \/ Refuse

Spec == Init /\ [][Next]_policy

=============================================================================
