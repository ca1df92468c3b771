-------------------------------- MODULE Lease --------------------------------
(***************************************************************************)
(* The cluster lease: one key in Valkey whose value is the node that leads *)
(* and which the server drops when its TTL runs out.  Four Lua scripts,    *)
(* each evaluated atomically by the server, are the only things that touch *)
(* it; the promoter and the integration both run them under their node id. *)
(*                                                                         *)
(* Time is counted in promoter periods (OnUnitActiveSec=10s), so a 30s TTL *)
(* is three periods.                                                       *)
(***************************************************************************)
EXTENDS Integers

CONSTANTS
    Nodes,      \* the node ids
    NoNode,     \* the value of `holder` while the key does not exist
    LeaseTTL    \* lease_ttl_ms(ttl), in promoter periods

ASSUME NodesAssumption == NoNode \notin Nodes
ASSUME LeaseTTLAssumption == LeaseTTL \in Nat /\ LeaseTTL >= 2

VARIABLES
    holder,     \* the node the key names, or NoNode
    ttl         \* periods before the server drops the key, 0 when absent

LeaseTypeOK ==
    /\ holder \in Nodes \cup {NoNode}
    /\ ttl \in 0..LeaseTTL
    /\ holder = NoNode <=> ttl = 0

LeaseInit == holder = NoNode /\ ttl = 0

\* Faulty: SET without PX, a lease that no clock ends.
HeldWithoutTTL(n) == holder' = n /\ UNCHANGED ttl

\* The key names n for a whole TTL from now on.
HeldAfresh(n) == holder' = n /\ ttl' = LeaseTTL

\* LEASE_SCRIPT answers 1: the key was free, or already n's own.
LeaseGranted(n) == holder \in {n, NoNode}

\* RENEW_ONLY_SCRIPT answers 1.
RenewGranted(n) == holder = n

\* LEASE_SCRIPT: take a free lease or renew one's own, in a single call.
TakeOrRenew(n) ==
    \/ LeaseGranted(n) /\ HeldAfresh(n)
    \/ ~LeaseGranted(n) /\ UNCHANGED <<holder, ttl>>

\* RENEW_ONLY_SCRIPT: renew one's own lease, never take a free one.
RenewOnly(n) ==
    \/ RenewGranted(n) /\ HeldAfresh(n)
    \/ ~RenewGranted(n) /\ UNCHANGED <<holder, ttl>>

\* FORCE_SCRIPT: claim the key whatever it says.
ForceClaim(n) == HeldAfresh(n)

\* Faulty: DEL without looking whose claim it is.
ReleaseUnchecked(n) == n \in Nodes /\ holder' = NoNode /\ ttl' = 0

\* RELEASE_SCRIPT: delete the key, but only one's own claim.
Release(n) ==
    \/ holder = n /\ holder' = NoNode /\ ttl' = 0
    \/ holder # n /\ UNCHANGED <<holder, ttl>>

\* The server's clock: one period off the TTL, and the key goes at zero.
Elapse ==
    /\ ttl' = IF ttl > 0 THEN ttl - 1 ELSE 0
    /\ holder' = IF ttl > 1 THEN holder ELSE NoNode
==============================================================================
