------------------------------ MODULE Routing -------------------------------
(***************************************************************************)
(* The load-balancing policies together: at start the factory              *)
(* (policies/factory.rs) makes the policy that is configured, and from     *)
(* then on the operations of that policy run, with requests and workers    *)
(* around them.                                                            *)
(***************************************************************************)
EXTENDS CacheAware, ManualPolicy, BucketPolicy

routingVars == <<common, simple, manual, bucket, cacheAware>>

RoutingInit ==
    /\ PoliciesInit /\ ManualInit /\ BucketInit
    /\ CacheInit /\ (policy # "cache_aware" => listed = {})

RoutingNext ==
    \/ policy = "cache_aware" /\ CacheNext /\ UNCHANGED <<common, simple, manual, bucket>>
    \/ policy # "cache_aware" /\ UNCHANGED cacheAware
       /\ \/ AroundNext /\ UNCHANGED <<manual, bucket>>
          \/ SimpleNext /\ UNCHANGED <<manual, bucket>>
          \/ ManualNext /\ UNCHANGED bucket
          \/ BucketNext /\ UNCHANGED manual

RoutingSpec == RoutingInit /\ [][RoutingNext]_routingVars
=============================================================================
