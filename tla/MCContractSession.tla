-------------------------- MODULE MCContractSession --------------------------
(* Two tools, two buckets and up to two test processes.  The configs: one  *)
(* bucket skipped for one tool; one tool with nothing left; one bucket     *)
(* skipped for every tool (the placeholder); nothing opted in.             *)
EXTENDS ContractSession, TLC

CONSTANTS alpha, beta

Opted(skipped) == [entry |-> "run", skipBuckets |-> skipped]

MCConfigs ==
  {(alpha :> Opted({}) @@ beta :> Opted({"judge"})),
   (alpha :> Opted({}) @@ beta :> Opted(Buckets)),
   (alpha :> Opted({"judge"}) @@ beta :> Opted({"judge"})),
   (alpha :> [entry |-> "skip", skipBuckets |-> {}]
    @@ beta :> [entry |-> "absent", skipBuckets |-> {}])}

MCListings == {{}, {alpha}, {alpha, beta}}
=============================================================================
