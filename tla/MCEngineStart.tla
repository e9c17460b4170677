----------------------------- MODULE MCEngineStart -----------------------------
(* A process whose TOML files and environment disagree, miss fields or do    *)
(* not parse, with every KMS provider among them.                            *)
EXTENDS EngineStart

Nowhere == [system |-> None, user |-> None, project |-> <<None>>, env |-> NoLayer]

MCPlaces ==
  {Nowhere,
   \* A project file nearer than another one, weaker than the environment.
   [system |-> [provider |-> "aws", telemetry |-> "url", license |-> "invalid"],
    user |-> [key_id |-> "key", public_key |-> "hex32", cache_ttl_hours |-> 12],
    project |-> <<None, [provider |-> "gcp", central_bucket |-> <<"s3", "vault">>],
                  [telemetry |-> ""]>>,
    env |-> [license |-> "valid", cache_ttl_hours |-> Unparsed]],
   \* A malformed project file hides the one above it.
   [system |-> [central_bucket |-> <<"gs", "vault">>], user |-> Malformed,
    project |-> <<Malformed, [central_bucket |-> <<"", "mock">>]>>,
    env |-> [telemetry |-> "url", provider |-> "vault", key_id |-> "key", endpoint |-> "url",
             public_key |-> "hex32"]],
   [system |-> None, user |-> None, project |-> <<>>,
    env |-> [central_bucket |-> <<"r2", "mock">>, telemetry |-> "url", cache_ttl_hours |-> 48]]}

MCOverrides ==
  {NoLayer,
   [central_bucket |-> <<"", "vault">>, telemetry |-> "", provider |-> "azure"],
   [central_bucket |-> <<"", "local">>, cache_ttl_hours |-> 1],
   [provider |-> "aws", key_id |-> "arn", public_key |-> "short"]}

================================================================================
