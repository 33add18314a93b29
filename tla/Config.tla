------------------------------- MODULE Config --------------------------------
(***************************************************************************)
(* What the API makes of its environment (config.Load), and what a         *)
(* pipeline makes of its options (defaultConfig, With*, normalize).        *)
(*                                                                         *)
(* An environment variable is <<v>>, or <<>> when it is unset, empty or    *)
(* does not parse: the code treats the three alike.                        *)
(***************************************************************************)
EXTENDS Integers, Sequences

CONSTANT NumCPU
ASSUME NumCPUAssumption == NumCPU \in Nat \ {0}

Get(v, def) == IF v = <<>> THEN def ELSE v[1]

IsProd(c) == c.Env \in {"prod", "PROD"}

Refused == [ok |-> FALSE]

(* Load: the defaults, then the three checks in their order.  The secret is *)
(* compulsory for "prod" exactly as it is spelt here, while IsProd folds    *)
(* the case.                                                                *)
Load(env) ==
    LET c == [ok |-> TRUE,
              Env |-> Get(env.APP_ENV, "dev"),
              CORSOrigin |-> Get(env.CORS_ORIGIN, "spa"),
              JWTSecret |-> Get(env.JWT_SECRET, "dev-secret"),
              JWTTTL |-> Get(env.JWT_TTL, 24),
              IngestBufferDepth |-> Get(env.INGEST_BUFFER_DEPTH, 8192),
              WindowMaxEvents |-> Get(env.WINDOW_MAX_EVENTS, 2048),
              PipelineBatchSize |-> Get(env.PIPELINE_BATCH_SIZE, 256),
              PipelineWorkers |-> Get(env.PIPELINE_WORKERS, 0),
              PipelineChannelBuffer |-> Get(env.PIPELINE_CHANNEL_BUFFER, 8),
              PipelineBatchTimeout |-> Get(env.PIPELINE_BATCH_TIMEOUT, 5),
              DedupCapacity |-> Get(env.DEDUP_CAPACITY, 200000)]
    IN IF \/ c.Env = "prod" /\ env.JWT_SECRET = <<>>
          \/ IsProd(c) /\ c.CORSOrigin = "*"
          \/ c.WindowMaxEvents < 1
       THEN Refused ELSE c

(* ingest.New makes the channel of that capacity: a negative one panics.    *)
Boots(c) == c.ok /\ c.IngestBufferDepth >= 0

AtLeast(min, n) == IF n < min THEN min ELSE n

(* buildPipeline's options over defaultConfig, and then normalize.          *)
PipelineConfig(c) ==
    [BatchSize |-> AtLeast(1, c.PipelineBatchSize),
     WorkerCount |-> AtLeast(1, IF c.PipelineWorkers > 0 THEN c.PipelineWorkers ELSE NumCPU),
     ChannelBufferDepth |-> AtLeast(0, c.PipelineChannelBuffer),
     Timer |-> c.PipelineBatchTimeout > 0,
     FailFast |-> FALSE]
=============================================================================
