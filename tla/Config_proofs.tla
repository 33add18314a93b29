---------------------------- MODULE Config_proofs ----------------------------
(* What a server that starts may rely on, whatever its environment.         *)
EXTENDS Config, TLAPS

(* An environment whose numeric variables are unset or numbers.             *)
Unset(v) == v = <<>>
Number(v) == Unset(v) \/ (v # <<>> /\ v[1] \in Int)
Numeric(env) ==
    /\ Number(env.INGEST_BUFFER_DEPTH)
    /\ Number(env.WINDOW_MAX_EVENTS)
    /\ Number(env.PIPELINE_BATCH_SIZE)
    /\ Number(env.PIPELINE_WORKERS)
    /\ Number(env.PIPELINE_CHANNEL_BUFFER)

LEMMA GetNumber ==
    ASSUME NEW v, NEW def \in Int, Number(v)
    PROVE  Get(v, def) \in Int
  BY DEF Get, Number, Unset

(* Whatever its environment says, a server that starts gives a pipeline run *)
(* sizes it can work with, and its worker windows and a channel: what       *)
(* PipelineRun and IngestWorker assume of their sizes is what Load, New and *)
(* normalize establish.  (A channel of no place is what IngestWorker leaves *)
(* out: Submit would then refuse every event that no worker waits for.)     *)
THEOREM SizesUsable ==
    ASSUME NEW env, Numeric(env), Boots(Load(env))
    PROVE  /\ PipelineConfig(Load(env)).BatchSize \in Nat \ {0}
           /\ PipelineConfig(Load(env)).WorkerCount \in Nat \ {0}
           /\ PipelineConfig(Load(env)).ChannelBufferDepth \in Nat
           /\ ~PipelineConfig(Load(env)).FailFast
           /\ Load(env).WindowMaxEvents \in Nat \ {0}
           /\ Load(env).IngestBufferDepth \in Nat
<1> DEFINE c == Load(env)
<1>1. c.ok /\ c.IngestBufferDepth >= 0
  BY DEF Boots
<1>2. /\ c.IngestBufferDepth = Get(env.INGEST_BUFFER_DEPTH, 8192)
      /\ c.WindowMaxEvents = Get(env.WINDOW_MAX_EVENTS, 2048)
      /\ c.PipelineBatchSize = Get(env.PIPELINE_BATCH_SIZE, 256)
      /\ c.PipelineWorkers = Get(env.PIPELINE_WORKERS, 0)
      /\ c.PipelineChannelBuffer = Get(env.PIPELINE_CHANNEL_BUFFER, 8)
      /\ ~(c.WindowMaxEvents < 1)
  BY <1>1 DEF Load, Refused
<1>3. /\ c.IngestBufferDepth \in Int /\ c.WindowMaxEvents \in Int
      /\ c.PipelineBatchSize \in Int /\ c.PipelineWorkers \in Int
      /\ c.PipelineChannelBuffer \in Int
  BY <1>2, GetNumber DEF Numeric
<1> HIDE DEF c
<1>4. /\ PipelineConfig(c).BatchSize = AtLeast(1, c.PipelineBatchSize)
      /\ PipelineConfig(c).WorkerCount
           = AtLeast(1, IF c.PipelineWorkers > 0 THEN c.PipelineWorkers ELSE NumCPU)
      /\ PipelineConfig(c).ChannelBufferDepth = AtLeast(0, c.PipelineChannelBuffer)
      /\ PipelineConfig(c).FailFast = FALSE
  BY DEF PipelineConfig
<1>5. (IF c.PipelineWorkers > 0 THEN c.PipelineWorkers ELSE NumCPU) \in Int
  BY <1>3, NumCPUAssumption
<1>6. /\ PipelineConfig(c).BatchSize \in Nat \ {0}
      /\ PipelineConfig(c).WorkerCount \in Nat \ {0}
      /\ PipelineConfig(c).ChannelBufferDepth \in Nat
  <2>1. AtLeast(1, c.PipelineBatchSize) \in Nat \ {0}
    BY <1>3 DEF AtLeast
  <2>2. AtLeast(1, IF c.PipelineWorkers > 0 THEN c.PipelineWorkers ELSE NumCPU) \in Nat \ {0}
    BY <1>5 DEF AtLeast
  <2>3. AtLeast(0, c.PipelineChannelBuffer) \in Nat
    BY <1>3 DEF AtLeast
  <2> QED
    BY <1>4, <2>1, <2>2, <2>3
<1>7. c.WindowMaxEvents \in Nat \ {0} /\ c.IngestBufferDepth \in Nat
  BY <1>1, <1>2, <1>3
<1> QED
  BY <1>4, <1>6, <1>7 DEF c
=============================================================================
