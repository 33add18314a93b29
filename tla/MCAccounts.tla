----------------------------- MODULE MCAccounts ------------------------------
(* Two tabs, two addresses, and servers that differ in key and lifetime.    *)
EXTENDS Accounts

Unset == [v \in {"APP_ENV", "CORS_ORIGIN", "JWT_SECRET", "JWT_TTL",
                 "INGEST_BUFFER_DEPTH", "WINDOW_MAX_EVENTS", "PIPELINE_BATCH_SIZE",
                 "PIPELINE_WORKERS", "PIPELINE_CHANNEL_BUFFER",
                 "PIPELINE_BATCH_TIMEOUT", "DEDUP_CAPACITY"} |-> <<>>]
DevEnv == [Unset EXCEPT !.JWT_TTL = <<1>>]
ProdEnv == [Unset EXCEPT !.APP_ENV = <<"prod">>, !.JWT_SECRET = <<"own">>]
\* The last two do not start: no secret, a negative buffer.
SomeEnvs == {DevEnv, ProdEnv, [ProdEnv EXCEPT !.JWT_SECRET = <<>>],
             [DevEnv EXCEPT !.INGEST_BUFFER_DEPTH = <<-1>>]}

Creds(who, form, pw) == [who |-> who, form |-> form, pw |-> pw]
SomeInputs == {Creds("ada", "plain", "pw"), Creds("ada", "other", "pw"),
               Creds("bob", "plain", "pw"), Creds("ada", "plain", TooLong)}
=============================================================================
