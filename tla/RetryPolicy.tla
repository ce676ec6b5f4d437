---------------------------- MODULE RetryPolicy ----------------------------
(***************************************************************************)
(* The retry / dead-letter decision the Python consumers share             *)
(* (shared/messaging/retry_policy.py; retry-policy.ts is its twin).  Pure: *)
(* what a failed delivery turns into, from the retry count in its header   *)
(* and the class of the failure.                                           *)
(***************************************************************************)
EXTENDS Naturals, Sequences

\* (queue suffix, TTL in milliseconds), one per backoff stage.
RetryStages ==
  << [suffix |-> "retry-5s",  ttl |-> 5000],
     [suffix |-> "retry-30s", ttl |-> 30000],
     [suffix |-> "retry-2m",  ttl |-> 120000] >>

MaxRetries == Len(RetryStages)

ErrorClass == {"TRANSIENT", "PERMANENT"}

\* Exceptions by the class the policy tests with isinstance.
PermanentExceptions == {"ValidationError", "JSONDecodeError", "ValueError"}

ClassifyException(exc) ==
  IF exc \in PermanentExceptions THEN "PERMANENT" ELSE "TRANSIENT"

\* Seeded bug: the retry count is never compared with MAX_RETRIES.
DecideRetry_NoLimit(retryCount, errorClass) ==
  IF errorClass = "PERMANENT"
  THEN [action |-> "DEAD_LETTER", stage |-> 0, next |-> retryCount]
  ELSE [action |-> "RETRY", stage |-> retryCount + 1, next |-> retryCount + 1]

\* Seeded bug: the last stage is never used.
DecideRetry_OneLess(retryCount, errorClass) ==
  IF errorClass = "PERMANENT" \/ retryCount + 1 >= MaxRetries
  THEN [action |-> "DEAD_LETTER", stage |-> 0, next |-> retryCount]
  ELSE [action |-> "RETRY", stage |-> retryCount + 1, next |-> retryCount + 1]

\* RETRY_STAGES is indexed from 0 in the code, RetryStages from 1 here.
DecideRetry(retryCount, errorClass) ==
  IF errorClass = "PERMANENT" \/ retryCount >= MaxRetries
  THEN [action |-> "DEAD_LETTER", stage |-> 0, next |-> retryCount]
  ELSE [action |-> "RETRY", stage |-> retryCount + 1, next |-> retryCount + 1]
=============================================================================
