--------------------------- MODULE RetrySemantics ---------------------------
(***************************************************************************)
(* services/retry_semantics.py: the classes a failure at an adapter        *)
(* boundary falls into, and which of them a retry loop may try again.      *)
(* An exception is represented by its Python type; "other" stands for any  *)
(* type neither tuple of the source names (OSError, RuntimeError, ...).    *)
(***************************************************************************)

Exceptions == {"TimeoutError", "ConnectionError", "ValueError", "KeyError",
               "TypeError", "other"}

FailureClasses == {"transient", "permanent", "unknown"}

classify_failure(exc) ==
  CASE exc \in {"TimeoutError", "ConnectionError"}        -> "transient"
    [] exc \in {"ValueError", "KeyError", "TypeError"}    -> "permanent"
    [] OTHER                                              -> "unknown"

(* RetryPolicy.retryable_exceptions keeps its default: no caller in the    *)
(* repository passes another tuple.                                        *)
retryable_exceptions == {"TimeoutError", "ConnectionError"}

is_retryable(exc) == exc \in retryable_exceptions
=============================================================================
