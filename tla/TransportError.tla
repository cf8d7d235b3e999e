------------------------- MODULE TransportError -------------------------
(***************************************************************************)
(* TransportError of src/lib.rs, the only error type of the crate, and its  *)
(* split into errors that are worth a retry and errors that are not.  The   *)
(* four kinds of PayloadTooLarge and the two values of ConnectionClosed are *)
(* told apart.                                                             *)
(***************************************************************************)
ConnectionClosed == {"Clean", "Unclean"}

PayloadTooLarge == {"RequestTooLarge", "ResponseTooLarge",
                    "FrameTooLarge", "MessageTooLarge"}

TransportErrors ==
    {"ConnectTimeout", "ReadTimeout", "RateLimited", "PoolExhausted",
     "ProtocolViolation", "Io"} \cup ConnectionClosed \cup PayloadTooLarge

\* TransportError::is_retryable
IsRetryable(e) ==
    e \in {"ConnectTimeout", "ReadTimeout", "RateLimited", "PoolExhausted", "Io"}
          \cup ConnectionClosed

Permanent(e) == e \in TransportErrors /\ ~IsRetryable(e)
=============================================================================
