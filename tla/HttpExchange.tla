--------------------------- MODULE HttpExchange ---------------------------
(***************************************************************************)
(* What HttpDriver::execute of src/lib.rs promises, whatever the driver: it *)
(* answers once.  Before the head of a response has arrived the request may *)
(* be refused, the connection fail, or the time run out.  A 429 that has    *)
(* arrived is RateLimited, unless the time runs out before it is looked at: *)
(* neither its length nor the loss of its body makes it anything else.  Any *)
(* other response is an Ok, or too large, or lost on the way.              *)
(***************************************************************************)
VARIABLES
    head,      \* the head of the response: none yet, a 429, another status
    answer     \* what execute answered

absVars == <<head, answer>>

AbsInit == head = "none" /\ answer = "none"

Respond ==
    /\ head = "none"
    /\ answer = "none"
    /\ head' \in {"limited", "other"}
    /\ UNCHANGED answer

Answer ==
    /\ answer = "none"
    /\ \/ /\ head = "none"
          /\ answer' \in {"RequestTooLarge", "ProtocolViolation", "ConnectTimeout",
                         "ReadTimeout", "Io"}
       \/ head = "limited" /\ answer' \in {"RateLimited", "ReadTimeout"}
       \/ head = "other" /\ answer' \in {"Ok", "ResponseTooLarge", "ReadTimeout", "Io"}
    /\ UNCHANGED head

AbsNext == Respond \/ Answer

AbsSpec == AbsInit /\ [][AbsNext]_absVars
=============================================================================
