------------------------------- MODULE Gateway -------------------------------
(***************************************************************************)
(* What the processor and Envoy together promise one HTTP client: a request *)
(* that is no admissible tool call is refused without any call of the API;  *)
(* an admissible one leads to exactly one call of the API and then to its   *)
(* answer.  A failure is owed to a fault of the connection, except for a    *)
(* tool call that is a notification: the API is called and the client gets  *)
(* no answer.                                                               *)
(***************************************************************************)
VARIABLES
    kind,      \* of the request: "call", "notification" (a call with no id) or "other"
    api,       \* the API is "idle" or "called"
    outcome,   \* what the client got
    fault      \* the connection between Envoy and the processor was lost

gatewayVars == <<kind, api, outcome, fault>>

Kinds    == {"call", "notification", "other"}
Outcomes == {"pending", "refused", "answered", "failed", "gone"}

Init ==
    /\ kind \in Kinds
    /\ api = "idle"
    /\ outcome = "pending"
    /\ fault = FALSE

Refuse ==
    /\ kind = "other" /\ outcome = "pending"
    /\ outcome' = "refused"
    /\ UNCHANGED <<kind, api, fault>>

CallApi ==
    /\ kind # "other" /\ api = "idle" /\ outcome = "pending"
    /\ api' = "called"
    /\ UNCHANGED <<kind, outcome, fault>>

Answer ==
    /\ kind = "call" /\ api = "called" /\ outcome = "pending"
    /\ outcome' = "answered"
    /\ UNCHANGED <<kind, api, fault>>

Fail ==
    /\ outcome = "pending"
    /\ fault \/ (kind = "notification" /\ api = "called")
    /\ outcome' = "failed"
    /\ UNCHANGED <<kind, api, fault>>

Leave ==
    /\ outcome = "pending"
    /\ outcome' = "gone"
    /\ UNCHANGED <<kind, api, fault>>

LoseConnection == ~fault /\ fault' = TRUE /\ UNCHANGED <<kind, api, outcome>>

Resolve == Refuse \/ CallApi \/ Answer \/ Fail

Next == Resolve \/ Leave \/ LoseConnection

\* What may happen, and that what is owed does happen.
Safety == Init /\ [][Next]_gatewayVars

Spec == Safety /\ WF_gatewayVars(Resolve)
=============================================================================
