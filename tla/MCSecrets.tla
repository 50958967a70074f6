----------------------------- MODULE MCSecrets -----------------------------
(* What must come to an end: the locks and counters that Redis keeps for a *)
(* while (PinLimiter, CodeStore and RateLimit) and the server's shutdown,  *)
(* on small instances.  They share nothing that these models keep, so each *)
(* is explored with the others at rest.                                    *)
EXTENDS PinLimiter, CodeStore, RateLimit, Server

VARIABLE part

vars == <<pinVars, codeVars, rateVars, serverVars, part>>

PINPart(A) == part = "pin" /\ A /\ UNCHANGED <<codeVars, rateVars, serverVars, part>>
CodePart(A) == part = "code" /\ A /\ UNCHANGED <<pinVars, rateVars, serverVars, part>>
RatePart(A) == part = "rate" /\ A /\ UNCHANGED <<pinVars, codeVars, serverVars, part>>
ServerPart(A) == part = "server" /\ A /\ UNCHANGED <<pinVars, codeVars, rateVars, part>>

Init ==
    /\ part \in {"pin", "code", "rate", "server"}
    /\ PINInit /\ CodeInit /\ RateInit /\ ServerInit

Next == PINPart(PINNext) \/ CodePart(CodeNext) \/ RatePart(RateNext) \/ ServerPart(ServerNext)

\* Time goes on, and a request that has begun comes to an end; a visit that has counted itself
\* goes on to its EXPIRE, or fails; every call of a request has a deadline, and main goes on.
Fairness ==
    /\ WF_vars(PINPart(PINTick))
    /\ \A a \in Attempts : WF_vars(PINPart(trying[a] # "idle" /\ PINStep(a)))
    /\ WF_vars(RatePart(RateTick))
    /\ \A v \in Visits : WF_vars(RatePart(RateExpire(v) \/ RateExpireFails(v)))
    /\ \A r \in Requests : WF_vars(ServerPart(RequestStep(r)))
    /\ WF_vars(ServerPart(ShutdownStep))

Spec == Init /\ [][Next]_vars /\ Fairness

\* Every variable of the four has its type.
SecretsTypeOK ==
    /\ PINTypeOK
    /\ CodeTypeOK
    /\ RateTypeOK
    /\ ServerTypeOK
=============================================================================
