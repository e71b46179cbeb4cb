------------------------------ MODULE Admission ------------------------------
(***************************************************************************)
(* The middleware around every handler (api/middleware.rs): two budgets of *)
(* concurrent requests that refuse and never queue, inside the deadline of *)
(* the whole request, inside the layer that turns a panic into an answer.  *)
(***************************************************************************)
EXTENDS Naturals, FiniteSets

CONSTANTS
    Requests,       \* HTTP requests
    PublicLimit,    \* settings.server.max_in_flight
    ReadinessLimit, \* READINESS_MAX_IN_FLIGHT
    None

ASSUME AdmissionAssumption ==
    /\ IsFiniteSet(Requests)
    /\ PublicLimit \in Nat
    /\ ReadinessLimit \in Nat
    /\ None \notin Requests \cup {"public", "readiness"}

VARIABLES
    permits,    \* free permits of each budget
    holding     \* the budget each request holds a permit of

Budgets == {"public", "readiness"}

Routes == {"live", "ready", "speech"}

LimitOf(b) == IF b = "public" THEN PublicLimit ELSE ReadinessLimit

AdmissionTypeOK ==
    /\ permits \in [Budgets -> Nat]
    /\ holding \in [Requests -> Budgets \cup {None}]

AdmissionInit ==
    /\ permits = [b \in Budgets |-> LimitOf(b)]
    /\ holding = [r \in Requests |-> None]

\* Faulty variant: one budget for everything but liveness.
OneClass(route) == IF route = "live" THEN None ELSE "public"

\* admission_class: the liveness probe bypasses admission (None).
AdmissionClass(route) ==
    CASE route = "live"  -> None
      [] route = "ready" -> "readiness"
      [] OTHER           -> "public"

\* try_acquire_owned
Admit(r, route) ==
    LET b == AdmissionClass(route) IN
    /\ b # None => permits[b] > 0
    /\ permits' = IF b = None THEN permits ELSE [permits EXCEPT ![b] = @ - 1]
    /\ holding' = [holding EXCEPT ![r] = b]

Overloaded(route) == AdmissionClass(route) # None /\ permits[AdmissionClass(route)] = 0

\* Faulty variant: the permit is returned only by a handler that finishes.
KeepPermit(rs) == UNCHANGED <<permits, holding>>

\* The futures of the requests rs are dropped, and their permits with them.
ReturnPermits(rs) ==
    /\ permits' = [b \in Budgets |-> permits[b] + Cardinality({r \in rs : holding[r] = b})]
    /\ holding' = [r \in Requests |-> IF r \in rs THEN None ELSE holding[r]]
=============================================================================
