--------------------------- MODULE ServerTheorems ---------------------------
(***************************************************************************)
(* Proofs about ServerProcess: its types, that admission permits are never *)
(* lost or returned twice, that no ffmpeg child is left behind, and that   *)
(* speech work never makes a readiness probe look overloaded.  And about   *)
(* FfmpegChild, what runs in such a child: that success means all of the   *)
(* output, and that the pipes never make both sides wait.  And about       *)
(* Settings, with which the process starts: that what the rest of the      *)
(* program relies on holds for every environment that is accepted.         *)
(***************************************************************************)
EXTENDS ServerProcess, FfmpegChild, Settings, FiniteSetTheorems, TLAPS

\* The requests that hold a permit of budget b.
Held(b) == {r \in Requests : holding[r] = b}

\* Permits are free or held, and none are made or lost.
Accounted == \A b \in Budgets : permits[b] + Cardinality(Held(b)) = LimitOf(b)

\* A request in its handler holds the permit of its route, and is not answered.
AliveHolds ==
    \A r \in Requests :
        IF requests[r].pc \in Alive
        THEN /\ requests[r].route \in Routes
             /\ requests[r].answer = "none"
             /\ holding[r] = AdmissionClass(requests[r].route)
        ELSE holding[r] = None

\* Nothing of a process that ended runs on.
ExitedIsEmpty == phase = "exited" => \A r \in Requests : requests[r].pc \notin Alive

\* The inductive invariant.
ServerInv ==
    /\ ServerTypeOK
    /\ Accounted
    /\ AliveHolds
    /\ NoOrphanChild
    /\ ExitedIsEmpty
-----------------------------------------------------------------------------
(***************************************************************************)
(* Admission                                                               *)
(***************************************************************************)

\* The holders of a budget are finitely many.
LEMMA HeldFinite ==
    ASSUME NEW b
    PROVE  /\ IsFiniteSet(Held(b))
           /\ Cardinality(Held(b)) \in Nat
           /\ Held(b) \subseteq Requests
  <1>1. Held(b) \subseteq Requests
    BY DEF Held
  <1>2. IsFiniteSet(Held(b))
    BY <1>1, FS_Subset, AdmissionAssumption
  <1> QED BY <1>1, <1>2, FS_CardinalityType

\* A class of admission is a budget, or none for the liveness probe.
LEMMA ClassOfRoute ==
    ASSUME NEW route \in Routes
    PROVE  /\ AdmissionClass(route) \in Budgets \cup {None}
           /\ AdmissionClass(route) = None <=> route = "live"
           /\ AdmissionClass(route) = "readiness" <=> route = "ready"
           /\ None \notin Budgets
  BY AdmissionAssumption DEF AdmissionClass, Routes, Budgets

\* The limits are naturals.
LEMMA LimitType == ASSUME NEW b PROVE LimitOf(b) \in Nat
  BY AdmissionAssumption DEF LimitOf

\* try_acquire_owned moves one permit from free to held.
LEMMA AdmitAccounted ==
    ASSUME AdmissionTypeOK, Accounted, NEW r \in Requests, NEW route \in Routes,
           holding[r] = None, Admit(r, route)
    PROVE  /\ AdmissionTypeOK'
           /\ Accounted'
           /\ holding'[r] = AdmissionClass(route)
           /\ \A q \in Requests \ {r} : holding'[q] = holding[q]
  <1> DEFINE c == AdmissionClass(route)
  <1>1. c \in Budgets \cup {None} /\ None \notin Budgets
    BY ClassOfRoute
  <1>2. /\ holding' = [holding EXCEPT ![r] = c]
        /\ c # None => permits[c] > 0
        /\ permits' = IF c = None THEN permits ELSE [permits EXCEPT ![c] = @ - 1]
    BY DEF Admit
  <1> HIDE DEF c
  <1>3. holding'[r] = c /\ \A q \in Requests \ {r} : holding'[q] = holding[q]
    BY <1>2 DEF AdmissionTypeOK
  <1>4. AdmissionTypeOK'
    <2>1. holding' \in [Requests -> Budgets \cup {None}]
      BY <1>1, <1>2 DEF AdmissionTypeOK
    <2>2. permits' \in [Budgets -> Nat]
      <3>1. CASE c = None
        BY <3>1, <1>2 DEF AdmissionTypeOK
      <3>2. CASE c # None
        <4>1. permits[c] - 1 \in Nat
          BY <3>2, <1>1, <1>2 DEF AdmissionTypeOK
        <4> QED BY <4>1, <3>2, <1>1, <1>2 DEF AdmissionTypeOK
      <3> QED BY <3>1, <3>2
    <2> QED BY <2>1, <2>2 DEF AdmissionTypeOK
  <1>5. ASSUME NEW b \in Budgets
        PROVE  permits'[b] + Cardinality(Held(b)') = LimitOf(b)
    <2>1. permits[b] + Cardinality(Held(b)) = LimitOf(b) /\ permits[b] \in Nat
      BY DEF Accounted, AdmissionTypeOK
    <2>2. IsFiniteSet(Held(b)) /\ Cardinality(Held(b)) \in Nat /\ r \notin Held(b)
      BY HeldFinite, <1>1 DEF Held
    <2>3. CASE b = c
      <3>1. Held(b)' = Held(b) \cup {r}
        BY <1>3, <2>3 DEF Held
      <3>2. Cardinality(Held(b)') = Cardinality(Held(b)) + 1
        BY <3>1, <2>2, FS_AddElement
      <3>3. permits'[b] = permits[b] - 1
        BY <1>1, <1>2, <2>3 DEF AdmissionTypeOK
      <3> QED BY <3>2, <3>3, <2>1, <2>2
    <2>4. CASE b # c
      <3>1. Held(b)' = Held(b)
        BY <1>1, <1>3, <2>4 DEF Held
      <3>2. permits'[b] = permits[b]
        BY <1>2, <2>4 DEF AdmissionTypeOK
      <3> QED BY <3>1, <3>2, <2>1
    <2> QED BY <2>3, <2>4
  <1> QED BY <1>3, <1>4, <1>5 DEF Accounted, c

\* The permits of the requests that leave come back, each to its budget.
LEMMA ReturnAccounted ==
    ASSUME AdmissionTypeOK, Accounted, NEW rs \in SUBSET Requests, ReturnPermits(rs)
    PROVE  /\ AdmissionTypeOK'
           /\ Accounted'
           /\ \A r \in rs : holding'[r] = None
           /\ \A r \in Requests \ rs : holding'[r] = holding[r]
  <1>1. /\ holding' = [r \in Requests |-> IF r \in rs THEN None ELSE holding[r]]
        /\ permits' = [b \in Budgets |-> permits[b] + Cardinality({r \in rs : holding[r] = b})]
    BY DEF ReturnPermits
  <1>2. ASSUME NEW b \in Budgets
        PROVE  /\ permits'[b] \in Nat
               /\ permits'[b] + Cardinality(Held(b)') = LimitOf(b)
    <2>1. permits[b] + Cardinality(Held(b)) = LimitOf(b) /\ permits[b] \in Nat
      BY DEF Accounted, AdmissionTypeOK
    <2>2. Held(b)' = Held(b) \ rs
      BY <1>1, ClassOfRoute DEF Held, Routes
    <2>3. {r \in rs : holding[r] = b} = Held(b) \cap rs
      BY DEF Held
    <2>4. /\ Cardinality(Held(b) \ rs) = Cardinality(Held(b)) - Cardinality(Held(b) \cap rs)
          /\ IsFiniteSet(Held(b) \cap rs)
      BY HeldFinite, FS_Difference, FS_Intersection
    <2>5. Cardinality(Held(b) \cap rs) \in Nat /\ Cardinality(Held(b)) \in Nat
      BY <2>4, HeldFinite, FS_CardinalityType
    <2>6. permits'[b] = permits[b] + Cardinality(Held(b) \cap rs)
      BY <1>1, <2>3
    <2> QED BY <2>1, <2>2, <2>4, <2>5, <2>6
  <1>3. AdmissionTypeOK'
    BY <1>1, <1>2 DEF AdmissionTypeOK
  <1> QED BY <1>1, <1>2, <1>3 DEF Accounted
-----------------------------------------------------------------------------
(***************************************************************************)
(* Requests that leave                                                     *)
(***************************************************************************)

\* Requests of the type of ServerTypeOK.
RequestTypes == [pc : Alive \cup {"idle", "ended"}, route : Routes \cup {"none"}, answer : Answers]

\* Ended writes the requests that leave and no other.
LEMMA EndedEffect ==
    ASSUME ServerTypeOK, NEW rs \in SUBSET Requests, Ended(rs)
    PROVE  /\ requests' \in [Requests -> RequestTypes]
           /\ \A r \in rs : requests'[r].pc = "ended" /\ requests'[r].answer = "over"
           /\ \A r \in Requests \ rs : requests'[r] = requests[r]
  <1>1. requests' = [r \in Requests |-> IF r \in rs
                   THEN [requests[r] EXCEPT !.pc = "ended", !.answer = "over"] ELSE requests[r]]
    BY DEF Ended
  <1>2. requests \in [Requests -> RequestTypes]
    BY DEF ServerTypeOK, RequestTypes
  <1>3. ASSUME NEW r \in Requests
        PROVE  /\ [requests[r] EXCEPT !.pc = "ended", !.answer = "over"] \in RequestTypes
               /\ [requests[r] EXCEPT !.pc = "ended", !.answer = "over"].pc = "ended"
               /\ [requests[r] EXCEPT !.pc = "ended", !.answer = "over"].answer = "over"
    BY <1>2 DEF RequestTypes, Answers
  <1> HIDE DEF RequestTypes
  <1>4. ASSUME NEW r \in Requests PROVE requests'[r] \in RequestTypes
    BY <1>1, <1>2, <1>3
  <1> QED BY <1>1, <1>3, <1>4

\* The future of a request is dropped wherever it was: everything the request
\* had goes with it, and every other request keeps what it has.
LEMMA LeaveKeeps ==
    ASSUME ServerInv, NEW rs \in SUBSET Requests, Leave(rs)
    PROVE  /\ AdmissionTypeOK'
           /\ requests' \in [Requests -> RequestTypes]
           /\ children' \subseteq Requests
           /\ Accounted'
           /\ AliveHolds'
           /\ \A r \in children' : r \in children \ rs /\ requests'[r].pc = "encoding"
           /\ \A r \in Requests : requests'[r].pc \in Alive => r \notin rs /\ requests'[r] = requests[r]
           /\ \A r \in Requests : requests'[r] # requests[r] => requests'[r].answer = "over"
  <1>1. /\ requests' \in [Requests -> RequestTypes]
        /\ \A r \in rs : requests'[r].pc = "ended" /\ requests'[r].answer = "over"
        /\ \A r \in Requests \ rs : requests'[r] = requests[r]
    BY EndedEffect DEF Leave, ServerInv
  <1>2. /\ AdmissionTypeOK'
        /\ Accounted'
        /\ \A r \in rs : holding'[r] = None
        /\ \A r \in Requests \ rs : holding'[r] = holding[r]
    BY ReturnAccounted DEF Leave, ServerInv, ServerTypeOK
  <1>3. children' = children \ rs
    BY DEF Leave
  <1>4. AliveHolds'
    <2> SUFFICES ASSUME NEW r \in Requests
                 PROVE IF requests'[r].pc \in Alive
                       THEN /\ requests'[r].route \in Routes
                            /\ requests'[r].answer = "none"
                            /\ holding'[r] = AdmissionClass(requests'[r].route)
                       ELSE holding'[r] = None
      BY DEF AliveHolds
    <2>1. CASE r \in rs
      BY <2>1, <1>1, <1>2 DEF Alive
    <2>2. CASE r \notin rs
      BY <2>2, <1>1, <1>2 DEF ServerInv, AliveHolds
    <2> QED BY <2>1, <2>2
  <1>5. \A r \in children' : r \in children \ rs /\ requests'[r].pc = "encoding"
    BY <1>1, <1>3 DEF ServerInv, ServerTypeOK, NoOrphanChild
  <1>6. children' \subseteq Requests
    BY <1>3 DEF ServerInv, ServerTypeOK
  <1>7. \A r \in Requests : requests'[r].pc \in Alive => r \notin rs /\ requests'[r] = requests[r]
    BY <1>1 DEF Alive
  <1> QED BY <1>1, <1>2, <1>4, <1>5, <1>6, <1>7

\* One request that leaves a running process.
LEMMA LeaveInv ==
    ASSUME ServerInv, NEW r \in Requests, Leave({r}), Running, UNCHANGED <<phase, taskVars>>
    PROVE  ServerInv'
  <1>1. {r} \in SUBSET Requests
    OBVIOUS
  <1>2. ServerTypeOK'
    BY <1>1, LeaveKeeps DEF ServerInv, ServerTypeOK, RequestTypes, taskVars
  <1>3. NoOrphanChild'
    BY <1>1, LeaveKeeps DEF NoOrphanChild, Running
  <1>4. ExitedIsEmpty'
    BY DEF ExitedIsEmpty, Running
  <1> QED BY <1>1, <1>2, <1>3, <1>4, LeaveKeeps DEF ServerInv
-----------------------------------------------------------------------------
(***************************************************************************)
(* The invariant, action by action                                         *)
(***************************************************************************)

\* The process starts with every permit free.
LEMMA InitInv == ServerInit => ServerInv
  <1> SUFFICES ASSUME ServerInit PROVE ServerInv
    OBVIOUS
  <1> USE DEF ServerInit, AdmissionInit, NoRequest
  <1>1. ServerTypeOK
    BY LimitType DEF ServerTypeOK, AdmissionTypeOK, Answers, TaskStates
  <1>2. Accounted
    <2> SUFFICES ASSUME NEW b \in Budgets PROVE permits[b] + Cardinality(Held(b)) = LimitOf(b)
      BY DEF Accounted
    <2>1. Held(b) = {}
      BY AdmissionAssumption DEF Held, Budgets
    <2> QED BY <2>1, FS_EmptySet, LimitType
  <1>3. AliveHolds
    BY DEF AliveHolds, Alive
  <1>4. NoOrphanChild /\ ExitedIsEmpty
    BY DEF NoOrphanChild, ExitedIsEmpty
  <1> QED BY <1>1, <1>2, <1>3, <1>4 DEF ServerInv

\* A request that arrives takes the permit of its route, or is refused.
LEMMA ArriveInv ==
    ASSUME ServerInv, NEW r \in Requests, NEW route \in Routes, Arrive(r, route)
    PROVE  ServerInv'
  <1>0. /\ ServerTypeOK /\ AdmissionTypeOK
        /\ requests \in [Requests -> RequestTypes]
        /\ phase' = phase /\ children' = children /\ UNCHANGED taskVars
        /\ phase = "serving" /\ requests[r].pc \notin Alive
    BY DEF ServerInv, ServerTypeOK, RequestTypes, Arrive, Alive
  <1>1. holding[r] = None
    BY <1>0 DEF ServerInv, AliveHolds
  <1>2. r \notin children
    BY <1>0 DEF ServerInv, NoOrphanChild, Alive
  <1>3. CASE /\ requests' = [requests EXCEPT ![r] =
                    [pc |-> "ended", route |-> route, answer |-> "overloaded"]]
             /\ UNCHANGED <<permits, holding>>
    <2>1. /\ requests' \in [Requests -> RequestTypes]
          /\ requests'[r].pc = "ended"
          /\ \A q \in Requests \ {r} : requests'[q] = requests[q]
      BY <1>0, <1>3 DEF RequestTypes, Answers
    <2>2. ServerTypeOK'
      BY <2>1, <1>0, <1>3 DEF ServerTypeOK, AdmissionTypeOK, RequestTypes, taskVars
    <2>3. Accounted'
      BY <1>3 DEF ServerInv, Accounted, Held
    <2>4. AliveHolds'
      <3> SUFFICES ASSUME NEW q \in Requests
                   PROVE IF requests'[q].pc \in Alive
                         THEN /\ requests'[q].route \in Routes
                              /\ requests'[q].answer = "none"
                              /\ holding'[q] = AdmissionClass(requests'[q].route)
                         ELSE holding'[q] = None
        BY DEF AliveHolds
      <3> QED BY <2>1, <1>1, <1>3 DEF ServerInv, AliveHolds, Alive
    <2>5. NoOrphanChild'
      BY <2>1, <1>0, <1>2 DEF ServerInv, NoOrphanChild, ServerTypeOK, Running
    <2>6. ExitedIsEmpty'
      BY <1>0 DEF ExitedIsEmpty
    <2> QED BY <2>2, <2>3, <2>4, <2>5, <2>6 DEF ServerInv
  <1>4. CASE /\ requests' = [requests EXCEPT ![r] =
                    [pc |-> "working", route |-> route, answer |-> "none"]]
             /\ Admit(r, route)
    <2>1. /\ requests' \in [Requests -> RequestTypes]
          /\ requests'[r] = [pc |-> "working", route |-> route, answer |-> "none"]
          /\ \A q \in Requests \ {r} : requests'[q] = requests[q]
      BY <1>0, <1>4 DEF RequestTypes, Answers, Alive
    <2>2. /\ AdmissionTypeOK'
          /\ Accounted'
          /\ holding'[r] = AdmissionClass(route)
          /\ \A q \in Requests \ {r} : holding'[q] = holding[q]
      BY <1>0, <1>1, <1>4, AdmitAccounted DEF ServerInv
    <2>3. ServerTypeOK'
      BY <2>1, <2>2, <1>0 DEF ServerTypeOK, RequestTypes, taskVars
    <2>4. AliveHolds'
      <3> SUFFICES ASSUME NEW q \in Requests
                   PROVE IF requests'[q].pc \in Alive
                         THEN /\ requests'[q].route \in Routes
                              /\ requests'[q].answer = "none"
                              /\ holding'[q] = AdmissionClass(requests'[q].route)
                         ELSE holding'[q] = None
        BY DEF AliveHolds
      <3>1. CASE q = r
        BY <3>1, <2>1, <2>2 DEF Alive
      <3>2. CASE q # r
        BY <3>2, <2>1, <2>2 DEF ServerInv, AliveHolds
      <3> QED BY <3>1, <3>2
    <2>5. NoOrphanChild'
      BY <2>1, <1>0, <1>2 DEF ServerInv, NoOrphanChild, ServerTypeOK, Running
    <2>6. ExitedIsEmpty'
      BY <1>0 DEF ExitedIsEmpty
    <2> QED BY <2>2, <2>3, <2>4, <2>5, <2>6 DEF ServerInv
  <1> QED BY <1>3, <1>4 DEF Arrive

\* A child starts or ends: its request moves within its handler.
LEMMA ChildInv ==
    ASSUME ServerInv, NEW r \in Requests, SpawnChild(r) \/ ChildDone(r)
    PROVE  ServerInv'
  <1>0. /\ ServerTypeOK /\ AdmissionTypeOK
        /\ requests \in [Requests -> RequestTypes]
        /\ phase' = phase /\ UNCHANGED <<permits, holding, taskVars>>
        /\ Running /\ requests[r].pc \in Alive
    BY DEF ServerInv, ServerTypeOK, RequestTypes, SpawnChild, ChildDone, AtPc, Alive
  <1>1. PICK pc \in Alive :
          /\ requests' = [requests EXCEPT ![r].pc = pc]
          /\ children' = IF pc = "encoding" THEN children \cup {r} ELSE children \ {r}
    <2>1. CASE SpawnChild(r)
      BY <2>1 DEF SpawnChild, Go, Alive
    <2>2. CASE ChildDone(r)
      BY <2>2 DEF ChildDone, Go, Alive
    <2> QED BY <2>1, <2>2
  <1>2. /\ requests' \in [Requests -> RequestTypes]
        /\ requests'[r].pc = pc
        /\ requests'[r].route = requests[r].route
        /\ requests'[r].answer = requests[r].answer
        /\ \A q \in Requests \ {r} : requests'[q] = requests[q]
    BY <1>0, <1>1 DEF RequestTypes
  <1>3. ServerTypeOK'
    BY <1>0, <1>1, <1>2 DEF ServerTypeOK, AdmissionTypeOK, RequestTypes, taskVars
  <1>4. Accounted'
    BY <1>0 DEF ServerInv, Accounted, Held
  <1>5. AliveHolds'
    <2> SUFFICES ASSUME NEW q \in Requests
                 PROVE IF requests'[q].pc \in Alive
                       THEN /\ requests'[q].route \in Routes
                            /\ requests'[q].answer = "none"
                            /\ holding'[q] = AdmissionClass(requests'[q].route)
                       ELSE holding'[q] = None
      BY DEF AliveHolds
    <2> QED BY <1>0, <1>1, <1>2 DEF ServerInv, AliveHolds
  <1>6. NoOrphanChild'
    BY <1>0, <1>1, <1>2 DEF ServerInv, NoOrphanChild, ServerTypeOK, Running, Alive
  <1>7. ExitedIsEmpty'
    BY <1>0 DEF ExitedIsEmpty, Running
  <1> QED BY <1>3, <1>4, <1>5, <1>6, <1>7 DEF ServerInv

\* A task, a signal or a step of the shutdown touches no request.
LEMMA TasksInv ==
    ASSUME ServerInv, UNCHANGED requestVars,
           phase' \in {"serving", "draining", "stopCleanup", "stopMaintenance", "closing", "exited"},
           phase' = "exited" <=> phase = "exited",
           cleanup' \in TaskStates, check' \in TaskStates, maintenance' \in TaskStates
    PROVE  ServerInv'
  BY DEF ServerInv, ServerTypeOK, AdmissionTypeOK, Accounted, Held, AliveHolds, NoOrphanChild,
         ExitedIsEmpty, Running, requestVars

\* The end of the process drops every request that is in its handler.
LEMMA ExitInv == ASSUME ServerInv, Exit PROVE ServerInv'
  <1> DEFINE rs == {r \in Requests : requests[r].pc \in Alive}
  <1>1. rs \in SUBSET Requests /\ Leave(rs)
    BY DEF Exit
  <1>2. /\ AdmissionTypeOK'
        /\ requests' \in [Requests -> RequestTypes]
        /\ children' \subseteq Requests
        /\ Accounted'
        /\ AliveHolds'
        /\ \A r \in children' : r \in children \ rs /\ requests'[r].pc = "encoding"
        /\ \A r \in Requests : requests'[r].pc \in Alive => r \notin rs /\ requests'[r] = requests[r]
    BY <1>1, LeaveKeeps
  <1>3. ServerTypeOK'
    BY <1>2 DEF ServerTypeOK, RequestTypes, Exit, TaskStates
  <1>4. ExitedIsEmpty'
    BY <1>2 DEF ExitedIsEmpty
  <1>5. NoOrphanChild'
    BY <1>2 DEF ServerInv, ServerTypeOK, NoOrphanChild, Alive
  <1> QED BY <1>2, <1>3, <1>4, <1>5 DEF ServerInv

\* A process that starts again finds nothing of the one before it.
LEMMA RestartInv == ASSUME ServerInv, Restart PROVE ServerInv'
  <1>1. children = {}
    BY DEF ServerInv, NoOrphanChild, Restart, Running
  <1>2. ServerTypeOK'
    BY DEF ServerInv, ServerTypeOK, AdmissionTypeOK, Restart, requestVars, TaskStates
  <1> QED BY <1>1, <1>2 DEF ServerInv, Accounted, Held, AliveHolds, NoOrphanChild,
         ExitedIsEmpty, Restart, requestVars

\* Every step of the process keeps the invariant.
LEMMA NextInv == ASSUME ServerInv, [ServerNext]_serverVars PROVE ServerInv'
  <1>1. ASSUME NEW r \in Requests, RequestStep(r) PROVE ServerInv'
    <2>1. ASSUME NEW route \in Routes, Arrive(r, route) PROVE ServerInv'
      BY <2>1, ArriveInv
    <2>2. CASE SpawnChild(r) \/ ChildDone(r)
      BY <2>2, ChildInv
    <2>3. CASE Answer(r) \/ Deadline(r) \/ Panic(r) \/ Disconnect(r)
      BY <2>3, LeaveInv DEF Answer, Deadline, Panic, Disconnect, AtPc
    <2> QED BY <1>1, <2>1, <2>2, <2>3 DEF RequestStep
  <1>2. CASE TaskStep
    <2> USE DEF ServerInv, ServerTypeOK, TaskStates
    <2>1. CASE CleanupTicks \/ CleanupDone
      BY <2>1, TasksInv DEF CleanupTicks, CleanupDone
    <2>2. CASE CheckTicks \/ CheckDone
      BY <2>2, TasksInv DEF CheckTicks, CheckDone
    <2>3. CASE MaintenanceTicks \/ MaintenanceDone \/ MaintenanceJoins
      BY <2>3, TasksInv DEF MaintenanceTicks, MaintenanceDone, MaintenanceJoins
    <2> QED BY <1>2, <2>1, <2>2, <2>3 DEF TaskStep
  <1>3. CASE Signal \/ ServerFails \/ Drained
    BY <1>3, TasksInv DEF Signal, ServerFails, Drained, taskVars, ServerInv, ServerTypeOK
  <1>4. CASE StopCleanup \/ StopMaintenance
    BY <1>4, TasksInv DEF StopCleanup, StopMaintenance, ServerInv, ServerTypeOK, TaskStates
  <1>5. CASE Exit
    BY <1>5, ExitInv
  <1>6. CASE Restart
    BY <1>6, RestartInv
  <1>7. CASE UNCHANGED serverVars
    BY <1>7, TasksInv DEF serverVars, requestVars, ServerInv, ServerTypeOK
  <1> QED BY <1>1, <1>2, <1>3, <1>4, <1>5, <1>6, <1>7 DEF ServerNext, ShutdownStep
-----------------------------------------------------------------------------
(***************************************************************************)
(* Theorems                                                                *)
(***************************************************************************)

\* The invariant holds in every behaviour of the process: of the interleaved
\* requests, tasks, signals, shutdowns and restarts.
THEOREM ServerInvariant == ServerSpec => []ServerInv
  <1>1. ServerInit => ServerInv
    BY InitInv
  <1>2. ServerInv /\ [ServerNext]_serverVars => ServerInv'
    BY NextInv
  <1> QED BY <1>1, <1>2, PTL DEF ServerSpec

\* Requests, tasks and budgets keep their shape.
THEOREM ServerTypes == ServerSpec => []ServerTypeOK
  <1>1. ServerInv => ServerTypeOK
    BY DEF ServerInv
  <1> QED BY <1>1, ServerInvariant, PTL

\* Each budget's permits are free or with one request that is in its handler
\* (middleware.rs), however many requests and permits there are.
THEOREM PermitsAreReturned == ServerSpec => []AdmissionAccounted
  <1>1. ServerInv => AdmissionAccounted
    BY DEF ServerInv, Accounted, Held, AliveHolds, AdmissionAccounted
  <1> QED BY <1>1, ServerInvariant, PTL

\* kill_on_drop leaves no ffmpeg child whose request is gone, not even at a
\* shutdown that drops the connections.
THEOREM ChildrenDieWithRequests == ServerSpec => []NoOrphanChild
  <1>1. ServerInv => NoOrphanChild
    BY DEF ServerInv
  <1> QED BY <1>1, ServerInvariant, PTL

\* When no permit of the readiness budget is free, the probes that hold them
\* are exactly the ones in their handler.
LEMMA ReadinessFull ==
    ASSUME ServerInv, permits["readiness"] = 0
    PROVE  Cardinality({q \in Requests : requests[q].pc \in Alive /\ requests[q].route = "ready"})
             = ReadinessLimit
  <1>1. Held("readiness") = {q \in Requests : requests[q].pc \in Alive /\ requests[q].route = "ready"}
    <2>1. ASSUME NEW q \in Requests
          PROVE  holding[q] = "readiness" <=>
                   requests[q].pc \in Alive /\ requests[q].route = "ready"
      <3>1. CASE requests[q].pc \in Alive
        BY <3>1, ClassOfRoute DEF ServerInv, AliveHolds
      <3>2. CASE requests[q].pc \notin Alive
        BY <3>2, AdmissionAssumption DEF ServerInv, AliveHolds
      <3> QED BY <3>1, <3>2
    <2> QED BY <2>1 DEF Held
  <1>2. /\ permits["readiness"] + Cardinality(Held("readiness")) = ReadinessLimit
    BY DEF ServerInv, Accounted, Budgets, LimitOf
  <1>3. Cardinality(Held("readiness")) \in Nat
    BY HeldFinite
  <1> QED BY <1>1, <1>2, <1>3

\* Only Arrive answers overloaded.
LEMMA OnlyArriveRefuses ==
    ASSUME ServerInv, [ServerNext]_serverVars, NEW r \in Requests,
           requests'[r] # requests[r], requests'[r].answer = "overloaded"
    PROVE  \E route \in Routes :
              /\ Overloaded(route)
              /\ requests'[r].route = route
  <1>0. requests \in [Requests -> RequestTypes]
    BY DEF ServerInv, ServerTypeOK, RequestTypes
  <1>1. ASSUME NEW q \in Requests, NEW route \in Routes, Arrive(q, route)
        PROVE  Overloaded(route) /\ requests'[r].route = route
    <2>1. CASE Overloaded(route) /\ requests' = [requests EXCEPT ![q] =
                [pc |-> "ended", route |-> route, answer |-> "overloaded"]]
      BY <2>1, <1>0
    <2>2. CASE requests' = [requests EXCEPT ![q] =
                [pc |-> "working", route |-> route, answer |-> "none"]]
      BY <2>2, <1>0
    <2> QED BY <1>1, <2>1, <2>2 DEF Arrive
  <1>2. ASSUME NEW q \in Requests, SpawnChild(q) \/ ChildDone(q) PROVE FALSE
    <2>1. requests[q].answer = "none"
      BY <1>2 DEF ServerInv, AliveHolds, SpawnChild, ChildDone, AtPc, Alive
    <2>2. PICK pc : requests' = [requests EXCEPT ![q].pc = pc]
      BY <1>2 DEF SpawnChild, ChildDone, Go
    <2> QED BY <2>1, <2>2, <1>0 DEF RequestTypes
  <1>3. ASSUME NEW rs \in SUBSET Requests, Leave(rs) PROVE FALSE
    BY <1>3, LeaveKeeps
  <1>4. ASSUME NEW q \in Requests, Answer(q) \/ Deadline(q) \/ Panic(q) \/ Disconnect(q)
        PROVE  FALSE
    BY <1>3, <1>4 DEF Answer, Deadline, Panic, Disconnect
  <1>5. ~Exit
    BY <1>3 DEF Exit
  <1>6. ~UNCHANGED requestVars
    BY DEF requestVars
  <1>7. ~TaskStep /\ ~Signal /\ ~ServerFails /\ ~Drained /\ ~StopCleanup /\ ~StopMaintenance
        /\ ~Restart /\ ~UNCHANGED serverVars
    BY <1>6 DEF TaskStep, CleanupTicks, CleanupDone, CheckTicks, CheckDone, MaintenanceTicks,
         MaintenanceDone, MaintenanceJoins, Signal, ServerFails, Drained, StopCleanup,
         StopMaintenance, Restart, serverVars, requestVars
  <1> QED BY <1>1, <1>2, <1>4, <1>5, <1>7 DEF ServerNext, RequestStep, ShutdownStep

\* Speech work never makes a probe look overloaded: a readiness probe is
\* refused only while as many others as its own budget allows are under way,
\* and the liveness probe never is.
THEOREM ProbesStayObservable == ServerSpec => ReadinessStaysObservable
  <1> DEFINE Step == \A r \in Requests :
        requests'[r] # requests[r] /\ requests'[r].answer = "overloaded" =>
          /\ requests'[r].route # "live"
          /\ requests'[r].route = "ready" =>
               Cardinality({q \in Requests : requests[q].pc \in Alive /\ requests[q].route = "ready"})
                 = ReadinessLimit
  <1>1. ServerInv /\ [ServerNext]_serverVars => [Step]_serverVars
    <2> SUFFICES ASSUME ServerInv, [ServerNext]_serverVars, NEW r \in Requests,
                        requests'[r] # requests[r], requests'[r].answer = "overloaded"
                 PROVE  /\ requests'[r].route # "live"
                        /\ requests'[r].route = "ready" => Cardinality({q \in Requests :
                               requests[q].pc \in Alive /\ requests[q].route = "ready"})
                               = ReadinessLimit
      OBVIOUS
    <2>1. PICK route \in Routes : Overloaded(route) /\ requests'[r].route = route
      BY OnlyArriveRefuses
    <2>2. route # "live"
      BY <2>1, ClassOfRoute DEF Overloaded
    <2>3. route = "ready" => permits["readiness"] = 0
      BY <2>1, ClassOfRoute DEF Overloaded
    <2> QED BY <2>1, <2>2, <2>3, ReadinessFull
  <1> QED BY <1>1, ServerInvariant, PTL DEF ServerSpec, ReadinessStaysObservable
-----------------------------------------------------------------------------
(***************************************************************************)
(* The ffmpeg child of a request                                           *)
(***************************************************************************)

\* Every block the child wrote is in the pipe or received, and the reader of a
\* transcoded output takes one block more than the limit at most.
BlocksAccounted ==
    /\ stdout.made = stdout.held + stdout.got
    /\ stderr.made = stderr.held + stderr.got
    /\ mode = "transcode" => stdout.got <= OutputLimit + 1
    /\ stderr.got <= DiagnosticLimit + 1

\* What the end of a future says about its pipe and about the child.
FuturesFit ==
    /\ stdin.open <=> outcomes.write = "pending"
    /\ outcomes.write = "ok" => stdin.left = 0
    /\ mode # "ready" => (stdout.open <=> outcomes.output = "pending")
    /\ mode # "ready" => (stderr.open <=> outcomes.diagnostics = "pending")
    /\ mode = "ready" => ~stdout.open /\ ~stderr.open /\ outcomes.output = "ok"
                         /\ outcomes.diagnostics = "ok"
    /\ mode # "ready" /\ outcomes.output = "ok" =>
         /\ stdout.held = 0 /\ child \notin ChildAlive
         /\ mode = "transcode" => stdout.got <= OutputLimit
    /\ outcomes.output = "tooLarge" => mode = "transcode"
    /\ outcomes.wait = "success" => child = "success"
    /\ outcomes.wait = "failure" => child \notin ChildAlive

\* The child is killed only when the operation is over.
KilledAtTheEnd == child = "killed" => result # "none"

\* The inductive invariant.
FfmpegInv ==
    /\ FfmpegTypeOK
    /\ BlocksAccounted
    /\ FuturesFit
    /\ KilledAtTheEnd
    /\ TranscodeIsComplete

USE FfmpegAssumption

\* The fields of the variables, one by one.
LEMMA FfmpegFields ==
  ASSUME FfmpegTypeOK
  PROVE  /\ stdin.left \in 0 .. Input /\ stdin.held \in 0 .. PipeSize /\ stdin.open \in BOOLEAN
         /\ stdout.held \in 0 .. PipeSize /\ stdout.got \in 0 .. MostOutput
         /\ stdout.made \in 0 .. MostOutput /\ stdout.open \in BOOLEAN
         /\ stderr.held \in 0 .. PipeSize /\ stderr.got \in 0 .. MostDiagnostic
         /\ stderr.made \in 0 .. MostDiagnostic /\ stderr.open \in BOOLEAN
  BY DEF FfmpegTypeOK

\* The spawned child's pipes are empty and nothing has ended.
LEMMA FfmpegInitInv == FfmpegInit => FfmpegInv
  <1> SUFFICES ASSUME FfmpegInit PROVE FfmpegInv
    OBVIOUS
  <1>1. /\ outcomes.write = "pending" /\ outcomes.wait = "pending"
        /\ outcomes.output = IF mode = "ready" THEN "ok" ELSE "pending"
        /\ outcomes.diagnostics = IF mode = "ready" THEN "ok" ELSE "pending"
    BY DEF FfmpegInit, Pending
  <1>2. FfmpegTypeOK
    <2>1. outcomes \in [write : {"pending", "ok", "error"},
                        output : {"pending", "ok", "tooLarge"},
                        diagnostics : {"pending", "ok"},
                        wait : {"pending", "success", "failure"}]
      BY DEF FfmpegInit, Pending
    <2>2. stdin \in [left : 0 .. Input, held : 0 .. PipeSize, open : BOOLEAN]
      BY DEF FfmpegInit
    <2> QED BY <2>1, <2>2 DEF FfmpegInit, FfmpegTypeOK, ChildAlive, Modes, Results
  <1>3. BlocksAccounted
    BY DEF FfmpegInit, BlocksAccounted
  <1>4. FuturesFit
    <2>1. /\ stdin.open /\ child = "decoding"
          /\ stdout.open <=> mode # "ready"
          /\ stderr.open <=> mode # "ready"
      BY DEF FfmpegInit
    <2> QED BY <1>1, <2>1 DEF FuturesFit
  <1> QED BY <1>2, <1>3, <1>4 DEF FfmpegInit, FfmpegInv, KilledAtTheEnd, TranscodeIsComplete

\* A block of input goes into the pipe.
LEMMA WriteInputInv == ASSUME FfmpegInv, WriteInput PROVE FfmpegInv'
  <1>0. FfmpegTypeOK /\ BlocksAccounted /\ FuturesFit /\ KilledAtTheEnd /\ TranscodeIsComplete
    BY DEF FfmpegInv
  <1>1. stdin' = [left |-> stdin.left - 1, held |-> stdin.held + 1, open |-> stdin.open]
    BY <1>0 DEF FfmpegTypeOK, WriteInput
  <1>2. FfmpegTypeOK'
    BY <1>0, <1>1, FfmpegFields DEF FfmpegTypeOK, WriteInput
  <1>3. BlocksAccounted'
    BY <1>0, <1>1, FfmpegFields DEF BlocksAccounted, WriteInput
  <1>4. FuturesFit'
    BY <1>0, <1>1, FfmpegFields DEF FuturesFit, WriteInput, ChildAlive
  <1>5. (KilledAtTheEnd /\ TranscodeIsComplete)'
    BY <1>0, <1>1 DEF KilledAtTheEnd, TranscodeIsComplete, WriteInput, Waiting
  <1> QED BY <1>2, <1>3, <1>4, <1>5 DEF FfmpegInv

\* The input is written.
LEMMA WriteEndsInv == ASSUME FfmpegInv, WriteEnds PROVE FfmpegInv'
  <1>0. FfmpegTypeOK /\ BlocksAccounted /\ FuturesFit /\ KilledAtTheEnd /\ TranscodeIsComplete
    BY DEF FfmpegInv
  <1>1. /\ stdin' = [left |-> stdin.left, held |-> stdin.held, open |-> FALSE]
        /\ outcomes' = [write |-> "ok", output |-> outcomes.output,
                     diagnostics |-> outcomes.diagnostics, wait |-> outcomes.wait]
    BY <1>0 DEF FfmpegTypeOK, WriteEnds, Outcome
  <1>2. FfmpegTypeOK'
    BY <1>0, <1>1, FfmpegFields DEF FfmpegTypeOK, WriteEnds
  <1>3. BlocksAccounted'
    BY <1>0, <1>1, FfmpegFields DEF BlocksAccounted, WriteEnds
  <1>4. FuturesFit'
    BY <1>0, <1>1, FfmpegFields DEF FuturesFit, WriteEnds, ChildAlive
  <1>5. (KilledAtTheEnd /\ TranscodeIsComplete)'
    BY <1>0, <1>1 DEF KilledAtTheEnd, TranscodeIsComplete, WriteEnds, Waiting
  <1> QED BY <1>2, <1>3, <1>4, <1>5 DEF FfmpegInv

\* The input cannot be written.
LEMMA WriteBreaksInv == ASSUME FfmpegInv, WriteBreaks PROVE FfmpegInv'
  <1>0. FfmpegTypeOK /\ BlocksAccounted /\ FuturesFit /\ KilledAtTheEnd /\ TranscodeIsComplete
    BY DEF FfmpegInv
  <1>1. /\ stdin' = [left |-> stdin.left, held |-> stdin.held, open |-> FALSE]
        /\ outcomes' = [write |-> "error", output |-> outcomes.output,
                     diagnostics |-> outcomes.diagnostics, wait |-> outcomes.wait]
    BY <1>0 DEF FfmpegTypeOK, WriteBreaks, Outcome
  <1>2. FfmpegTypeOK'
    BY <1>0, <1>1, FfmpegFields DEF FfmpegTypeOK, WriteBreaks
  <1>3. BlocksAccounted'
    BY <1>0, <1>1, FfmpegFields DEF BlocksAccounted, WriteBreaks
  <1>4. FuturesFit'
    BY <1>0, <1>1, FfmpegFields DEF FuturesFit, WriteBreaks, ChildAlive
  <1>5. (KilledAtTheEnd /\ TranscodeIsComplete)'
    BY <1>0, <1>1 DEF KilledAtTheEnd, TranscodeIsComplete, WriteBreaks, Waiting
  <1> QED BY <1>2, <1>3, <1>4, <1>5 DEF FfmpegInv

\* A block of output is received.
LEMMA ReadOutputInv == ASSUME FfmpegInv, ReadOutput PROVE FfmpegInv'
  <1>0. FfmpegTypeOK /\ BlocksAccounted /\ FuturesFit /\ KilledAtTheEnd /\ TranscodeIsComplete
    BY DEF FfmpegInv
  <1>1. /\ stdout' = [held |-> stdout.held - 1, got |-> stdout.got + 1, made |-> stdout.made, open |-> stdout.open]
        /\ stdout.held > 0
    BY <1>0 DEF FfmpegTypeOK, ReadOutput
  <1>2. FfmpegTypeOK'
    BY <1>0, <1>1, FfmpegFields DEF FfmpegTypeOK, ReadOutput, BlocksAccounted
  <1>3. BlocksAccounted'
    BY <1>0, <1>1, FfmpegFields DEF BlocksAccounted, ReadOutput, ReadLimit
  <1>4. FuturesFit'
    BY <1>0, <1>1, FfmpegFields DEF FuturesFit, ReadOutput, ChildAlive
  <1>5. (KilledAtTheEnd /\ TranscodeIsComplete)'
    BY <1>0, <1>1 DEF KilledAtTheEnd, TranscodeIsComplete, ReadOutput, Waiting
  <1> QED BY <1>2, <1>3, <1>4, <1>5 DEF FfmpegInv

\* The output ends, or is too large.
LEMMA ReadOutputEndsInv == ASSUME FfmpegInv, ReadOutputEnds PROVE FfmpegInv'
  <1>0. FfmpegTypeOK /\ BlocksAccounted /\ FuturesFit /\ KilledAtTheEnd /\ TranscodeIsComplete
    BY DEF FfmpegInv
  <1>1. /\ stdout' = [held |-> stdout.held, got |-> stdout.got, made |-> stdout.made, open |-> FALSE]
        /\ LET ends == IF mode = "transcode" /\ stdout.got > OutputLimit THEN "tooLarge" ELSE "ok"
           IN  outcomes' = [write |-> outcomes.write, output |-> ends,
                            diagnostics |-> outcomes.diagnostics, wait |-> outcomes.wait]
    BY <1>0 DEF FfmpegTypeOK, ReadOutputEnds, Outcome
  <1>2. FfmpegTypeOK'
    BY <1>0, <1>1, FfmpegFields DEF FfmpegTypeOK, ReadOutputEnds
  <1>3. BlocksAccounted'
    BY <1>0, <1>1, FfmpegFields DEF BlocksAccounted, ReadOutputEnds, ReadLimit
  <1>4. FuturesFit'
    BY <1>0, <1>1, FfmpegFields DEF FuturesFit, ReadOutputEnds, ChildAlive, BlocksAccounted,
       ReadLimit
  <1>5. (KilledAtTheEnd /\ TranscodeIsComplete)'
    BY <1>0, <1>1 DEF KilledAtTheEnd, TranscodeIsComplete, ReadOutputEnds, Waiting
  <1> QED BY <1>2, <1>3, <1>4, <1>5 DEF FfmpegInv

\* A block of diagnostics is received.
LEMMA ReadDiagnosticsInv == ASSUME FfmpegInv, ReadDiagnostics PROVE FfmpegInv'
  <1>0. FfmpegTypeOK /\ BlocksAccounted /\ FuturesFit /\ KilledAtTheEnd /\ TranscodeIsComplete
    BY DEF FfmpegInv
  <1>1. /\ stderr' = [held |-> stderr.held - 1, got |-> stderr.got + 1, made |-> stderr.made, open |-> stderr.open]
        /\ stderr.held > 0
    BY <1>0 DEF FfmpegTypeOK, ReadDiagnostics
  <1>2. FfmpegTypeOK'
    BY <1>0, <1>1, FfmpegFields DEF FfmpegTypeOK, ReadDiagnostics, BlocksAccounted
  <1>3. BlocksAccounted'
    BY <1>0, <1>1, FfmpegFields DEF BlocksAccounted, ReadDiagnostics, ReadLimit
  <1>4. FuturesFit'
    BY <1>0, <1>1, FfmpegFields DEF FuturesFit, ReadDiagnostics, ChildAlive
  <1>5. (KilledAtTheEnd /\ TranscodeIsComplete)'
    BY <1>0, <1>1 DEF KilledAtTheEnd, TranscodeIsComplete, ReadDiagnostics, Waiting
  <1> QED BY <1>2, <1>3, <1>4, <1>5 DEF FfmpegInv

\* The diagnostics end, or are as long as is read.
LEMMA ReadDiagnosticsEndsInv == ASSUME FfmpegInv, ReadDiagnosticsEnds PROVE FfmpegInv'
  <1>0. FfmpegTypeOK /\ BlocksAccounted /\ FuturesFit /\ KilledAtTheEnd /\ TranscodeIsComplete
    BY DEF FfmpegInv
  <1>1. /\ stderr' = [held |-> stderr.held, got |-> stderr.got, made |-> stderr.made, open |-> FALSE]
        /\ outcomes' = [write |-> outcomes.write, output |-> outcomes.output,
                     diagnostics |-> "ok", wait |-> outcomes.wait]
    BY <1>0 DEF FfmpegTypeOK, ReadDiagnosticsEnds, Outcome
  <1>2. FfmpegTypeOK'
    BY <1>0, <1>1, FfmpegFields DEF FfmpegTypeOK, ReadDiagnosticsEnds
  <1>3. BlocksAccounted'
    BY <1>0, <1>1, FfmpegFields DEF BlocksAccounted, ReadDiagnosticsEnds, ReadLimit
  <1>4. FuturesFit'
    BY <1>0, <1>1, FfmpegFields DEF FuturesFit, ReadDiagnosticsEnds, ChildAlive
  <1>5. (KilledAtTheEnd /\ TranscodeIsComplete)'
    BY <1>0, <1>1 DEF KilledAtTheEnd, TranscodeIsComplete, ReadDiagnosticsEnds, Waiting
  <1> QED BY <1>2, <1>3, <1>4, <1>5 DEF FfmpegInv

\* The child is awaited.
LEMMA WaitEndsInv == ASSUME FfmpegInv, WaitEnds PROVE FfmpegInv'
  <1>0. FfmpegTypeOK /\ BlocksAccounted /\ FuturesFit /\ KilledAtTheEnd /\ TranscodeIsComplete
    BY DEF FfmpegInv
  <1>1. LET status == IF child = "success" THEN "success" ELSE "failure"
        IN  outcomes' = [write |-> outcomes.write, output |-> outcomes.output,
                         diagnostics |-> outcomes.diagnostics, wait |-> status]
    BY <1>0 DEF FfmpegTypeOK, WaitEnds, Outcome
  <1>2. FfmpegTypeOK'
    BY <1>0, <1>1, FfmpegFields DEF FfmpegTypeOK, WaitEnds
  <1>3. BlocksAccounted'
    BY <1>0, <1>1, FfmpegFields DEF BlocksAccounted, WaitEnds
  <1>4. FuturesFit'
    BY <1>0, <1>1, FfmpegFields DEF FuturesFit, WaitEnds, ChildAlive
  <1>5. (KilledAtTheEnd /\ TranscodeIsComplete)'
    BY <1>0, <1>1 DEF KilledAtTheEnd, TranscodeIsComplete, WaitEnds, Waiting
  <1> QED BY <1>2, <1>3, <1>4, <1>5 DEF FfmpegInv

\* The operation has a result.
LEMMA ReturnInv == ASSUME FfmpegInv, Return PROVE FfmpegInv'
  <1>0. FfmpegTypeOK /\ BlocksAccounted /\ FuturesFit /\ KilledAtTheEnd /\ TranscodeIsComplete
    BY DEF FfmpegInv
  <1>1. \/ /\ outcomes.write # "pending" /\ outcomes.output # "pending"
           /\ outcomes.diagnostics # "pending" /\ outcomes.wait # "pending"
        \/ mode = "ready" /\ outcomes.write = "error"
    BY <1>0 DEF FfmpegTypeOK, Return, Joined
  <1>2. FfmpegTypeOK'
    BY <1>0, <1>1, FfmpegFields DEF FfmpegTypeOK, Return, ChildAlive, Results, Transcoded,
       Measured, CheckedReady, Modes
  <1>3. BlocksAccounted'
    BY <1>0, <1>1, FfmpegFields DEF BlocksAccounted, Return
  <1>4. FuturesFit'
    BY <1>0, <1>1, FfmpegFields DEF FuturesFit, Return, ChildAlive
  <1>5. TranscodeIsComplete'
    <2> SUFFICES ASSUME result' = "ok"
                 PROVE  /\ stdin.left = 0 /\ child = "success"
                        /\ mode # "ready" => stdout.got = stdout.made /\ stdout.held = 0
                        /\ mode = "transcode" => stdout.got <= OutputLimit
                        /\ mode = "measure" => stdout.got > 0
      BY DEF TranscodeIsComplete, Return, ChildAlive
    <2>1. /\ outcomes.write = "ok" /\ outcomes.wait = "success"
          /\ mode # "ready" => outcomes.output = "ok"
          /\ mode = "measure" => stdout.got # 0
      <3>0. /\ outcomes.write \in {"pending", "ok", "error"}
            /\ outcomes.wait \in {"pending", "success", "failure"}
            /\ outcomes.output \in {"pending", "ok", "tooLarge"}
        BY <1>0 DEF FfmpegTypeOK
      <3>1. CASE mode = "transcode"
        <4>1. Transcoded = "ok"
          BY <3>1 DEF Return
        <4> QED BY <1>1, <3>0, <3>1, <4>1 DEF Transcoded
      <3>2. CASE mode = "measure"
        <4>1. Measured = "ok"
          BY <3>2 DEF Return
        <4>2. ~(outcomes.write = "error" \/ outcomes.wait = "failure") /\ stdout.got # 0
          BY <4>1 DEF Measured
        <4>3. outcomes.output = "ok"
          BY <1>0, <1>1, <3>0, <3>2 DEF FuturesFit
        <4> QED BY <1>1, <3>0, <3>2, <4>2, <4>3
      <3>3. CASE mode = "ready"
        BY <3>3 DEF Return, CheckedReady
      <3> QED BY <1>0, <3>1, <3>2, <3>3 DEF FfmpegTypeOK, Modes
    <2> QED BY <1>0, <2>1, FfmpegFields DEF FuturesFit, BlocksAccounted
  <1>6. KilledAtTheEnd'
    BY <1>0, <1>1 DEF KilledAtTheEnd, Return, Waiting, Transcoded, Measured, CheckedReady
  <1> QED BY <1>2, <1>3, <1>4, <1>5, <1>6 DEF FfmpegInv

\* The operation takes too long.
LEMMA TimeoutInv == ASSUME FfmpegInv, Timeout PROVE FfmpegInv'
  <1>0. FfmpegTypeOK /\ BlocksAccounted /\ FuturesFit /\ KilledAtTheEnd /\ TranscodeIsComplete
    BY DEF FfmpegInv
  <1>1. result' = "timeout"
    BY <1>0 DEF FfmpegTypeOK, Timeout
  <1>2. FfmpegTypeOK'
    BY <1>0, <1>1, FfmpegFields DEF FfmpegTypeOK, Timeout, ChildAlive, Results
  <1>3. BlocksAccounted'
    BY <1>0, <1>1, FfmpegFields DEF BlocksAccounted, Timeout
  <1>4. FuturesFit'
    BY <1>0, <1>1, FfmpegFields DEF FuturesFit, Timeout, ChildAlive
  <1>5. (KilledAtTheEnd /\ TranscodeIsComplete)'
    BY <1>0, <1>1 DEF KilledAtTheEnd, TranscodeIsComplete, Timeout, Waiting, ChildAlive
  <1> QED BY <1>2, <1>3, <1>4, <1>5 DEF FfmpegInv

\* The child takes a block of input.
LEMMA ChildReadsInv == ASSUME FfmpegInv, ChildReads PROVE FfmpegInv'
  <1>0. FfmpegTypeOK /\ BlocksAccounted /\ FuturesFit /\ KilledAtTheEnd /\ TranscodeIsComplete
    BY DEF FfmpegInv
  <1>1. stdin' = [left |-> stdin.left, held |-> stdin.held - 1, open |-> stdin.open]
    BY <1>0 DEF FfmpegTypeOK, ChildReads
  <1>2. FfmpegTypeOK'
    BY <1>0, <1>1, FfmpegFields DEF FfmpegTypeOK, ChildReads, ChildAlive
  <1>3. BlocksAccounted'
    BY <1>0, <1>1, FfmpegFields DEF BlocksAccounted, ChildReads
  <1>4. FuturesFit'
    BY <1>0, <1>1, FfmpegFields DEF FuturesFit, ChildReads, ChildAlive
  <1>5. (KilledAtTheEnd /\ TranscodeIsComplete)'
    BY <1>0, <1>1 DEF KilledAtTheEnd, TranscodeIsComplete, ChildReads, Waiting, ChildAlive
  <1> QED BY <1>2, <1>3, <1>4, <1>5 DEF FfmpegInv

\* The child is at the end of the input.
LEMMA ChildFinishesInv == ASSUME FfmpegInv, ChildFinishes PROVE FfmpegInv'
  <1>0. FfmpegTypeOK /\ BlocksAccounted /\ FuturesFit /\ KilledAtTheEnd /\ TranscodeIsComplete
    BY DEF FfmpegInv
  <1>1. child = "decoding"
    BY <1>0 DEF FfmpegTypeOK, ChildFinishes
  <1>2. FfmpegTypeOK'
    BY <1>0, <1>1, FfmpegFields DEF FfmpegTypeOK, ChildFinishes, ChildAlive
  <1>3. BlocksAccounted'
    BY <1>0, <1>1, FfmpegFields DEF BlocksAccounted, ChildFinishes
  <1>4. FuturesFit'
    BY <1>0, <1>1, FfmpegFields DEF FuturesFit, ChildFinishes, ChildAlive
  <1>5. (KilledAtTheEnd /\ TranscodeIsComplete)'
    BY <1>0, <1>1 DEF KilledAtTheEnd, TranscodeIsComplete, ChildFinishes, Waiting, ChildAlive
  <1> QED BY <1>2, <1>3, <1>4, <1>5 DEF FfmpegInv

\* The child writes output.
LEMMA ChildWritesInv == ASSUME FfmpegInv, ChildWrites PROVE FfmpegInv'
  <1>0. FfmpegTypeOK /\ BlocksAccounted /\ FuturesFit /\ KilledAtTheEnd /\ TranscodeIsComplete
    BY DEF FfmpegInv
  <1>1. /\ UNCHANGED <<mode, stdin, stderr, outcomes, result>>
        /\ \/ UNCHANGED stdout
           \/ /\ stdout.open /\ stdout.held < PipeSize /\ stdout.made < MostOutput
              /\ stdout' = [held |-> stdout.held + 1, got |-> stdout.got, made |-> stdout.made + 1, open |-> stdout.open]
    BY <1>0 DEF FfmpegTypeOK, ChildWrites
  <1>2. FfmpegTypeOK'
    BY <1>0, <1>1, FfmpegFields DEF FfmpegTypeOK, ChildWrites, ChildAlive
  <1>3. BlocksAccounted'
    BY <1>0, <1>1, FfmpegFields DEF BlocksAccounted, ChildWrites
  <1>4. FuturesFit'
    BY <1>0, <1>1, FfmpegFields DEF FuturesFit, ChildWrites, ChildAlive
  <1>5. (KilledAtTheEnd /\ TranscodeIsComplete)'
    BY <1>0, <1>1 DEF KilledAtTheEnd, TranscodeIsComplete, ChildWrites, Waiting, ChildAlive
  <1> QED BY <1>2, <1>3, <1>4, <1>5 DEF FfmpegInv

\* The child writes diagnostics.
LEMMA ChildWarnsInv == ASSUME FfmpegInv, ChildWarns PROVE FfmpegInv'
  <1>0. FfmpegTypeOK /\ BlocksAccounted /\ FuturesFit /\ KilledAtTheEnd /\ TranscodeIsComplete
    BY DEF FfmpegInv
  <1>1. /\ UNCHANGED <<mode, stdin, stdout, outcomes, result>>
        /\ \/ UNCHANGED stderr
           \/ /\ stderr.open /\ stderr.held < PipeSize /\ stderr.made < MostDiagnostic
              /\ stderr' = [held |-> stderr.held + 1, got |-> stderr.got, made |-> stderr.made + 1, open |-> stderr.open]
    BY <1>0 DEF FfmpegTypeOK, ChildWarns
  <1>2. FfmpegTypeOK'
    BY <1>0, <1>1, FfmpegFields DEF FfmpegTypeOK, ChildWarns, ChildAlive
  <1>3. BlocksAccounted'
    BY <1>0, <1>1, FfmpegFields DEF BlocksAccounted, ChildWarns
  <1>4. FuturesFit'
    BY <1>0, <1>1, FfmpegFields DEF FuturesFit, ChildWarns, ChildAlive
  <1>5. (KilledAtTheEnd /\ TranscodeIsComplete)'
    BY <1>0, <1>1 DEF KilledAtTheEnd, TranscodeIsComplete, ChildWarns, Waiting, ChildAlive
  <1> QED BY <1>2, <1>3, <1>4, <1>5 DEF FfmpegInv

\* Every step of ffmpeg and of the futures that wait for it.
LEMMA FfmpegNextInv == ASSUME FfmpegInv, [FfmpegNext]_ffmpegVars PROVE FfmpegInv'
  <1>1. CASE Futures
    BY <1>1, WriteInputInv, WriteEndsInv, WriteBreaksInv, ReadOutputInv, ReadOutputEndsInv,
       ReadDiagnosticsInv, ReadDiagnosticsEndsInv, WaitEndsInv, ReturnInv DEF Futures
  <1>2. CASE Child
    BY <1>2, ChildReadsInv, ChildFinishesInv, ChildWritesInv, ChildWarnsInv DEF Child
  <1>3. CASE Timeout
    BY <1>3, TimeoutInv
  <1>4. CASE UNCHANGED ffmpegVars
    BY <1>4 DEF ffmpegVars, FfmpegInv, FfmpegTypeOK, BlocksAccounted, FuturesFit, KilledAtTheEnd,
       TranscodeIsComplete
  <1> QED BY <1>1, <1>2, <1>3, <1>4 DEF FfmpegNext

\* The pipes are accounted for block by block, and a future that has ended says
\* what it should about its pipe and the child.
THEOREM FfmpegInvariant == FfmpegSpec => []FfmpegInv
  BY FfmpegInitInv, FfmpegNextInv, PTL DEF FfmpegSpec

\* For every input, pipe size and limit: an operation that succeeds gave ffmpeg
\* the whole input, saw it succeed and received all of its output.
THEOREM NothingIsTruncated == FfmpegSpec => []TranscodeIsComplete
  <1>1. FfmpegInv => TranscodeIsComplete
    BY DEF FfmpegInv
  <1> QED BY <1>1, FfmpegInvariant, PTL

\* The guards of the steps that move data or end a future, without ENABLED:
\* what Waveform can do ...
WaveformCanGoOn ==
    \/ outcomes.write = "pending" /\ (stdin.left = 0 \/ stdin.held < PipeSize \/ child \notin ChildAlive)
    \/ outcomes.output = "pending" /\ (stdout.held > 0 \/ child \notin ChildAlive)
    \/ outcomes.diagnostics = "pending" /\ (stderr.held > 0 \/ child \notin ChildAlive)
    \/ outcomes.wait = "pending" /\ (mode = "ready" => outcomes.write = "ok")
       /\ child \notin ChildAlive
    \/ Joined

\* ... and what the child can.
ChildCanGoOn ==
    \/ child = "decoding" /\ (stdin.held > 0 \/ EndOfInput)
    \/ child = "writing" /\ (~stdout.open \/ stdout.held < PipeSize \/ stdout.made = MostOutput)
    \/ child = "warning" /\ (~stderr.open \/ stderr.held < PipeSize \/ stderr.made = MostDiagnostic)

\* In every state, one side can go on: a child that waits for input finds
\* Waveform able to write or the input at its end, and a child that waits for
\* room in a pipe finds its reader at work, or gone.
THEOREM PipesNeverBlockBoth == FfmpegSpec => [](Waiting => WaveformCanGoOn \/ ChildCanGoOn)
  <1>1. FfmpegInv => (Waiting => WaveformCanGoOn \/ ChildCanGoOn)
    <2> SUFFICES ASSUME FfmpegInv, Waiting PROVE WaveformCanGoOn \/ ChildCanGoOn
      OBVIOUS
    <2>0. FfmpegTypeOK /\ FuturesFit
      BY DEF FfmpegInv
    <2>1. CASE child = "decoding"
      BY <2>0, <2>1, FfmpegFields DEF FuturesFit, WaveformCanGoOn, ChildCanGoOn, EndOfInput
    <2>2. CASE child = "writing"
      BY <2>0, <2>2, FfmpegFields DEF FuturesFit, WaveformCanGoOn, ChildCanGoOn
    <2>3. CASE child = "warning"
      BY <2>0, <2>3, FfmpegFields DEF FuturesFit, WaveformCanGoOn, ChildCanGoOn
    <2>4. CASE child \notin ChildAlive
      <3>1. outcomes.write = "error" \/ outcomes.write = "ok" \/ outcomes.write = "pending"
        BY <2>0 DEF FfmpegTypeOK
      <3>2. DOMAIN outcomes = {"write", "output", "diagnostics", "wait"}
        BY <2>0 DEF FfmpegTypeOK
      <3> QED BY <2>4, <3>1, <3>2 DEF WaveformCanGoOn, Joined
    <2> QED BY <2>0, <2>1, <2>2, <2>3, <2>4 DEF FfmpegTypeOK, ChildAlive
  <1> QED BY <1>1, FfmpegInvariant, PTL
-----------------------------------------------------------------------------
(***************************************************************************)
(* What the process is started with                                        *)
(***************************************************************************)

\* A service that runs has accepted its environment.
SettingsInv == service = "running" => Accepted(env)

\* What is written is written before the service starts.
LEMMA AcceptedStays == SettingsSpec => []SettingsInv
  <1>1. SettingsInit => SettingsInv
    BY DEF SettingsInit, SettingsInv
  <1>2. SettingsInv /\ [SettingsNext]_settingsVars => SettingsInv'
    <2> SUFFICES ASSUME SettingsInv, [SettingsNext]_settingsVars, service' = "running"
                 PROVE  Accepted(env')
      BY DEF SettingsInv
    <2>1. CASE Boot
      <3>1. env' = env /\ Accepted(env)
        BY <2>1 DEF Boot
      <3> QED BY <3>1
    <2>2. ASSUME NEW v, NEW x, Override(v, x) PROVE Accepted(env')
      BY <2>2 DEF Override
    <2>3. CASE UNCHANGED settingsVars
      <3>1. env' = env /\ service = "running"
        BY <2>3 DEF settingsVars
      <3> QED BY <3>1 DEF SettingsInv
    <2> QED BY <2>1, <2>2, <2>3 DEF SettingsNext
  <1> QED BY <1>1, <1>2, PTL DEF SettingsSpec

\* The timeouts are numbers when their sections have been read, whatever was
\* written: a range has been checked for each.
LEMMA CheckedTimeouts ==
  ASSUME NEW e, Accepted(e)
  PROVE  /\ \A v \in {"accounts_timeout", "statement_timeout", "briefcase_timeout",
                      "download_timeout", "audio_timeout", "gemini_tts", "elevenlabs",
                      "openai_tts", "gemini_stt", "openai_stt", "deepgram"} :
               Number(e, v) \in Nat \ {0}
         /\ \A v \in {"tts_deadline", "stt_deadline", "lease", "ttl", "retry_after"} :
               Number(e, v) \in Nat
         /\ \A v \in {"max_concurrency", "max_in_flight", "max_connections"} :
               Number(e, v) \in Nat \ {0}
  <1>1. ASSUME NEW v, NEW lo \in Nat, NEW hi \in Nat, ValidateRange(e, v),
               Bounds[v][2] = lo, Bounds[v][3] = hi
        PROVE  Number(e, v) \in lo .. hi
    BY <1>1 DEF ValidateRange
  <1>2. /\ \A v \in {"tts_deadline", "stt_deadline", "max_in_flight"} : ValidateRange(e, v)
        /\ \A v \in {"max_connections", "statement_timeout"} : ValidateRange(e, v)
        /\ ValidateRange(e, "accounts_timeout")
        /\ \A v \in {"briefcase_timeout", "download_timeout"} : ValidateRange(e, v)
    BY DEF Accepted, LoadServer, LoadDatabase, LoadAccounts, LoadBriefcase
  <1>3. /\ \A v \in {"gemini_tts", "gemini_stt", "elevenlabs", "openai_tts", "openai_stt",
                     "deepgram", "max_concurrency"} : ValidateRange(e, v)
        /\ ValidateRange(e, "audio_timeout")
        /\ \A v \in {"ttl", "lease", "retry_after"} : ValidateRange(e, v)
    BY DEF Accepted, LoadProviders, LoadAudio, LoadIdempotency
  <1>4. \A v \in {"tts_deadline", "stt_deadline", "max_in_flight", "max_connections",
                  "statement_timeout", "accounts_timeout", "briefcase_timeout",
                  "download_timeout"} : Bounds[v][2] = 1 /\ Bounds[v][3] \in Nat
    BY DEF Bounds, ServiceBounds, SpeechBounds
  <1>5. /\ \A v \in {"gemini_tts", "gemini_stt", "elevenlabs", "openai_tts", "openai_stt",
                     "deepgram", "max_concurrency", "audio_timeout", "retry_after"} :
              Bounds[v][2] = 1 /\ Bounds[v][3] \in Nat
        /\ \A v \in {"ttl", "lease"} : Bounds[v][2] \in Nat /\ Bounds[v][3] \in Nat
    BY DEF Bounds, ServiceBounds, SpeechBounds
  <1>6. \A v \in {"tts_deadline", "stt_deadline", "max_in_flight", "max_connections",
                  "statement_timeout", "accounts_timeout", "briefcase_timeout",
                  "download_timeout", "gemini_tts", "gemini_stt", "elevenlabs", "openai_tts",
                  "openai_stt", "deepgram", "max_concurrency", "audio_timeout", "retry_after"} :
           Number(e, v) \in Nat \ {0}
    <2> SUFFICES ASSUME NEW v, ValidateRange(e, v), Bounds[v][2] = 1, Bounds[v][3] \in Nat
                 PROVE  Number(e, v) \in Nat \ {0}
      BY <1>2, <1>3, <1>4, <1>5
    <2>1. Number(e, v) \in 1 .. Bounds[v][3]
      BY <1>1
    <2> QED BY <2>1
  <1>7. \A v \in {"ttl", "lease"} : Number(e, v) \in Nat
    <2> SUFFICES ASSUME NEW v, ValidateRange(e, v), Bounds[v][2] \in Nat, Bounds[v][3] \in Nat
                 PROVE  Number(e, v) \in Nat
      BY <1>3, <1>5
    <2>1. Number(e, v) \in Bounds[v][2] .. Bounds[v][3]
      BY <1>1
    <2> QED BY <2>1
  <1> QED BY <1>6, <1>7

\* validate_workflow_deadlines: whatever an operator writes, a service that runs
\* has deadlines in which the waits on everyone but the store fit at their
\* limits, with two statement timeouts and, for TTS, the headroom left; for STT
\* if the measuring of the source fits into what is left for it.
THEOREM RemoteWaitsAreCovered == SettingsSpec => []RemoteWaitsCovered
  <1>1. SettingsInv => RemoteWaitsCovered
    <2> SUFFICES ASSUME Accepted(env), service = "running" PROVE RemoteWaitsCovered
      BY DEF SettingsInv, RemoteWaitsCovered
    <2> DEFINE N(v) == Number(env, v)
    <2>1. /\ N("accounts_timeout") \in Nat \ {0} /\ N("briefcase_timeout") \in Nat \ {0}
          /\ N("statement_timeout") \in Nat /\ N("download_timeout") \in Nat
          /\ N("audio_timeout") \in Nat /\ N("gemini_tts") \in Nat /\ N("elevenlabs") \in Nat
          /\ N("openai_tts") \in Nat /\ N("gemini_stt") \in Nat /\ N("openai_stt") \in Nat
          /\ N("deepgram") \in Nat /\ N("tts_deadline") \in Nat /\ N("stt_deadline") \in Nat
      BY CheckedTimeouts
    <2>2. N("tts_deadline") >= TtsBudget(env) /\ N("stt_deadline") >= SttBudget(env)
      BY DEF Accepted, ValidateWorkflowDeadlines
    \* The third call to Accounts and Briefcase's own leave room for the lookup.
    <2>3. FirstLookupWait <= N("accounts_timeout") + N("briefcase_timeout")
      BY <2>1 DEF FirstLookupWait
    <2> QED BY <2>1, <2>2, <2>3
            DEF RemoteWaitsCovered, TtsBudget, SttBudget, TtsRemoteWaits, SttRemoteWaits,
                SignInWaits, FirstLookupWait, OrchestrationHeadroom
  <1> QED BY <1>1, AcceptedStays, PTL

\* validate_idempotency_lease and the sections: a service that runs satisfies
\* what the proofs about the speech service, the providers and the pool assume
\* of its durations and limits.
THEOREM AssumptionsAreEnforced == SettingsSpec => []AssumptionsHold
  <1>1. SettingsInv => AssumptionsHold
    <2> SUFFICES ASSUME Accepted(env), service = "running" PROVE AssumptionsHold
      BY DEF SettingsInv, AssumptionsHold
    <2>1. /\ Number(env, "max_concurrency") \in Nat \ {0}
          /\ Number(env, "max_in_flight") \in Nat \ {0}
          /\ Number(env, "max_connections") \in Nat \ {0}
          /\ Number(env, "tts_deadline") \in Nat /\ Number(env, "stt_deadline") \in Nat
          /\ Number(env, "lease") \in Nat
      BY CheckedTimeouts
    <2>2. /\ Number(env, "lease") >= Number(env, "tts_deadline")
          /\ Number(env, "lease") >= Number(env, "stt_deadline")
      BY DEF Accepted, ValidateIdempotencyLease
    <2>3. /\ Number(env, "retry_after") < Number(env, "lease")
          /\ Number(env, "lease") < Number(env, "ttl")
          /\ Number(env, "min_connections") \in 0 .. Number(env, "max_connections") - 1
      BY DEF Accepted, LoadIdempotency, LoadDatabase
    <2> QED BY <2>1, <2>2, <2>3 DEF AssumptionsHold
  <1> QED BY <1>1, AcceptedStays, PTL

\* validate_environment_safety, load_public: whatever an operator writes,
\* production uses https throughout, verifies its database, has every
\* provider's key and never answers with fixtures.
THEOREM ProductionStaysClosed == SettingsSpec => []ProductionIsClosed
  <1>1. SettingsInv => ProductionIsClosed
    <2> SUFFICES ASSUME Accepted(env), Production(env) PROVE
                   /\ \A v \in UrlVariables : Url(env, v) \in {"https", "https_path"}
                   /\ env["database_url"] = "verify_full"
                   /\ Flag(env, "speech_fixtures", "false") = "false"
                   /\ \A v \in ProviderKeys : IsSet(env, v)
      BY DEF SettingsInv, ProductionIsClosed
    <2>1. \A v \in UrlVariables : Url(env, v) \in {"https", "https_path"}
      BY DEF Accepted, ValidateEnvironmentSafety, Outward
    <2>2. env["database_url"] = "verify_full"
      BY DEF Accepted, LoadDatabase, ValidateDatabaseUrl
    <2>3. Flag(env, "speech_fixtures", "false") = "false"
      BY DEF Accepted, LoadPublic, FlagParses, Flag, ValueOr
    <2>4. \A v \in ProviderKeys : IsSet(env, v)
      BY DEF Accepted, ValidateEnvironmentSafety, ValidateFullProviderChain
    <2> QED BY <2>1, <2>2, <2>3, <2>4
  <1> QED BY <1>1, AcceptedStays, PTL
=============================================================================
