---------------------------- MODULE ServerProcess ----------------------------
(***************************************************************************)
(* One API process (api/, infrastructure/runtime.rs, shutdown.rs): the     *)
(* requests it serves, each with its admission permit and perhaps an       *)
(* ffmpeg child; its background tasks; and the shutdown that drains the    *)
(* requests, stops the tasks and closes the database pool, each within a   *)
(* limit.  A process that ended may be started again.                      *)
(***************************************************************************)
EXTENDS Admission

VARIABLES
    phase,      \* how far serve_until_shutdown and run have come
    requests,   \* the requests of this process
    children,   \* requests whose ffmpeg child runs
    cleanup,    \* the task of spawn_cleanup
    check,      \* the task of run_account_check
    maintenance \* the task of spawn_maintenance

serverVars == <<permits, holding, phase, requests, children, cleanup, check, maintenance>>
requestVars == <<permits, holding, requests, children>>
taskVars == <<cleanup, check, maintenance>>

\* The cancellation tokens are cancelled when the signal or an error comes.
Cancelled == phase # "serving"
Running == phase # "exited"

NoRequest == [pc |-> "idle", route |-> "none", answer |-> "none"]

\* working: the handler awaits a service or the database; encoding: ffmpeg.
Alive == {"working", "encoding"}

\* over: an answer of any kind was written, or nobody is left to read it.
Answers == {"none", "over", "overloaded"}

\* working: the work of a tick; joining: maintenance awaits the account check.
TaskStates == {"waiting", "working", "joining", "ended"}

\* Requests, tasks and budgets keep their shape.
ServerTypeOK ==
    /\ AdmissionTypeOK
    /\ phase \in {"serving", "draining", "stopCleanup", "stopMaintenance", "closing", "exited"}
    /\ requests \in [Requests -> [pc : Alive \cup {"idle", "ended"}, route : Routes \cup {"none"},
                                  answer : Answers]]
    /\ children \subseteq Requests
    /\ cleanup \in TaskStates
    /\ check \in TaskStates
    /\ maintenance \in TaskStates

ServerInit ==
    /\ AdmissionInit
    /\ phase = "serving"
    /\ requests = [r \in Requests |-> NoRequest]
    /\ children = {}
    /\ cleanup = "waiting"
    /\ check = "waiting"
    /\ maintenance = "waiting"
-----------------------------------------------------------------------------
(***************************************************************************)
(* Requests                                                                *)
(***************************************************************************)
AtPc(r, pc) == requests[r].pc = pc /\ Running

Go(r, pc) == requests' = [requests EXCEPT ![r].pc = pc]

Ended(rs) ==
    requests' = [r \in Requests |-> IF r \in rs
                   THEN [requests[r] EXCEPT !.pc = "ended", !.answer = "over"] ELSE requests[r]]

\* The futures of rs have returned or are dropped: their permits and their
\* children (kill_on_drop) go with them.
Leave(rs) ==
    /\ Ended(rs)
    /\ ReturnPermits(rs)
    /\ children' = children \ rs

\* A request arrives; over its budget it is answered 503 at once.
Arrive(r, route) ==
    /\ phase = "serving"
    /\ requests[r].pc \in {"idle", "ended"}
    /\ \/ /\ Overloaded(route)
          /\ requests' = [requests EXCEPT ![r] =
                [pc |-> "ended", route |-> route, answer |-> "overloaded"]]
          /\ UNCHANGED <<permits, holding>>
       \/ /\ ~Overloaded(route)
          /\ requests' = [requests EXCEPT ![r] =
                [pc |-> "working", route |-> route, answer |-> "none"]]
          /\ Admit(r, route)
    /\ UNCHANGED <<phase, children, taskVars>>

\* normalize_to_mp3, source_duration, or check_ready of the readiness probe
SpawnChild(r) ==
    /\ AtPc(r, "working")
    /\ requests[r].route # "live"
    /\ children' = children \cup {r}
    /\ Go(r, "encoding")
    /\ UNCHANGED <<permits, holding, phase, taskVars>>

\* The child has ended by itself, or its own timeout killed it.
ChildDone(r) ==
    /\ AtPc(r, "encoding")
    /\ children' = children \ {r}
    /\ Go(r, "working")
    /\ UNCHANGED <<permits, holding, phase, taskVars>>

\* The handler returns, with a result or an error.
Answer(r) ==
    /\ AtPc(r, "working")
    /\ Leave({r})
    /\ UNCHANGED <<phase, taskVars>>

\* enforce_request_deadline; the liveness probe is answered without one.
Deadline(r) ==
    /\ requests[r].pc \in Alive /\ Running
    /\ requests[r].route # "live"
    /\ Leave({r})
    /\ UNCHANGED <<phase, taskVars>>

\* catch_panic: the stack unwinds, then the client is answered.
Panic(r) ==
    /\ requests[r].pc \in Alive /\ Running
    /\ Leave({r})
    /\ UNCHANGED <<phase, taskVars>>

\* The client goes away: the future of its connection is dropped.
Disconnect(r) ==
    /\ requests[r].pc \in Alive /\ Running
    /\ Leave({r})
    /\ UNCHANGED <<phase, taskVars>>
-----------------------------------------------------------------------------
(***************************************************************************)
(* Background tasks: each looks at its token before it looks at its tick   *)
(***************************************************************************)
CleanupTicks ==
    /\ Running
    /\ cleanup = "waiting"
    /\ cleanup' = IF Cancelled THEN "ended" ELSE "working"
    /\ UNCHANGED <<requestVars, phase, check, maintenance>>

\* delete_expired is dropped by the token, the held audio's batch is finished.
CleanupDone ==
    /\ Running
    /\ cleanup = "working"
    /\ cleanup' \in (IF Cancelled THEN {"ended", "waiting"} ELSE {"waiting"})
    /\ UNCHANGED <<requestVars, phase, check, maintenance>>

CheckTicks ==
    /\ Running
    /\ check = "waiting"
    /\ check' = IF Cancelled THEN "ended" ELSE "working"
    /\ UNCHANGED <<requestVars, phase, cleanup, maintenance>>

\* A batch of sweep_accounts is dropped by the token.
CheckDone ==
    /\ Running
    /\ check = "working"
    /\ check' = IF Cancelled THEN "ended" ELSE "waiting"
    /\ UNCHANGED <<requestVars, phase, cleanup, maintenance>>

MaintenanceTicks ==
    /\ Running
    /\ maintenance = "waiting"
    /\ maintenance' = IF Cancelled THEN "joining" ELSE "working"
    /\ UNCHANGED <<requestVars, phase, cleanup, check>>

\* deliver_report and sunset_contracts are not dropped by the token.
MaintenanceDone ==
    /\ Running
    /\ maintenance = "working"
    /\ maintenance' = "waiting"
    /\ UNCHANGED <<requestVars, phase, cleanup, check>>

MaintenanceJoins ==
    /\ Running
    /\ maintenance = "joining"
    /\ check = "ended"
    /\ maintenance' = "ended"
    /\ UNCHANGED <<requestVars, phase, cleanup, check>>
-----------------------------------------------------------------------------
(***************************************************************************)
(* Start and shutdown                                                      *)
(***************************************************************************)

\* SIGINT or SIGTERM: the tokens are cancelled, no connection is accepted.
Signal ==
    /\ phase = "serving"
    /\ phase' = "draining"
    /\ UNCHANGED <<requestVars, taskVars>>

\* The listener failed: the tokens are cancelled all the same.
ServerFails ==
    /\ phase = "serving"
    /\ phase' = "stopCleanup"
    /\ UNCHANGED <<requestVars, taskVars>>

\* Every connection is done, or the shutdown timeout drops the server; the
\* connections it left run on until the runtime ends.
Drained ==
    /\ phase = "draining"
    /\ phase' = "stopCleanup"
    /\ UNCHANGED <<requestVars, taskVars>>

\* Faulty variant: waits for the task however long it takes.
StopWaits ==
    /\ phase = "stopMaintenance"
    /\ maintenance = "ended"
    /\ phase' = "closing"
    /\ UNCHANGED <<requestVars, taskVars>>

\* stop_cleanup: the task ends in time or is aborted at its next await ...
StopCleanup ==
    /\ phase = "stopCleanup"
    /\ cleanup' = "ended"
    /\ phase' = "stopMaintenance"
    /\ UNCHANGED <<requestVars, check, maintenance>>

\* ... and so is maintenance; the account check is left to its token.
StopMaintenance ==
    /\ phase = "stopMaintenance"
    /\ maintenance' = "ended"
    /\ phase' = "closing"
    /\ UNCHANGED <<requestVars, cleanup, check>>

\* The process ends: after close_pool, or killed at any moment.  Its children end
\* with it: by kill_on_drop, or as the rest of the unit that systemd stops.
Exit ==
    /\ Running
    /\ phase' = "exited"
    /\ Leave({r \in Requests : requests[r].pc \in Alive})
    /\ cleanup' = "ended"
    /\ check' = "ended"
    /\ maintenance' = "ended"

\* run, again
Restart ==
    /\ phase = "exited"
    /\ phase' = "serving"
    /\ cleanup' = "waiting"
    /\ check' = "waiting"
    /\ maintenance' = "waiting"
    /\ UNCHANGED requestVars
-----------------------------------------------------------------------------
RequestStep(r) ==
    \/ \E route \in Routes : Arrive(r, route)
    \/ SpawnChild(r) \/ ChildDone(r) \/ Answer(r)
    \/ Deadline(r) \/ Panic(r) \/ Disconnect(r)

TaskStep ==
    \/ CleanupTicks \/ CleanupDone \/ CheckTicks \/ CheckDone
    \/ MaintenanceTicks \/ MaintenanceDone \/ MaintenanceJoins

ShutdownStep == Drained \/ StopCleanup \/ StopMaintenance \/ (phase = "closing" /\ Exit)

ServerNext ==
    \/ \E r \in Requests : RequestStep(r)
    \/ TaskStep
    \/ Signal \/ ServerFails \/ ShutdownStep \/ Exit \/ Restart

\* The timers of the shutdown fire whatever handlers, tasks and database do.
ServerSpec == ServerInit /\ [][ServerNext]_serverVars /\ WF_serverVars(ShutdownStep)
-----------------------------------------------------------------------------
(***************************************************************************)
(* Properties                                                              *)
(***************************************************************************)

\* Every admission permit is free or with one request that is in its handler:
\* an answer, a panic, a deadline, a client that goes away and the end of the
\* process all return it.
AdmissionAccounted ==
    /\ \A b \in Budgets : permits[b] + Cardinality({r \in Requests : holding[r] = b}) = LimitOf(b)
    /\ \A r \in Requests : holding[r] # None => requests[r].pc \in Alive

\* Speech work that takes the whole public budget leaves the probes alone
\* (middleware.rs): a readiness probe is refused only when as many others as
\* its own budget allows are under way, and the liveness probe never is.
ReadinessStaysObservable ==
    [][\A r \in Requests :
        requests'[r] # requests[r] /\ requests'[r].answer = "overloaded" =>
          /\ requests'[r].route # "live"
          /\ requests'[r].route = "ready" =>
               Cardinality({q \in Requests : requests[q].pc \in Alive /\ requests[q].route = "ready"})
                 = ReadinessLimit]_serverVars

\* No ffmpeg child outlives the request that waits for it.
NoOrphanChild == \A r \in children : requests[r].pc = "encoding" /\ Running

\* Once told to stop, the process ends, whatever its requests, its tasks and
\* the database do (stop_cleanup, close_pool).
ShutdownEnds == (phase = "draining") ~> (phase = "exited")
=============================================================================
