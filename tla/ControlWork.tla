----------------------------- MODULE ControlWork -----------------------------
(***************************************************************************)
(* The control plane's shared rows under several API processes: requests   *)
(* that pass the contract layer and submit bug reports, and the            *)
(* maintenance task of every process, which mails reports and retires the  *)
(* API version.  Any of them may be cut short at any await: a timeout, a   *)
(* client that goes away, an abort at shutdown, a crash.                   *)
(***************************************************************************)
EXTENDS BugReports, ApiContracts

CONSTANTS
    Submitters,     \* requests that submit a report
    Processes,      \* API processes
    None

ASSUME ControlAssumption == None \notin Submitters /\ None \notin Keys

VARIABLES
    submits,    \* the report requests under way
    lock,       \* pg_advisory_xact_lock of the account's reports
    deliveries  \* the report each process holds the row lock of

controlVars == <<reports, contract, submits, lock, deliveries>>

NoSubmit == [pc |-> "idle", key |-> None, body |-> "none"]

\* mailing: the row is locked; recording: Postmark has answered or not.
NoDelivery == [pc |-> "tick", key |-> None, taken |-> FALSE, sent |-> FALSE]

ControlTypeOK ==
    /\ ReportsTypeOK
    /\ ContractTypeOK
    /\ submits \in [Submitters -> [pc : {"idle", "validated", "locked"},
                                   key : Keys \cup {None}, body : Bodies \cup {"none"}]]
    /\ lock \in Submitters \cup {None}
    /\ deliveries \in [Processes -> [pc : {"tick", "mailing", "recording", "sunset"},
                                     key : Keys \cup {None}, taken : BOOLEAN, sent : BOOLEAN]]

ControlInit ==
    /\ ReportsInit
    /\ ContractInit
    /\ submits = [r \in Submitters |-> NoSubmit]
    /\ lock = None
    /\ deliveries = [p \in Processes |-> NoDelivery]
-----------------------------------------------------------------------------
\* negotiate and contract_request, then validate and the caller's check.
Negotiate(r, k, body) ==
    /\ submits[r].pc = "idle"
    /\ ContractRequest
    /\ submits' = IF Served
                  THEN [submits EXCEPT ![r] = [pc |-> "validated", key |-> k, body |-> body]]
                  ELSE submits
    /\ UNCHANGED <<reports, lock, deliveries>>

\* The request is over and its transaction, if any, rolled back or committed.
Finish(r) ==
    /\ submits' = [submits EXCEPT ![r] = NoSubmit]
    /\ lock' = IF lock = r THEN None ELSE lock

\* Faulty variant: the key and the hour are looked at without the lock.
CountUnlocked(r) ==
    /\ submits[r].pc = "validated"
    /\ \/ /\ Resubmitted(submits[r].key, submits[r].body) \/ WithinLimit
          /\ ~Conflicting(submits[r].key, submits[r].body)
          /\ submits' = [submits EXCEPT ![r].pc = "locked"]
          /\ UNCHANGED lock
       \/ /\ ~Resubmitted(submits[r].key, submits[r].body)
          /\ Conflicting(submits[r].key, submits[r].body) \/ ~WithinLimit
          /\ Finish(r)
    /\ UNCHANGED <<reports, contract, deliveries>>

\* submit takes the account's lock, then looks at the key and at the hour: a
\* conflict (409) or the limit (429) ends it.
LockAndCount(r) ==
    /\ submits[r].pc = "validated"
    /\ lock = None
    /\ \/ /\ Resubmitted(submits[r].key, submits[r].body) \/ WithinLimit
          /\ ~Conflicting(submits[r].key, submits[r].body)
          /\ submits' = [submits EXCEPT ![r].pc = "locked"]
          /\ lock' = r
       \/ /\ ~Resubmitted(submits[r].key, submits[r].body)
          /\ Conflicting(submits[r].key, submits[r].body) \/ ~WithinLimit
          /\ Finish(r)
    /\ UNCHANGED <<reports, contract, deliveries>>

\* The commit; a report that is there already is left as it is.  A client
\* that does not see the answer submits again.
CommitReport(r) ==
    /\ submits[r].pc = "locked"
    /\ IF Resubmitted(submits[r].key, submits[r].body)
       THEN UNCHANGED reports
       ELSE InsertReport(submits[r].key, submits[r].body)
    /\ Finish(r)
    /\ UNCHANGED <<contract, deliveries>>

Abandon(r) ==
    /\ submits[r].pc # "idle"
    /\ Finish(r)
    /\ UNCHANGED <<reports, contract, deliveries>>
-----------------------------------------------------------------------------
RowLocked(k) == \E p \in Processes : deliveries[p].key = k

\* Faulty variant: the row is read without FOR UPDATE SKIP LOCKED.
PickUnlocked(p) ==
    /\ deliveries[p].pc = "tick"
    /\ \/ \E k \in Keys :
             /\ Deliverable(k)
             /\ deliveries' = [deliveries EXCEPT ![p] = [NoDelivery EXCEPT !.pc = "mailing", !.key = k]]
       \/ /\ \A k \in Keys : ~Deliverable(k)
          /\ deliveries' = [deliveries EXCEPT ![p].pc = "sunset"]
    /\ UNCHANGED <<reports, contract, submits, lock>>

\* deliver_report: a due report whose row nobody has locked, if any.
PickReport(p) ==
    /\ deliveries[p].pc = "tick"
    /\ \/ \E k \in Keys :
             /\ Deliverable(k) /\ ~RowLocked(k)
             /\ deliveries' = [deliveries EXCEPT ![p] = [NoDelivery EXCEPT !.pc = "mailing", !.key = k]]
       \/ /\ \A k \in Keys : ~Deliverable(k) \/ RowLocked(k)
          /\ deliveries' = [deliveries EXCEPT ![p].pc = "sunset"]
    /\ UNCHANGED <<reports, contract, submits, lock>>

\* Postmark takes the mail or not; "sent" is a success Waveform could read.
Mail(p, taken, sent) ==
    /\ deliveries[p].pc = "mailing"
    /\ sent => taken
    /\ IF taken THEN Mailed(deliveries[p].key) ELSE UNCHANGED reports
    /\ deliveries' = [deliveries EXCEPT ![p].pc = "recording", ![p].taken = taken, ![p].sent = sent]
    /\ UNCHANGED <<contract, submits, lock>>

RecordOutcome(p) ==
    /\ deliveries[p].pc = "recording"
    /\ IF deliveries[p].sent THEN RecordSent(deliveries[p].key)
                             ELSE RecordFailed(deliveries[p].key, deliveries[p].taken)
    /\ deliveries' = [deliveries EXCEPT ![p] = [NoDelivery EXCEPT !.pc = "sunset"]]
    /\ UNCHANGED <<contract, submits, lock>>

\* The transaction fails, the task is aborted or the process dies: the row is
\* unlocked as it was, to be mailed again.
DeliveryLost(p) ==
    /\ deliveries[p].pc \in {"mailing", "recording"}
    /\ reports' = [reports EXCEPT ![deliveries[p].key].lost = @ \/ deliveries[p].taken]
    /\ deliveries' = [deliveries EXCEPT ![p] = NoDelivery]
    /\ UNCHANGED <<contract, submits, lock>>

\* The tick ends, once an hour with sunset_contracts.
SunsetTick(p) ==
    /\ deliveries[p].pc = "sunset"
    /\ Sunset \/ UNCHANGED contract
    /\ deliveries' = [deliveries EXCEPT ![p] = NoDelivery]
    /\ UNCHANGED <<reports, submits, lock>>

\* The clock, and the operator's command.
Outside ==
    /\ \/ (\E k \in Keys : AttemptComesDue(k) \/ ReportAges(k)) /\ UNCHANGED contract
       \/ (Deprecate \/ DeprecateSuccessor \/ QuietDay) /\ UNCHANGED reports
    /\ UNCHANGED <<submits, lock, deliveries>>
-----------------------------------------------------------------------------
SubmitStep(r) ==
    \/ \E k \in Keys, body \in Bodies : Negotiate(r, k, body)
    \/ LockAndCount(r) \/ CommitReport(r) \/ Abandon(r)

DeliveryStep(p) ==
    \/ PickReport(p) \/ RecordOutcome(p) \/ DeliveryLost(p) \/ SunsetTick(p)
    \/ \E taken, sent \in BOOLEAN : Mail(p, taken, sent)

ControlNext ==
    \/ \E r \in Submitters : SubmitStep(r)
    \/ \E p \in Processes : DeliveryStep(p)
    \/ Outside

ControlSpec == ControlInit /\ [][ControlNext]_controlVars
-----------------------------------------------------------------------------
(***************************************************************************)
(* Properties                                                              *)
(***************************************************************************)

\* Two processes never mail the same report at the same time: it is mailed
\* again only after an attempt that Postmark took went unrecorded.
MailedTwiceOnlyAfterLoss == \A k \in Keys : reports[k].mails > 1 => reports[k].lost

\* At most HourlyLimit reports of an account within an hour, also when they
\* are submitted at the same time.
HourlyLimitHolds == Cardinality(Young) <= HourlyLimit

\* "Traffic at the boundary cannot revive a version whose quiet period has
\* elapsed" (contracts.rs): from there it is retired, or waits only for its
\* successor.
QuietPeriodStands ==
    [][MaySunset /\ contract' # contract =>
         contract'.state = "sunset" \/ contract'.successor # contract.successor]_controlVars
=============================================================================
