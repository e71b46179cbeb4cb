----------------------------- MODULE BugReports -----------------------------
(***************************************************************************)
(* Bug reports of one account (control/reporting.rs): submitted under an   *)
(* idempotency key and an hourly limit, mailed by the maintenance task.    *)
(* One row per key; Postmark is external and may accept a mail whose       *)
(* answer is lost.                                                         *)
(***************************************************************************)
EXTENDS Naturals, FiniteSets

CONSTANTS
    Keys,           \* idempotency keys
    Bodies,         \* report payloads
    HourlyLimit     \* reports an account may send per hour

ASSUME ReportsAssumption == IsFiniteSet(Keys) /\ HourlyLimit \in Nat \ {0}

VARIABLE reports    \* waveform_bug_reports

\* due: next_attempt_at has come; young: created within the last hour.
\* History: mails, how often Postmark took it (two stands for more); lost, an
\* attempt Postmark took was not recorded as sent.
NoReport == [status |-> "none", body |-> "none", due |-> FALSE, young |-> FALSE,
             mails |-> 0, lost |-> FALSE]

ReportsTypeOK ==
    reports \in [Keys -> [status : {"none", "queued", "sent"}, body : Bodies \cup {"none"},
                          due : BOOLEAN, young : BOOLEAN,
                          mails : 0 .. 2, lost : BOOLEAN]]

ReportsInit == reports = [k \in Keys |-> NoReport]

Young == {k \in Keys : reports[k].young}

\* The transaction of submit after its advisory lock: the same report again,
\* another report under the key, or a new row within the limit.
Resubmitted(k, body) == reports[k].status # "none" /\ reports[k].body = body
Conflicting(k, body) == reports[k].status # "none" /\ reports[k].body # body
WithinLimit == Cardinality(Young) < HourlyLimit

\* The row as it is committed.
InsertReport(k, body) ==
    reports' = [reports EXCEPT ![k] =
        [NoReport EXCEPT !.status = "queued", !.body = body, !.due = TRUE, !.young = TRUE]]

\* deliver_report: the rows it may lock.
Deliverable(k) == reports[k].status = "queued" /\ reports[k].due

Mailed(k) == reports' = [reports EXCEPT ![k].mails = IF @ = 2 THEN 2 ELSE @ + 1]

RecordSent(k) == reports' = [reports EXCEPT ![k].status = "sent", ![k].due = FALSE]

\* attempts + 1 and a back-off of at most an hour
RecordFailed(k, taken) ==
    reports' = [reports EXCEPT ![k].due = FALSE, ![k].lost = @ \/ taken]

AttemptComesDue(k) ==
    /\ reports[k].status = "queued"
    /\ ~reports[k].due
    /\ reports' = [reports EXCEPT ![k].due = TRUE]

\* An hour has passed since the report was created.
ReportAges(k) ==
    /\ reports[k].young
    /\ reports' = [reports EXCEPT ![k].young = FALSE]
=============================================================================
