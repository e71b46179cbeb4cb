--------------------------- MODULE ControlTheorems ---------------------------
(***************************************************************************)
(* Proofs about ControlWork: its types, the hourly limit of bug reports,   *)
(* that two processes never mail one report, and that traffic does not     *)
(* revive an API version whose quiet period has passed.                    *)
(***************************************************************************)
EXTENDS ControlWork, FiniteSetTheorems, TLAPS

\* The shapes of ControlTypeOK.
ReportTypes == [status : {"none", "queued", "sent"}, body : Bodies \cup {"none"},
                due : BOOLEAN, young : BOOLEAN, mails : 0 .. 2, lost : BOOLEAN]
SubmitTypes == [pc : {"idle", "validated", "locked"}, key : Keys \cup {None},
                body : Bodies \cup {"none"}]
DeliveryTypes == [pc : {"tick", "mailing", "recording", "sunset"}, key : Keys \cup {None},
                  taken : BOOLEAN, sent : BOOLEAN]

\* A request past the checks of submit has the account's lock, and what it
\* saw under the lock still holds.
LockedSubmits ==
    \A r \in Submitters :
        /\ submits[r].pc # "idle" => submits[r].key \in Keys /\ submits[r].body \in Bodies
        /\ submits[r].pc = "locked" =>
             /\ lock = r
             /\ ~Conflicting(submits[r].key, submits[r].body)
             /\ Resubmitted(submits[r].key, submits[r].body) \/ WithinLimit

InDelivery(p) == deliveries[p].pc \in {"mailing", "recording"}

\* A process in a delivery has the lock of a queued row, alone.
DeliveriesLocked ==
    \A p \in Processes :
        /\ deliveries[p].key \in Keys <=> InDelivery(p)
        /\ InDelivery(p) => reports[deliveries[p].key].status = "queued"
        /\ \A q \in Processes : InDelivery(p) /\ deliveries[q].key = deliveries[p].key => q = p
        /\ deliveries[p].taken => deliveries[p].pc = "recording"
        /\ deliveries[p].sent => deliveries[p].taken

\* The process that has mailed report k and not yet recorded it.
Recording(p, k) == deliveries[p].key = k /\ deliveries[p].pc = "recording" /\ deliveries[p].taken

\* A report that was mailed and is not sent is about to be recorded, or an
\* attempt of it was lost.
MailedIsKnown ==
    \A k \in Keys :
        reports[k].mails > 0 /\ reports[k].status # "sent" /\ ~reports[k].lost =>
            \E p \in Processes : Recording(p, k)

\* The inductive invariant.
ControlInv ==
    /\ ControlTypeOK
    /\ LockedSubmits
    /\ HourlyLimitHolds
    /\ DeliveriesLocked
    /\ MailedIsKnown
    /\ MailedTwiceOnlyAfterLoss
-----------------------------------------------------------------------------
(***************************************************************************)
(* The operators the model is built from                                   *)
(***************************************************************************)

\* The reports within the hour are finitely many.
LEMMA YoungFinite ==
    /\ IsFiniteSet(Young)
    /\ Cardinality(Young) \in Nat
    /\ Young \subseteq Keys
  <1>1. Young \subseteq Keys
    BY DEF Young
  <1>2. IsFiniteSet(Young)
    BY <1>1, FS_Subset, ReportsAssumption
  <1> QED BY <1>1, <1>2, FS_CardinalityType

\* Fewer reports within the hour are not more than the limit.
LEMMA YoungShrinks ==
    ASSUME Young' \subseteq Young
    PROVE  /\ HourlyLimitHolds => HourlyLimitHolds'
           /\ WithinLimit => WithinLimit'
  <1>1. Young' \in SUBSET Young
    OBVIOUS
  <1>2. Cardinality(Young') <= Cardinality(Young) /\ IsFiniteSet(Young')
    BY <1>1, YoungFinite, FS_Subset
  <1>3. Cardinality(Young') \in Nat
    BY <1>2, FS_CardinalityType
  <1> QED BY <1>2, <1>3, YoungFinite, ReportsAssumption DEF HourlyLimitHolds, WithinLimit

\* The three parts of the type invariant, by record.
LEMMA TypesOf ==
    ControlTypeOK <=> /\ reports \in [Keys -> ReportTypes]
                      /\ ContractTypeOK
                      /\ submits \in [Submitters -> SubmitTypes]
                      /\ lock \in Submitters \cup {None}
                      /\ deliveries \in [Processes -> DeliveryTypes]
  BY DEF ControlTypeOK, ReportsTypeOK, ReportTypes, SubmitTypes, DeliveryTypes

\* The type invariant of the next state, part by part.
LEMMA TypesOfNext ==
    ControlTypeOK' <=> /\ reports' \in [Keys -> ReportTypes]
                       /\ ContractTypeOK'
                       /\ submits' \in [Submitters -> SubmitTypes]
                       /\ lock' \in Submitters \cup {None}
                       /\ deliveries' \in [Processes -> DeliveryTypes]
  BY DEF ControlTypeOK, ReportsTypeOK, ReportTypes, SubmitTypes, DeliveryTypes

\* What an update of one row of reports may do while requests are past their
\* checks: it keeps the content of the row and makes no report young.
RowKept(k) ==
    /\ reports' \in [Keys -> ReportTypes]
    /\ \A j \in Keys \ {k} : reports'[j] = reports[j]
    /\ reports'[k].body = reports[k].body
    /\ reports'[k].young => reports[k].young
    /\ reports'[k].status # "none" <=> reports[k].status # "none"

\* Such an update leaves the checks of the requests as they were.
LEMMA RowKeptSubmits ==
    ASSUME ControlInv, NEW k \in Keys, RowKept(k), UNCHANGED <<submits, lock>>
    PROVE  LockedSubmits' /\ HourlyLimitHolds'
  <1>1. Young' \subseteq Young
    BY DEF Young, RowKept
  <1>2. HourlyLimitHolds' /\ (WithinLimit => WithinLimit')
    BY <1>1, YoungShrinks DEF ControlInv
  <1>3. ASSUME NEW j \in Keys, NEW body
        PROVE  /\ Conflicting(j, body)' => Conflicting(j, body)
               /\ Resubmitted(j, body) => Resubmitted(j, body)'
    BY DEF Conflicting, Resubmitted, RowKept
  <1>4. LockedSubmits'
    <2> SUFFICES ASSUME NEW r \in Submitters
                 PROVE  /\ submits[r].pc # "idle" => submits[r].key \in Keys /\ submits[r].body \in Bodies
                        /\ submits[r].pc = "locked" =>
                             /\ lock = r
                             /\ ~Conflicting(submits[r].key, submits[r].body)'
                             /\ Resubmitted(submits[r].key, submits[r].body)' \/ WithinLimit'
      BY DEF LockedSubmits, Conflicting, Resubmitted
    <2> QED BY <1>2, <1>3 DEF ControlInv, LockedSubmits
  <1> QED BY <1>2, <1>4

\* The clock writes one row, and neither its mails nor whether it is sent.
LEMMA RowKeptDeliveries ==
    ASSUME ControlInv, NEW k \in Keys, RowKept(k), UNCHANGED deliveries,
           reports'[k].status = reports[k].status, reports'[k].mails = reports[k].mails,
           reports'[k].lost = reports[k].lost
    PROVE  DeliveriesLocked' /\ MailedIsKnown' /\ MailedTwiceOnlyAfterLoss'
  <1>1. \A j \in Keys : /\ reports'[j].status = reports[j].status
                        /\ reports'[j].mails = reports[j].mails
                        /\ reports'[j].lost = reports[j].lost
    BY DEF RowKept
  <1>2. DeliveriesLocked'
    BY <1>1 DEF ControlInv, DeliveriesLocked, InDelivery
  <1>3. MailedIsKnown' /\ MailedTwiceOnlyAfterLoss'
    BY <1>1 DEF ControlInv, MailedIsKnown, MailedTwiceOnlyAfterLoss, Recording
  <1> QED BY <1>2, <1>3

\* Finish ends one request and releases its lock.
LEMMA FinishEffect ==
    ASSUME ControlTypeOK, NEW r \in Submitters, Finish(r)
    PROVE  /\ submits' \in [Submitters -> SubmitTypes]
           /\ submits'[r] = NoSubmit
           /\ \A s \in Submitters \ {r} : submits'[s] = submits[s]
           /\ lock' \in Submitters \cup {None}
           /\ lock # r => lock' = lock
  BY TypesOf DEF Finish, NoSubmit, SubmitTypes

\* Nothing but requests and the contract changes.
LEMMA RowsUnchanged ==
    ASSUME ControlInv, UNCHANGED <<reports, deliveries>>
    PROVE  HourlyLimitHolds' /\ DeliveriesLocked' /\ MailedIsKnown' /\ MailedTwiceOnlyAfterLoss'
  BY DEF ControlInv, HourlyLimitHolds, Young, DeliveriesLocked, InDelivery, MailedIsKnown,
         Recording, MailedTwiceOnlyAfterLoss
-----------------------------------------------------------------------------
(***************************************************************************)
(* Requests                                                                *)
(***************************************************************************)

\* A request of the contract layer keeps the row's shape.
LEMMA ContractRequestType == ASSUME ContractTypeOK, ContractRequest PROVE ContractTypeOK'
  <1>1. 0 \in 0 .. QuietDays
    BY QuietAssumption
  <1> QED BY <1>1 DEF ContractTypeOK, ContractRequest, MaySunset

\* A submission begins: negotiate and contract_request.
LEMMA NegotiateInv ==
    ASSUME ControlInv, NEW r \in Submitters, NEW k \in Keys, NEW body \in Bodies,
           Negotiate(r, k, body)
    PROVE  ControlInv'
  <1>1. /\ ContractTypeOK' /\ UNCHANGED <<reports, lock, deliveries>> /\ submits[r].pc = "idle"
    BY ContractRequestType DEF Negotiate, ControlInv, ControlTypeOK
  <1>2. /\ submits' \in [Submitters -> SubmitTypes]
        /\ submits'[r] = submits[r] \/ submits'[r] = [pc |-> "validated", key |-> k, body |-> body]
        /\ \A s \in Submitters \ {r} : submits'[s] = submits[s]
    BY TypesOf DEF Negotiate, ControlInv, SubmitTypes
  <1>3. ControlTypeOK'
    BY <1>1, <1>2, TypesOf, TypesOfNext DEF ControlInv
  <1>4. LockedSubmits'
    BY <1>1, <1>2 DEF ControlInv, LockedSubmits, Conflicting, Resubmitted, WithinLimit, Young
  <1> QED BY <1>1, <1>3, <1>4, RowsUnchanged DEF ControlInv

\* The request that ends, in an error, a refusal or a client that goes away.
LEMMA FinishInv ==
    ASSUME ControlInv, NEW r \in Submitters, Finish(r), UNCHANGED <<reports, contract, deliveries>>
    PROVE  ControlInv'
  <1>1. ControlTypeOK'
    BY FinishEffect, TypesOf, TypesOfNext DEF ControlInv, ContractTypeOK
  <1>2. LockedSubmits'
    <2> SUFFICES ASSUME NEW s \in Submitters
                 PROVE  /\ submits'[s].pc # "idle" => submits'[s].key \in Keys /\ submits'[s].body \in Bodies
                        /\ submits'[s].pc = "locked" =>
                             /\ lock' = s
                             /\ ~Conflicting(submits'[s].key, submits'[s].body)
                             /\ Resubmitted(submits'[s].key, submits'[s].body) \/ WithinLimit
      BY DEF LockedSubmits, Conflicting, Resubmitted, WithinLimit, Young
    <2>1. CASE s = r
      BY <2>1, FinishEffect DEF ControlInv, NoSubmit
    <2>2. CASE s # r
      BY <2>2, FinishEffect DEF ControlInv, LockedSubmits
    <2> QED BY <2>1, <2>2
  <1> QED BY <1>1, <1>2, RowsUnchanged DEF ControlInv

\* submit takes the lock, then counts the hour: it goes on within the limit.
LEMMA LockAndCountInv ==
    ASSUME ControlInv, NEW r \in Submitters, LockAndCount(r)
    PROVE  ControlInv'
  <1>1. CASE Finish(r)
    BY <1>1, FinishInv DEF LockAndCount
  <1>2. CASE /\ Resubmitted(submits[r].key, submits[r].body) \/ WithinLimit
             /\ ~Conflicting(submits[r].key, submits[r].body)
             /\ submits' = [submits EXCEPT ![r].pc = "locked"]
             /\ lock' = r
    <2>1. UNCHANGED <<reports, contract, deliveries>> /\ lock = None /\ submits[r].pc = "validated"
      BY DEF LockAndCount
    <2>2. /\ submits' \in [Submitters -> SubmitTypes]
          /\ submits'[r].key = submits[r].key /\ submits'[r].body = submits[r].body
          /\ \A s \in Submitters \ {r} : submits'[s] = submits[s]
      BY <1>2, TypesOf DEF ControlInv, SubmitTypes
    <2>3. ControlTypeOK'
      BY <1>2, <2>1, <2>2, TypesOf, TypesOfNext DEF ControlInv, ContractTypeOK
    <2>4. \A s \in Submitters : submits[s].pc # "locked"
      BY <2>1, ControlAssumption DEF ControlInv, LockedSubmits
    <2>5. LockedSubmits'
      <3> SUFFICES ASSUME NEW s \in Submitters
                   PROVE  /\ submits'[s].pc # "idle" => submits'[s].key \in Keys /\ submits'[s].body \in Bodies
                          /\ submits'[s].pc = "locked" =>
                               /\ lock' = s
                               /\ ~Conflicting(submits'[s].key, submits'[s].body)
                               /\ Resubmitted(submits'[s].key, submits'[s].body) \/ WithinLimit
        BY <2>1 DEF LockedSubmits, Conflicting, Resubmitted, WithinLimit, Young
      <3>1. CASE s = r
        BY <3>1, <1>2, <2>1, <2>2 DEF ControlInv, LockedSubmits
      <3>2. CASE s # r
        BY <3>2, <2>2, <2>4 DEF ControlInv, LockedSubmits
      <3> QED BY <3>1, <3>2
    <2> QED BY <2>1, <2>3, <2>5, RowsUnchanged DEF ControlInv
  <1> QED BY <1>1, <1>2 DEF LockAndCount

\* The commit under the lock: the row is new, and there was room for it.
LEMMA InsertInv ==
    ASSUME ControlInv, NEW r \in Submitters, submits[r].pc = "locked",
           ~Resubmitted(submits[r].key, submits[r].body),
           InsertReport(submits[r].key, submits[r].body),
           Finish(r), UNCHANGED <<contract, deliveries>>
    PROVE  ControlInv'
  <1> DEFINE k == submits[r].key
             body == submits[r].body
             new == [NoReport EXCEPT !.status = "queued", !.body = body, !.due = TRUE, !.young = TRUE]
  <1>1. /\ k \in Keys /\ body \in Bodies
        /\ lock = r
        /\ reports[k].status = "none"
        /\ WithinLimit
    BY DEF ControlInv, LockedSubmits, Conflicting, Resubmitted
  <1>2. /\ new \in ReportTypes
        /\ new.status = "queued" /\ new.mails = 0 /\ ~new.lost
    <2>1. 0 \in 0 .. 2
      OBVIOUS
    <2> QED BY <1>1, <2>1 DEF NoReport, ReportTypes
  <1>3. reports' = [reports EXCEPT ![k] = new]
    BY DEF InsertReport
  <1> HIDE DEF k, body, new
  <1>4. /\ reports' \in [Keys -> ReportTypes]
        /\ reports'[k] = new
        /\ \A j \in Keys \ {k} : reports'[j] = reports[j]
    BY <1>1, <1>2, <1>3, TypesOf DEF ControlInv
  <1>5. ControlTypeOK'
    BY <1>4, FinishEffect, TypesOf, TypesOfNext DEF ControlInv, ContractTypeOK
  <1>6. HourlyLimitHolds'
    <2>1. Young' \in SUBSET (Young \cup {k})
      BY <1>4 DEF Young
    <2>2. /\ IsFiniteSet(Young \cup {k})
          /\ Cardinality(Young \cup {k}) <= Cardinality(Young) + 1
      <3>1. IsFiniteSet(Young) /\ Cardinality(Young) \in Nat
        BY YoungFinite
      <3>2. /\ IsFiniteSet(Young \cup {k})
            /\ Cardinality(Young \cup {k}) =
                 IF k \in Young THEN Cardinality(Young) ELSE Cardinality(Young) + 1
        BY <3>1, FS_AddElement
      <3> QED BY <3>1, <3>2
    <2>3. Cardinality(Young') <= Cardinality(Young \cup {k}) /\ IsFiniteSet(Young')
      BY <2>1, <2>2, FS_Subset
    <2>4. /\ Cardinality(Young') \in Nat /\ Cardinality(Young \cup {k}) \in Nat
      BY <2>2, <2>3, FS_CardinalityType
    <2> QED BY <1>1, <2>2, <2>3, <2>4, YoungFinite, ReportsAssumption DEF WithinLimit, HourlyLimitHolds
  <1>7. LockedSubmits'
    <2> SUFFICES ASSUME NEW s \in Submitters
                 PROVE  /\ submits'[s].pc # "idle" => submits'[s].key \in Keys /\ submits'[s].body \in Bodies
                        /\ submits'[s].pc # "locked"
      BY DEF LockedSubmits
    <2>1. CASE s = r
      BY <2>1, FinishEffect DEF ControlInv, NoSubmit
    <2>2. CASE s # r
      BY <2>2, <1>1, FinishEffect DEF ControlInv, LockedSubmits
    <2> QED BY <2>1, <2>2
  <1>8. \A p \in Processes : deliveries[p].key # k
    BY <1>1 DEF ControlInv, DeliveriesLocked
  <1>9. DeliveriesLocked'
    BY <1>4, <1>8 DEF ControlInv, DeliveriesLocked, InDelivery
  <1>10. MailedIsKnown' /\ MailedTwiceOnlyAfterLoss'
    BY <1>2, <1>4 DEF ControlInv, MailedIsKnown, MailedTwiceOnlyAfterLoss, Recording
  <1> QED BY <1>5, <1>6, <1>7, <1>9, <1>10 DEF ControlInv

\* Every step of a submission keeps the invariant.
LEMMA SubmitInv == ASSUME ControlInv, NEW r \in Submitters, SubmitStep(r) PROVE ControlInv'
  <1>1. ASSUME NEW k \in Keys, NEW body \in Bodies, Negotiate(r, k, body) PROVE ControlInv'
    BY <1>1, NegotiateInv
  <1>2. CASE LockAndCount(r)
    BY <1>2, LockAndCountInv
  <1>3. CASE CommitReport(r)
    <2>1. CASE Resubmitted(submits[r].key, submits[r].body)
      BY <1>3, <2>1, FinishInv DEF CommitReport
    <2>2. CASE ~Resubmitted(submits[r].key, submits[r].body)
      BY <1>3, <2>2, InsertInv DEF CommitReport
    <2> QED BY <2>1, <2>2
  <1>4. CASE Abandon(r)
    BY <1>4, FinishInv DEF Abandon
  <1> QED BY <1>1, <1>2, <1>3, <1>4 DEF SubmitStep
-----------------------------------------------------------------------------
(***************************************************************************)
(* Deliveries                                                              *)
(***************************************************************************)

\* A delivery in hand is of a row that is there, and of nobody else.
LEMMA InHand ==
    ASSUME ControlInv, NEW p \in Processes, InDelivery(p)
    PROVE  /\ deliveries[p].key \in Keys
           /\ reports[deliveries[p].key].status = "queued"
           /\ \A q \in Processes \ {p} : deliveries[q].key # deliveries[p].key
           /\ deliveries[p].taken \in BOOLEAN /\ deliveries[p].sent \in BOOLEAN
           /\ deliveries[p].sent => deliveries[p].taken
  <1>1. deliveries[p] \in DeliveryTypes
    BY TypesOf DEF ControlInv
  <1>2. deliveries[p].taken \in BOOLEAN /\ deliveries[p].sent \in BOOLEAN
    BY <1>1 DEF DeliveryTypes
  <1> QED BY <1>2 DEF ControlInv, DeliveriesLocked

\* Only the delivery of one process changes, and the row it has locked.
LEMMA PickInv == ASSUME ControlInv, NEW p \in Processes, PickReport(p) PROVE ControlInv'
  <1>0. /\ deliveries[p].pc = "tick" /\ UNCHANGED <<reports, contract, submits, lock>>
        /\ deliveries \in [Processes -> DeliveryTypes]
    BY TypesOf DEF PickReport, ControlInv
  <1>1. LockedSubmits' /\ HourlyLimitHolds' /\ MailedTwiceOnlyAfterLoss'
    BY <1>0 DEF ControlInv, LockedSubmits, Conflicting, Resubmitted, WithinLimit, HourlyLimitHolds,
         Young, MailedTwiceOnlyAfterLoss
  <1>2. ASSUME NEW k \in Keys, Deliverable(k), ~RowLocked(k),
               deliveries' = [deliveries EXCEPT ![p] =
                    [NoDelivery EXCEPT !.pc = "mailing", !.key = k]]
        PROVE  ControlInv'
    <2>1. /\ deliveries' \in [Processes -> DeliveryTypes]
          /\ deliveries'[p].pc = "mailing" /\ deliveries'[p].key = k
          /\ ~deliveries'[p].taken /\ ~deliveries'[p].sent
          /\ \A q \in Processes \ {p} : deliveries'[q] = deliveries[q]
      BY <1>0, <1>2 DEF NoDelivery, DeliveryTypes
    <2>2. ControlTypeOK'
      BY <2>1, <1>0, TypesOf, TypesOfNext DEF ControlInv, ContractTypeOK
    <2>3. \A q \in Processes : deliveries[q].key # k
      BY <1>2 DEF RowLocked
    <2>4. reports'[k].status = "queued"
      BY <1>0, <1>2 DEF Deliverable
    <2>5. DeliveriesLocked'
      <3> SUFFICES ASSUME NEW q \in Processes
                   PROVE  /\ deliveries'[q].key \in Keys <=> InDelivery(q)'
                          /\ InDelivery(q)' => reports'[deliveries'[q].key].status = "queued"
                          /\ \A o \in Processes :
                               InDelivery(q)' /\ deliveries'[o].key = deliveries'[q].key => o = q
                          /\ deliveries'[q].taken => deliveries'[q].pc = "recording"
                          /\ deliveries'[q].sent => deliveries'[q].taken
        BY DEF DeliveriesLocked, InDelivery
      <3>1. CASE q = p
        BY <3>1, <2>1, <2>3, <2>4 DEF InDelivery
      <3>2. CASE q # p
        BY <3>2, <2>1, <2>3, <1>0 DEF ControlInv, DeliveriesLocked, InDelivery
      <3> QED BY <3>1, <3>2
    <2>6. MailedIsKnown'
      <3> SUFFICES ASSUME NEW j \in Keys, reports[j].mails > 0, reports[j].status # "sent",
                          ~reports[j].lost
                   PROVE  \E q \in Processes : Recording(q, j)'
        BY <1>0 DEF MailedIsKnown
      <3>1. PICK q \in Processes : Recording(q, j)
        BY DEF ControlInv, MailedIsKnown
      <3>2. q # p
        BY <3>1, <1>0 DEF Recording
      <3> QED BY <3>1, <3>2, <2>1 DEF Recording
    <2> QED BY <1>1, <2>2, <2>5, <2>6 DEF ControlInv
  <1>3. ASSUME deliveries' = [deliveries EXCEPT ![p].pc = "sunset"]
        PROVE  ControlInv'
    <2>1. /\ deliveries' \in [Processes -> DeliveryTypes]
          /\ deliveries'[p].pc = "sunset" /\ deliveries'[p].key = deliveries[p].key
          /\ deliveries'[p].taken = deliveries[p].taken /\ deliveries'[p].sent = deliveries[p].sent
          /\ \A q \in Processes \ {p} : deliveries'[q] = deliveries[q]
      BY <1>0, <1>3 DEF DeliveryTypes
    <2>2. ControlTypeOK'
      BY <2>1, <1>0, TypesOf, TypesOfNext DEF ControlInv, ContractTypeOK
    <2>3. DeliveriesLocked'
      BY <2>1, <1>0 DEF ControlInv, DeliveriesLocked, InDelivery
    <2>4. MailedIsKnown'
      BY <2>1, <1>0 DEF ControlInv, MailedIsKnown, Recording
    <2> QED BY <1>1, <2>2, <2>3, <2>4 DEF ControlInv
  <1> QED BY <1>2, <1>3 DEF PickReport

\* Postmark is asked: a report that was not lost had not been mailed.
LEMMA MailInv ==
    ASSUME ControlInv, NEW p \in Processes, NEW taken \in BOOLEAN, NEW sent \in BOOLEAN,
           Mail(p, taken, sent)
    PROVE  ControlInv'
  <1> DEFINE k == deliveries[p].key
  <1>0. /\ deliveries[p].pc = "mailing" /\ (sent => taken) /\ UNCHANGED <<contract, submits, lock>>
        /\ deliveries' = [deliveries EXCEPT ![p].pc = "recording", ![p].taken = taken, ![p].sent = sent]
        /\ deliveries \in [Processes -> DeliveryTypes] /\ reports \in [Keys -> ReportTypes]
    BY TypesOf DEF Mail, ControlInv
  <1>1. InDelivery(p)
    BY <1>0 DEF InDelivery
  <1>2. /\ k \in Keys /\ reports[k].status = "queued"
        /\ \A q \in Processes \ {p} : deliveries[q].key # k
    BY <1>1, InHand
  <1>3. IF taken THEN reports' = [reports EXCEPT ![k].mails = IF @ = 2 THEN 2 ELSE @ + 1]
                 ELSE reports' = reports
    BY DEF Mail, Mailed
  <1> HIDE DEF k
  <1>4. reports[k] \in ReportTypes /\ reports[k].mails \in 0 .. 2
    BY <1>0, <1>2 DEF ReportTypes
  <1>5. /\ reports' \in [Keys -> ReportTypes]
        /\ \A j \in Keys \ {k} : reports'[j] = reports[j]
        /\ reports'[k].body = reports[k].body
        /\ reports'[k].young = reports[k].young
        /\ reports'[k].status = reports[k].status
        /\ reports'[k].lost = reports[k].lost
        /\ reports'[k].mails = IF ~taken THEN reports[k].mails
                               ELSE IF reports[k].mails = 2 THEN 2 ELSE reports[k].mails + 1
    <2>1. CASE taken
      <3>1. (IF reports[k].mails = 2 THEN 2 ELSE reports[k].mails + 1) \in 0 .. 2
        BY <1>4
      <3> QED BY <1>0, <1>2, <1>3, <2>1, <3>1 DEF ReportTypes
    <2>2. CASE ~taken
      BY <1>0, <1>3, <2>2
    <2> QED BY <2>1, <2>2
  <1>6. /\ deliveries' \in [Processes -> DeliveryTypes]
        /\ deliveries'[p].pc = "recording" /\ deliveries'[p].key = k
        /\ deliveries'[p].taken = taken /\ deliveries'[p].sent = sent
        /\ \A q \in Processes \ {p} : deliveries'[q] = deliveries[q]
    BY <1>0 DEF DeliveryTypes, k
  <1>7. ControlTypeOK'
    BY <1>0, <1>5, <1>6, TypesOf, TypesOfNext DEF ControlInv, ContractTypeOK
  <1>8. LockedSubmits' /\ HourlyLimitHolds'
    BY <1>0, <1>2, <1>5, RowKeptSubmits DEF RowKept
  <1>9. DeliveriesLocked'
    BY <1>0, <1>2, <1>5, <1>6 DEF ControlInv, DeliveriesLocked, InDelivery
  <1>10. ~reports[k].lost => reports[k].mails = 0
    <2> SUFFICES ASSUME ~reports[k].lost, reports[k].mails > 0 PROVE FALSE
      BY <1>4
    <2>1. PICK q \in Processes : Recording(q, k)
      BY <1>2 DEF ControlInv, MailedIsKnown
    <2> QED BY <2>1, <1>0, <1>2 DEF Recording
  <1>11. MailedTwiceOnlyAfterLoss'
    BY <1>4, <1>5, <1>10 DEF ControlInv, MailedTwiceOnlyAfterLoss
  <1>12. MailedIsKnown'
    <2> SUFFICES ASSUME NEW j \in Keys, reports'[j].mails > 0, reports'[j].status # "sent",
                        ~reports'[j].lost
                 PROVE  \E q \in Processes : Recording(q, j)'
      BY DEF MailedIsKnown
    <2>1. CASE j = k
      <3>1. taken
        BY <2>1, <1>5, <1>10
      <3> QED BY <2>1, <3>1, <1>6 DEF Recording
    <2>2. CASE j # k
      <3>1. PICK q \in Processes : Recording(q, j)
        BY <2>2, <1>5 DEF ControlInv, MailedIsKnown
      <3>2. q # p
        BY <3>1, <2>2 DEF Recording, k
      <3> QED BY <3>1, <3>2, <1>6 DEF Recording
    <2> QED BY <2>1, <2>2
  <1> QED BY <1>7, <1>8, <1>9, <1>11, <1>12 DEF ControlInv

\* A delivery ends: as it is recorded, or lost with its transaction.  Unless
\* the report is sent, an attempt Postmark took is known to be lost.
LEMMA DeliveryEnds ==
    ASSUME ControlInv, NEW p \in Processes, InDelivery(p),
           UNCHANGED <<contract, submits, lock>>,
           RowKept(deliveries[p].key),
           reports'[deliveries[p].key].status \in {"queued", "sent"},
           reports'[deliveries[p].key].mails = reports[deliveries[p].key].mails,
           reports[deliveries[p].key].lost => reports'[deliveries[p].key].lost,
           reports'[deliveries[p].key].status # "sent" /\ deliveries[p].taken =>
               reports'[deliveries[p].key].lost,
           NEW over \in DeliveryTypes, over.pc \in {"tick", "sunset"}, over.key = None,
           ~over.taken, ~over.sent,
           deliveries' = [deliveries EXCEPT ![p] = over]
    PROVE  ControlInv'
  <1> DEFINE k == deliveries[p].key
  <1>0. /\ k \in Keys /\ reports[k].status = "queued"
        /\ \A q \in Processes \ {p} : deliveries[q].key # k
        /\ deliveries \in [Processes -> DeliveryTypes] /\ reports \in [Keys -> ReportTypes]
    BY InHand, TypesOf DEF ControlInv
  <1>1. /\ reports' \in [Keys -> ReportTypes]
        /\ \A j \in Keys \ {k} : reports'[j] = reports[j]
    BY DEF RowKept
  <1>2. /\ deliveries' \in [Processes -> DeliveryTypes]
        /\ deliveries'[p].pc \in {"tick", "sunset"} /\ deliveries'[p].key = None
        /\ ~deliveries'[p].taken /\ ~deliveries'[p].sent
        /\ \A q \in Processes \ {p} : deliveries'[q] = deliveries[q]
    BY <1>0
  <1>3. ControlTypeOK'
    BY <1>1, <1>2, TypesOf, TypesOfNext DEF ControlInv, ContractTypeOK
  <1>4. LockedSubmits' /\ HourlyLimitHolds'
    BY <1>0, RowKeptSubmits
  <1>5. DeliveriesLocked'
    <2> SUFFICES ASSUME NEW q \in Processes
                 PROVE  /\ deliveries'[q].key \in Keys <=> InDelivery(q)'
                        /\ InDelivery(q)' => reports'[deliveries'[q].key].status = "queued"
                        /\ \A o \in Processes :
                             InDelivery(q)' /\ deliveries'[o].key = deliveries'[q].key => o = q
                        /\ deliveries'[q].taken => deliveries'[q].pc = "recording"
                        /\ deliveries'[q].sent => deliveries'[q].taken
      BY DEF DeliveriesLocked, InDelivery
    <2>1. CASE q = p
      BY <2>1, <1>2, ControlAssumption DEF InDelivery
    <2>2. CASE q # p
      BY <2>2, <1>0, <1>1, <1>2, ControlAssumption DEF ControlInv, DeliveriesLocked, InDelivery
    <2> QED BY <2>1, <2>2
  <1>6. MailedTwiceOnlyAfterLoss'
    BY <1>0, <1>1 DEF ControlInv, MailedTwiceOnlyAfterLoss
  <1>7. MailedIsKnown'
    <2> SUFFICES ASSUME NEW j \in Keys, reports'[j].mails > 0, reports'[j].status # "sent",
                        ~reports'[j].lost
                 PROVE  \E q \in Processes : Recording(q, j)'
      BY DEF MailedIsKnown
    <2>1. reports[j].status # "sent" /\ reports[j].mails > 0 /\ ~reports[j].lost
      BY <1>0, <1>1
    <2>2. PICK q \in Processes : Recording(q, j)
      BY <2>1 DEF ControlInv, MailedIsKnown
    <2>3. q # p
      BY <2>2 DEF Recording
    <2> QED BY <2>2, <2>3, <1>2 DEF Recording
  <1> QED BY <1>3, <1>4, <1>5, <1>6, <1>7 DEF ControlInv

\* What the mailing answered is recorded, and the row is unlocked.
LEMMA RecordInv == ASSUME ControlInv, NEW p \in Processes, RecordOutcome(p) PROVE ControlInv'
  <1> DEFINE k == deliveries[p].key
  <1>0. /\ InDelivery(p) /\ UNCHANGED <<contract, submits, lock>>
        /\ deliveries' = [deliveries EXCEPT ![p] = [NoDelivery EXCEPT !.pc = "sunset"]]
    BY DEF RecordOutcome, InDelivery
  <1>1. /\ k \in Keys /\ reports[k].status = "queued"
        /\ deliveries[p].taken \in BOOLEAN /\ deliveries[p].sent \in BOOLEAN
        /\ reports \in [Keys -> ReportTypes]
    BY <1>0, InHand, TypesOf DEF ControlInv
  <1> DEFINE over == [NoDelivery EXCEPT !.pc = "sunset"]
  <1>5. /\ over \in DeliveryTypes /\ over.pc = "sunset" /\ over.key = None
        /\ ~over.taken /\ ~over.sent
    BY DEF NoDelivery, DeliveryTypes
  <1>6. deliveries' = [deliveries EXCEPT ![p] = over]
    BY <1>0
  <1> HIDE DEF over
  <1>2. CASE deliveries[p].sent
    <2>1. reports' = [reports EXCEPT ![k].status = "sent", ![k].due = FALSE]
      BY <1>2 DEF RecordOutcome, RecordSent
    <2>2. /\ RowKept(k)
          /\ reports'[k].status = "sent" /\ reports'[k].mails = reports[k].mails
          /\ reports'[k].lost = reports[k].lost
      BY <1>1, <2>1 DEF RowKept, ReportTypes
    <2> QED BY <1>0, <1>5, <1>6, <2>2, DeliveryEnds
  <1>3. CASE ~deliveries[p].sent
    <2> DEFINE lost == reports[k].lost \/ deliveries[p].taken
    <2>1. reports' = [reports EXCEPT ![k].due = FALSE, ![k].lost = lost] /\ lost \in BOOLEAN
      BY <1>3 DEF RecordOutcome, RecordFailed
    <2> HIDE DEF lost
    <2>2. /\ RowKept(k)
          /\ reports'[k].status = "queued" /\ reports'[k].mails = reports[k].mails
          /\ reports'[k].lost = lost
      BY <1>1, <2>1 DEF RowKept, ReportTypes
    <2> QED BY <1>0, <1>5, <1>6, <2>2, DeliveryEnds DEF lost
  <1> QED BY <1>2, <1>3

\* The transaction of a delivery is lost: the row is as it was.
LEMMA LostInv == ASSUME ControlInv, NEW p \in Processes, DeliveryLost(p) PROVE ControlInv'
  <1> DEFINE k == deliveries[p].key
  <1>0. /\ InDelivery(p) /\ UNCHANGED <<contract, submits, lock>>
        /\ deliveries' = [deliveries EXCEPT ![p] = NoDelivery]
        /\ reports' = [reports EXCEPT ![k].lost = @ \/ deliveries[p].taken]
    BY DEF DeliveryLost, InDelivery
  <1>1. /\ k \in Keys /\ reports[k].status = "queued"
        /\ deliveries[p].taken \in BOOLEAN
        /\ reports \in [Keys -> ReportTypes]
    BY <1>0, InHand, TypesOf DEF ControlInv
  <1>2. /\ RowKept(k)
        /\ reports'[k].status = "queued" /\ reports'[k].mails = reports[k].mails
        /\ reports'[k].lost = (reports[k].lost \/ deliveries[p].taken)
    BY <1>0, <1>1 DEF RowKept, ReportTypes
  <1>3. /\ NoDelivery \in DeliveryTypes /\ NoDelivery.pc = "tick" /\ NoDelivery.key = None
        /\ ~NoDelivery.taken /\ ~NoDelivery.sent
    BY DEF NoDelivery, DeliveryTypes
  <1> QED BY <1>0, <1>2, <1>3, DeliveryEnds

\* The tick ends with sunset_contracts.
LEMMA SunsetTickInv == ASSUME ControlInv, NEW p \in Processes, SunsetTick(p) PROVE ControlInv'
  <1>0. /\ deliveries[p].pc = "sunset" /\ UNCHANGED <<reports, submits, lock>>
        /\ deliveries' = [deliveries EXCEPT ![p] = NoDelivery]
        /\ deliveries \in [Processes -> DeliveryTypes]
    BY TypesOf DEF SunsetTick, ControlInv
  <1>1. ContractTypeOK'
    BY DEF SunsetTick, Sunset, ControlInv, ControlTypeOK, ContractTypeOK
  <1>2. /\ deliveries' \in [Processes -> DeliveryTypes]
        /\ deliveries'[p].pc = "tick" /\ deliveries'[p].key = None
        /\ ~deliveries'[p].taken /\ ~deliveries'[p].sent
        /\ \A q \in Processes \ {p} : deliveries'[q] = deliveries[q]
    BY <1>0 DEF NoDelivery, DeliveryTypes
  <1>3. ControlTypeOK'
    BY <1>0, <1>1, <1>2, TypesOf, TypesOfNext DEF ControlInv
  <1>4. LockedSubmits' /\ HourlyLimitHolds' /\ MailedTwiceOnlyAfterLoss'
    BY <1>0 DEF ControlInv, LockedSubmits, Conflicting, Resubmitted, WithinLimit, HourlyLimitHolds,
         Young, MailedTwiceOnlyAfterLoss
  <1>5. DeliveriesLocked'
    BY <1>0, <1>2, ControlAssumption DEF ControlInv, DeliveriesLocked, InDelivery
  <1>6. MailedIsKnown'
    BY <1>0, <1>2 DEF ControlInv, MailedIsKnown, Recording
  <1> QED BY <1>3, <1>4, <1>5, <1>6 DEF ControlInv
-----------------------------------------------------------------------------
(***************************************************************************)
(* The clock and the operator                                              *)
(***************************************************************************)
LEMMA OutsideInv == ASSUME ControlInv, Outside PROVE ControlInv'
  <1>0. UNCHANGED <<submits, lock, deliveries>> /\ reports \in [Keys -> ReportTypes]
    BY TypesOf DEF Outside, ControlInv
  <1>1. ASSUME NEW k \in Keys, AttemptComesDue(k) \/ ReportAges(k), UNCHANGED contract
        PROVE  ControlInv'
    <2>1. /\ RowKept(k) /\ reports'[k].status = reports[k].status
          /\ reports'[k].mails = reports[k].mails /\ reports'[k].lost = reports[k].lost
      <3>1. CASE AttemptComesDue(k)
        BY <3>1, <1>0 DEF AttemptComesDue, RowKept, ReportTypes
      <3>2. CASE ReportAges(k)
        BY <3>2, <1>0 DEF ReportAges, RowKept, ReportTypes
      <3> QED BY <1>1, <3>1, <3>2
    <2>2. ControlTypeOK'
      BY <1>0, <1>1, <2>1, TypesOf, TypesOfNext DEF RowKept, ControlInv, ContractTypeOK
    <2> QED BY <1>0, <2>1, <2>2, RowKeptSubmits, RowKeptDeliveries DEF ControlInv
  <1>2. ASSUME Deprecate \/ DeprecateSuccessor \/ QuietDay, UNCHANGED reports
        PROVE  ControlInv'
    <2>1. ContractTypeOK /\ 0 \in 0 .. QuietDays
      BY QuietAssumption DEF ControlInv, ControlTypeOK
    <2>2. ContractTypeOK'
      <3>1. CASE Deprecate
        BY <3>1, <2>1 DEF Deprecate, ContractTypeOK
      <3>2. CASE DeprecateSuccessor
        BY <3>2, <2>1 DEF DeprecateSuccessor, ContractTypeOK
      <3>3. CASE QuietDay
        <4>1. contract.quiet + 1 \in 0 .. QuietDays
          BY <3>3, <2>1, QuietAssumption DEF QuietDay, ContractTypeOK
        <4> QED BY <4>1, <3>3, <2>1 DEF QuietDay, ContractTypeOK
      <3> QED BY <1>2, <3>1, <3>2, <3>3
    <2>3. ControlTypeOK'
      BY <1>0, <1>2, <2>2, TypesOf, TypesOfNext DEF ControlInv
    <2>4. LockedSubmits'
      BY <1>0, <1>2 DEF ControlInv, LockedSubmits, Conflicting, Resubmitted, WithinLimit, Young
    <2> QED BY <1>0, <1>2, <2>3, <2>4, RowsUnchanged DEF ControlInv
  <1> QED BY <1>1, <1>2 DEF Outside
-----------------------------------------------------------------------------
(***************************************************************************)
(* Theorems                                                                *)
(***************************************************************************)
LEMMA InitInv == ControlInit => ControlInv
  <1> SUFFICES ASSUME ControlInit PROVE ControlInv
    OBVIOUS
  <1>0. 0 \in 0 .. 2 /\ 0 \in 0 .. QuietDays
    BY QuietAssumption
  <1>1. NoReport \in ReportTypes /\ NoSubmit \in SubmitTypes /\ NoDelivery \in DeliveryTypes
    BY <1>0 DEF NoReport, ReportTypes, NoSubmit, SubmitTypes, NoDelivery, DeliveryTypes
  <1>2. ContractTypeOK
    BY <1>0 DEF ControlInit, ContractInit, ContractTypeOK
  <1>3. ControlTypeOK
    BY <1>1, <1>2, TypesOf DEF ControlInit, ReportsInit
  <1>4. LockedSubmits /\ DeliveriesLocked
    BY ControlAssumption DEF ControlInit, LockedSubmits, DeliveriesLocked, InDelivery, NoSubmit, NoDelivery
  <1>5. MailedIsKnown /\ MailedTwiceOnlyAfterLoss
    BY DEF ControlInit, ReportsInit, NoReport, MailedIsKnown, MailedTwiceOnlyAfterLoss
  <1>6. HourlyLimitHolds
    <2>1. Young = {}
      BY DEF ControlInit, ReportsInit, NoReport, Young
    <2> QED BY <2>1, FS_EmptySet, ReportsAssumption DEF HourlyLimitHolds
  <1> QED BY <1>3, <1>4, <1>5, <1>6 DEF ControlInv

\* Every step of a request, a process, the clock or the operator keeps it.
LEMMA NextInv == ASSUME ControlInv, [ControlNext]_controlVars PROVE ControlInv'
  <1>1. ASSUME NEW r \in Submitters, SubmitStep(r) PROVE ControlInv'
    BY <1>1, SubmitInv
  <1>2. ASSUME NEW p \in Processes, DeliveryStep(p) PROVE ControlInv'
    <2>1. ASSUME NEW taken \in BOOLEAN, NEW sent \in BOOLEAN, Mail(p, taken, sent)
          PROVE  ControlInv'
      BY <2>1, MailInv
    <2> QED BY <1>2, <2>1, PickInv, RecordInv, LostInv, SunsetTickInv DEF DeliveryStep
  <1>3. CASE Outside
    BY <1>3, OutsideInv
  <1>4. CASE UNCHANGED controlVars
    <2>1. UNCHANGED <<reports, contract, submits, lock, deliveries>>
      BY <1>4 DEF controlVars
    <2>2. ControlTypeOK' /\ LockedSubmits'
      BY <2>1 DEF ControlInv, ControlTypeOK, ReportsTypeOK, ContractTypeOK, LockedSubmits,
           Conflicting, Resubmitted, WithinLimit, Young
    <2> QED BY <2>1, <2>2, RowsUnchanged DEF ControlInv
  <1> QED BY <1>1, <1>2, <1>3, <1>4 DEF ControlNext

\* The invariant holds in every behaviour of requests, processes, clock and
\* operator, with every abandoned request and every lost delivery.
THEOREM ControlInvariant == ControlSpec => []ControlInv
  <1>1. ControlInit => ControlInv
    BY InitInv
  <1>2. ControlInv /\ [ControlNext]_controlVars => ControlInv'
    BY NextInv
  <1> QED BY <1>1, <1>2, PTL DEF ControlSpec

\* Rows, requests and deliveries keep their shape.
THEOREM ControlTypes == ControlSpec => []ControlTypeOK
  <1>1. ControlInv => ControlTypeOK
    BY DEF ControlInv
  <1> QED BY <1>1, ControlInvariant, PTL

\* At most HourlyLimit reports within an hour, whatever the number of
\* requests that submit at the same time (reporting.rs).
THEOREM HourlyLimitIsKept == ControlSpec => []HourlyLimitHolds
  <1>1. ControlInv => HourlyLimitHolds
    BY DEF ControlInv
  <1> QED BY <1>1, ControlInvariant, PTL

\* FOR UPDATE SKIP LOCKED: however many processes deliver, a report is mailed
\* twice only after an attempt that Postmark took went unrecorded.
THEOREM NoDuplicateMail == ControlSpec => []MailedTwiceOnlyAfterLoss
  <1>1. ControlInv => MailedTwiceOnlyAfterLoss
    BY DEF ControlInv
  <1> QED BY <1>1, ControlInvariant, PTL

\* A version whose quiet period has passed is retired by the next request or
\* the hourly check, and not revived by either (contracts.rs).
THEOREM QuietPeriodIsFinal == ControlSpec => QuietPeriodStands
  <1> DEFINE Step == MaySunset /\ contract' # contract =>
         contract'.state = "sunset" \/ contract'.successor # contract.successor
  <1>1. ControlInv /\ [ControlNext]_controlVars => [Step]_controlVars
    <2> SUFFICES ASSUME ControlInv, ControlNext, MaySunset, contract' # contract
                 PROVE  contract'.state = "sunset" \/ contract'.successor # contract.successor
      BY DEF controlVars
    <2>0. /\ ContractTypeOK
          /\ contract.state = "deprecated" /\ contract.quiet = QuietDays
          /\ contract.successor = "active"
      BY DEF ControlInv, ControlTypeOK, MaySunset
    <2>1. ASSUME ContractRequest \/ Sunset
          PROVE  contract'.state = "sunset"
      BY <2>0, <2>1 DEF ContractRequest, Sunset, ContractTypeOK
    <2>2. ASSUME NEW r \in Submitters, SubmitStep(r)
          PROVE  contract'.state = "sunset"
      BY <2>1, <2>2 DEF SubmitStep, Negotiate, LockAndCount, CommitReport, Abandon
    <2>3. ASSUME NEW p \in Processes, DeliveryStep(p)
          PROVE  contract'.state = "sunset"
      BY <2>1, <2>3 DEF DeliveryStep, PickReport, RecordOutcome, DeliveryLost, SunsetTick, Mail
    <2>4. ASSUME Deprecate PROVE FALSE
      BY <2>0, <2>4 DEF Deprecate, ContractTypeOK
    <2>5. ASSUME QuietDay PROVE FALSE
      BY <2>0, <2>5, QuietAssumption DEF QuietDay
    <2>6. ASSUME DeprecateSuccessor PROVE contract'.successor # contract.successor
      BY <2>0, <2>6 DEF DeprecateSuccessor, ContractTypeOK
    <2> QED BY <2>2, <2>3, <2>4, <2>5, <2>6 DEF ControlNext, Outside
  <1> QED BY <1>1, ControlInvariant, PTL DEF ControlSpec, QuietPeriodStands
=============================================================================
