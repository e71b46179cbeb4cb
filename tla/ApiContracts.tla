---------------------------- MODULE ApiContracts ----------------------------
(***************************************************************************)
(* The life of API v1 (control/contracts.rs): an operator deprecates it in *)
(* favour of a successor, and seven quiet days later it is retired, by the *)
(* hourly check or by the request that would have come too late.           *)
(***************************************************************************)
EXTENDS Naturals

CONSTANT QuietDays

ASSUME QuietAssumption == QuietDays \in Nat \ {0}

VARIABLE contract   \* the row of v1 in waveform_api_contracts

\* quiet: days since the later of deprecated_at and last_request_at;
\* successor: the state of the version named as successor.
ContractTypeOK ==
    contract \in [state : {"active", "deprecated", "sunset"}, quiet : 0 .. QuietDays,
                  successor : {"none", "active", "deprecated"}]

ContractInit == contract = [state |-> "active", quiet |-> 0, successor |-> "none"]

\* deprecate: needs an active successor; keeps the first deprecated_at.
Deprecate ==
    /\ contract.state \in {"active", "deprecated"}
    /\ contract.successor # "deprecated"
    /\ contract' = [contract EXCEPT !.state = "deprecated", !.successor = "active",
                                    !.quiet = IF contract.state = "active" THEN 0 ELSE @]

\* The successor is deprecated in its turn: v1 then stays as it is.
DeprecateSuccessor ==
    /\ contract.successor = "active"
    /\ contract' = [contract EXCEPT !.successor = "deprecated"]

QuietDay ==
    /\ contract.state = "deprecated"
    /\ contract.quiet < QuietDays
    /\ contract' = [contract EXCEPT !.quiet = @ + 1]

MaySunset ==
    /\ contract.state = "deprecated"
    /\ contract.quiet = QuietDays
    /\ contract.successor = "active"

\* sunset_contracts
Sunset == contract' = IF MaySunset THEN [contract EXCEPT !.state = "sunset"] ELSE contract

Served == contract.state # "sunset" /\ ~MaySunset

\* Faulty variant: traffic at the boundary revives the version.
ContractRequestRevives ==
    contract' = IF contract.state = "sunset" THEN contract
                ELSE [contract EXCEPT !.quiet = 0]

\* contract_request: row-locked; a version whose quiet period has passed is
\* retired, another one notes the request.
ContractRequest ==
    contract' = CASE contract.state = "sunset" -> contract
                  [] MaySunset -> [contract EXCEPT !.state = "sunset"]
                  [] OTHER -> [contract EXCEPT !.quiet = 0]
=============================================================================
