-------------------------- MODULE DelayedAdmission --------------------------
(***************************************************************************)
(* RepresentativeDelayedAdmission: an immutable value, each method of      *)
(* which returns a value.  Every value ever returned stays alive, and its  *)
(* holder may go on calling methods on it after a later one was returned.  *)
(* (scripts/delayed_admission_runner.py.)                                  *)
(***************************************************************************)
EXTENDS Naturals, Sequences

CONSTANTS
  TransactionKey,       \* transaction keys
  LogicalDeadlineToken, \* logical deadlines
  MaxValues             \* bound: values alive

ASSUME MaxValuesAssumption == MaxValues \in Nat

EndpointRoute == {"delayed_admission", "direct_fallback"}

AdmissionRequest ==
  [ transaction_key  : TransactionKey,
    logical_deadline : LogicalDeadlineToken,
    endpoint_route   : EndpointRoute ]

Admission ==
  [ first_admission         : AdmissionRequest,
    state                   : {"accepted", "released"},
    release_count           : Nat,
    endpoint_route          : EndpointRoute,
    fallback_observed       : BOOLEAN,
    status_polling_observed : BOOLEAN ]

-----------------------------------------------------------------------------
(***************************************************************************)
(* The methods.                                                            *)
(***************************************************************************)
admit(request) ==
  [ first_admission         |-> request,
    state                   |-> "accepted",
    release_count           |-> 0,
    endpoint_route          |-> request.endpoint_route,
    fallback_observed       |-> request.endpoint_route = "direct_fallback",
    status_polling_observed |-> FALSE ]

Concerns(self, key) == key = self.first_admission.transaction_key

\* Mutant: going back to the delayed endpoint forgets the fallback.
retryForgets(self, request) ==
  IF ~Concerns(self, request.transaction_key) THEN self
  ELSE [self EXCEPT !.endpoint_route = request.endpoint_route,
                    !.fallback_observed = request.endpoint_route = "direct_fallback"]

retry(self, request) ==
  IF ~Concerns(self, request.transaction_key) THEN self
  ELSE [self EXCEPT
          !.endpoint_route = request.endpoint_route,
          !.fallback_observed = @ \/ request.endpoint_route = "direct_fallback"]

release(self, deadline) ==
  IF deadline = "reached" /\ self.state = "accepted"
  THEN [self EXCEPT !.state = "released", !.release_count = 1]
  ELSE self

poll_status(self, key) ==
  IF Concerns(self, key) THEN [self EXCEPT !.status_polling_observed = TRUE] ELSE self

-----------------------------------------------------------------------------
(***************************************************************************)
(* The calls that led to a value, from the admission on, are kept beside   *)
(* it; the code keeps no such record.                                      *)
(***************************************************************************)
RetryCall == [method : {"retry"}, request : AdmissionRequest]
ReleaseCall == [method : {"release"}, deadline : {"pending", "reached"}]
PollCall == [method : {"poll_status"}, key : TransactionKey]
Call == RetryCall \cup ReleaseCall \cup PollCall

VARIABLE live  \* Seq of [value, calls]: every value returned so far

Return(value, calls) ==
  /\ Len(live) < MaxValues
  /\ live' = Append(live, [value |-> value, calls |-> calls])

Admit == \E request \in AdmissionRequest : Return(admit(request), <<>>)

Retry ==
  \E i \in DOMAIN live : \E call \in RetryCall :
    Return(retry(live[i].value, call.request), Append(live[i].calls, call))

Release ==
  \E i \in DOMAIN live : \E call \in ReleaseCall :
    Return(release(live[i].value, call.deadline), Append(live[i].calls, call))

PollStatus ==
  \E i \in DOMAIN live : \E call \in PollCall :
    Return(poll_status(live[i].value, call.key), Append(live[i].calls, call))

Init == live = <<>>
Next == Admit \/ Retry \/ Release \/ PollStatus
Spec == Init /\ [][Next]_live

-----------------------------------------------------------------------------
TypeOK == live \in Seq([value : Admission, calls : Seq(Call)])

Released(calls) == \E k \in DOMAIN calls :
  calls[k].method = "release" /\ calls[k].deadline = "reached"
FellBack(value, calls) ==
  \/ value.first_admission.endpoint_route = "direct_fallback"
  \/ \E k \in DOMAIN calls :
       /\ calls[k].method = "retry"
       /\ calls[k].request.transaction_key = value.first_admission.transaction_key
       /\ calls[k].request.endpoint_route = "direct_fallback"
Polled(value, calls) == \E k \in DOMAIN calls :
  calls[k].method = "poll_status" /\ calls[k].key = value.first_admission.transaction_key

TellsItsHistory(value, calls) ==
  /\ value.state = "released" <=> Released(calls)
  /\ value.release_count = IF Released(calls) THEN 1 ELSE 0
  /\ value.fallback_observed <=> FellBack(value, calls)
  /\ value.endpoint_route = "direct_fallback" => value.fallback_observed
  /\ value.status_polling_observed <=> Polled(value, calls)

\* Every value tells its own history and nothing of its siblings', stale or
\* not: it is released, once, iff the deadline was reached in a call on the
\* way to it; it shows a fallback or a poll iff one of its own transaction
\* came on that way, and keeps showing it after a return to the delayed
\* endpoint; and the fallback route is never current without being observed
\* (retry, release, poll_status in any order).
ValuesTellTheirHistory ==
  \A i \in DOMAIN live : TellsItsHistory(live[i].value, live[i].calls)
=============================================================================
