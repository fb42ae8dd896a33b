----------------------- MODULE DelayedAdmissionProofs -----------------------
(***************************************************************************)
(* Every value of RepresentativeDelayedAdmission tells its history, for    *)
(* every set of transactions and deadlines and however many values are     *)
(* alive.                                                                  *)
(***************************************************************************)
EXTENDS DelayedAdmission, TLAPS

\* One more call: what was true of the calls before stays true, and the last
\* one is the new one.
LEMMA Appended ==
  ASSUME NEW calls \in Seq(Call), NEW call \in Call
  PROVE  /\ Append(calls, call) \in Seq(Call)
         /\ DOMAIN Append(calls, call) = DOMAIN calls \cup {Len(calls) + 1}
         /\ \A k \in DOMAIN calls : Append(calls, call)[k] = calls[k]
         /\ Append(calls, call)[Len(calls) + 1] = call
OBVIOUS

\* How each part of the history grows with a call.
LEMMA ReleasedGrows ==
  ASSUME NEW calls \in Seq(Call), NEW call \in Call
  PROVE  Released(Append(calls, call)) <=>
           \/ Released(calls)
           \/ call.method = "release" /\ call.deadline = "reached"
BY Appended DEF Released

LEMMA FellBackGrows ==
  ASSUME NEW value, NEW after, after.first_admission = value.first_admission,
         NEW calls \in Seq(Call), NEW call \in Call
  PROVE  FellBack(after, Append(calls, call)) <=>
           \/ FellBack(value, calls)
           \/ /\ call.method = "retry"
              /\ call.request.transaction_key = value.first_admission.transaction_key
              /\ call.request.endpoint_route = "direct_fallback"
BY Appended DEF FellBack

LEMMA PolledGrows ==
  ASSUME NEW value, NEW after, after.first_admission = value.first_admission,
         NEW calls \in Seq(Call), NEW call \in Call
  PROVE  Polled(after, Append(calls, call)) <=>
           \/ Polled(value, calls)
           \/ /\ call.method = "poll_status"
              /\ call.key = value.first_admission.transaction_key
BY Appended DEF Polled

Told == {pair \in [value : Admission, calls : Seq(Call)] :
           TellsItsHistory(pair.value, pair.calls)}

\* admit: nothing happened yet but the first request.
LEMMA AdmitTells ==
  ASSUME NEW request \in AdmissionRequest
  PROVE  [value |-> admit(request), calls |-> <<>>] \in Told
<1>1. admit(request) \in Admission
  BY DEF admit, Admission, AdmissionRequest
<1>2. <<>> \in Seq(Call) /\ ~Released(<<>>) /\ ~Polled(admit(request), <<>>)
  BY DEF Released, Polled
<1>3. FellBack(admit(request), <<>>) <=> request.endpoint_route = "direct_fallback"
  BY DEF FellBack, admit
<1>4. TellsItsHistory(admit(request), <<>>)
  BY <1>2, <1>3 DEF TellsItsHistory, admit
<1> QED BY <1>1, <1>2, <1>4 DEF Told

\* retry: only the route and the fallback of its own transaction.
LEMMA RetryTells ==
  ASSUME NEW pair \in Told, NEW call \in RetryCall
  PROVE  [value |-> retry(pair.value, call.request),
          calls |-> Append(pair.calls, call)] \in Told
<1> DEFINE value == pair.value
           after == retry(value, call.request)
           calls == pair.calls
<1>1. /\ value \in Admission /\ calls \in Seq(Call) /\ TellsItsHistory(value, calls)
      /\ call \in Call /\ call.method = "retry" /\ call.request \in AdmissionRequest
  BY DEF Told, Call, RetryCall
<1> HIDE DEF value, calls
<1>2. after \in Admission /\ after.first_admission = value.first_admission
  BY <1>1 DEF retry, Admission, AdmissionRequest
<1>3. /\ after.state = value.state /\ after.release_count = value.release_count
      /\ after.status_polling_observed = value.status_polling_observed
  BY <1>1 DEF retry, Admission
<1>4. Released(Append(calls, call)) <=> Released(calls)
  BY <1>1, ReleasedGrows
<1>5. Polled(after, Append(calls, call)) <=> Polled(value, calls)
  BY <1>1, <1>2, PolledGrows
<1>6. FellBack(after, Append(calls, call)) <=>
        \/ FellBack(value, calls)
        \/ /\ call.request.transaction_key = value.first_admission.transaction_key
           /\ call.request.endpoint_route = "direct_fallback"
  <2>1. FellBack(after, Append(calls, call)) <=>
          \/ FellBack(value, calls)
          \/ /\ call.method = "retry"
             /\ call.request.transaction_key = value.first_admission.transaction_key
             /\ call.request.endpoint_route = "direct_fallback"
    <3> HIDE DEF after
    <3> QED BY <1>1, <1>2, FellBackGrows
  <2> QED BY <1>1, <2>1
<1>7. /\ after.fallback_observed <=>
           \/ value.fallback_observed
           \/ /\ call.request.transaction_key = value.first_admission.transaction_key
              /\ call.request.endpoint_route = "direct_fallback"
      /\ after.endpoint_route = "direct_fallback" => after.fallback_observed
  BY <1>1 DEF retry, Concerns, Admission, TellsItsHistory
<1>8. TellsItsHistory(after, Append(calls, call))
  BY <1>1, <1>3, <1>4, <1>5, <1>6, <1>7 DEF TellsItsHistory
<1>9. Append(calls, call) \in Seq(Call)
  BY <1>1
<1> QED BY <1>2, <1>8, <1>9 DEF Told, value, calls

\* release: once, and only when the deadline is reached.
LEMMA ReleaseTells ==
  ASSUME NEW pair \in Told, NEW call \in ReleaseCall
  PROVE  [value |-> release(pair.value, call.deadline),
          calls |-> Append(pair.calls, call)] \in Told
<1> DEFINE value == pair.value
           after == release(value, call.deadline)
           calls == pair.calls
<1>1. /\ value \in Admission /\ calls \in Seq(Call) /\ TellsItsHistory(value, calls)
      /\ call \in Call /\ call.method = "release" /\ call.deadline \in {"pending", "reached"}
  BY DEF Told, Call, ReleaseCall
<1> HIDE DEF value, calls
<1>2. after \in Admission /\ after.first_admission = value.first_admission
  BY <1>1 DEF release, Admission
<1>3. /\ after.endpoint_route = value.endpoint_route
      /\ after.fallback_observed = value.fallback_observed
      /\ after.status_polling_observed = value.status_polling_observed
  BY <1>1 DEF release, Admission
<1>4. Released(Append(calls, call)) <=> Released(calls) \/ call.deadline = "reached"
  BY <1>1, ReleasedGrows
<1>5. /\ FellBack(after, Append(calls, call)) <=> FellBack(value, calls)
      /\ Polled(after, Append(calls, call)) <=> Polled(value, calls)
  BY <1>1, <1>2, FellBackGrows, PolledGrows
<1>6. /\ after.state = "released" <=> value.state = "released" \/ call.deadline = "reached"
      /\ after.release_count = IF value.state = "released" \/ call.deadline = "reached"
                               THEN 1 ELSE 0
  BY <1>1 DEF release, Admission, TellsItsHistory
<1>7. TellsItsHistory(after, Append(calls, call))
  BY <1>1, <1>3, <1>4, <1>5, <1>6 DEF TellsItsHistory
<1>8. Append(calls, call) \in Seq(Call)
  BY <1>1
<1> QED BY <1>2, <1>7, <1>8 DEF Told, value, calls

\* poll_status: only a poll of its own transaction.
LEMMA PollTells ==
  ASSUME NEW pair \in Told, NEW call \in PollCall
  PROVE  [value |-> poll_status(pair.value, call.key),
          calls |-> Append(pair.calls, call)] \in Told
<1> DEFINE value == pair.value
           after == poll_status(value, call.key)
           calls == pair.calls
<1>1. /\ value \in Admission /\ calls \in Seq(Call) /\ TellsItsHistory(value, calls)
      /\ call \in Call /\ call.method = "poll_status"
  BY DEF Told, Call, PollCall
<1> HIDE DEF value, calls
<1>2. after \in Admission /\ after.first_admission = value.first_admission
  BY <1>1 DEF poll_status, Admission
<1>3. /\ after.state = value.state /\ after.release_count = value.release_count
      /\ after.endpoint_route = value.endpoint_route
      /\ after.fallback_observed = value.fallback_observed
  BY <1>1 DEF poll_status, Admission
<1>4. Released(Append(calls, call)) <=> Released(calls)
  BY <1>1, ReleasedGrows
<1>5. /\ FellBack(after, Append(calls, call)) <=> FellBack(value, calls)
      /\ Polled(after, Append(calls, call)) <=>
           Polled(value, calls) \/ call.key = value.first_admission.transaction_key
  <2> HIDE DEF after
  <2>1. FellBack(after, Append(calls, call)) <=> FellBack(value, calls)
    BY <1>1, <1>2, FellBackGrows
  <2>2. Polled(after, Append(calls, call)) <=>
          \/ Polled(value, calls)
          \/ /\ call.method = "poll_status"
             /\ call.key = value.first_admission.transaction_key
    <3>1. calls \in Seq(Call) /\ call \in Call
      BY <1>1
    <3>2. after.first_admission = value.first_admission
      BY <1>2
    <3> QED BY ONLY <3>1, <3>2, PolledGrows
  <2> QED BY <1>1, <2>1, <2>2
<1>6. after.status_polling_observed <=>
        \/ value.status_polling_observed
        \/ call.key = value.first_admission.transaction_key
  BY <1>1 DEF poll_status, Concerns, Admission
<1>7. TellsItsHistory(after, Append(calls, call))
  BY <1>1, <1>3, <1>4, <1>5, <1>6 DEF TellsItsHistory
<1>8. Append(calls, call) \in Seq(Call)
  BY <1>1
<1> QED BY <1>2, <1>7, <1>8 DEF Told, value, calls

\* Every value ever returned has its type and tells its history, for every set
\* of transactions and deadlines.
THEOREM HistoriesAreTold == Spec => [](TypeOK /\ ValuesTellTheirHistory)
<1> DEFINE Inv == live \in Seq(Told)
<1>1. Init => Inv
  BY DEF Init
<1>2. Inv /\ [Next]_live => Inv'
  <2> SUFFICES ASSUME Inv, [Next]_live PROVE Inv'
    OBVIOUS
  <2>1. ASSUME NEW value, NEW calls, [value |-> value, calls |-> calls] \in Told,
               Return(value, calls)
        PROVE  Inv'
    BY <2>1 DEF Return
  <2>2. \A i \in DOMAIN live : live[i] \in Told
    OBVIOUS
  <2>3. CASE Admit
    BY <2>1, <2>3, AdmitTells DEF Admit
  <2>4. CASE Retry
    BY <2>1, <2>2, <2>4, RetryTells DEF Retry
  <2>5. CASE Release
    BY <2>1, <2>2, <2>5, ReleaseTells DEF Release
  <2>6. CASE PollStatus
    BY <2>1, <2>2, <2>6, PollTells DEF PollStatus
  <2>7. CASE UNCHANGED live
    BY <2>7
  <2> QED BY <2>3, <2>4, <2>5, <2>6, <2>7 DEF Next
<1>3. Inv => TypeOK /\ ValuesTellTheirHistory
  <2> SUFFICES ASSUME Inv PROVE TypeOK /\ ValuesTellTheirHistory
    OBVIOUS
  <2>1. Told \subseteq [value : Admission, calls : Seq(Call)]
    BY DEF Told
  <2>2. TypeOK
    <3> DEFINE Pairs == [value : Admission, calls : Seq(Call)]
    <3> HIDE DEF Pairs
    <3>1. Told \subseteq Pairs
      BY <2>1 DEF Pairs
    <3>2. live \in Seq(Pairs)
      BY <3>1
    <3> QED BY <3>2 DEF TypeOK, Pairs
  <2>3. \A i \in DOMAIN live : live[i] \in Told
    OBVIOUS
  <2> QED BY <2>2, <2>3 DEF ValuesTellTheirHistory, Told
<1> QED BY <1>1, <1>2, <1>3, PTL DEF Spec
=============================================================================
