-------------------------- MODULE GeoLookupProofs --------------------------
(***************************************************************************)
(* TLAPS proofs about GeoLookup, for any number of calls and countries and *)
(* any limit, whatever the provider does.                                  *)
(***************************************************************************)
EXTENDS GeoLookup, FiniteSetTheorems, TLAPS

-----------------------------------------------------------------------------
(* The meters *)

Tally(o) == {r \in Done : EndedAs(r) = o}

\* Counting once keeps a meter in its type, and adds one to one outcome.
LEMMA CountEffect ==
    ASSUME NEW meter \in [GeolocationOutcome -> Nat], NEW o \in GeolocationOutcome
    PROVE  /\ Count(meter, o) \in [GeolocationOutcome -> Nat]
           /\ \A p \in GeolocationOutcome :
                 Count(meter, o)[p] = IF p = o THEN meter[p] + 1 ELSE meter[p]
BY DEF Count

\* The meters stay the tally of the ended calls when a call ends as o, is counted
\* under o, and is timed under o unless no request was sent.
LEMMA CountedEnd ==
    ASSUME TypeOK, EveryCallCountedOnce,
           NEW r \in Calls, NEW o \in GeolocationOutcome, pc[r] # "done",
           pc' = [pc EXCEPT ![r] = "done"], EndedAs(r)' = o,
           \A q \in Calls \ {r} : EndedAs(q)' = EndedAs(q),
           counter' = Count(counter, o),
           timer' = IF o = "NON_PUBLIC_IP" THEN timer ELSE Count(timer, o)
    PROVE  EveryCallCountedOnce'
<1>1. r \notin Done /\ Done' = Done \cup {r} /\ Done \subseteq Calls
  BY DEF Done, TypeOK
<1>2. ASSUME NEW p \in GeolocationOutcome
      PROVE  /\ IsFiniteSet(Tally(p)) /\ Cardinality(Tally(p)) \in Nat
             /\ Cardinality(Tally(p)') = Cardinality(Tally(p)) + (IF p = o THEN 1 ELSE 0)
  <2>1. IsFiniteSet(Tally(p))
    BY <1>1, ConstantsOK, FS_Subset DEF Tally
  <2>2. Cardinality(Tally(p)) \in Nat
    BY <2>1, FS_CardinalityType
  <2>3. CASE p = o
    <3>1. Tally(p)' = Tally(p) \cup {r} /\ r \notin Tally(p)
      BY <1>1, <2>3 DEF Tally
    <3> QED BY <2>1, <2>2, <2>3, <3>1, FS_AddElement
  <2>4. CASE p # o
    <3>1. Tally(p)' = Tally(p)
      BY <1>1, <2>4 DEF Tally
    <3> QED BY <2>1, <2>2, <2>4, <3>1
  <2> QED BY <2>1, <2>2, <2>3, <2>4
<1>3. ASSUME NEW p \in GeolocationOutcome
      PROVE  /\ counter'[p] = Cardinality(Tally(p)')
             /\ timer'[p] = IF p = "NON_PUBLIC_IP" THEN 0 ELSE counter'[p]
  <2>1. /\ counter[p] = Cardinality(Tally(p)) /\ counter[p] \in Nat /\ timer[p] \in Nat
        /\ timer[p] = IF p = "NON_PUBLIC_IP" THEN 0 ELSE counter[p]
    BY DEF EveryCallCountedOnce, TypeOK, Tally
  <2>2. counter'[p] = IF p = o THEN counter[p] + 1 ELSE counter[p]
    BY CountEffect DEF TypeOK
  <2>3. timer'[p] = IF p = o /\ o # "NON_PUBLIC_IP" THEN timer[p] + 1 ELSE timer[p]
    BY CountEffect DEF TypeOK
  <2> QED BY <1>2, <2>1, <2>2, <2>3
<1> QED BY <1>3 DEF EveryCallCountedOnce, Tally

-----------------------------------------------------------------------------
(* The inductive invariant *)

\* No call has begun and nothing is counted: the invariant holds.
LEMMA InitIInv == Init => IInv
<1> SUFFICES ASSUME Init PROVE IInv
  OBVIOUS
<1>1. TypeOK
  BY ConstantsOK DEF Init, TypeOK, Absent, GeolocationOutcome
<1>2. ThreadsMatchOutcomes
  BY DEF Init, ThreadsMatchOutcomes
<1>3. EveryCallCountedOnce
  <2>1. \A o \in GeolocationOutcome : {r \in Done : EndedAs(r) = o} = {}
    BY DEF Init, Done
  <2> QED BY <2>1, FS_EmptySet DEF Init, EveryCallCountedOnce
<1> QED BY <1>1, <1>2, <1>3 DEF IInv

\* The finally block: with an outcome and a country that go together, the call
\* ends in a state that satisfies the invariant.
LEMMA EndStep ==
    ASSUME IInv, NEW r \in Calls,
           NEW o \in GeolocationOutcome \ {"NON_PUBLIC_IP"}, NEW k \in {NoCountry} \cup Countries,
           address[r] = "public", pc[r] # "done", End(r, o, k),
           o = "SUCCESS" <=> k # NoCountry,
           UNCHANGED <<address, body>>, declared' \in [Calls -> Absent .. Limit]
    PROVE  IInv'
<1>1. TypeOK'
  BY CountEffect DEF IInv, TypeOK, End
<1>2. ThreadsMatchOutcomes'
  BY DEF IInv, TypeOK, End, ThreadsMatchOutcomes
<1>3. EveryCallCountedOnce'
  <2>1. EndedAs(r)' = o
    BY DEF IInv, TypeOK, End, EndedAs
  <2>2. \A q \in Calls \ {r} : EndedAs(q)' = EndedAs(q)
    BY DEF IInv, TypeOK, End, EndedAs
  <2> QED BY <2>1, <2>2, CountedEnd DEF IInv, End
<1> QED BY <1>1, <1>2, <1>3 DEF IInv

\* A failure ends the call without a country.
LEMMA FailStep ==
    ASSUME IInv, NEW r \in Calls,
           NEW o \in GeolocationOutcome \ {"NON_PUBLIC_IP", "SUCCESS"},
           pc[r] \in {"sent", "reading", "closing"}, Fail(r, o),
           UNCHANGED <<address, declared, body>>
    PROVE  IInv'
<1>1. address[r] = "public"
  BY DEF IInv, TypeOK, ThreadsMatchOutcomes
<1>2. declared' \in [Calls -> Absent .. Limit]
  BY DEF IInv, TypeOK
<1> QED BY <1>1, <1>2, EndStep DEF Fail

\* A step that ends no call leaves the meters alone.
LEMMA NothingCounted ==
    ASSUME EveryCallCountedOnce, UNCHANGED <<address, counter, timer>>,
           \A q \in Calls : pc'[q] = "done" <=> pc[q] = "done",
           \A q \in Calls : pc[q] = "done" => outcome'[q] = outcome[q]
    PROVE  EveryCallCountedOnce'
<1>1. ASSUME NEW o \in GeolocationOutcome PROVE Tally(o)' = Tally(o)
  BY DEF Tally, Done, EndedAs
<1> QED BY <1>1 DEF EveryCallCountedOnce, Tally

\* A special-purpose address is refused: counted, and not timed.
LEMMA RefuseAddressStep ==
    ASSUME IInv, NEW r \in Calls, RefuseAddress(r) PROVE IInv'
<1>1. TypeOK'
  BY CountEffect DEF IInv, TypeOK, RefuseAddress, GeolocationOutcome
<1>2. ThreadsMatchOutcomes'
  BY DEF IInv, TypeOK, RefuseAddress, ThreadsMatchOutcomes
<1>3. EveryCallCountedOnce'
  <2>1. EndedAs(r)' = "NON_PUBLIC_IP" /\ \A q \in Calls : EndedAs(q)' = EndedAs(q)
    BY DEF RefuseAddress, EndedAs
  <2> QED BY <2>1, CountedEnd DEF IInv, RefuseAddress, GeolocationOutcome
<1> QED BY <1>1, <1>2, <1>3 DEF IInv

\* Sending the request counts nothing.
LEMMA SendStep ==
    ASSUME IInv, NEW r \in Calls, Send(r) PROVE IInv'
<1>1. TypeOK' /\ ThreadsMatchOutcomes'
  BY DEF IInv, TypeOK, Send, ThreadsMatchOutcomes
<1>2. EveryCallCountedOnce'
  BY NothingCounted DEF IInv, TypeOK, Send
<1> QED BY <1>1, <1>2 DEF IInv

\* A status or a declared length that ends the call, or a body to be read.
LEMMA RespondStep ==
    ASSUME IInv, NEW r \in Calls, NEW status \in {"429", "2xx", "other"},
           NEW length \in NotANumber .. Limit + 1, Respond(r, status, length)
    PROVE  IInv'
<1> DEFINE verdict == HeaderVerdict(status, length)
<1>1. verdict \in GeolocationOutcome \ {"NON_PUBLIC_IP"}
  BY DEF HeaderVerdict, GeolocationOutcome
<1>2. CASE verdict = "SUCCESS"
  <2>1. length \in Absent .. Limit
    BY <1>2, ConstantsOK DEF HeaderVerdict, NotANumber, Absent
  <2>2. /\ pc[r] = "sent" /\ pc' = [pc EXCEPT ![r] = "reading"]
        /\ declared' = [declared EXCEPT ![r] = length]
        /\ UNCHANGED <<address, body, outcome, country, counter, timer>>
    BY <1>2 DEF Respond
  <2>3. TypeOK' /\ ThreadsMatchOutcomes'
    BY <2>1, <2>2 DEF IInv, TypeOK, ThreadsMatchOutcomes
  <2>4. EveryCallCountedOnce'
    BY <2>2, NothingCounted DEF IInv, TypeOK
  <2> QED BY <2>3, <2>4 DEF IInv
<1>3. CASE verdict # "SUCCESS"
  BY <1>1, <1>3, FailStep DEF Respond
<1> QED BY <1>2, <1>3

\* A call reads one piece beyond the limit at most.
LEMMA ReceiveStep ==
    ASSUME IInv, NEW r \in Calls, Receive(r) PROVE IInv'
<1>1. TypeOK'
  BY ConstantsOK DEF IInv, TypeOK, Receive
<1>2. ThreadsMatchOutcomes'
  BY DEF IInv, TypeOK, Receive, ThreadsMatchOutcomes
<1>3. EveryCallCountedOnce'
  BY NothingCounted DEF IInv, Receive
<1> QED BY <1>1, <1>2, <1>3 DEF IInv

\* A document that names a country leaves the call to close the body.
LEMMA ParseCountryStep ==
    ASSUME IInv, NEW r \in Calls, NEW document, ParseCountry(r, document) PROVE IInv'
<1>1. CASE document \in {"malformed", "success=false"}
  <2>1. document \notin Countries
    BY <1>1, ConstantsOK
  <2>2. \E o \in {"INVALID_RESPONSE", "PROVIDER_ERROR"} : Fail(r, o)
    BY <1>1, <2>1 DEF ParseCountry
  <2> QED BY <2>2, FailStep DEF ParseCountry, GeolocationOutcome
<1>2. CASE document \in Countries
  <2>1. document # NoCountry /\ document \notin {"malformed", "success=false"}
    BY <1>2, ConstantsOK
  <2>2. /\ pc[r] = "reading" /\ pc' = [pc EXCEPT ![r] = "closing"]
        /\ outcome' = [outcome EXCEPT ![r] = "SUCCESS"]
        /\ country' = [country EXCEPT ![r] = document]
        /\ UNCHANGED <<address, declared, body, counter, timer>>
    BY <1>2, <2>1 DEF ParseCountry
  <2>3. TypeOK'
    BY <1>2, <2>2 DEF IInv, TypeOK, GeolocationOutcome
  <2>4. ThreadsMatchOutcomes'
    BY <2>1, <2>2 DEF IInv, TypeOK, ThreadsMatchOutcomes
  <2>5. EveryCallCountedOnce'
    BY <2>2, NothingCounted DEF IInv, TypeOK
  <2> QED BY <2>3, <2>4, <2>5 DEF IInv
<1> QED BY <1>1, <1>2 DEF ParseCountry

\* A call in closing has its country and outcome SUCCESS.
LEMMA ReturnStep ==
    ASSUME IInv, NEW r \in Calls, Return(r) PROVE IInv'
<1>1. /\ pc[r] = "closing" /\ outcome[r] = "SUCCESS" /\ country[r] # NoCountry
      /\ country[r] \in Countries /\ address[r] = "public"
  BY DEF IInv, TypeOK, Return, ThreadsMatchOutcomes
<1>2. declared' \in [Calls -> Absent .. Limit]
  BY DEF IInv, TypeOK, Return
<1> QED BY <1>1, <1>2, EndStep DEF Return, GeolocationOutcome

\* Every step keeps the invariant: one case per action.
LEMMA StepIInv == IInv /\ [Next]_vars => IInv'
<1> SUFFICES ASSUME IInv, [Next]_vars PROVE IInv'
  OBVIOUS
<1>1. ASSUME NEW r \in Calls, TimeOut(r) \/ RejectOversized(r) \/ TransportFails(r) PROVE IInv'
  BY <1>1, FailStep
  DEF TimeOut, TimerRunning, RejectOversized, TransportFails, TransportOutcome,
      GeolocationOutcome
<1>2. CASE Terminating \/ UNCHANGED vars
  <2>1. UNCHANGED vars
    BY <1>2 DEF Terminating
  <2>2. TypeOK' /\ ThreadsMatchOutcomes'
    BY <2>1 DEF vars, IInv, TypeOK, ThreadsMatchOutcomes
  <2>3. EveryCallCountedOnce'
    BY <2>1, NothingCounted DEF IInv, vars
  <2> QED BY <2>2, <2>3 DEF IInv
<1> QED
  BY <1>1, <1>2, RefuseAddressStep, SendStep, RespondStep, ReceiveStep, ParseCountryStep,
     ReturnStep
  DEF Next, Local, Remote

\* The inductive invariant holds in every state of every run.
THEOREM LookupInvariance == Spec => []IInv
BY InitIInv, StepIInv, PTL DEF Spec

\* Every variable keeps its type.
THEOREM LookupTypeCorrect == Spec => []TypeOK
<1>1. IInv => TypeOK
  BY DEF IInv
<1> QED BY <1>1, LookupInvariance, PTL

\* Whatever the provider and the network do, the meters are the tally of the
\* calls that have ended.
THEOREM CountedOnce == Spec => []EveryCallCountedOnce
<1>1. IInv => EveryCallCountedOnce
  BY DEF IInv
<1> QED BY <1>1, LookupInvariance, PTL

\* Outcome SUCCESS is counted exactly for the calls that return a country.
THEOREM SuccessIsCountry == Spec => []SuccessMeansCountry
<1>1. IInv => SuccessMeansCountry
  <2> SUFFICES ASSUME IInv PROVE SuccessMeansCountry
    OBVIOUS
  <2>1. ASSUME NEW r \in Done PROVE EndedAs(r) = "SUCCESS" <=> country[r] # NoCountry
    BY DEF Done, EndedAs, IInv, TypeOK, ThreadsMatchOutcomes
  <2>2. {r \in Done : EndedAs(r) = "SUCCESS"} = {r \in Done : country[r] # NoCountry}
    BY <2>1
  <2> QED BY <2>2 DEF IInv, EveryCallCountedOnce, SuccessMeansCountry, GeolocationOutcome
<1> QED BY <1>1, LookupInvariance, PTL

=============================================================================
