----------------------------- MODULE GeoLookup -----------------------------
(***************************************************************************)
(* IpWhoisGeoLocationResolver.resolve: one HTTPS exchange with the GeoIP   *)
(* provider, step by step.  Calls of several threads share the meters.     *)
(* The provider, the network and interrupts are the environment.           *)
(***************************************************************************)
EXTENDS Integers, FiniteSets

CONSTANTS
    Calls,      \* calls of resolve
    Countries,  \* country codes CountryCode.of accepts
    Limit,      \* maximumResponseBodyBytes, in pieces of the body
    NoCountry   \* the call has not returned a country

ASSUME ConstantsOK ==
    /\ IsFiniteSet(Calls)
    /\ Limit \in Nat \ {0}
    /\ NoCountry \notin Countries
    /\ {"malformed", "success=false"} \cap Countries = {}

GeolocationOutcome == {"SUCCESS", "TIMEOUT", "RATE_LIMITED", "PROVIDER_ERROR",
                       "INVALID_RESPONSE", "NON_PUBLIC_IP"}

Absent == -1        \* no Content-Length
NotANumber == -2    \* a Content-Length that is no number

VARIABLES
    address,      \* what PublicIpAddressPolicy says of the address of a call
    pc,           \* where the thread of a call is
    declared,     \* the Content-Length of the response
    body,         \* pieces of the body read so far
    outcome,      \* the local variable of this name
    country,      \* the country a call has returned, or is about to return
    counter,      \* geolocation.resolution
    timer         \* geolocation.provider: samples by outcome

vars == <<address, pc, declared, body, outcome, country, counter, timer>>

Count(meter, o) == [meter EXCEPT ![o] = @ + 1]

\* The finally block, and the way out of resolve
End(r, o, k) ==
    /\ pc' = [pc EXCEPT ![r] = "done"]
    /\ outcome' = [outcome EXCEPT ![r] = o]
    /\ country' = [country EXCEPT ![r] = k]
    /\ counter' = Count(counter, o)
    /\ timer' = Count(timer, o)

\* Mutant: a country that was parsed is returned in spite of the failure.
FailWithCountry(r, o) == End(r, o, country[r])

Fail(r, o) == End(r, o, NoCountry)

\* Mutant: the refusal goes through the finally block, too.
RefuseAddressTimed(r) ==
    /\ pc[r] = "start"
    /\ address[r] = "special"
    /\ Fail(r, "NON_PUBLIC_IP")
    /\ UNCHANGED <<address, declared, body>>

\* No request leaves for a special-purpose address, and no time is measured.
RefuseAddress(r) ==
    /\ pc[r] = "start"
    /\ address[r] = "special"
    /\ pc' = [pc EXCEPT ![r] = "done"]
    /\ counter' = Count(counter, "NON_PUBLIC_IP")
    /\ UNCHANGED <<address, declared, body, outcome, country, timer>>

Send(r) ==
    /\ pc[r] = "start"
    /\ address[r] = "public"
    /\ pc' = [pc EXCEPT ![r] = "sent"]
    /\ UNCHANGED <<address, declared, body, outcome, country, counter, timer>>

\* Mutant: the timeout is set on the connection only.
TimerRunningConnecting(r) == pc[r] = "start"

\* HttpRequest.timeout, and connectTimeout, run until the headers are there.
TimerRunning(r) == pc[r] = "sent"

TimeOut(r) ==
    /\ TimerRunning(r)
    /\ Fail(r, "TIMEOUT")
    /\ UNCHANGED <<address, declared, body>>

-----------------------------------------------------------------------------
(* The response *)

\* 429, then a Content-Length that is no number (NumberFormatException), then the
\* other statuses, then a body declared too long.
HeaderVerdict(status, length) ==
    CASE status = "429" -> "RATE_LIMITED"
      [] status # "429" /\ length = NotANumber -> "INVALID_RESPONSE"
      [] status = "other" /\ length # NotANumber -> "PROVIDER_ERROR"
      [] status = "2xx" /\ length > Limit -> "INVALID_RESPONSE"
      [] OTHER -> "SUCCESS"

Respond(r, status, length) ==
    /\ pc[r] = "sent"
    /\ LET verdict == HeaderVerdict(status, length)
       IN  IF verdict = "SUCCESS"
           THEN /\ pc' = [pc EXCEPT ![r] = "reading"]
                /\ declared' = [declared EXCEPT ![r] = length]
                /\ UNCHANGED <<outcome, country, counter, timer>>
           ELSE Fail(r, verdict) /\ UNCHANGED declared
    /\ UNCHANGED <<address, body>>

\* readNBytes(limit + 1) has returned more than the limit.
Oversized(r) == body[r] > Limit

BodyComplete(r) == body[r] = declared[r]

Receive(r) ==
    /\ pc[r] = "reading"
    /\ body[r] <= Limit
    /\ ~BodyComplete(r)
    /\ body' = [body EXCEPT ![r] = @ + 1]
    /\ UNCHANGED <<address, pc, declared, outcome, country, counter, timer>>

RejectOversized(r) ==
    /\ pc[r] = "reading"
    /\ Oversized(r)
    /\ Fail(r, "INVALID_RESPONSE")
    /\ UNCHANGED <<address, declared, body>>

\* parseCountry; an empty body is no JSON document
Documents(r) == IF body[r] = 0 THEN {"malformed"}
                ELSE {"malformed", "success=false"} \cup Countries

ParseCountry(r, document) ==
    /\ pc[r] = "reading"
    /\ ~Oversized(r)
    /\ BodyComplete(r) \/ declared[r] = Absent
    /\ \/ /\ document = "malformed"
          /\ Fail(r, "INVALID_RESPONSE")
       \/ /\ document = "success=false"
          /\ Fail(r, "PROVIDER_ERROR")
       \/ /\ document \in Countries
          /\ pc' = [pc EXCEPT ![r] = "closing"]
          /\ outcome' = [outcome EXCEPT ![r] = "SUCCESS"]
          /\ country' = [country EXCEPT ![r] = document]
          /\ UNCHANGED <<counter, timer>>
    /\ UNCHANGED <<address, declared, body>>

Return(r) ==
    /\ pc[r] = "closing"
    /\ End(r, outcome[r], country[r])
    /\ UNCHANGED <<address, declared, body>>

-----------------------------------------------------------------------------
(* Failures *)

\* Mutant: what was decided before the failure stands.
TransportOutcomeKept(r) == outcome[r]

TransportOutcome(r) == "PROVIDER_ERROR"

\* An IOException of the exchange, of a read, or of closing the body after the
\* country is known.  An interrupt of the waiting thread ends the call like this
\* too (and sets the interrupt flag again).
TransportFails(r) ==
    /\ pc[r] \in {"sent", "reading", "closing"}
    /\ Fail(r, TransportOutcome(r))
    /\ UNCHANGED <<address, declared, body>>

-----------------------------------------------------------------------------

Init ==
    /\ address \in [Calls -> {"public", "special"}]
    /\ pc = [r \in Calls |-> "start"]
    /\ declared = [r \in Calls |-> Absent]
    /\ body = [r \in Calls |-> 0]
    /\ outcome = [r \in Calls |-> "PROVIDER_ERROR"]
    /\ country = [r \in Calls |-> NoCountry]
    /\ counter = [o \in GeolocationOutcome |-> 0]
    /\ timer = [o \in GeolocationOutcome |-> 0]

\* What the code does by itself
Local(r) ==
    \/ RefuseAddress(r)
    \/ Send(r)
    \/ TimeOut(r)
    \/ RejectOversized(r)
    \/ Return(r)

\* What the provider and the network do
Remote(r) ==
    \/ \E status \in {"429", "2xx", "other"}, length \in NotANumber .. Limit + 1 :
          Respond(r, status, length)
    \/ Receive(r)
    \/ \E document \in Documents(r) : ParseCountry(r, document)
    \/ TransportFails(r)

Terminating == (\A r \in Calls : pc[r] = "done") /\ UNCHANGED vars

Next == (\E r \in Calls : Local(r) \/ Remote(r)) \/ Terminating

\* The code runs on, and reads a document that is all there; nothing is assumed
\* of the provider.
Fairness == \A r \in Calls :
    WF_vars(Local(r) \/ (BodyComplete(r) /\ \E d \in Documents(r) : ParseCountry(r, d)))

Spec == Init /\ [][Next]_vars /\ Fairness

-----------------------------------------------------------------------------
(* Properties *)

Done == {r \in Calls : pc[r] = "done"}

\* Every variable has its type.
TypeOK ==
    /\ address \in [Calls -> {"public", "special"}]
    /\ pc \in [Calls -> {"start", "sent", "reading", "closing", "done"}]
    /\ declared \in [Calls -> Absent .. Limit]
    /\ body \in [Calls -> 0 .. Limit + 1]
    /\ outcome \in [Calls -> GeolocationOutcome]
    /\ country \in [Calls -> {NoCountry} \cup Countries]
    /\ counter \in [GeolocationOutcome -> Nat]
    /\ timer \in [GeolocationOutcome -> Nat]

\* Outcome SUCCESS is counted exactly for the calls that return a country, also
\* when the exchange fails after the country is known.
SuccessMeansCountry ==
    counter["SUCCESS"] = Cardinality({r \in Done : country[r] # NoCountry})

\* How a call has ended.
EndedAs(r) == IF address[r] = "special" THEN "NON_PUBLIC_IP" ELSE outcome[r]

\* However a call ends, it is counted once, under the outcome it has ended with,
\* and its provider time is sampled under the same one, unless no request was sent.
EveryCallCountedOnce ==
    \A o \in GeolocationOutcome :
        /\ counter[o] = Cardinality({r \in Done : EndedAs(r) = o})
        /\ timer[o] = IF o = "NON_PUBLIC_IP" THEN 0 ELSE counter[o]

\* A call ends whatever the provider does, unless it has sent the headers and
\* does not go on with the body.
EndsUnlessBodyStalls ==
    \A r \in Calls :
        <>[](pc[r] = "done" \/ (pc[r] = "reading" /\ ~Oversized(r) /\ ~BodyComplete(r)))

\* GeolocationProperties.java:21 describes responseTimeout as the "bounded time
\* allowed for one remote response": every call would end.
EveryCallEnds == \A r \in Calls : <>(pc[r] = "done")

-----------------------------------------------------------------------------
(* The inductive invariant *)

\* Where a thread is, what it has decided and what it has read go together.
ThreadsMatchOutcomes ==
    \A r \in Calls :
        /\ address[r] = "special" => pc[r] \in {"start", "done"} /\ country[r] = NoCountry
        /\ pc[r] \in {"start", "sent", "reading"} => country[r] = NoCountry
        /\ pc[r] = "closing" => outcome[r] = "SUCCESS" /\ country[r] # NoCountry
        /\ pc[r] = "done" /\ address[r] = "public" =>
              /\ outcome[r] # "NON_PUBLIC_IP"
              /\ outcome[r] = "SUCCESS" <=> country[r] # NoCountry

\* The inductive invariant: the meters are the tally of the calls that have
\* ended, whatever the calls still running are about to do.
IInv ==
    /\ TypeOK
    /\ ThreadsMatchOutcomes
    /\ EveryCallCountedOnce

=============================================================================
