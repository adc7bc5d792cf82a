--------------------------- MODULE ClientAddress ---------------------------
(***************************************************************************)
(* ServletClientIpResolver.resolve: which address counts as the client's,  *)
(* given the transport peer and the forwarding headers of a request.       *)
(* A header field-line is the list of its elements; an element is an       *)
(* address or Bad, which stands for all that the parsers reject.           *)
(***************************************************************************)
EXTENDS Naturals, Sequences, FiniteSets, SequencesExt

CONSTANTS
    Trusted,    \* addresses in coupon.client-ip.trusted-proxies
    Untrusted,  \* all other addresses
    Bad,        \* an element that is no address in the accepted syntax
    MaxHops,    \* coupon.client-ip.max-forwarded-hops
    MaxLength   \* bound of the model: elements of one field-line

ASSUME ConstantsOK ==
    /\ Trusted \cap Untrusted = {}
    /\ Bad \notin Trusted \cup Untrusted
    /\ MaxHops \in Nat \ {0} /\ MaxLength \in Nat

Address == Trusted \cup Untrusted

\* A field-line without elements is blank.
FieldLine == BoundedSeq(Address \cup {Bad}, MaxLength)
\* The field-lines of one header.  Of a second one the code sees that it exists.
FieldLines == {<<>>} \cup {<<line>> : line \in FieldLine}
                     \cup {<<line, line>> : line \in FieldLine}
Request == [mode : {"DIRECT", "TRUSTED_PROXY"},
            peer : Address \cup {Bad},        \* getRemoteAddr()
            forwarded : FieldLines,           \* getHeaders("Forwarded")
            xForwardedFor : FieldLines]       \* getHeaders("X-Forwarded-For")

Failure == "ClientIpResolutionException"

VARIABLES
    request,
    answer,   \* the address resolve returns, or Failure
    counted   \* the client.ip.resolution meters it increments: source, outcome

vars == <<request, answer, counted>>

-----------------------------------------------------------------------------
(* The algorithm *)

IsTrusted(a) == a \in Trusted

\* Forwarded and X-Forwarded-For parsers alike: within the bounds, all elements
\* addresses.  (A blank line has been refused before.)
Parses(line) == Len(line) <= MaxHops /\ \A i \in DOMAIN line : line[i] # Bad

HeadersIgnored(q) == q.mode = "DIRECT" \/ ~IsTrusted(q.peer)

Source(q) ==
    IF q.peer = Bad \/ HeadersIgnored(q) THEN "DIRECT"
    ELSE IF q.forwarded # <<>> THEN "FORWARDED"
    ELSE IF q.xForwardedFor # <<>> THEN "X_FORWARDED_FOR"
    ELSE "DIRECT"

\* More than one field-line of either header, or a blank one
Ambiguous(q) ==
    \E lines \in {q.forwarded, q.xForwardedFor} :
        Len(lines) > 1 \/ \E i \in DOMAIN lines : lines[i] = <<>>

\* Mutant: X-Forwarded-For is used when Forwarded cannot be parsed.
HeaderLineFallingBack(q) ==
    IF q.forwarded # <<>> /\ Parses(q.forwarded[1]) THEN q.forwarded[1]
    ELSE IF q.xForwardedFor # <<>> THEN q.xForwardedFor[1] ELSE <<Bad>>

\* Forwarded takes precedence, and there is no way back to X-Forwarded-For.
HeaderLine(q) ==
    IF q.forwarded # <<>> THEN q.forwarded[1]
    ELSE IF q.xForwardedFor # <<>> THEN q.xForwardedFor[1]
    ELSE <<Bad>>

\* Mutant: from left to right.
FirstUntrustedFromLeft(chain) == SelectInSeq(chain, LAMBDA a : ~IsTrusted(a))

\* The loop from the last index down to the first untrusted address; 0 if none
FirstUntrustedFromRight(chain) == SelectLastInSeq(chain, LAMBDA a : ~IsTrusted(a))

Chain(q) == Append(HeaderLine(q), q.peer)

Resolve(q) ==
    IF q.peer = Bad THEN Failure
    ELSE IF HeadersIgnored(q) THEN q.peer
    ELSE IF Ambiguous(q) \/ ~Parses(HeaderLine(q)) THEN Failure
    ELSE LET hop == FirstUntrustedFromRight(Chain(q))
         IN  IF hop = 0 THEN Failure ELSE Chain(q)[hop]

-----------------------------------------------------------------------------

Init ==
    /\ request \in Request
    /\ answer = "none"
    /\ counted = {}

ResolveRequest ==
    /\ answer = "none"
    /\ answer' = Resolve(request)
    /\ counted' = counted \cup
          {<<Source(request), IF answer' = Failure THEN "FAILURE" ELSE "SUCCESS">>}
    /\ UNCHANGED request

Terminating == answer # "none" /\ UNCHANGED vars

Next == ResolveRequest \/ Terminating

Spec == Init /\ [][Next]_vars

-----------------------------------------------------------------------------
(* Properties *)

Resolved == answer \notin {"none", Failure}

\* EMP-006, 7.2: behind a trusted peer the client is the hop that the trusted
\* proxies vouch for: it is not trusted itself and everything to its right is.
ClientIsVouchedFor ==
    Resolved /\ ~HeadersIgnored(request) =>
        LET header == IF request.forwarded # <<>> THEN request.forwarded
                                                  ELSE request.xForwardedFor
            chain == Append(header[1], request.peer)
        IN  /\ Len(header) = 1
            /\ \E i \in DOMAIN chain :
                  /\ chain[i] = answer /\ chain[i] \in Untrusted
                  /\ \A j \in (i + 1) .. Len(chain) : chain[j] \in Trusted

\* What stands to the left of the client in the header was written by it, or by
\* anybody: another left part makes the resolution fail or changes nothing.
LeftPartIsHarmless ==
    Resolved /\ ~HeadersIgnored(request) =>
        LET line == HeaderLine(request)
        IN  \A i \in DOMAIN line : line[i] = answer =>
              \A left \in FieldLine :
                  LET other == left \o SubSeq(line, i, Len(line))
                      changed == IF request.forwarded # <<>>
                                 THEN [request EXCEPT !.forwarded = <<other>>]
                                 ELSE [request EXCEPT !.xForwardedFor = <<other>>]
                  IN  Resolve(changed) \in {answer, Failure}

=============================================================================
