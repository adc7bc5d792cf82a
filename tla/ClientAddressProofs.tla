------------------------ MODULE ClientAddressProofs ------------------------
(***************************************************************************)
(* TLAPS proofs about ClientAddress, for any sets of addresses, any bound  *)
(* on the hops and headers of any length.                                  *)
(***************************************************************************)
EXTENDS ClientAddress, SequenceTheorems, WellFoundedInduction, TLAPS

-----------------------------------------------------------------------------
(* The loop *)

\* A set of positions in a chain has a last one.
LEMMA LastPosition ==
    ASSUME NEW n \in Nat, NEW T \in SUBSET (1 .. n), T # {}
    PROVE  Max(T) \in T /\ \A i \in T : Max(T) >= i
<1> DEFINE U == {n - i : i \in T}
<1>1. U \subseteq Nat /\ U # {}
  <2>1. ASSUME NEW i \in T PROVE n - i \in Nat
    OBVIOUS
  <2>2. PICK i \in T : TRUE
    OBVIOUS
  <2>3. n - i \in U
    BY <2>2
  <2> QED BY <2>1, <2>3
<1>2. PICK u \in U : \A v \in U : ~ (<<v, u>> \in OpToRel(<, Nat))
  <2> HIDE DEF U
  <2> QED BY <1>1, NatLessThanWellFounded, WFMin
<1>3. \A v \in U : ~ (v < u)
  <2> HIDE DEF U
  <2> QED BY <1>1, <1>2 DEF OpToRel
<1>4. PICK m \in T : u = n - m
  BY <1>2
<1>5. \A i \in T : m >= i
  BY <1>3, <1>4
<1> QED BY <1>5 DEF Max

\* The loop finds the last untrusted address of a chain, if there is one.
LEMMA LastUntrusted ==
    ASSUME NEW S, NEW chain \in Seq(S),
           NEW hop, hop = FirstUntrustedFromRight(chain)
    PROVE  /\ hop = 0 => \A i \in 1 .. Len(chain) : IsTrusted(chain[i])
           /\ hop # 0 => /\ hop \in 1 .. Len(chain) /\ ~IsTrusted(chain[hop])
                         /\ \A i \in (hop + 1) .. Len(chain) : IsTrusted(chain[i])
<1> DEFINE T == {i \in 1 .. Len(chain) : ~IsTrusted(chain[i])}
<1>1. hop = IF T # {} THEN Max(T) ELSE 0
  BY DEF FirstUntrustedFromRight, SelectLastInSeq
<1>2. Len(chain) \in Nat
  OBVIOUS
<1>3. CASE T = {}
  BY <1>1, <1>3
<1>4. CASE T # {}
  <2>1. T \in SUBSET (1 .. Len(chain))
    OBVIOUS
  <2>2. Max(T) \in T /\ \A i \in T : Max(T) >= i
    <3> HIDE DEF T
    <3> QED BY <1>2, <1>4, <2>1, LastPosition
  <2>3. hop \in T /\ \A i \in T : hop >= i
    BY <1>1, <1>4, <2>2
  <2>4. ASSUME NEW i \in (hop + 1) .. Len(chain) PROVE IsTrusted(chain[i])
    <3>1. i \in 1 .. Len(chain) /\ ~ (hop >= i)
      BY <1>2, <2>3
    <3> QED BY <2>3, <3>1
  <2> QED BY <1>2, <2>3, <2>4
<1> QED BY <1>3, <1>4

-----------------------------------------------------------------------------
(* The headers *)

Element == Address \cup {Bad}

\* A field-line is a sequence of elements.
LEMMA FieldLineType == FieldLine \subseteq Seq(Element)
BY DEF FieldLine, BoundedSeq, SeqOf, Element

\* A header has at most two field-lines that count, sequences of elements.
LEMMA FieldLinesType ==
    ASSUME NEW lines \in FieldLines, lines # <<>>
    PROVE  /\ lines[1] \in Seq(Element)
           /\ Len(lines) \in Nat /\ (Len(lines) > 1 \/ Len(lines) = 1)
<1>1. CASE \E line \in FieldLine : lines = <<line>>
  BY <1>1, FieldLineType
<1>2. CASE \E line \in FieldLine : lines = <<line, line>>
  BY <1>2, FieldLineType
<1> QED BY <1>1, <1>2 DEF FieldLines

\* A request whose headers decide, and do not fail: one well-formed field-line of
\* addresses behind a trusted peer, and an untrusted address in the chain.
LEMMA Decided ==
    ASSUME NEW q \in Request, ~HeadersIgnored(q), Resolve(q) # Failure
    PROVE  /\ q.peer \in Trusted
           /\ HeaderLine(q) \in Seq(Address)
           /\ LET header == IF q.forwarded # <<>> THEN q.forwarded ELSE q.xForwardedFor
              IN  header # <<>> /\ Len(header) = 1 /\ header[1] = HeaderLine(q)
           /\ FirstUntrustedFromRight(Chain(q)) # 0
           /\ Resolve(q) = Chain(q)[FirstUntrustedFromRight(Chain(q))]
<1> DEFINE header == IF q.forwarded # <<>> THEN q.forwarded ELSE q.xForwardedFor
           line == HeaderLine(q)
<1>1. q.peer \in Trusted
  BY DEF HeadersIgnored, IsTrusted
<1>2. q.peer # Bad /\ ~Ambiguous(q) /\ Parses(line)
  BY DEF Resolve
<1>3. /\ FirstUntrustedFromRight(Chain(q)) # 0
      /\ Resolve(q) = Chain(q)[FirstUntrustedFromRight(Chain(q))]
  BY <1>2 DEF Resolve
<1>4. header # <<>>
  <2>1. CASE header = <<>>
    <3>1. line = <<Bad>>
      BY <2>1 DEF HeaderLine
    <3>2. 1 \in DOMAIN line /\ line[1] = Bad
      BY <3>1
    <3> QED BY <1>2, <3>2 DEF Parses
  <2> QED BY <2>1
<1>5. header \in FieldLines /\ header[1] = line
  BY <1>4 DEF HeaderLine, Request
<1>6. line \in Seq(Element) /\ Len(header) = 1
  BY <1>2, <1>4, <1>5, FieldLinesType DEF Ambiguous
<1>7. line \in Seq(Address)
  <2>1. \A i \in 1 .. Len(line) : line[i] \in Address
    BY <1>2, <1>6 DEF Parses, Element
  <2> QED BY <1>6, <2>1
<1> QED BY <1>1, <1>3, <1>4, <1>5, <1>6, <1>7

\* The chain is the field-line and the peer, and its last untrusted address is in the line.
LEMMA ChainOfLine ==
    ASSUME NEW line \in Seq(Address), NEW peer \in Trusted,
           NEW chain, chain = Append(line, peer),
           NEW hop, hop = FirstUntrustedFromRight(chain), hop # 0
    PROVE  /\ chain \in Seq(Address) /\ Len(chain) = Len(line) + 1
           /\ hop \in 1 .. Len(line) /\ chain[hop] = line[hop] /\ line[hop] \in Untrusted
           /\ \A i \in (hop + 1) .. Len(line) : line[i] \in Trusted
<1>1. /\ chain \in Seq(Address) /\ Len(chain) = Len(line) + 1 /\ Len(line) \in Nat
      /\ \A i \in 1 .. Len(line) : chain[i] = line[i]
      /\ chain[Len(line) + 1] = peer
  BY DEF Address
<1>2. /\ hop \in 1 .. Len(chain) /\ ~IsTrusted(chain[hop])
      /\ \A i \in (hop + 1) .. Len(chain) : IsTrusted(chain[i])
  BY <1>1, LastUntrusted
<1>3. hop # Len(line) + 1
  BY <1>1, <1>2 DEF IsTrusted
<1>4. hop \in 1 .. Len(line)
  BY <1>1, <1>2, <1>3
<1>5. line[hop] \in Address
  BY <1>4
<1>6. line[hop] \in Untrusted
  BY <1>1, <1>2, <1>4, <1>5 DEF IsTrusted, Address
<1>7. ASSUME NEW i \in (hop + 1) .. Len(line) PROVE line[i] \in Trusted
  <2>1. i \in (hop + 1) .. Len(chain) /\ i \in 1 .. Len(line)
    BY <1>1, <1>4
  <2> QED BY <1>1, <1>2, <2>1 DEF IsTrusted
<1> QED BY <1>1, <1>4, <1>6, <1>7

\* With another part to the left of it, the last untrusted address of a line
\* stays the last one.
LEMMA LeftPartUnseen ==
    ASSUME NEW line \in Seq(Address), NEW peer \in Trusted,
           NEW hop \in 1 .. Len(line), line[hop] \in Untrusted,
           \A j \in (hop + 1) .. Len(line) : line[j] \in Trusted,
           NEW i \in 1 .. hop, NEW left \in Seq(Element),
           NEW chain, chain = Append(left \o SubSeq(line, i, Len(line)), peer),
           FirstUntrustedFromRight(chain) # 0
    PROVE  chain[FirstUntrustedFromRight(chain)] = line[hop]
<1> DEFINE n == Len(line)
           right == SubSeq(line, i, n)
           other == left \o right
           last == FirstUntrustedFromRight(chain)
           k == Len(left) + (hop - i) + 1
<1>1. n \in Nat /\ Len(left) \in Nat /\ i \in Int /\ hop \in Int /\ 1 <= i /\ i <= hop /\ hop <= n
  OBVIOUS
<1>2. /\ right \in Seq(Element) /\ Len(right) = n - i + 1
      /\ \A j \in 1 .. n - i + 1 : right[j] = line[i + j - 1]
  <2>1. \A j \in i .. n : line[j] \in Element
    BY <1>1 DEF Element
  <2> QED BY <1>1, <2>1, SubSeqProperties
<1>3. /\ other \in Seq(Element) /\ Len(other) = Len(left) + (n - i + 1)
      /\ \A j \in 1 .. Len(other) : j > Len(left) => other[j] = right[j - Len(left)]
  <2> HIDE DEF right
  <2>1. /\ left \o right \in Seq(Element)
        /\ Len(left \o right) = Len(left) + Len(right)
        /\ \A j \in 1 .. Len(left) + Len(right) :
              (left \o right)[j] = IF j <= Len(left) THEN left[j] ELSE right[j - Len(left)]
    BY <1>2, ConcatProperties
  <2> QED BY <1>1, <1>2, <2>1
<1>4. /\ chain \in Seq(Element) /\ Len(chain) = Len(other) + 1
      /\ \A j \in 1 .. Len(other) : chain[j] = other[j]
      /\ chain[Len(other) + 1] = peer
  <2>1. peer \in Element
    BY DEF Element, Address
  <2>2. chain = Append(other, peer)
    OBVIOUS
  <2>3. other \in Seq(Element)
    BY <1>3
  <2> HIDE DEF other
  <2> QED BY ONLY <2>1, <2>2, <2>3
<1> HIDE DEF right, other
<1>5. ASSUME NEW j \in hop .. n
      PROVE  /\ Len(left) + (j - i) + 1 \in 1 .. Len(other)
             /\ chain[Len(left) + (j - i) + 1] = line[j]
  <2> DEFINE p == Len(left) + (j - i) + 1
  <2>1. j - i + 1 \in 1 .. n - i + 1 /\ i + (j - i + 1) - 1 = j
    BY <1>1
  <2>2. right[j - i + 1] = line[j]
    BY <1>2, <2>1
  <2>3. p \in 1 .. Len(other) /\ p > Len(left) /\ p - Len(left) = j - i + 1
    BY <1>1, <1>3
  <2> HIDE DEF p
  <2>4. chain[p] = other[p] /\ other[p] = right[p - Len(left)]
    BY <1>3, <1>4, <2>3
  <2>5. p \in 1 .. Len(other) /\ chain[p] = line[j]
    BY <2>2, <2>3, <2>4
  <2> QED BY <2>5 DEF p
<1>6. k \in 1 .. Len(other) /\ chain[k] = line[hop]
  BY <1>1, <1>5
<1>7. \A j \in (k + 1) .. Len(chain) : IsTrusted(chain[j])
  <2>1. ASSUME NEW j \in (k + 1) .. Len(other) PROVE IsTrusted(chain[j])
    <3> DEFINE m == j - Len(left) + i - 1
    <3>1. m \in (hop + 1) .. n /\ m \in hop .. n /\ Len(left) + (m - i) + 1 = j
      BY <1>1, <1>3
    <3> HIDE DEF m
    <3>2. chain[j] = line[m]
      BY <1>5, <3>1
    <3> QED BY <3>1, <3>2 DEF IsTrusted
  <2>2. IsTrusted(chain[Len(other) + 1])
    BY <1>4 DEF IsTrusted
  <2>3. k \in Nat /\ Len(other) \in Nat /\ Len(chain) = Len(other) + 1
    BY <1>1, <1>3, <1>4
  <2> HIDE DEF k
  <2> QED BY ONLY <2>1, <2>2, <2>3
<1>8. ~IsTrusted(chain[k])
  BY <1>6, ConstantsOK DEF IsTrusted
<1>9. /\ last \in 1 .. Len(chain) /\ ~IsTrusted(chain[last])
      /\ \A j \in (last + 1) .. Len(chain) : IsTrusted(chain[j])
  <2>1. chain \in Seq(Element) /\ last = FirstUntrustedFromRight(chain) /\ last # 0
    BY <1>4
  <2> HIDE DEF last
  <2> QED BY ONLY <2>1, LastUntrusted
<1>10. last = k
  <2>1. k \in Int /\ last \in Int /\ k <= Len(chain) /\ last <= Len(chain) /\ Len(chain) \in Nat
    BY <1>3, <1>4, <1>6, <1>9
  <2> HIDE DEF k, last
  <2>2. ~ (last > k)
    BY ONLY <1>7, <1>9, <2>1
  <2>3. ~ (k > last)
    BY ONLY <1>8, <1>9, <2>1
  <2> QED BY <2>1, <2>2, <2>3
<1> QED BY <1>6, <1>10

-----------------------------------------------------------------------------
(* The properties *)

\* The request stays a request, and the answer is the result for it.
Answered == request \in Request /\ (answer # "none" => answer = Resolve(request))

\* An answer is always the result of the algorithm for this request.
LEMMA AnsweredAlways == Spec => []Answered
<1>1. Init => Answered
  BY DEF Init, Answered
<1>2. Answered /\ [Next]_vars => Answered'
  BY DEF Answered, Next, ResolveRequest, Terminating, vars
<1> QED BY <1>1, <1>2, PTL DEF Spec

\* Behind a trusted peer the client is the hop the trusted proxies vouch for.
THEOREM VouchedFor == Spec => []ClientIsVouchedFor
<1>1. Answered => ClientIsVouchedFor
  <2> SUFFICES ASSUME Answered, Resolved, ~HeadersIgnored(request),
                      NEW header,
                      header = IF request.forwarded # <<>> THEN request.forwarded
                                                           ELSE request.xForwardedFor,
                      NEW chain, chain = Append(header[1], request.peer)
               PROVE  /\ Len(header) = 1
                      /\ \E i \in DOMAIN chain :
                            /\ chain[i] = answer /\ chain[i] \in Untrusted
                            /\ \A j \in (i + 1) .. Len(chain) : chain[j] \in Trusted
    BY DEF ClientIsVouchedFor
  <2> DEFINE line == HeaderLine(request)
             peer == request.peer
             hop == FirstUntrustedFromRight(chain)
  <2>1. request \in Request /\ answer = Resolve(request) /\ Resolve(request) # Failure
    BY DEF Answered, Resolved
  <2>2. /\ request.peer \in Trusted /\ line \in Seq(Address)
        /\ Len(header) = 1 /\ header[1] = line
    BY <2>1, Decided
  <2>3. chain = Chain(request)
    BY <2>2 DEF Chain
  <2>4. hop # 0 /\ answer = chain[hop]
    BY <2>1, <2>3, Decided
  <2>5. chain = Append(line, peer) /\ peer \in Trusted /\ hop = FirstUntrustedFromRight(chain)
    BY <2>2
  <2> HIDE DEF line, peer, hop
  <2>6. /\ chain \in Seq(Address) /\ Len(chain) = Len(line) + 1
        /\ hop \in 1 .. Len(line) /\ chain[hop] = line[hop] /\ line[hop] \in Untrusted
    <3>1. line \in Seq(Address) /\ peer \in Trusted /\ chain = Append(line, peer)
      BY <2>2, <2>5
    <3>2. hop = FirstUntrustedFromRight(chain) /\ hop # 0
      BY <2>4, <2>5
    <3>3. chain \in Seq(Address) /\ Len(chain) = Len(line) + 1
      BY ONLY <3>1, <3>2, ChainOfLine
    <3>4. hop \in 1 .. Len(line)
      BY ONLY <3>1, <3>2, ChainOfLine
    <3>5. chain[hop] = line[hop] /\ line[hop] \in Untrusted
      BY ONLY <3>1, <3>2, ChainOfLine
    <3> QED BY <3>3, <3>4, <3>5
  <2>7. \A j \in (hop + 1) .. Len(chain) : chain[j] \in Trusted
    BY <2>4, <2>6, LastUntrusted DEF hop, IsTrusted
  <2>8. hop \in DOMAIN chain
    BY <2>2, <2>6
  <2> QED BY <2>2, <2>4, <2>6, <2>7, <2>8
<1> QED BY <1>1, AnsweredAlways, PTL

\* What stands to the left of the client in a header decides nothing.
THEOREM LeftPartDecidesNothing == Spec => []LeftPartIsHarmless
<1>1. Answered => LeftPartIsHarmless
  <2> SUFFICES ASSUME Answered, Resolved, ~HeadersIgnored(request),
                      NEW line, line = HeaderLine(request),
                      NEW i \in DOMAIN line, line[i] = answer, NEW left \in FieldLine,
                      NEW other, other = left \o SubSeq(line, i, Len(line)),
                      NEW changed,
                      changed = IF request.forwarded # <<>>
                                THEN [request EXCEPT !.forwarded = <<other>>]
                                ELSE [request EXCEPT !.xForwardedFor = <<other>>],
                      Resolve(changed) # Failure
               PROVE  Resolve(changed) = answer
    BY DEF LeftPartIsHarmless
  <2> DEFINE peer == request.peer
             hop == FirstUntrustedFromRight(Chain(request))
             chain == Append(other, peer)
             last == FirstUntrustedFromRight(chain)
  <2>1. request \in Request /\ answer = Resolve(request) /\ Resolve(request) # Failure
    BY DEF Answered, Resolved
  <2>2. /\ peer \in Trusted /\ line \in Seq(Address)
        /\ hop # 0 /\ answer = Chain(request)[hop]
        /\ request.forwarded # <<>> \/ request.xForwardedFor # <<>>
    BY <2>1, Decided
  <2>3. Chain(request) = Append(line, peer)
    BY DEF Chain
  <2>4. changed.mode = request.mode /\ changed.peer = peer /\ HeaderLine(changed) = other
    BY <2>1, <2>2 DEF Request, HeaderLine
  <2>5. last # 0 /\ Resolve(changed) = chain[last]
    <3>1. ~HeadersIgnored(changed) /\ Chain(changed) = chain
      BY <2>4 DEF HeadersIgnored, Chain
    <3> QED BY <3>1 DEF Resolve
  <2>6. /\ hop \in 1 .. Len(line) /\ answer = line[hop] /\ line[hop] \in Untrusted
        /\ \A j \in (hop + 1) .. Len(line) : line[j] \in Trusted
    BY <2>2, <2>3, ChainOfLine
  <2> HIDE DEF hop, chain, peer
  <2>7. i \in 1 .. hop
    <3>1. i \in 1 .. Len(line) /\ Len(line) \in Nat /\ line[i] \notin Trusted
      BY <2>2, <2>6, ConstantsOK
    <3> QED BY <2>6, <3>1
  <2>8. chain = Append(left \o SubSeq(line, i, Len(line)), peer) /\ left \in Seq(Element)
    BY FieldLineType DEF chain
  <2>9. chain[last] = line[hop]
    <3>1. line \in Seq(Address) /\ peer \in Trusted /\ last # 0
      BY <2>2, <2>5
    <3> QED BY <2>6, <2>7, <2>8, <3>1, LeftPartUnseen
  <2> QED BY <2>5, <2>6, <2>9
<1> QED BY <1>1, AnsweredAlways, PTL

=============================================================================
