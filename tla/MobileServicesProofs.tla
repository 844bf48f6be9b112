----------------------- MODULE MobileServicesProofs -----------------------
(***************************************************************************)
(* Safety of the services of a phone, each for every value of its          *)
(* constants: the boxes with their Xray stacks, and the log pump.          *)
(***************************************************************************)
EXTENDS Services, TLAPS

-----------------------------------------------------------------------------
(* Boxes on a phone *)

LEMMA PhoneOnly == [Next]_vars => [Phone!Next]_phoneVars
    BY DEF Next, vars, OnlyCore, OnlyBox, OnlySending, OnlyFan, OnlyExtra,
        OnlyDialer, OnlySpeed, OnlyVpn, OnlyDiag, OnlyWarp, OnlyDns,
        OnlyPhone, OnlyLog

LEMMA PhoneInit == Init => Phone!PhoneInv
    BY ServicesAssumption DEF Init, ServicesAssumption, Phone!Init,
        Phone!PhoneInv, Phone!BeforeBox, Phone!Goto, Phone!NewestIsProtected

LEMMA PhoneStep == Phone!PhoneInv /\ [Phone!Next]_phoneVars => Phone!PhoneInv'
  <1> SUFFICES ASSUME Phone!PhoneInv, [Phone!Next]_phoneVars PROVE Phone!PhoneInv'
    OBVIOUS
  <1> USE ServicesAssumption DEF ServicesAssumption, Phone!PhoneInv,
      Phone!BeforeBox, Phone!Goto, Phone!NewestIsProtected
  <1>1. CASE UNCHANGED phoneVars
    BY <1>1 DEF phoneVars
  <1>2. ASSUME NEW i \in MobileBoxes, NEW needs \in XrayNeeds,
      Phone!NewInstance(i, needs)
        PROVE  Phone!PhoneInv'
    BY <1>2 DEF Phone!NewInstance, Phone!installProtector
  <1>3. ASSUME NEW i \in MobileBoxes, NEW needs \in XrayNeeds,
      Phone!prepareTestEnv(i, needs)
        PROVE  Phone!PhoneInv'
    BY <1>3 DEF Phone!prepareTestEnv, Phone!installProtector
  <1>4. ASSUME NEW i \in MobileBoxes, Phone!startMainXray(i)
        PROVE  Phone!PhoneInv'
    BY <1>4 DEF Phone!startMainXray, Phone!StartXray
  <1>5. ASSUME NEW i \in MobileBoxes, Phone!startXrayFull(i)
        PROVE  Phone!PhoneInv'
    BY <1>5 DEF Phone!startXrayFull, Phone!StartXray
  <1>6. ASSUME NEW i \in MobileBoxes, Phone!NewFails(i)
        PROVE  Phone!PhoneInv'
    BY <1>6 DEF Phone!NewFails
  <1>7. ASSUME NEW i \in MobileBoxes, Phone!BoxNew(i)
        PROVE  Phone!PhoneInv'
    BY <1>7 DEF Phone!BoxNew
  <1>7a. ASSUME NEW i \in MobileBoxes, Phone!parseConfig(i)
        PROVE  Phone!PhoneInv'
    BY <1>7a DEF Phone!parseConfig
  <1>7b. ASSUME NEW i \in MobileBoxes, Phone!BoxNewFails(i)
        PROVE  Phone!PhoneInv'
    BY <1>7b DEF Phone!BoxNewFails
  <1>8. ASSUME NEW i \in MobileBoxes, Phone!Publish(i)
        PROVE  Phone!PhoneInv'
    BY <1>8 DEF Phone!Publish
  <1>9. ASSUME NEW i \in MobileBoxes, Phone!Start(i)
        PROVE  Phone!PhoneInv'
    BY <1>9 DEF Phone!Start
  <1>10. ASSUME NEW i \in MobileBoxes, Phone!BoxStarts(i)
        PROVE  Phone!PhoneInv'
    BY <1>10 DEF Phone!BoxStarts
  <1>11. ASSUME NEW i \in MobileBoxes, Phone!BoxStartFails(i)
        PROVE  Phone!PhoneInv'
    BY <1>11 DEF Phone!BoxStartFails
  <1>12. ASSUME NEW i \in MobileBoxes, Phone!Close(i)
        PROVE  Phone!PhoneInv'
    BY <1>12 DEF Phone!Close
  <1>13. ASSUME NEW i \in MobileBoxes, Phone!closeBoxWithTimeout(i)
        PROVE  Phone!PhoneInv'
    BY <1>13 DEF Phone!closeBoxWithTimeout
  <1>14. ASSUME NEW i \in MobileBoxes, Phone!CloseReturnsLate(i)
        PROVE  Phone!PhoneInv'
    BY <1>14 DEF Phone!CloseReturnsLate
  <1>15. ASSUME NEW i \in MobileBoxes, Phone!xrayClose(i)
        PROVE  Phone!PhoneInv'
    BY <1>15 DEF Phone!xrayClose
  <1>16. ASSUME NEW i \in MobileBoxes, Phone!releaseProtector(i)
        PROVE  Phone!PhoneInv'
    BY <1>16 DEF Phone!releaseProtector
  <1>17. ASSUME NEW i \in MobileBoxes, Phone!LookupIP(i)
        PROVE  Phone!PhoneInv'
    BY <1>17 DEF Phone!LookupIP
  <1>. QED
    BY <1>1, <1>2, <1>3, <1>4, <1>5, <1>6, <1>7, <1>7a, <1>7b, <1>8, <1>9, <1>10, <1>11,
        <1>12, <1>13, <1>14, <1>15, <1>16, <1>17 DEF Phone!Next

\* What there is of a box in each phase of its way up and down.
THEOREM PhoneInvariant == Spec => []Phone!PhoneInv
  <1>1. Phone!PhoneInv /\ [Next]_vars => Phone!PhoneInv'
    BY PhoneOnly, PhoneStep
  <1>. QED
    BY <1>1, PhoneInit, PTL DEF Spec

\* The newest box is the protected one until it has been closed, for any number
\* of instances and tests.
THEOREM PhoneProtectsNewest == Spec => []NewestIsProtected
  <1>1. Phone!PhoneInv => NewestIsProtected
    BY DEF NewestIsProtected, Phone!PhoneInv
  <1>. QED
    BY <1>1, PhoneInvariant, PTL

\* The Xray stack of an instance is up for as long as its box is.  One that could not
\* be made leaves no stack, no box and no live context; one that was closed leaves
\* none either, unless it was closed while it was starting, when parts of the box
\* may remain, or a test did not wait for its box.
THEOREM PhoneStackAroundBox == Spec => []StackAroundBox
  <1>1. Phone!PhoneInv => StackAroundBox
    BY DEF StackAroundBox, Phone!StackAroundBox, Phone!PhoneInv, Phone!BeforeBox
  <1>. QED
    BY <1>1, PhoneInvariant, PTL

\* A resolver answers from the box it came with and finds it at its start.
THEOREM PhoneResolvesOwnBox == Spec => []OwnBoxResolves
  <1>1. Phone!PhoneInv => OwnBoxResolves
    BY DEF OwnBoxResolves, Phone!OwnBoxResolves, Phone!PhoneInv
  <1>. QED
    BY <1>1, PhoneInvariant, PTL

-----------------------------------------------------------------------------
(* The log pump *)

LEMMA LogOnly == [Next]_vars => [Log!Next]_logVars
    BY DEF Next, vars, OnlyCore, OnlyBox, OnlySending, OnlyFan, OnlyExtra,
        OnlyDialer, OnlySpeed, OnlyVpn, OnlyDiag, OnlyWarp, OnlyDns,
        OnlyPhone, OnlyLog

\* What taking the first element, appending one and concatenating do to the
\* elements of a sequence and to their order.
LEMMA EmptyFacts == Log!Range(<<>>) = {} /\ Log!InOrder(<<>>)
  BY DEF Log!Range, Log!InOrder

LEMMA TailFacts ==
  ASSUME NEW s \in Seq(Nat), s # <<>>
  PROVE  /\ Head(s) \in Nat /\ Tail(s) \in Seq(Nat)
         /\ Tail(s) = <<>> <=> Len(s) = 1
         /\ Log!Range(s) = {Head(s)} \cup Log!Range(Tail(s))
         /\ Log!InOrder(s) => Log!InOrder(Tail(s)) /\ \A n \in Log!Range(Tail(s)) : Head(s) < n
  <1>1. /\ Len(s) \in Nat \ {0} /\ DOMAIN s = 1..Len(s) /\ Head(s) = s[1] /\ Head(s) \in Nat
        /\ Tail(s) \in Seq(Nat) /\ DOMAIN Tail(s) = 1..(Len(s) - 1)
        /\ \A k \in 1..(Len(s) - 1) : Tail(s)[k] = s[k + 1]
    OBVIOUS
  <1>2. Tail(s) = <<>> <=> Len(s) = 1
    <2>1. \A t \in Seq(Nat) : t = <<>> <=> Len(t) = 0
      OBVIOUS
    <2>2. Len(Tail(s)) = Len(s) - 1
      OBVIOUS
    <2>3. Tail(s) = <<>> <=> Len(Tail(s)) = 0
      BY <1>1, <2>1, Zenon
    <2>4. Len(Tail(s)) = 0 <=> Len(s) = 1
      BY <1>1, <2>2
    <2>. QED
      BY <2>3, <2>4, Zenon
  <1>3. Log!Range(s) = {Head(s)} \cup Log!Range(Tail(s))
    <2>1. ASSUME NEW k \in DOMAIN s PROVE s[k] \in {Head(s)} \cup Log!Range(Tail(s))
      <3>1. CASE k = 1
        BY <1>1, <3>1
      <3>2. CASE k # 1
        <4>1. k - 1 \in DOMAIN Tail(s) /\ Tail(s)[k - 1] = s[k]
          BY <1>1, <3>2
        <4>. QED
          BY <4>1 DEF Log!Range
      <3>. QED
        BY <3>1, <3>2
    <2>2. ASSUME NEW k \in DOMAIN Tail(s) PROVE Tail(s)[k] \in Log!Range(s)
      <3>1. k + 1 \in DOMAIN s /\ Tail(s)[k] = s[k + 1]
        BY <1>1
      <3>. QED
        BY <3>1 DEF Log!Range
    <2>3. Head(s) \in Log!Range(s)
      BY <1>1 DEF Log!Range
    <2>. QED
      BY <2>1, <2>2, <2>3 DEF Log!Range
  <1>4. ASSUME Log!InOrder(s) PROVE Log!InOrder(Tail(s)) /\ \A n \in Log!Range(Tail(s)) : Head(s) < n
    <2>1. ASSUME NEW k \in DOMAIN Tail(s)
          PROVE  k \in Nat /\ 1 < k + 1 /\ 1 \in DOMAIN s /\ k + 1 \in DOMAIN s /\ Tail(s)[k] = s[k + 1]
      BY <1>1
    <2>2. ASSUME NEW j \in DOMAIN Tail(s), NEW k \in DOMAIN Tail(s), j < k
          PROVE  Tail(s)[j] < Tail(s)[k]
      <3>1. j + 1 < k + 1
        BY <2>1, <2>2
      <3>. QED
        BY <1>4, <2>1, <3>1 DEF Log!InOrder
    <2>3. ASSUME NEW k \in DOMAIN Tail(s) PROVE Head(s) < Tail(s)[k]
      BY <1>1, <1>4, <2>1 DEF Log!InOrder
    <2>. QED
      BY <2>2, <2>3 DEF Log!Range, Log!InOrder
  <1>. QED
    BY <1>1, <1>2, <1>3, <1>4

LEMMA AppendFacts ==
  ASSUME NEW s \in Seq(Nat), NEW n \in Nat
  PROVE  /\ Append(s, n) \in Seq(Nat)
         /\ Log!Range(Append(s, n)) = Log!Range(s) \cup {n}
         /\ Log!InOrder(s) /\ (\A m \in Log!Range(s) : m < n) => Log!InOrder(Append(s, n))
  <1>1. /\ Append(s, n) \in Seq(Nat) /\ Len(s) \in Nat /\ DOMAIN s = 1..Len(s)
        /\ DOMAIN Append(s, n) = (DOMAIN s) \cup {Len(s) + 1}
        /\ Append(s, n)[Len(s) + 1] = n
        /\ \A k \in DOMAIN s : Append(s, n)[k] = s[k]
    OBVIOUS
  <1>2. Log!Range(Append(s, n)) = Log!Range(s) \cup {n}
    BY <1>1 DEF Log!Range
  <1>3. ASSUME Log!InOrder(s), \A m \in Log!Range(s) : m < n PROVE Log!InOrder(Append(s, n))
    BY <1>1, <1>3 DEF Log!Range, Log!InOrder
  <1>. QED
    BY <1>1, <1>2, <1>3

LEMMA ConcatFacts ==
  ASSUME NEW s \in Seq(Nat), NEW t \in Seq(Nat)
  PROVE  /\ s \o t \in Seq(Nat)
         /\ Log!Range(s \o t) = Log!Range(s) \cup Log!Range(t)
         /\ Log!InOrder(s) /\ Log!InOrder(t) /\ Log!Before(s, t) => Log!InOrder(s \o t)
  <1>1. /\ s \o t \in Seq(Nat) /\ Len(s) \in Nat /\ Len(t) \in Nat
        /\ DOMAIN s = 1..Len(s) /\ DOMAIN t = 1..Len(t) /\ DOMAIN (s \o t) = 1..(Len(s) + Len(t))
        /\ \A k \in DOMAIN s : (s \o t)[k] = s[k]
        /\ \A k \in DOMAIN t : (s \o t)[Len(s) + k] = t[k]
    OBVIOUS
  <1>2. ASSUME NEW k \in DOMAIN (s \o t), k \notin DOMAIN s
        PROVE  k - Len(s) \in DOMAIN t /\ (s \o t)[k] = t[k - Len(s)]
    <2>1. k - Len(s) \in DOMAIN t /\ Len(s) + (k - Len(s)) = k
      BY <1>1, <1>2
    <2>. QED
      BY <1>1, <2>1
  <1>3. Log!Range(s \o t) = Log!Range(s) \cup Log!Range(t)
    <2>1. ASSUME NEW k \in DOMAIN s PROVE s[k] \in Log!Range(s \o t)
      <3>1. k \in DOMAIN (s \o t)
        BY <1>1
      <3>. QED
        BY <1>1, <3>1 DEF Log!Range
    <2>2. ASSUME NEW k \in DOMAIN t PROVE t[k] \in Log!Range(s \o t)
      <3>1. Len(s) + k \in DOMAIN (s \o t)
        BY <1>1
      <3>. QED
        BY <1>1, <3>1 DEF Log!Range
    <2>3. ASSUME NEW k \in DOMAIN (s \o t) PROVE (s \o t)[k] \in Log!Range(s) \cup Log!Range(t)
      BY <1>1, <1>2 DEF Log!Range
    <2>. QED
      BY <2>1, <2>2, <2>3 DEF Log!Range
  <1>4. ASSUME Log!InOrder(s), Log!InOrder(t), Log!Before(s, t),
               NEW j \in DOMAIN (s \o t), NEW k \in DOMAIN (s \o t), j < k
        PROVE  (s \o t)[j] < (s \o t)[k]
    <2>1. CASE k \in DOMAIN s
      BY <1>1, <1>4, <2>1 DEF Log!InOrder
    <2>2. CASE k \notin DOMAIN s /\ j \in DOMAIN s
      BY <1>1, <1>2, <1>4, <2>2 DEF Log!Before, Log!Range
    <2>3. CASE k \notin DOMAIN s /\ j \notin DOMAIN s
      <3>1. j - Len(s) < k - Len(s)
        BY <1>1, <1>4
      <3>. QED
        BY <1>2, <1>4, <2>3, <3>1 DEF Log!InOrder
    <2>. QED
      BY <2>1, <2>2, <2>3
  <1>. QED
    BY <1>1, <1>3, <1>4 DEF Log!InOrder

LEMMA RangeInNat == ASSUME NEW s \in Seq(Nat) PROVE Log!Range(s) \subseteq Nat
  BY DEF Log!Range

LEMMA LogInit == Init => Log!LogInv
  BY EmptyFacts, ServicesAssumption DEF Init, ServicesAssumption, Log!Init, Log!LogInv,
     Log!QueuesInv, Log!WakeInv, Log!Before

LEMMA LogStep == Log!LogInv /\ [Log!Next]_logVars => Log!LogInv'
  <1> SUFFICES ASSUME Log!LogInv, [Log!Next]_logVars PROVE Log!LogInv'
    OBVIOUS
  <1>0. Limits \subseteq Nat \ {0}
    BY ServicesAssumption DEF ServicesAssumption
  <1> USE <1>0 DEF Log!LogInv, Log!QueuesInv, Log!WakeInv
  <1>1. CASE UNCHANGED logVars
    BY <1>1 DEF logVars
  <1>2. ASSUME NEW l \in Limits, Log!setLimit(l)
        PROVE  Log!LogInv'
    BY <1>2 DEF Log!setLimit
  <1>3. CASE Log!setSink
    BY <1>3 DEF Log!setSink
  <1>4. CASE Log!clearSink
    BY <1>4 DEF Log!clearSink
  <1>5. CASE Log!Sleeps
    BY <1>5 DEF Log!Sleeps
  <1>6. CASE Log!Wakes
    BY <1>6 DEF Log!Wakes
  <1>7. CASE Log!take
    <2>1. pumpPC = "take" /\ pending' = <<>> /\ batch = <<>>
          /\ UNCHANGED <<limit, delivered, lines>>
      BY <1>7 DEF Log!take
    <2>2. CASE sink = "none" \/ pending = <<>>
      <3>1. pumpPC' = "begin" /\ lost' = lost \cup Log!Range(pending) /\ UNCHANGED batch
        BY <1>7, <2>2 DEF Log!take
      <3>2. Log!Range(delivered) \cap Log!Range(pending) = {}
        BY RangeInNat DEF Log!Before
      <3>. QED
        BY <2>1, <3>1, <3>2, EmptyFacts DEF Log!Before
    <2>3. CASE ~(sink = "none" \/ pending = <<>>)
      <3>1. pumpPC' = "deliver" /\ batch' = pending /\ UNCHANGED lost
        BY <1>7, <2>3 DEF Log!take
      <3>. QED
        BY <2>1, <2>3, <3>1, EmptyFacts DEF Log!Before
    <2>. QED
      BY <2>2, <2>3
  <1>8. CASE Log!Write
    <2>1. /\ batch # <<>> /\ delivered' = Append(delivered, Head(batch)) /\ batch' = Tail(batch)
          /\ pumpPC' = IF Len(batch) = 1 THEN "take" ELSE "deliver"
          /\ UNCHANGED <<limit, pending, notify, waking, lost, lines>>
      BY <1>8 DEF Log!Write
    <2>2. /\ batch' \in Seq(Nat) /\ Head(batch) \in Nat /\ Log!InOrder(batch')
          /\ pumpPC' = "deliver" <=> batch' # <<>>
          /\ Log!Range(batch) = {Head(batch)} \cup Log!Range(batch')
          /\ \A n \in Log!Range(batch') : Head(batch) < n
      BY <2>1, TailFacts
    <2>3. /\ delivered' \in Seq(Nat) /\ Log!Range(delivered') = Log!Range(delivered) \cup {Head(batch)}
          /\ Log!InOrder(delivered')
      BY <2>1, <2>2, AppendFacts DEF Log!Before
    <2>4. Log!Before(delivered', batch') /\ Log!Before(batch', pending) /\ Log!Before(delivered', pending)
      BY <2>2, <2>3 DEF Log!Before
    <2>5. Log!WakeInv'
      BY <2>1
    <2>. QED
      BY <2>1, <2>2, <2>3, <2>4, <2>5
  <1>9. ASSUME NEW g \in Loggers, Log!push(g)
        PROVE  Log!LogInv'
    <2>1. /\ lines' = lines + 1 /\ waking' # {}
          /\ UNCHANGED <<limit, pumpPC, batch, delivered>>
      BY <1>9 DEF Log!push
    <2>2. PICK kept \in Seq(Nat) :
             /\ pending' = Append(kept, lines + 1) /\ Log!InOrder(kept)
             /\ Log!Range(kept) \subseteq Log!Range(pending)
             /\ lost' = lost \cup (Log!Range(pending) \ Log!Range(kept))
      <3>1. CASE Len(pending) >= limit
        <4>0. pending # <<>>
          BY <3>1
        <4>1. /\ pending # <<>> /\ pending' = Append(Tail(pending), lines + 1)
              /\ lost' = lost \cup {Head(pending)}
          BY <1>9, <3>1, <4>0 DEF Log!push
        <4>2. /\ Tail(pending) \in Seq(Nat) /\ Log!InOrder(Tail(pending))
              /\ Log!Range(pending) = {Head(pending)} \cup Log!Range(Tail(pending))
              /\ \A n \in Log!Range(Tail(pending)) : Head(pending) < n /\ Head(pending) \in Nat
          BY <4>1, TailFacts
        <4>3. Log!Range(pending) \ Log!Range(Tail(pending)) = {Head(pending)}
          BY <4>2
        <4>. QED
          BY <4>1, <4>2, <4>3
      <3>2. CASE ~(Len(pending) >= limit)
        <4>1. pending' = Append(pending, lines + 1) /\ UNCHANGED lost
          BY <1>9, <3>2 DEF Log!push
        <4>2. lost = lost \cup (Log!Range(pending) \ Log!Range(pending))
          OBVIOUS
        <4>. QED
          BY <4>1, <4>2
      <3>. QED
        BY <3>1, <3>2
    <2>3. \A n \in Log!Range(delivered) \cup Log!Range(batch) \cup Log!Range(pending) : n < lines + 1
      OBVIOUS
    <2>4. /\ pending' \in Seq(Nat) /\ Log!InOrder(pending')
          /\ Log!Range(pending') = Log!Range(kept) \cup {lines + 1}
      <3>1. lines + 1 \in Nat /\ \A n \in Log!Range(kept) : n < lines + 1
        BY <2>2, <2>3
      <3>. QED
        BY <2>2, <3>1, AppendFacts
    <2>5. Log!Before(batch, pending') /\ Log!Before(delivered, pending')
      BY <2>2, <2>3, <2>4 DEF Log!Before
    <2>6. /\ Log!Range(delivered) \cap Log!Range(pending) = {}
          /\ Log!Range(batch) \cap Log!Range(pending) = {}
      BY RangeInNat DEF Log!Before
    <2>7. /\ lost' \subseteq 1..lines'
          /\ Log!Range(delivered') \cup Log!Range(batch') \cup Log!Range(pending') = (1..lines') \ lost'
      <3>1. 1..lines' = (1..lines) \cup {lines + 1} /\ lines + 1 \notin 1..lines
        BY <2>1
      <3> DEFINE D == Log!Range(delivered)
                 B == Log!Range(batch)
                 P == Log!Range(pending)
                 K == Log!Range(kept)
                 L == 1..lines
      <3>2. D \cup B \cup P = L \ lost /\ lost \subseteq L
        OBVIOUS
      <3>3. D \cap P = {} /\ B \cap P = {} /\ K \subseteq P /\ lost' = lost \cup (P \ K)
        BY <2>2, <2>6
      <3>4. /\ Log!Range(delivered') = D /\ Log!Range(batch') = B
            /\ Log!Range(pending') = K \cup {lines + 1}
        BY <2>1, <2>4
      <3>5. 1..lines' = L \cup {lines + 1} /\ lines + 1 \notin L
        BY <3>1
      <3> HIDE DEF D, B, P, K, L, Log!LogInv, Log!QueuesInv, Log!WakeInv
      <3>6. lost' \subseteq 1..lines'
        BY <3>2, <3>3, <3>5
      <3>7. D \cup B \cup (K \cup {lines + 1}) = (1..lines') \ lost'
        BY <3>2, <3>3, <3>5
      <3>. QED
        BY <3>4, <3>6, <3>7
    <2>8. Log!WakeInv'
      BY <2>1
    <2>9. /\ limit' \in Nat \ {0} /\ lines' \in Nat
          /\ pumpPC' = "deliver" <=> batch' # <<>>
      BY <2>1
    <2>10. /\ delivered' \in Seq(Nat) /\ batch' \in Seq(Nat)
           /\ Log!InOrder(delivered') /\ Log!InOrder(batch')
           /\ Log!Before(delivered', batch')
           /\ Log!Before(batch', pending') /\ Log!Before(delivered', pending')
      BY <2>1, <2>5
    <2> HIDE DEF Log!WakeInv
    <2>. QED
      BY <2>4, <2>7, <2>8, <2>9, <2>10
  <1>10. ASSUME NEW g \in Loggers, Log!wake(g)
        PROVE  Log!LogInv'
    BY <1>10 DEF Log!wake
  <1>. QED
    BY <1>1, <1>2, <1>3, <1>4, <1>5, <1>6, <1>7, <1>8, <1>9, <1>10 DEF Log!Next

\* The queues hold what was logged, in order.
THEOREM LogInvariant == Spec => []Log!LogInv
  <1>1. Log!LogInv /\ [Next]_vars => Log!LogInv'
    BY LogOnly, LogStep
  <1>. QED
    BY <1>1, LogInit, PTL DEF Spec

\* No line waits for a pump that sleeps, for any number of loggers and lines.
THEOREM LogStrandsNoLine == Spec => []NoLineStranded
  <1>1. Log!LogInv => NoLineStranded
    BY DEF NoLineStranded, Log!NoLineStranded, Log!LogInv, Log!WakeInv
  <1>. QED
    BY <1>1, LogInvariant, PTL

\* Lines are delivered once and in order, and each is delivered, on its way or
\* was dropped, for any limit.
THEOREM LogAccountsForLines == Spec => []LinesAccounted
  <1>1. Log!LogInv => LinesAccounted
    <2> SUFFICES ASSUME Log!LogInv PROVE LinesAccounted
      OBVIOUS
    <2> DEFINE front == delivered \o batch
    <2> USE DEF Log!LogInv, Log!QueuesInv, Log!Before
    <2>1. /\ front \in Seq(Nat) /\ Log!InOrder(front)
          /\ Log!Range(front) = Log!Range(delivered) \cup Log!Range(batch)
      BY ConcatFacts
    <2>2. /\ Log!InOrder(front \o pending)
          /\ Log!Range(front \o pending) = Log!Range(front) \cup Log!Range(pending)
      BY <2>1, ConcatFacts
    <2>. QED
      BY <2>1, <2>2 DEF LinesAccounted, Log!LinesAccounted, Log!InOrder
  <1>. QED
    BY <1>1, LogInvariant, PTL

-----------------------------------------------------------------------------
(* Status of a phone *)

CONSTANTS Pollers, MaxTotal
VARIABLES total, statusPC, read, rate, statusSampled, lastTotal

Traffic == INSTANCE MobileStatus

\* What was stored last is not newer than what a call in progress has read.
TrafficInv ==
    /\ total \in Nat /\ lastTotal \in 0..total
    /\ statusPC \in [Pollers -> {"idle", "read"}]
    /\ read \in [Pollers -> Nat] /\ rate \in [Pollers -> Int]
    /\ \A p \in Pollers : statusPC[p] = "read" => read[p] \in lastTotal..total
    /\ Traffic!RatesCountBytes

\* The negative rate that mobile_status finds takes two calls that overlap: a
\* phone with one goroutine that calls Status is told the truth, whatever moves
\* between the totals it reads and the lock it takes.
THEOREM StatusCountsForOneCaller ==
    ASSUME MaxTotal \in Nat, \A p, q \in Pollers : p = q
    PROVE  Traffic!Spec => []Traffic!RatesCountBytes
  <1> USE DEF TrafficInv, Traffic!RatesCountBytes
  <1>1. Traffic!Init => TrafficInv
    BY DEF Traffic!Init
  <1>2. TrafficInv /\ [Traffic!Next]_(Traffic!vars) => TrafficInv'
    <2> SUFFICES ASSUME TrafficInv, [Traffic!Next]_(Traffic!vars) PROVE TrafficInv'
      OBVIOUS
    <2>1. CASE UNCHANGED Traffic!vars
      BY <2>1 DEF Traffic!vars
    <2>2. CASE Traffic!Transfer
      BY <2>2 DEF Traffic!Transfer
    <2>3. ASSUME NEW p \in Pollers, Traffic!ReadTotal(p) PROVE TrafficInv'
      BY <2>3 DEF Traffic!ReadTotal
    <2>4. ASSUME NEW p \in Pollers, Traffic!Status(p) PROVE TrafficInv'
      BY <2>4 DEF Traffic!Status
    <2>. QED
      BY <2>1, <2>2, <2>3, <2>4 DEF Traffic!Next
  <1>. QED
    BY <1>1, <1>2, PTL DEF Traffic!Spec

=============================================================================
