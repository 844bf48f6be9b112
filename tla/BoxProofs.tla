------------------------------ MODULE BoxProofs ------------------------------
(***************************************************************************)
(* The stages of a sing-box instance, for any configuration and any stage  *)
(* that fails.  Two facts about the order of the stages carry the proof:   *)
(* StartShape says what comes where in a start, CloseShape in a close.     *)
(***************************************************************************)
EXTENDS Services, TLAPS

LEMMA BoxOnly == [Next]_vars => [Box!Next]_boxVars
  BY DEF Next, vars, OnlyCore, OnlyBox, OnlySending, OnlyFan, OnlyExtra, OnlyDialer,
         OnlySpeed, OnlyVpn, OnlyDiag, OnlyWarp, OnlyDns, OnlyPhone, OnlyLog

-----------------------------------------------------------------------------
(* Sequences put together *)

LEMMA Joined ==
  ASSUME NEW S, NEW s \in Seq(S), NEW t \in Seq(S)
  PROVE  /\ s \o t \in Seq(S) /\ Len(s \o t) = Len(s) + Len(t)
         /\ Len(s) \in Nat /\ Len(t) \in Nat
         /\ \A i \in 1..Len(s) : (s \o t)[i] = s[i]
         /\ \A i \in 1..Len(t) : (s \o t)[Len(s) + i] = t[i]
         /\ \A i \in (Len(s) + 1)..(Len(s) + Len(t)) : (s \o t)[i] = t[i - Len(s)]
  OBVIOUS

LEMMA Element ==
  ASSUME NEW S, NEW s \in Seq(S)
  PROVE  \A i \in 1..Len(s) : s[i] \in S
  OBVIOUS

\* What holds of a sequence from some place on holds of a longer one.
LEMMA Longer ==
  ASSUME NEW S, NEW T, T \subseteq S, NEW s \in Seq(S), NEW t \in Seq(T),
         NEW k \in Nat, \A i \in (k + 1)..Len(s) : s[i] \in T
  PROVE  /\ s \o t \in Seq(S) /\ Len(s \o t) = Len(s) + Len(t)
         /\ Len(s) \in Nat /\ Len(t) \in Nat
         /\ \A i \in 1..Len(s) : (s \o t)[i] = s[i]
         /\ \A i \in (k + 1)..Len(s \o t) : (s \o t)[i] \in T
  <1>1. t \in Seq(S)
    OBVIOUS
  <1>2. ASSUME NEW i \in (k + 1)..Len(s \o t) PROVE (s \o t)[i] \in T
    <2>1. Len(s) \in Nat /\ Len(t) \in Nat /\ Len(s \o t) = Len(s) + Len(t)
      BY <1>1, Joined
    <2>2. CASE i <= Len(s)
      BY <1>1, <2>1, <2>2, Joined
    <2>3. CASE i > Len(s)
      <3>1. i - Len(s) \in 1..Len(t) /\ i \in (Len(s) + 1)..(Len(s) + Len(t))
        BY <2>1, <2>3
      <3>2. (s \o t)[i] = t[i - Len(s)]
        BY <1>1, <3>1, Joined
      <3>. QED
        BY <3>1, <3>2
    <2>. QED
      BY <2>1, <2>2, <2>3
  <1>. QED
    BY <1>1, <1>2, Joined

LEMMA StageIs ==
  ASSUME NEW S, NEW parts \in Seq(S), NEW stage
  PROVE  /\ Box!Stage(stage, parts) \in Seq({stage} \X S)
         /\ Len(Box!Stage(stage, parts)) = Len(parts)
         /\ \A i \in 1..Len(parts) : Box!Stage(stage, parts)[i] = <<stage, parts[i]>>
  <1>1. Box!Stage(stage, parts) \in [1..Len(parts) -> {stage} \X S]
    BY DEF Box!Stage
  <1>2. Len(parts) \in Nat
    OBVIOUS
  <1>3. Box!Stage(stage, parts) \in Seq({stage} \X S) /\ Len(Box!Stage(stage, parts)) = Len(parts)
    BY <1>1, <1>2
  <1>. QED
    BY <1>3 DEF Box!Stage

-----------------------------------------------------------------------------
(* The order of a start and of a close *)

\* The parts of this box, the steps that bring no taker up, and the steps that
\* leave their part up.
Present == (Box!Parts \ Box!Services) \cup Box!Range(internal)
Steps   == Box!Lives \X Present
Early   == {x \in Steps : x[1] \in Box!Up => x[2] \notin Box!Takers}
Late    == Box!Up \X Present

LEMMA InternalPresent ==
  ASSUME internal \in Seq(Box!Services)
  PROVE  internal \in Seq(Present \ Box!Takers)
  <1>1. \A i \in 1..Len(internal) : internal[i] \in Box!Range(internal) /\ internal[i] \in Box!Services
    BY DEF Box!Range
  <1>2. Box!Services \cap Box!Takers = {}
    BY DEF Box!Services, Box!Takers
  <1>3. \A i \in 1..Len(internal) : internal[i] \in Present \ Box!Takers
    BY <1>1, <1>2 DEF Present
  <1>. QED
    BY <1>3

LEMMA CarrierParts ==
  /\ Box!Carriers \subseteq Present /\ Box!Takers \subseteq Present
  /\ {"log", "certificateProvider"} \subseteq Present
  /\ Box!Carriers \cap Box!Takers = {} /\ {"log", "certificateProvider"} \cap Box!Takers = {}
  BY DEF Present, Box!Parts, Box!Services, Box!Carriers, Box!Takers

LEMMA PreStartShape ==
  ASSUME internal \in Seq(Box!Services)
  PROVE  /\ Box!preStart \in Seq(Early) /\ Len(Box!preStart) = Len(internal) + 18
         /\ Len(internal) \in Nat
         /\ \A i \in (Len(internal) + 12)..Len(Box!preStart) : Box!preStart[i] \in Late
         /\ \A c \in Box!Carriers :
              \E i \in (Len(internal) + 12)..Len(Box!preStart) : Box!preStart[i][2] = c
  <1> DEFINE n == Len(internal)
             ten == <<"network", "dnsTransport", "dnsRouter", "connection", "router",
                      "outbound", "inbound", "endpoint", "service", "certificateProvider">>
             a1 == Box!Stage("started", <<"log">>)
             a2 == Box!Stage("initialized", internal)
             a3 == Box!Stage("initialized", ten)
             b1 == Box!Stage("started", <<"outbound", "dnsTransport", "network", "connection">>)
             b2 == Box!Stage("started", <<"httpClient">>)
             b3 == Box!Stage("started", <<"router", "dnsRouter">>)
             Both == Early \cap Late
  <1>0. n \in Nat
    OBVIOUS
  <1>1. a1 \in Seq(Early) /\ Len(a1) = 1
    <2>1. <<"log">> \in Seq({"log"}) /\ Len(<<"log">>) = 1
      OBVIOUS
    <2>2. a1 \in Seq({"started"} \X {"log"}) /\ Len(a1) = 1
      BY <2>1, StageIs
    <2>3. {"started"} \X {"log"} \subseteq Early
      BY CarrierParts DEF Early, Steps, Box!Lives, Box!Up
    <2>. QED
      BY <2>2, <2>3
  <1>2. a2 \in Seq(Early) /\ Len(a2) = n
    <2>1. a2 \in Seq({"initialized"} \X (Present \ Box!Takers)) /\ Len(a2) = n
      BY InternalPresent, StageIs
    <2>2. {"initialized"} \X (Present \ Box!Takers) \subseteq Early
      BY DEF Early, Steps, Box!Lives
    <2>. QED
      BY <2>1, <2>2
  <1>3. a3 \in Seq(Early) /\ Len(a3) = 10
    <2>1. ten \in Seq(Present) /\ Len(ten) = 10
      BY CarrierParts DEF Box!Carriers, Box!Takers
    <2>2. a3 \in Seq({"initialized"} \X Present) /\ Len(a3) = 10
      BY <2>1, StageIs
    <2>3. {"initialized"} \X Present \subseteq Early
      BY DEF Early, Steps, Box!Lives, Box!Up
    <2>. QED
      BY <2>2, <2>3
  <1>4. {"started"} \X Box!Carriers \subseteq Both
    BY CarrierParts DEF Early, Late, Steps, Box!Lives, Box!Up
  <1>5. /\ b1 \in Seq(Both) /\ Len(b1) = 4
        /\ b1[1][2] = "outbound" /\ b1[2][2] = "dnsTransport"
        /\ b1[3][2] = "network" /\ b1[4][2] = "connection"
    <2> DEFINE four == <<"outbound", "dnsTransport", "network", "connection">>
    <2>1. /\ four \in Seq(Box!Carriers) /\ Len(four) = 4
          /\ four[1] = "outbound" /\ four[2] = "dnsTransport"
          /\ four[3] = "network" /\ four[4] = "connection"
      BY DEF Box!Carriers
    <2> HIDE DEF four
    <2>2. /\ Box!Stage("started", four) \in Seq({"started"} \X Box!Carriers)
          /\ Len(Box!Stage("started", four)) = Len(four)
          /\ \A i \in 1..Len(four) : Box!Stage("started", four)[i] = <<"started", four[i]>>
      BY <2>1, StageIs
    <2>3. Box!Stage("started", four) \in Seq(Both)
      BY <1>4, <2>2
    <2>. QED
      BY <2>1, <2>2, <2>3 DEF four
  <1>6. b2 \in Seq(Both) /\ Len(b2) = 1 /\ b2[1][2] = "httpClient"
    <2>1. <<"httpClient">> \in Seq(Box!Carriers) /\ Len(<<"httpClient">>) = 1
      BY DEF Box!Carriers
    <2>2. /\ b2 \in Seq({"started"} \X Box!Carriers) /\ Len(b2) = 1
          /\ \A i \in 1..1 : b2[i] = <<"started", <<"httpClient">>[i]>>
      BY <2>1, StageIs
    <2>. QED
      BY <1>4, <2>2
  <1>7. b3 \in Seq(Both) /\ Len(b3) = 2 /\ b3[1][2] = "router" /\ b3[2][2] = "dnsRouter"
    <2> DEFINE two == <<"router", "dnsRouter">>
    <2>1. two \in Seq(Box!Carriers) /\ Len(two) = 2 /\ two[1] = "router" /\ two[2] = "dnsRouter"
      BY DEF Box!Carriers
    <2> HIDE DEF two
    <2>2. /\ Box!Stage("started", two) \in Seq({"started"} \X Box!Carriers)
          /\ Len(Box!Stage("started", two)) = Len(two)
          /\ \A i \in 1..Len(two) : Box!Stage("started", two)[i] = <<"started", two[i]>>
      BY <2>1, StageIs
    <2>3. Box!Stage("started", two) \in Seq(Both)
      BY <1>4, <2>2
    <2>. QED
      BY <2>1, <2>2, <2>3 DEF two
  <1>8. Box!preStart = ((((a1 \o a2) \o a3) \o b1) \o b2) \o b3
    BY DEF Box!preStart
  <1> HIDE DEF a1, a2, a3, b1, b2, b3, Both, n
  <1>9. PICK a \in Seq(Early) : a = (a1 \o a2) \o a3 /\ Len(a) = n + 11
    <2>1. a1 \o a2 \in Seq(Early) /\ Len(a1 \o a2) = Len(a1) + Len(a2)
      BY <1>1, <1>2, Joined, Zenon
    <2>2. /\ (a1 \o a2) \o a3 \in Seq(Early)
          /\ Len((a1 \o a2) \o a3) = Len(a1 \o a2) + Len(a3)
      <3> HIDE DEF Early
      <3> DEFINE a12 == a1 \o a2
      <3>1. a12 \in Seq(Early) /\ a3 \in Seq(Early)
        BY <1>3, <2>1
      <3> HIDE DEF a12
      <3>2. a12 \o a3 \in Seq(Early) /\ Len(a12 \o a3) = Len(a12) + Len(a3)
        BY <3>1, Joined
      <3>. QED
        BY <3>2 DEF a12
    <2>3. (Len(a1) + Len(a2)) + Len(a3) = n + 11
      BY <1>0, <1>1, <1>2, <1>3
    <2>. QED
      BY <2>1, <2>2, <2>3, Zenon
  <1> DEFINE c1 == a \o b1
             c2 == c1 \o b2
             c3 == c2 \o b3
  <1>10. Both \subseteq Early /\ Both \subseteq Late
    BY DEF Both
  <1>11. /\ c1 \in Seq(Early) /\ Len(c1) = n + 15
         /\ \A i \in (n + 12)..Len(c1) : c1[i] \in Both
         /\ c1[n + 12] = b1[1] /\ c1[n + 13] = b1[2] /\ c1[n + 14] = b1[3] /\ c1[n + 15] = b1[4]
    <2>1. b1 \in Seq(Early)
      BY <1>5, <1>10
    <2>0. /\ c1 \in Seq(Early) /\ Len(c1) = Len(a) + Len(b1)
          /\ \A i \in 1..Len(b1) : c1[Len(a) + i] = b1[i]
      <3> HIDE DEF Early
      <3>. QED
        BY <1>9, <2>1
    <2>2. /\ c1 \in Seq(Early) /\ Len(c1) = n + 15
          /\ \A i \in 1..4 : c1[n + 11 + i] = b1[i]
      <3> HIDE DEF c1
      <3>. QED
        BY <1>0, <1>5, <1>9, <2>0
    <2>3. \A i \in (n + 12)..Len(c1) : i - (n + 11) \in 1..4 /\ n + 11 + (i - (n + 11)) = i
      BY <1>0, <2>2
    <2>4. \A i \in 1..4 : b1[i] \in Both
      <3>1. \A i \in 1..Len(b1) : b1[i] \in Both
        BY <1>5, Element
      <3>. QED
        BY <1>5, <3>1
    <2>5. n + 11 + 1 = n + 12 /\ n + 11 + 2 = n + 13 /\ n + 11 + 3 = n + 14 /\ n + 11 + 4 = n + 15
      BY <1>0
    <2> HIDE DEF c1
    <2>6. /\ c1[n + 12] = b1[1] /\ c1[n + 13] = b1[2] /\ c1[n + 14] = b1[3] /\ c1[n + 15] = b1[4]
      BY <2>2, <2>5
    <2>7. ASSUME NEW i \in (n + 12)..Len(c1) PROVE c1[i] \in Both
      <3>1. c1[n + 11 + (i - (n + 11))] = b1[i - (n + 11)]
        BY <2>2, <2>3
      <3>. QED
        BY <2>3, <2>4, <3>1
    <2>. QED
      BY <2>2, <2>6, <2>7
  <1> HIDE DEF c1
  <1>12. /\ c2 \in Seq(Early) /\ Len(c2) = n + 16
         /\ \A i \in 1..(n + 15) : c2[i] = c1[i]
         /\ \A i \in (n + 12)..Len(c2) : c2[i] \in Both
         /\ c2[n + 16] = b2[1]
    <2>1. n + 11 \in Nat /\ (n + 11) + 1 = n + 12 /\ b2 \in Seq(Early)
      BY <1>0, <1>6, <1>10
    <2>0. \A i \in ((n + 11) + 1)..Len(c1) : c1[i] \in Both
      BY <1>11, <2>1
    <2>2. /\ c2 \in Seq(Early) /\ Len(c2) = Len(c1) + Len(b2)
          /\ \A i \in 1..Len(c1) : c2[i] = c1[i]
          /\ \A i \in ((n + 11) + 1)..Len(c2) : c2[i] \in Both
      <3> DEFINE m == n + 11
      <3>1. Both \subseteq Early
        BY <1>10
      <3>2. c1 \in Seq(Early)
        BY <1>11
      <3>3. b2 \in Seq(Both)
        BY <1>6
      <3>4. m \in Nat
        BY <2>1
      <3>5. \A i \in (m + 1)..Len(c1) : c1[i] \in Both
        BY <2>0
      <3> HIDE DEF m
      <3>6. /\ c1 \o b2 \in Seq(Early) /\ Len(c1 \o b2) = Len(c1) + Len(b2)
            /\ \A i \in 1..Len(c1) : (c1 \o b2)[i] = c1[i]
            /\ \A i \in (m + 1)..Len(c1 \o b2) : (c1 \o b2)[i] \in Both
        BY <3>1, <3>2, <3>3, <3>4, <3>5, Longer
      <3>. QED
        BY <3>6 DEF m
    <2>3. c2[(n + 15) + 1] = b2[1] /\ (n + 15) + 1 = n + 16
      BY <1>0, <1>6, <1>11, <2>1, Joined
    <2> HIDE DEF c2
    <2>. QED
      BY <1>0, <1>6, <1>11, <2>1, <2>2, <2>3
  <1> HIDE DEF c2
  <1>13. /\ c3 \in Seq(Early) /\ Len(c3) = n + 18
         /\ \A i \in 1..(n + 16) : c3[i] = c2[i]
         /\ \A i \in (n + 12)..Len(c3) : c3[i] \in Both
         /\ c3[n + 17] = b3[1] /\ c3[n + 18] = b3[2]
    <2>1. n + 11 \in Nat /\ (n + 11) + 1 = n + 12 /\ b3 \in Seq(Early)
      BY <1>0, <1>7, <1>10
    <2>0. \A i \in ((n + 11) + 1)..Len(c2) : c2[i] \in Both
      BY <1>12, <2>1
    <2>2. /\ c3 \in Seq(Early) /\ Len(c3) = Len(c2) + Len(b3)
          /\ \A i \in 1..Len(c2) : c3[i] = c2[i]
          /\ \A i \in ((n + 11) + 1)..Len(c3) : c3[i] \in Both
      <3> DEFINE m == n + 11
      <3>1. Both \subseteq Early
        BY <1>10
      <3>2. c2 \in Seq(Early)
        BY <1>12
      <3>3. b3 \in Seq(Both)
        BY <1>7
      <3>4. m \in Nat
        BY <2>1
      <3>5. \A i \in (m + 1)..Len(c2) : c2[i] \in Both
        BY <2>0
      <3> HIDE DEF m
      <3>6. /\ c2 \o b3 \in Seq(Early) /\ Len(c2 \o b3) = Len(c2) + Len(b3)
            /\ \A i \in 1..Len(c2) : (c2 \o b3)[i] = c2[i]
            /\ \A i \in (m + 1)..Len(c2 \o b3) : (c2 \o b3)[i] \in Both
        BY <3>1, <3>2, <3>3, <3>4, <3>5, Longer
      <3>. QED
        BY <3>6 DEF m
    <2>3. /\ c3[(n + 16) + 1] = b3[1] /\ c3[(n + 16) + 2] = b3[2]
          /\ (n + 16) + 1 = n + 17 /\ (n + 16) + 2 = n + 18
      BY <1>0, <1>7, <1>12, <2>1, Joined
    <2> HIDE DEF c3
    <2>. QED
      BY <1>0, <1>7, <1>12, <2>1, <2>2, <2>3
  <1> HIDE DEF c3
  <1>14. Box!preStart = c3
    BY <1>8, <1>9 DEF c1, c2, c3
  <1>15. /\ c3[n + 12][2] = "outbound" /\ c3[n + 13][2] = "dnsTransport"
         /\ c3[n + 14][2] = "network" /\ c3[n + 15][2] = "connection"
         /\ c3[n + 16][2] = "httpClient" /\ c3[n + 17][2] = "router" /\ c3[n + 18][2] = "dnsRouter"
    <2>1. n + 12 \in 1..(n + 15) /\ n + 13 \in 1..(n + 15) /\ n + 14 \in 1..(n + 15)
          /\ n + 15 \in 1..(n + 15) /\ \A i \in 1..(n + 15) : i \in 1..(n + 16)
          /\ n + 16 \in 1..(n + 16)
      BY <1>0
    <2>2. /\ c3[n + 12] = b1[1] /\ c3[n + 13] = b1[2] /\ c3[n + 14] = b1[3] /\ c3[n + 15] = b1[4]
          /\ c3[n + 16] = b2[1]
      BY <1>11, <1>12, <1>13, <2>1
    <2>. QED
      BY <1>5, <1>6, <1>7, <1>13, <2>2
  <1>16. ASSUME NEW c \in Box!Carriers
         PROVE  \E i \in (n + 12)..(n + 18) : c3[i][2] = c
    <2>1. \A k \in 12..18 : n + k \in (n + 12)..(n + 18)
      BY <1>0
    <2>2. c \in {"network", "dnsTransport", "dnsRouter", "connection", "router", "outbound", "httpClient"}
      BY DEF Box!Carriers
    <2>3. /\ n + 12 \in (n + 12)..(n + 18) /\ n + 13 \in (n + 12)..(n + 18)
          /\ n + 14 \in (n + 12)..(n + 18) /\ n + 15 \in (n + 12)..(n + 18)
          /\ n + 16 \in (n + 12)..(n + 18) /\ n + 17 \in (n + 12)..(n + 18)
          /\ n + 18 \in (n + 12)..(n + 18)
      BY <2>1
    <2>. QED
      BY <1>15, <2>2, <2>3, Zenon
  <1>17. \A i \in (n + 12)..Len(c3) : c3[i] \in Late
    BY <1>10, <1>13
  <1>. QED
    BY <1>0, <1>13, <1>14, <1>16, <1>17 DEF n

\* A sequence of steps that begins as another does, and whose steps after the
\* first k leave their parts up.
Extends(s, base, k) ==
  /\ s \in Seq(Steps) /\ Len(base) <= Len(s) /\ \A i \in 1..Len(base) : s[i] = base[i]
  /\ \A i \in (k + 1)..Len(s) : s[i] \in Late

LEMMA MoreStages ==
  ASSUME NEW base \in Seq(Steps), NEW k \in Nat, NEW s, Extends(s, base, k), NEW t \in Seq(Late)
  PROVE  Extends(s \o t, base, k) /\ Len(s \o t) = Len(s) + Len(t)
  <1>1. Late \subseteq Steps
    BY DEF Late, Steps, Box!Lives, Box!Up
  <1>2. s \in Seq(Steps) /\ \A i \in (k + 1)..Len(s) : s[i] \in Late
    BY DEF Extends
  <1>3. /\ s \o t \in Seq(Steps) /\ Len(s \o t) = Len(s) + Len(t)
        /\ Len(s) \in Nat /\ Len(t) \in Nat
        /\ \A i \in 1..Len(s) : (s \o t)[i] = s[i]
        /\ \A i \in (k + 1)..Len(s \o t) : (s \o t)[i] \in Late
    BY <1>1, <1>2, Longer
  <1>4. Len(base) \in Nat /\ Len(base) <= Len(s) /\ \A i \in 1..Len(base) : s[i] = base[i]
    BY DEF Extends
  <1>. QED
    BY <1>3, <1>4 DEF Extends

LEMMA LateStage ==
  ASSUME NEW parts \in Seq(Present), NEW stage \in Box!Up
  PROVE  /\ Box!Stage(stage, parts) \in Seq(Late)
         /\ Len(Box!Stage(stage, parts)) = Len(parts) /\ Len(parts) \in Nat
  <1>1. {stage} \X Present \subseteq Late
    BY DEF Late
  <1>2. Box!Stage(stage, parts) \in Seq({stage} \X Present) /\ Len(Box!Stage(stage, parts)) = Len(parts)
    BY StageIs
  <1>. QED
    BY <1>1, <1>2

LEMMA StartShape ==
  ASSUME internal \in Seq(Box!Services)
  PROVE  /\ Box!start \in Seq(Steps) /\ Len(Box!preStart) = Len(internal) + 18
         /\ Len(internal) \in Nat
         /\ Len(Box!start) > Len(Box!preStart) + Len(internal)
         /\ \A i \in 1..(Len(Box!preStart) + Len(internal)) : Box!start[i] \in Early
         /\ \A i \in (Len(internal) + 12)..Len(Box!start) : Box!start[i] \in Late
         /\ \A c \in Box!Carriers :
              \E i \in (Len(internal) + 12)..Len(Box!preStart) : Box!start[i][2] = c
  <1> DEFINE n == Len(internal)
             pre == Box!preStart
             own == Box!Stage("started", internal)
             base == pre \o own
             d1 == Box!Stage("started", <<"endpoint">>)
             d2 == Box!Stage("started", <<"certificateProvider">>)
             d3 == Box!Stage("started", <<"inbound", "service">>)
             d4 == Box!Stage("postStarted", <<"outbound", "network", "dnsTransport", "dnsRouter",
                     "connection", "router", "endpoint", "certificateProvider", "inbound", "service">>)
             d5 == Box!Stage("postStarted", internal)
             d6 == Box!Stage("running", <<"network", "dnsTransport", "dnsRouter", "connection",
                     "router", "outbound", "endpoint", "certificateProvider", "inbound", "service">>)
             d7 == Box!Stage("running", internal)
  <1>0. n \in Nat /\ internal \in Seq(Present) /\ internal \in Seq(Present \ Box!Takers)
    BY InternalPresent
  <1>1. {"started", "postStarted", "running"} \subseteq Box!Up
    BY DEF Box!Up
  <1>2. d1 \in Seq(Late) /\ Len(d1) = 1
    <2>1. <<"endpoint">> \in Seq(Present) /\ Len(<<"endpoint">>) = 1
      BY CarrierParts DEF Box!Takers
    <2>. QED
      BY <1>1, <2>1, LateStage
  <1>3. d2 \in Seq(Late) /\ Len(d2) \in Nat
    <2>1. <<"certificateProvider">> \in Seq(Present)
      BY CarrierParts
    <2>. QED
      BY <1>1, <2>1, LateStage
  <1>4. d3 \in Seq(Late) /\ Len(d3) \in Nat
    <2>1. <<"inbound", "service">> \in Seq(Present)
      BY CarrierParts DEF Box!Takers
    <2>. QED
      BY <1>1, <2>1, LateStage
  <1>5. d4 \in Seq(Late) /\ Len(d4) \in Nat
    <2>1. <<"outbound", "network", "dnsTransport", "dnsRouter", "connection", "router", "endpoint",
            "certificateProvider", "inbound", "service">> \in Seq(Present)
      BY CarrierParts DEF Box!Takers, Box!Carriers
    <2>. QED
      BY <1>1, <2>1, LateStage
  <1>6. d6 \in Seq(Late) /\ Len(d6) \in Nat
    <2>1. <<"network", "dnsTransport", "dnsRouter", "connection", "router", "outbound", "endpoint",
            "certificateProvider", "inbound", "service">> \in Seq(Present)
      BY CarrierParts DEF Box!Takers, Box!Carriers
    <2>. QED
      BY <1>1, <2>1, LateStage
  <1>7. d5 \in Seq(Late) /\ Len(d5) \in Nat
    BY <1>0, <1>1, LateStage
  <1>8a. d7 \in Seq(Late) /\ Len(d7) \in Nat
    BY <1>0, <1>1, LateStage
  <1>8. own \in Seq(Early \cap Late) /\ Len(own) = n
    <2>1. own \in Seq({"started"} \X (Present \ Box!Takers)) /\ Len(own) = n
      BY <1>0, StageIs
    <2>2. {"started"} \X (Present \ Box!Takers) \subseteq Early \cap Late
      BY DEF Early, Late, Steps, Box!Lives, Box!Up
    <2>. QED
      BY <2>1, <2>2
  <1>9. Box!start = (((((((pre \o own) \o d1) \o d2) \o d3) \o d4) \o d5) \o d6) \o d7
    BY DEF Box!start
  <1> HIDE DEF own, d1, d2, d3, d4, d5, d6, d7, n, pre
  <1>10. /\ pre \in Seq(Early) /\ Len(pre) = n + 18
         /\ \A i \in (n + 12)..Len(pre) : pre[i] \in Late
         /\ \A c \in Box!Carriers : \E i \in (n + 12)..Len(pre) : pre[i][2] = c
    BY PreStartShape DEF n, pre
  <1> DEFINE k == n + 11
  <1>11. k \in Nat /\ k + 1 = n + 12
    BY <1>0
  <1> HIDE DEF k
  <1>12. /\ base \in Seq(Early) /\ Len(base) = Len(pre) + n
         /\ \A i \in 1..Len(pre) : base[i] = pre[i]
    <2>1. own \in Seq(Early)
      BY <1>8
    <2>2. pre \in Seq(Early)
      BY <1>10
    <2>3. /\ base \in Seq(Early) /\ Len(base) = Len(pre) + Len(own)
          /\ \A i \in 1..Len(pre) : base[i] = pre[i]
      BY <2>1, <2>2, Joined
    <2>. QED
      BY <1>8, <2>3
  <1>13. Extends(base, base, k)
    <2>1. \A i \in (k + 1)..Len(pre) : pre[i] \in Late
      BY <1>10, <1>11
    <2>2. pre \in Seq(Steps) /\ own \in Seq(Late) /\ base \in Seq(Steps)
      BY <1>8, <1>10, <1>12 DEF Early
    <2>3. Late \subseteq Steps
      BY DEF Late, Steps, Box!Lives, Box!Up
    <2>4. \A i \in (k + 1)..Len(base) : base[i] \in Late
      BY <1>11, <2>1, <2>2, <2>3, Longer
    <2>5. Len(base) \in Nat
      BY <2>2
    <2> HIDE DEF base
    <2>. QED
      BY <2>2, <2>4, <2>5 DEF Extends
  <1>14. base \in Seq(Steps) /\ Len(base) \in Nat
    BY <1>12 DEF Early
  <1> DEFINE s1 == base \o d1
             s2 == s1 \o d2
             s3 == s2 \o d3
             s4 == s3 \o d4
             s5 == s4 \o d5
             s6 == s5 \o d6
             s7 == s6 \o d7
  <1>20. Box!start = s7
    BY <1>9
  <1> HIDE DEF base
  <1>21. Extends(s1, base, k) /\ Len(s1) = Len(base) + 1
    BY <1>2, <1>11, <1>13, <1>14, MoreStages
  <1> HIDE DEF s1
  <1>22. Extends(s2, base, k) /\ Len(s2) = Len(s1) + Len(d2)
    BY <1>3, <1>11, <1>14, <1>21, MoreStages
  <1> HIDE DEF s2
  <1>23. Extends(s3, base, k) /\ Len(s3) = Len(s2) + Len(d3)
    BY <1>4, <1>11, <1>14, <1>22, MoreStages
  <1> HIDE DEF s3
  <1>24. Extends(s4, base, k) /\ Len(s4) = Len(s3) + Len(d4)
    BY <1>5, <1>11, <1>14, <1>23, MoreStages
  <1> HIDE DEF s4
  <1>25. Extends(s5, base, k) /\ Len(s5) = Len(s4) + Len(d5)
    BY <1>7, <1>11, <1>14, <1>24, MoreStages
  <1> HIDE DEF s5
  <1>26. Extends(s6, base, k) /\ Len(s6) = Len(s5) + Len(d6)
    BY <1>6, <1>11, <1>14, <1>25, MoreStages
  <1> HIDE DEF s6
  <1>27. Extends(s7, base, k) /\ Len(s7) = Len(s6) + Len(d7)
    BY <1>8a, <1>11, <1>14, <1>26, MoreStages
  <1> HIDE DEF s7
  <1>28. Len(s7) > Len(base)
    BY <1>3, <1>4, <1>5, <1>6, <1>7, <1>8a, <1>14, <1>21, <1>22, <1>23, <1>24, <1>25, <1>26, <1>27
  <1>29. /\ s7 \in Seq(Steps) /\ \A i \in 1..Len(base) : s7[i] = base[i]
         /\ \A i \in (k + 1)..Len(s7) : s7[i] \in Late
    BY <1>27 DEF Extends
  <1>30. \A i \in 1..Len(base) : s7[i] \in Early
    BY <1>12, <1>29, Element
  <1>31. ASSUME NEW c \in Box!Carriers
         PROVE  \E i \in (n + 12)..Len(pre) : s7[i][2] = c
    <2>1. PICK i \in (n + 12)..Len(pre) : pre[i][2] = c
      BY <1>10
    <2>2. i \in 1..Len(pre) /\ i \in 1..Len(base)
      BY <1>0, <1>10, <1>12 DEF n
    <2>. QED
      BY <1>12, <1>29, <2>1, <2>2
  <1>. QED
    BY <1>0, <1>10, <1>11, <1>12, <1>20, <1>28, <1>29, <1>30, <1>31 DEF n, pre

LEMMA CloseShape ==
  ASSUME internal \in Seq(Box!Services)
  PROVE  /\ Box!closeOrder \in Seq(Present) /\ Len(Box!closeOrder) > 4
         /\ \A t \in Box!Takers : \E i \in 1..4 : Box!closeOrder[i] = t
         /\ \A i \in 1..4 : Box!closeOrder[i] \notin Box!Carriers
         /\ \A p \in Present : \E i \in 1..Len(Box!closeOrder) : Box!closeOrder[i] = p
  <1> DEFINE n == Len(internal)
             eleven == <<"service", "inbound", "certificateProvider", "endpoint", "outbound",
                 "router", "connection", "dnsRouter", "dnsTransport", "network", "httpClient">>
             c1 == eleven \o internal
             c2 == c1 \o <<"log">>
  <1>0. n \in Nat /\ internal \in Seq(Present)
    BY InternalPresent
  <1>1. eleven \in Seq(Present) /\ Len(eleven) = 11
    BY CarrierParts DEF Box!Carriers, Box!Takers
  <1>2. <<"log">> \in Seq(Present) /\ Len(<<"log">>) = 1 /\ <<"log">>[1] = "log"
    BY CarrierParts
  <1>3. /\ eleven[1] = "service" /\ eleven[2] = "inbound" /\ eleven[3] = "certificateProvider"
        /\ eleven[4] = "endpoint"
    OBVIOUS
  <1>4. \A p \in Box!Carriers \cup Box!Takers \cup {"certificateProvider"} : \E i \in 1..11 : eleven[i] = p
    BY DEF Box!Carriers, Box!Takers
  <1>5. Box!closeOrder = c2
    BY DEF Box!closeOrder
  <1> HIDE DEF eleven, n
  <1>6. /\ c1 \in Seq(Present) /\ Len(c1) = Len(eleven) + n
        /\ \A i \in 1..Len(eleven) : c1[i] = eleven[i]
        /\ \A i \in 1..n : c1[Len(eleven) + i] = internal[i]
    <2>0. eleven \in Seq(Present) /\ internal \in Seq(Present)
      BY <1>0, <1>1
    <2>1. /\ c1 \in Seq(Present) /\ Len(c1) = Len(eleven) + Len(internal)
          /\ \A i \in 1..Len(eleven) : c1[i] = eleven[i]
          /\ \A i \in 1..Len(internal) : c1[Len(eleven) + i] = internal[i]
      BY <2>0, Joined
    <2> HIDE DEF c1
    <2>. QED
      BY <2>1 DEF n
  <1> HIDE DEF c1
  <1>7. /\ c2 \in Seq(Present) /\ Len(c2) = Len(c1) + 1
        /\ \A i \in 1..Len(c1) : c2[i] = c1[i]
        /\ c2[Len(c1) + 1] = "log"
    BY <1>2, <1>6, Joined
  <1> HIDE DEF c2
  <1>8. /\ Len(c2) = n + 12
        /\ \A i \in 1..11 : c2[i] = eleven[i]
        /\ \A i \in 1..n : c2[11 + i] = internal[i]
        /\ c2[n + 12] = "log"
    <2>1. Len(c1) = n + 11 /\ Len(c1) + 1 = n + 12
      BY <1>0, <1>1, <1>6
    <2>2. \A i \in 1..11 : i \in 1..Len(c1) /\ i \in 1..Len(eleven)
      BY <1>0, <1>1, <2>1
    <2>3. \A i \in 1..n : 11 + i \in 1..Len(c1)
      BY <1>0, <2>1
    <2>. QED
      BY <1>1, <1>6, <1>7, <2>1, <2>2, <2>3
  <1>9. c2[1] = "service" /\ c2[2] = "inbound" /\ c2[3] = "certificateProvider" /\ c2[4] = "endpoint"
    BY <1>3, <1>8
  <1>10. \A i \in 1..4 : c2[i] \notin Box!Carriers
    BY <1>9 DEF Box!Carriers
  <1>11. \A t \in Box!Takers : \E i \in 1..4 : c2[i] = t
    BY <1>9 DEF Box!Takers
  <1>12. ASSUME NEW p \in Present PROVE \E i \in 1..(n + 12) : c2[i] = p
    <2>1. \A i \in 1..11 : i \in 1..(n + 12)
      BY <1>0
    <2>2. CASE p \in Box!Carriers \cup Box!Takers \cup {"certificateProvider"}
      BY <1>4, <1>8, <2>1, <2>2
    <2>3. CASE p = "log"
      <3>1. n + 12 \in 1..(n + 12)
        BY <1>0
      <3>. QED
        BY <1>8, <2>3, <3>1
    <2>4. CASE p \in Box!Range(internal)
      <3>1. PICK i \in 1..n : internal[i] = p
        BY <2>4 DEF Box!Range, n
      <3>2. 11 + i \in 1..(n + 12)
        BY <1>0
      <3>. QED
        BY <1>8, <3>1, <3>2
    <2>. QED
      BY <2>2, <2>3, <2>4 DEF Present, Box!Parts
  <1>13. n + 12 > 4
    BY <1>0
  <1>. QED
    BY <1>5, <1>7, <1>8, <1>10, <1>11, <1>12, <1>13

-----------------------------------------------------------------------------
(* The box *)

LEMMA SamePlan ==
  ASSUME UNCHANGED internal
  PROVE  UNCHANGED <<Box!preStart, Box!start, Box!closeOrder>> /\ Box!Range(internal') = Box!Range(internal)
  BY DEF Box!preStart, Box!start, Box!closeOrder, Box!Stage

Plans == internal \in Seq(Box!Services) => 0 < Len(Box!start) /\ 0 < Len(Box!closeOrder)

LEMMA Planned == Plans
  <1>1. ASSUME internal \in Seq(Box!Services) PROVE Len(Box!start) > 0
    BY <1>1, StartShape
  <1>2. ASSUME internal \in Seq(Box!Services) PROVE Len(Box!closeOrder) > 0
    BY <1>2, CloseShape
  <1>. QED
    BY <1>1, <1>2 DEF Plans

LEMMA BoxInit == Init => Box!BoxInv
  <1> SUFFICES ASSUME Init PROVE Box!BoxInv
    OBVIOUS
  <1>1. /\ boxPC = "idle" /\ internal = <<>> /\ life = [p \in Box!Parts |-> "none"] /\ pos = 0
        /\ boxCtx = "none" /\ swallowed = FALSE /\ boxDone = FALSE
    BY DEF Init, Box!Init
  <1>2. Box!TakersFindCarriersUp /\ Box!NothingOutlivesBox
    BY <1>1 DEF Box!TakersFindCarriersUp, Box!NothingOutlivesBox, Box!Up, Box!Parts
  <1>3. \A s \in Box!Services : life[s] = "none"
    BY <1>1 DEF Box!Parts
  <1>. QED
    BY <1>1, <1>2, <1>3 DEF Box!BoxInv, Box!Building, Box!Lives

LEMMA Appended ==
  ASSUME NEW S, NEW s \in Seq(S), NEW t \in Seq(S)
  PROVE  s \o t \in Seq(S) /\ Box!Range(s \o t) = Box!Range(s) \cup Box!Range(t)
  <1>1. s \o t \in Seq(S)
    BY Joined
  <1>2. ASSUME NEW x \in Box!Range(s) \cup Box!Range(t) PROVE x \in Box!Range(s \o t)
    <2>1. CASE x \in Box!Range(s)
      <3>1. PICK i \in 1..Len(s) : s[i] = x
        BY <2>1 DEF Box!Range
      <3>2. (s \o t)[i] = x /\ i \in 1..Len(s \o t)
        BY <3>1, Joined
      <3>. QED
        BY <1>1, <3>2 DEF Box!Range
    <2>2. CASE x \in Box!Range(t)
      <3>1. PICK i \in 1..Len(t) : t[i] = x
        BY <2>2 DEF Box!Range
      <3>2. (s \o t)[Len(s) + i] = x /\ Len(s) + i \in 1..Len(s \o t)
        BY <3>1, Joined
      <3>. QED
        BY <1>1, <3>2 DEF Box!Range
    <2>. QED
      BY <2>1, <2>2
  <1>3. ASSUME NEW x \in Box!Range(s \o t) PROVE x \in Box!Range(s) \cup Box!Range(t)
    <2>1. PICK i \in 1..Len(s \o t) : (s \o t)[i] = x
      BY <1>1, <1>3 DEF Box!Range
    <2>2. CASE i <= Len(s)
      <3>1. i \in 1..Len(s) /\ s[i] = x
        BY <2>1, <2>2, Joined
      <3>. QED
        BY <3>1 DEF Box!Range
    <2>3. CASE i > Len(s)
      <3>1. i - Len(s) \in 1..Len(t) /\ t[i - Len(s)] = x
        BY <2>1, <2>3, Joined
      <3>. QED
        BY <3>1 DEF Box!Range
    <2>. QED
      BY <2>1, <2>2, <2>3, Joined
  <1>. QED
    BY <1>1, <1>2, <1>3

LEMMA BuiltKeeps ==
  ASSUME Box!BoxInv, boxPC \in Box!Building, NEW parts, parts \subseteq Box!Parts \ Box!Services,
         NEW services \in Seq(Box!Services),
         NEW next \in {"managers", "services", "start", "close"},
         Box!Built(parts, services, next)
  PROVE  Box!BoxInv'
  <1>1. /\ boxPC' = next /\ internal' = internal \o services /\ pos' = pos /\ pos = 0
        /\ swallowed' = FALSE /\ boxDone' = (next = "close")
        /\ life' = [p \in Box!Parts |-> IF p \in parts \cup Box!Range(services)
                                        THEN "built" ELSE life[p]]
    BY DEF Box!Built, Box!BoxInv
  <1>2. /\ internal \in Seq(Box!Services)
        /\ \A p \in Box!Parts : life[p] \in {"none", "built"}
        /\ \A s \in Box!Services : life[s] # "none" => s \in Box!Range(internal)
    BY DEF Box!BoxInv
  <1>3. internal' \in Seq(Box!Services) /\ Box!Range(internal') = Box!Range(internal) \cup Box!Range(services)
    BY <1>1, <1>2, Appended
  <1>4. /\ life' \in [Box!Parts -> Box!Lives]
        /\ \A p \in Box!Parts : life'[p] \in {"none", "built"}
    BY <1>1, <1>2 DEF Box!Lives
  <1>5. \A s \in Box!Services : life'[s] # "none" => s \in Box!Range(internal)'
    BY <1>1, <1>2, <1>3 DEF Box!Parts
  <1>6. Box!TakersFindCarriersUp' /\ Box!NothingOutlivesBox'
    BY <1>1, <1>4 DEF Box!TakersFindCarriersUp, Box!NothingOutlivesBox, Box!Up, Box!Parts, Box!Building
  <1>7. Plans'
    BY Planned, PTL
  <1>8. \A t \in Box!Takers : life'[t] \notin Box!Up
    BY <1>4 DEF Box!Up, Box!Parts
  <1>9. \A i \in (Len(internal') + 12)..pos' : FALSE
    BY <1>1, <1>3
  <1>10. boxPC' = "start" =>
           /\ pos' < Len(Box!start)'
           /\ \A t \in Box!Takers : life'[t] \notin Box!Up
           /\ \A i \in (Len(internal') + 12)..pos' : life'[(Box!start)'[i][2]] \in Box!Up
    BY <1>1, <1>3, <1>7, <1>8, <1>9 DEF Plans
  <1>11. boxPC' = "close" =>
           pos' < Len(Box!closeOrder)' /\ \A i \in 1..pos' : life'[(Box!closeOrder)'[i]] = "closed"
    BY <1>1, <1>3, <1>7 DEF Plans
  <1>. QED
    BY <1>1, <1>3, <1>4, <1>5, <1>6, <1>10, <1>11 DEF Box!BoxInv, Box!Building

\* What a configuration adds to the internal services.
LEMMA AddedServices ==
  ASSUME NEW some, NEW services \in Seq(Box!Services)
  PROVE  Box!If(some, services) \in Seq(Box!Services)
  BY DEF Box!If

LEMMA StartStepKeeps ==
  ASSUME Box!BoxInv, Box!StartStep
  PROVE  Box!BoxInv'
  <1> DEFINE step == Box!start[pos + 1]
             n == Len(internal)
  <1>1. /\ internal \in Seq(Box!Services) /\ life \in [Box!Parts -> Box!Lives] /\ pos \in Nat
        /\ \A s \in Box!Services : life[s] # "none" => s \in Box!Range(internal)
        /\ pos < Len(Box!start)
        /\ pos <= Len(Box!preStart) + n => \A t \in Box!Takers : life[t] \notin Box!Up
        /\ \A i \in (n + 12)..pos : life[Box!start[i][2]] \in Box!Up
        /\ swallowed = FALSE /\ boxDone = FALSE
    BY DEF Box!BoxInv, Box!StartStep
  <1>2. /\ boxPC = "start" /\ life' = [life EXCEPT ![step[2]] = step[1]]
        /\ UNCHANGED <<internal, swallowed, boxDone>>
        /\ \/ pos + 1 = Len(Box!start) /\ pos' = 0 /\ boxPC' = "up"
           \/ pos + 1 # Len(Box!start) /\ pos' = pos + 1 /\ boxPC' = "start"
    BY DEF Box!StartStep
  <1>3. /\ Box!start \in Seq(Steps) /\ Len(Box!preStart) = n + 18 /\ n \in Nat
        /\ Len(Box!start) > Len(Box!preStart) + n /\ Len(Box!start) \in Nat
        /\ \A i \in 1..(Len(Box!preStart) + n) : Box!start[i] \in Early
        /\ \A i \in (n + 12)..Len(Box!start) : Box!start[i] \in Late
        /\ \A c \in Box!Carriers : \E i \in (n + 12)..Len(Box!preStart) : Box!start[i][2] = c
    BY <1>1, StartShape
  <1>4. pos + 1 \in 1..Len(Box!start)
    BY <1>1, <1>3
  <1>5. step \in Steps
    BY <1>3, <1>4, Element
  <1>6. step[1] \in Box!Lives /\ step[2] \in Present
    BY <1>5 DEF Steps
  <1>7. Present \subseteq Box!Parts
    BY <1>1 DEF Present, Box!Range, Box!Parts
  <1> HIDE DEF step, n
  <1>8. life' \in [Box!Parts -> Box!Lives]
    BY <1>1, <1>2, <1>6
  <1>9. \A s \in Box!Services : life'[s] # "none" => s \in Box!Range(internal)
    BY <1>1, <1>2, <1>6 DEF Present, Box!Parts
  <1>10. \A i \in (n + 12)..(pos + 1) : life'[Box!start[i][2]] \in Box!Up
    <2>1. SUFFICES ASSUME NEW i \in (n + 12)..(pos + 1) PROVE life'[Box!start[i][2]] \in Box!Up
      OBVIOUS
    <2>2. i \in (n + 12)..Len(Box!start) /\ i \in 1..Len(Box!start)
      BY <1>1, <1>3
    <2>3. Box!start[i] \in Late /\ Box!start[i][2] \in Box!Parts
      BY <1>3, <1>7, <2>2 DEF Late
    <2>4. pos + 1 \in (n + 12)..Len(Box!start)
      BY <1>1, <1>3
    <2>5. step[1] \in Box!Up
      BY <1>3, <2>4 DEF step, Late
    <2>6. CASE i = pos + 1
      BY <1>1, <1>2, <2>3, <2>5, <2>6 DEF step
    <2>7. CASE i # pos + 1
      <3>1. i \in (n + 12)..pos
        BY <1>1, <1>3, <2>7
      <3>2. life[Box!start[i][2]] \in Box!Up
        BY <1>1, <3>1 DEF n
      <3>. QED
        BY <1>1, <1>2, <2>3, <2>5, <3>2
    <2>. QED
      BY <2>6, <2>7
  <1>11. pos + 1 >= Len(Box!preStart) => \A c \in Box!Carriers : life'[c] \in Box!Up
    <2>1. SUFFICES ASSUME pos + 1 >= Len(Box!preStart), NEW c \in Box!Carriers
                   PROVE  life'[c] \in Box!Up
      OBVIOUS
    <2>2. PICK i \in (n + 12)..Len(Box!preStart) : Box!start[i][2] = c
      BY <1>3
    <2>3. i \in (n + 12)..(pos + 1)
      BY <1>1, <1>3, <2>1, <2>2
    <2>. QED
      BY <1>10, <2>2, <2>3
  <1>12. pos + 1 <= Len(Box!preStart) + n => \A t \in Box!Takers : life'[t] \notin Box!Up
    <2>1. SUFFICES ASSUME pos + 1 <= Len(Box!preStart) + n, NEW t \in Box!Takers
                   PROVE  life'[t] \notin Box!Up
      OBVIOUS
    <2>2. pos + 1 \in 1..(Len(Box!preStart) + n) /\ pos <= Len(Box!preStart) + n
      BY <1>1, <1>3, <2>1
    <2>3. step[1] \in Box!Up => step[2] \notin Box!Takers
      BY <1>3, <2>2 DEF step, Early
    <2>4. life[t] \notin Box!Up /\ t \in Box!Parts
      BY <1>1, <2>2 DEF n, Box!Parts
    <2>. QED
      BY <1>1, <1>2, <2>3, <2>4
  <1>13. Box!TakersFindCarriersUp'
    <2>1. \/ pos + 1 >= Len(Box!preStart)
          \/ pos + 1 <= Len(Box!preStart) + n
      BY <1>1, <1>3
    <2>. QED
      BY <1>11, <1>12, <2>1 DEF Box!TakersFindCarriersUp
  <1>14. Box!NothingOutlivesBox'
    BY <1>2 DEF Box!NothingOutlivesBox
  <1>15. UNCHANGED <<Box!preStart, Box!start>> /\ Box!Range(internal') = Box!Range(internal)
    BY <1>2, SamePlan
  <1>16. CASE pos + 1 = Len(Box!start)
    <2>1. pos' = 0 /\ boxPC' = "up"
      BY <1>2, <1>16
    <2>2. \A c \in Box!Carriers : life'[c] \in Box!Up
      BY <1>3, <1>11, <1>16
    <2>. QED
      BY <1>1, <1>2, <1>8, <1>9, <1>13, <1>14, <1>15, <2>1, <2>2 DEF Box!BoxInv, Box!Building
  <1>17. CASE pos + 1 # Len(Box!start)
    <2>1. pos' = pos + 1 /\ boxPC' = "start" /\ pos' < Len(Box!start) /\ pos' \in Nat
      BY <1>1, <1>2, <1>3, <1>17
    <2>2. n = Len(internal')
      BY <1>2 DEF n
    <2>. QED
      BY <1>1, <1>2, <1>8, <1>9, <1>10, <1>12, <1>13, <1>14, <1>15, <2>1, <2>2
      DEF Box!BoxInv, Box!Building
  <1>. QED
    BY <1>16, <1>17

\* One more part is closed, in the order of a close.
LEMMA PartCloses ==
  ASSUME Box!BoxInv, boxPC = "close", UNCHANGED internal,
         life' = [life EXCEPT ![Box!closeOrder[pos + 1]] = "closed"]
  PROVE  /\ life' \in [Box!Parts -> Box!Lives]
         /\ \A s \in Box!Services : life'[s] # "none" => s \in Box!Range(internal)
         /\ \A i \in 1..(pos + 1) : life'[Box!closeOrder[i]] = "closed"
         /\ Box!TakersFindCarriersUp'
  <1> DEFINE part == Box!closeOrder[pos + 1]
  <1>1. /\ internal \in Seq(Box!Services) /\ life \in [Box!Parts -> Box!Lives] /\ pos \in Nat
        /\ \A s \in Box!Services : life[s] # "none" => s \in Box!Range(internal)
        /\ pos < Len(Box!closeOrder)
        /\ \A i \in 1..pos : life[Box!closeOrder[i]] = "closed"
        /\ Box!TakersFindCarriersUp
    BY DEF Box!BoxInv
  <1>2. life' = [life EXCEPT ![part] = "closed"]
    OBVIOUS
  <1>3. /\ Box!closeOrder \in Seq(Present) /\ Len(Box!closeOrder) > 4 /\ Len(Box!closeOrder) \in Nat
        /\ \A t \in Box!Takers : \E i \in 1..4 : Box!closeOrder[i] = t
        /\ \A i \in 1..4 : Box!closeOrder[i] \notin Box!Carriers
        /\ \A p \in Present : \E i \in 1..Len(Box!closeOrder) : Box!closeOrder[i] = p
    BY <1>1, CloseShape
  <1>3a. pos \in Nat /\ pos < Len(Box!closeOrder) /\ Len(Box!closeOrder) \in Nat
    BY <1>1, <1>3
  <1>4. \A i \in 1..Len(Box!closeOrder) : Box!closeOrder[i] \in Present
    BY <1>3, Element
  <1>5. Present \subseteq Box!Parts
    BY <1>1 DEF Present, Box!Range, Box!Parts
  <1>6. pos + 1 \in 1..Len(Box!closeOrder) /\ part \in Present
    <2>1. pos + 1 \in 1..Len(Box!closeOrder)
      BY <1>3a
    <2>. QED
      BY <1>4, <2>1
  <1> HIDE DEF part
  <1>7. /\ life' \in [Box!Parts -> Box!Lives]
        /\ \A p \in Box!Parts : life'[p] = IF p = part THEN "closed" ELSE life[p]
    BY <1>1, <1>2, <1>5, <1>6 DEF Box!Lives
  <1>8. \A s \in Box!Services : life'[s] # "none" => s \in Box!Range(internal)
    BY <1>1, <1>6, <1>7 DEF Present, Box!Parts
  <1>9. \A i \in 1..(pos + 1) : life'[Box!closeOrder[i]] = "closed"
    <2>1. SUFFICES ASSUME NEW i \in 1..(pos + 1) PROVE life'[Box!closeOrder[i]] = "closed"
      OBVIOUS
    <2>2. i \in 1..Len(Box!closeOrder) /\ (i = pos + 1 \/ i \in 1..pos)
      BY <1>3a
    <2>3. Box!closeOrder[i] \in Box!Parts
      BY <1>4, <1>5, <2>2
    <2>. QED
      BY <1>1, <1>7, <2>2, <2>3 DEF part
  <1>10. Box!TakersFindCarriersUp'
    <2>1. CASE pos < 4
      <3>1. part \notin Box!Carriers
        <4>1. pos + 1 \in 1..4
          BY <1>1, <2>1
        <4>. QED
          BY <1>3, <4>1 DEF part
      <3>2. \A t \in Box!Takers : life'[t] \in Box!Up => life[t] \in Box!Up
        BY <1>7 DEF Box!Up, Box!Parts
      <3>3. \A c \in Box!Carriers : life'[c] = life[c]
        BY <1>7, <3>1 DEF Box!Parts
      <3>. QED
        BY <1>1, <3>2, <3>3 DEF Box!TakersFindCarriersUp
    <2>2. CASE pos >= 4
      <3>1. ASSUME NEW t \in Box!Takers PROVE life'[t] = "closed"
        <4>1. PICK i \in 1..4 : Box!closeOrder[i] = t
          BY <1>3
        <4>2. i \in 1..(pos + 1)
          BY <1>1, <2>2
        <4>. QED
          BY <1>9, <4>1, <4>2
      <3>. QED
        BY <3>1 DEF Box!TakersFindCarriersUp, Box!Up
    <2>. QED
      BY <1>1, <2>1, <2>2
  <1>. QED
    BY <1>7, <1>8, <1>9, <1>10

LEMMA CloseStepKeeps ==
  ASSUME Box!BoxInv, Box!CloseStep
  PROVE  Box!BoxInv'
  <1>1. /\ internal \in Seq(Box!Services) /\ pos \in Nat
        /\ pos < Len(Box!closeOrder) /\ swallowed = FALSE /\ boxDone = TRUE
    BY DEF Box!BoxInv, Box!CloseStep
  <1>2. /\ boxPC = "close" /\ life' = [life EXCEPT ![Box!closeOrder[pos + 1]] = "closed"]
        /\ UNCHANGED <<internal, swallowed, boxDone>>
        /\ pos' = pos + 1
        /\ \/ pos + 1 = Len(Box!closeOrder) /\ boxPC' = "done" /\ boxCtx' = "cancelled"
           \/ pos + 1 # Len(Box!closeOrder) /\ boxPC' = "close"
    BY DEF Box!CloseStep
  <1>3. /\ life' \in [Box!Parts -> Box!Lives]
        /\ \A s \in Box!Services : life'[s] # "none" => s \in Box!Range(internal)
        /\ \A i \in 1..(pos + 1) : life'[Box!closeOrder[i]] = "closed"
        /\ Box!TakersFindCarriersUp'
    BY <1>2, PartCloses
  <1>4. \A p \in Present : \E i \in 1..Len(Box!closeOrder) : Box!closeOrder[i] = p
    BY <1>1, CloseShape
  <1>5. Box!NothingOutlivesBox'
    <2>1. SUFFICES ASSUME boxPC' = "done"
                   PROVE  (\A p \in Box!Parts : life'[p] \notin Box!Opened) /\ boxCtx' # "live"
      BY <1>1, <1>2 DEF Box!NothingOutlivesBox
    <2>2. pos + 1 = Len(Box!closeOrder) /\ boxCtx' = "cancelled"
      BY <1>2, <2>1
    <2>3. ASSUME NEW p \in Box!Parts PROVE life'[p] \in {"none", "closed"}
      <3>1. CASE p \in Present
        <4>1. PICK i \in 1..Len(Box!closeOrder) : Box!closeOrder[i] = p
          BY <1>4, <3>1
        <4>. QED
          BY <1>3, <2>2, <4>1
      <3>2. CASE p \notin Present
        BY <1>3, <3>2 DEF Present
      <3>. QED
        BY <3>1, <3>2
    <2>. QED
      BY <2>2, <2>3 DEF Box!Opened, Box!Up
  <1>6. UNCHANGED Box!closeOrder /\ Box!Range(internal') = Box!Range(internal)
    BY <1>2, SamePlan
  <1>7. Len(Box!closeOrder) \in Nat
    BY <1>1, CloseShape
  <1>8. pos' \in Nat /\ (boxPC' = "close" => pos' < Len(Box!closeOrder))
    BY <1>1, <1>2, <1>7
  <1>. QED
    BY <1>1, <1>2, <1>3, <1>5, <1>6, <1>8 DEF Box!BoxInv, Box!Building

LEMMA ClosePanicsKeeps ==
  ASSUME Box!BoxInv, Box!ClosePanics
  PROVE  Box!BoxInv'
  <1>1. /\ internal \in Seq(Box!Services) /\ pos \in Nat /\ life \in [Box!Parts -> Box!Lives]
        /\ \A s \in Box!Services : life[s] # "none" => s \in Box!Range(internal)
        /\ Box!TakersFindCarriersUp /\ swallowed = FALSE /\ boxDone = TRUE
    BY DEF Box!BoxInv, Box!ClosePanics
  <1>2. /\ boxPC = "close" /\ UNCHANGED <<internal, boxDone>>
        /\ \/ boxPC' = "up" /\ pos' = 0 /\ boxResult' = "ok" /\ swallowed' = TRUE
           \/ boxPC' = "panicked" /\ pos' = pos
    BY DEF Box!ClosePanics
  <1>3. \/ life' = [life EXCEPT ![Box!closeOrder[pos + 1]] = life[Box!closeOrder[pos + 1]]]
        \/ life' = [life EXCEPT ![Box!closeOrder[pos + 1]] = "closed"]
    BY DEF Box!ClosePanics
  <1>4. /\ life' \in [Box!Parts -> Box!Lives]
        /\ \A s \in Box!Services : life'[s] # "none" => s \in Box!Range(internal)
        /\ Box!TakersFindCarriersUp'
    <2>1. CASE life' = [life EXCEPT ![Box!closeOrder[pos + 1]] = life[Box!closeOrder[pos + 1]]]
      <3>1. life' = life
        BY <1>1, <2>1
      <3>. QED
        BY <1>1, <3>1 DEF Box!TakersFindCarriersUp
    <2>2. CASE life' = [life EXCEPT ![Box!closeOrder[pos + 1]] = "closed"]
      BY <1>2, <2>2, PartCloses
    <2>. QED
      BY <1>3, <2>1, <2>2
  <1>5. Box!NothingOutlivesBox'
    BY <1>2 DEF Box!NothingOutlivesBox
  <1>6. Box!Range(internal') = Box!Range(internal)
    BY <1>2, SamePlan
  <1>7. boxPC' = "up" =>
          /\ pos' = 0 /\ boxDone' = swallowed' /\ (swallowed' => boxResult' = "ok")
          /\ swallowed' = TRUE
    BY <1>1, <1>2, Zenon
  <1>8. boxPC' \in {"up", "panicked"} /\ pos' \in Nat /\ internal' \in Seq(Box!Services)
    BY <1>1, <1>2
  <1>. QED
    BY <1>4, <1>5, <1>6, <1>7, <1>8 DEF Box!BoxInv, Box!Building

LEMMA BoxStep == Box!BoxInv /\ [Box!Next]_boxVars => Box!BoxInv'
  <1> SUFFICES ASSUME Box!BoxInv, [Box!Next]_boxVars PROVE Box!BoxInv'
    OBVIOUS
  <1>1. ASSUME UNCHANGED <<internal, life>>
        PROVE  /\ internal' \in Seq(Box!Services) /\ life' \in [Box!Parts -> Box!Lives]
               /\ \A s \in Box!Services : life'[s] # "none" => s \in Box!Range(internal')
               /\ UNCHANGED <<Box!preStart, Box!start, Box!closeOrder>>
               /\ Box!TakersFindCarriersUp'
    BY <1>1, SamePlan DEF Box!BoxInv, Box!TakersFindCarriersUp
  <1>2. CASE UNCHANGED boxVars
    BY <1>1, <1>2 DEF boxVars, Box!BoxInv, Box!NothingOutlivesBox
  <1>3. ASSUME NEW need \in Configs, Box!Call("create", need) \/ Box!Call("check", need)
        PROVE  Box!BoxInv'
    BY <1>1, <1>3 DEF Box!Call, Box!BoxInv, Box!NothingOutlivesBox, Box!Building
  <1>4. CASE Box!ParseFails \/ Box!NewFails
    <2>1. /\ boxPC \in Box!Building /\ boxPC' = "done"
          /\ UNCHANGED <<internal, life, pos, swallowed>>
      BY <1>4 DEF Box!ParseFails, Box!NewFails, Box!Building
    <2>2. boxCtx' # "live"
      BY <1>4 DEF Box!ParseFails, Box!NewFails, Box!BoxInv
    <2>3. Box!NothingOutlivesBox'
      BY <2>1, <2>2 DEF Box!NothingOutlivesBox, Box!BoxInv, Box!Opened, Box!Up
    <2>. QED
      BY <1>1, <2>1, <2>3 DEF Box!BoxInv, Box!Building
  <1>5. CASE Box!NewLog
    <2>1. <<>> \in Seq(Box!Services)
      OBVIOUS
    <2>2. {"log"} \subseteq Box!Parts \ Box!Services /\ {} \subseteq Box!Parts \ Box!Services
      BY DEF Box!Parts, Box!Services
    <2>. QED
      BY <1>5, <2>1, <2>2, BuiltKeeps DEF Box!NewLog, Box!Building
  <1>6. CASE Box!NewManagers
    <2> DEFINE added == Box!If({"certificate"}, <<"certificateStore">>) \o <<"netns">>
                        \o Box!If({"clash", "apiService", "platformLog"}, <<"traffic", "clashMode">>)
               parts == Box!Carriers \cup Box!Takers \cup {"certificateProvider"}
    <2>1. /\ <<"certificateStore">> \in Seq(Box!Services) /\ <<"netns">> \in Seq(Box!Services)
          /\ <<"traffic", "clashMode">> \in Seq(Box!Services)
      BY DEF Box!Services
    <2>2. added \in Seq(Box!Services)
      BY <2>1, AddedServices, Joined
    <2>3. parts \subseteq Box!Parts \ Box!Services
      BY DEF Box!Parts, Box!Services, Box!Carriers, Box!Takers
    <2>4. boxPC \in Box!Building /\ Box!Built(parts, added, "services")
      BY <1>6 DEF Box!NewManagers, Box!Building
    <2> HIDE DEF parts, added
    <2>. QED
      BY <2>2, <2>3, <2>4, BuiltKeeps
  <1>7. ASSUME NEW stats \in BOOLEAN, Box!NewServices(stats) PROVE Box!BoxInv'
    <2> DEFINE s1 == Box!If({"cache", "platformLog"}, <<"cacheFile">>)
               s2 == Box!If({"clash"}, <<"clashServer">>)
               s3 == IF stats THEN Box!If({"v2ray"}, <<"v2rayServer">>) ELSE <<>>
               s4 == Box!If({"ntp"}, <<"ntpService">>)
               added == ((s1 \o s2) \o s3) \o s4
               next == IF boxFor = "check" THEN "close" ELSE "start"
    <2>1. /\ <<"cacheFile">> \in Seq(Box!Services) /\ <<"clashServer">> \in Seq(Box!Services)
          /\ <<"v2rayServer">> \in Seq(Box!Services) /\ <<"ntpService">> \in Seq(Box!Services)
          /\ <<>> \in Seq(Box!Services)
      BY DEF Box!Services
    <2>2. s1 \in Seq(Box!Services) /\ s2 \in Seq(Box!Services) /\ s4 \in Seq(Box!Services)
      BY <2>1, AddedServices
    <2>3. s3 \in Seq(Box!Services)
      BY <2>1, AddedServices
    <2>4. /\ boxPC \in Box!Building /\ next \in {"start", "close"}
          /\ Box!Built({}, added, next)
      BY <1>7 DEF Box!NewServices, Box!Building
    <2> HIDE DEF s1, s2, s3, s4
    <2>5. s1 \o s2 \in Seq(Box!Services)
      BY <2>2, Joined
    <2>6. (s1 \o s2) \o s3 \in Seq(Box!Services)
      BY <2>3, <2>5, Joined
    <2>7. added \in Seq(Box!Services)
      BY <2>2, <2>6, Joined
    <2> HIDE DEF next, added
    <2>8. {} \subseteq Box!Parts \ Box!Services
      OBVIOUS
    <2>. QED
      BY <2>4, <2>7, <2>8, BuiltKeeps
  <1>8a. CASE Box!BuildPanics
    BY <1>1, <1>8a DEF Box!BuildPanics, Box!BoxInv, Box!NothingOutlivesBox, Box!Building
  <1>8. CASE Box!StartFails
    BY <1>1, <1>8, Planned
    DEF Box!StartFails, Box!BoxInv, Box!NothingOutlivesBox, Box!Building, Plans
  <1>9. CASE Box!CloseWithTimeout
    BY <1>1, <1>9, Planned
    DEF Box!CloseWithTimeout, Box!BoxInv, Box!NothingOutlivesBox, Box!Building, Plans
  <1>10. CASE Box!Signal
    BY <1>1, <1>10 DEF Box!Signal, Box!BoxInv, Box!NothingOutlivesBox
  <1>11. CASE Box!closeMonitor \/ Box!CloseDies
    <2>1. /\ boxPC' = "exited" /\ life' = [p \in Box!Parts |-> "none"] /\ UNCHANGED <<internal, pos>>
      BY <1>11 DEF Box!closeMonitor, Box!CloseDies
    <2>2. life' \in [Box!Parts -> Box!Lives] /\ \A p \in Box!Parts : life'[p] = "none"
      BY <2>1 DEF Box!Lives
    <2>3. Box!TakersFindCarriersUp' /\ Box!NothingOutlivesBox'
      BY <2>1, <2>2 DEF Box!TakersFindCarriersUp, Box!NothingOutlivesBox, Box!Up, Box!Parts
    <2>4. \A s \in Box!Services : life'[s] = "none"
      BY <2>2 DEF Box!Parts
    <2>. QED
      BY <2>1, <2>2, <2>3, <2>4 DEF Box!BoxInv, Box!Building
  <1>. QED
    BY <1>2, <1>3, <1>4, <1>5, <1>6, <1>7, <1>8, <1>8a, <1>9, <1>10, <1>11,
       StartStepKeeps, CloseStepKeeps, ClosePanicsKeeps DEF Box!Next

\* The stages of any box are run in their order, whichever of them fails or
\* panics, and its parts closed in theirs.
THEOREM BoxInvariant == Spec => []Box!BoxInv
  <1>1. Box!BoxInv /\ [Next]_vars => Box!BoxInv'
    BY BoxOnly, BoxStep
  <1>. QED
    BY <1>1, BoxInit, PTL DEF Spec

\* A part takes connections in only while everything behind it is up, in any
\* configuration, at each step of a start, of a close, and of the close that
\* ends a start which failed half way, and after a panic in any of them.
THEOREM BoxTakersFindCarriers == Spec => []TakersFindCarriersUp
  <1>1. Box!BoxInv => TakersFindCarriersUp
    BY DEF TakersFindCarriersUp, Box!BoxInv
  <1>. QED
    BY <1>1, BoxInvariant, PTL

\* A box that failed or was closed leaves no live context and no part open, for
\* any configuration and wherever it failed; only a failed start whose early close
\* panicked, which Create reports as a success, keeps parts open for good.
THEOREM BoxLeavesNothing == Spec => []NothingOutlivesBox
  <1>1. Box!BoxInv => NothingOutlivesBox
    BY DEF NothingOutlivesBox, Box!BoxInv
  <1>. QED
    BY <1>1, BoxInvariant, PTL

=============================================================================
